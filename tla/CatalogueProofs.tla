--------------------------- MODULE CatalogueProofs ---------------------------
(***************************************************************************)
(* What holds of the catalogue for any tracks, albums, pictures and requests *)
(* of administrators, and any rows and pages:                                *)
(*   - the edits that run at once keep it whole (CatalogEdits);              *)
(*   - a client that pages through a list is shown every row (CursorPages).  *)
(***************************************************************************)
EXTENDS MCCatalogue, FiniteSetTheorems, Sequences, TLAPS

SongRow(s) == [kind |-> "song", row |-> s]
AlbumRow(a) == [kind |-> "album", row |-> a]
ShareRow(a) == [kind |-> "share", row |-> a]

SongRecords == [status : {"READY", "ARCHIVED", "GONE"}, album : Shelves \union {None}, version : Nat]
AlbumRecords == [there : BOOLEAN, version : Nat, cover : Covers \union {None}]
EditRecords ==
    [op : Edits!Ops, songs : SUBSET Songs, to : Shelves \union {None}, sources : SUBSET Shelves,
     seenSong : [Songs -> Nat], seenAlbum : [Shelves -> Nat],
     plan : Seq(SUBSET Edits!Rows), held : SUBSET Edits!Rows, emptied : SUBSET Shelves]

EditTypes ==
    /\ song \in [Songs -> SongRecords] /\ sleeve \in [Shelves -> AlbumRecords]
    /\ edit \in [Admins -> EditRecords]
    /\ dropped \subseteq Covers /\ edits \in 0..MaxEdits
    /\ \A s \in Songs : song[s].version \in 1..edits + 1
    /\ \A a \in Shelves : sleeve[a].version \in 1..edits + 1

\* No two edits hold locks that exclude each other.
Apart ==
    \A c, d \in Admins : c # d => \A r \in edit[c].held : ~Edits!Blocks(d, r)

(* What an edit has locked is there, as its administrator saw it.            *)
LockedFits(c) ==
    /\ \A s \in edit[c].songs : SongRow(s) \in edit[c].held =>
          edit[c].seenSong[s] = song[s].version /\ song[s].status # "GONE"
    /\ \A a \in Shelves :
          ShareRow(a) \in edit[c].held
          \/ (AlbumRow(a) \in edit[c].held /\ edit[c].op \in {"album", "merge"})
          => sleeve[a].there

\* Edits of tracks that stay on their albums lock them in ascending order.
Sweeps == {"archive", "restore", "lyrics", "publish"}
Ascending(plan, held, songs) ==
    /\ held \subseteq {SongRow(s) : s \in songs}
    /\ \A s \in songs : SongRow(s) \in held \/ \E i \in 1..Len(plan) : plan[i] = {SongRow(s)}
    /\ \A i \in 1..Len(plan) : \E s \in songs : plan[i] = {SongRow(s)}
    /\ \A i \in 1..Len(plan) : \A q \in plan[i] :
          /\ \A h \in held : h.row < q.row
          /\ \A j \in i + 1..Len(plan) : \A r \in plan[j] : q.row < r.row
Sweep(c) == Ascending(edit[c].plan, edit[c].held, edit[c].songs)

\* A track that leaves its album takes the locks of its new one and of its old one.
Travels(c, s) == edit[c].op = "delete" \/ edit[c].to # song[s].album
Shares(a) == IF a = None THEN {} ELSE {ShareRow(a)}
Takes(a) == IF a = None THEN {} ELSE {AlbumRow(a)}
Journey(c, s) ==
    LET x == edit[c]  old == song[s].album
    IN  \/ x.plan = <<{SongRow(s)}>> /\ x.held = {} /\ x.emptied = {}
        \/ ~Travels(c, s) /\ x.plan = <<>> /\ x.held = {SongRow(s)} /\ x.emptied = {}
        \/ /\ Travels(c, s) /\ x.to # None /\ x.held = {SongRow(s)} /\ x.emptied = {}
           /\ x.plan = IF old = None THEN <<{ShareRow(x.to)}>> ELSE <<{ShareRow(x.to)}, {AlbumRow(old)}>>
        \/ /\ Travels(c, s) /\ old # None /\ x.held = {SongRow(s)} \union Shares(x.to)
           /\ x.emptied = {} /\ x.plan = <<{AlbumRow(old)}>>
        \/ /\ Travels(c, s) /\ x.held = {SongRow(s)} \union Shares(x.to) \union Takes(old)
           /\ x.plan = <<>>
           /\ x.emptied = IF old # None /\ Edits!SongsOn(old) = {s} THEN {old} ELSE {}

\* A merge locks its albums, then the tracks it moves.
Parties(c) == edit[c].sources \union {edit[c].to}
Gathers(plan, held, parties) ==
    /\ plan # <<>> /\ held \subseteq {AlbumRow(a) : a \in parties}
    /\ \A i \in 1..Len(plan) : \E a \in parties : plan[i] = {AlbumRow(a)}
    /\ \A a \in parties : AlbumRow(a) \in held \/ \E i \in 1..Len(plan) : plan[i] = {AlbumRow(a)}
LocksAlbums(c) == Gathers(edit[c].plan, edit[c].held, Parties(c))
Awaits(c, S) ==
    /\ edit[c].plan = IF S = {} THEN <<>> ELSE <<{SongRow(s) : s \in S}>>
    /\ edit[c].held = {AlbumRow(a) : a \in Parties(c)}
                      \union {SongRow(s) : s \in Edits!MergedSongs(c) \ S}
Merge(c) == LocksAlbums(c) \/ \E S \in SUBSET Edits!MergedSongs(c) : Awaits(c, S)

PlanFits(c) ==
    LET x == edit[c]
    IN  /\ x.op = "none" => x = Edits!NoEdit
        /\ x.op \in Sweeps => Sweep(c) /\ x.emptied = {}
        /\ x.op \in {"move", "delete"} =>
              /\ x.op = "delete" => x.to = None
              /\ \E s \in Songs : x.songs = {s} /\ Journey(c, s)
        /\ x.op = "album" =>
              /\ x.songs = {} /\ x.emptied = {} /\ x.sources = {} /\ x.to \in Shelves
              /\ \/ x.plan = <<{AlbumRow(x.to)}>> /\ x.held = {}
                 \/ x.plan = <<>> /\ x.held = {AlbumRow(x.to)}
        /\ x.op = "merge" =>
              /\ x.songs = {} /\ x.emptied = {} /\ x.to \in Shelves \ x.sources
              /\ Merge(c)

EditsWhole == Edits!NoEmptyAlbum /\ Edits!NoTrackWithoutAlbum /\ Edits!ShownCoverKept

EditsInv ==
    /\ EditTypes /\ Apart /\ EditsWhole
    /\ \A c \in Admins : LockedFits(c) /\ PlanFits(c)

-----------------------------------------------------------------------------
(* The order in which the rows of a set are locked.                          *)

LEMMA EditsCount == \A S : Edits!Cardinality(S) = Cardinality(S)
BY Zenon DEF Edits!Cardinality, Cardinality

Rank(S, s) == Cardinality({k \in S : k < s}) + 1
Nth(S, n) == CHOOSE s \in S : Cardinality({k \in S : k < s}) = n - 1

LEMMA Ranked ==
    ASSUME NEW S, IsFiniteSet(S), S \subseteq Int
    PROVE  /\ Cardinality(S) \in Nat
           /\ \A s \in S : Rank(S, s) \in 1..Cardinality(S)
           /\ \A s, t \in S : s < t => Rank(S, s) < Rank(S, t)
<1> DEFINE below(s) == {k \in S : k < s}
<1>1. Cardinality(S) \in Nat
  BY FS_CardinalityType
<1>2. \A s \in S : IsFiniteSet(below(s)) /\ Cardinality(below(s)) \in Nat
  <2> SUFFICES ASSUME NEW s \in S PROVE IsFiniteSet(below(s)) /\ Cardinality(below(s)) \in Nat
    OBVIOUS
  <2>1. below(s) \in SUBSET S
    OBVIOUS
  <2> QED
    BY <2>1, FS_Subset, FS_CardinalityType
<1>3. ASSUME NEW s \in S PROVE Rank(S, s) \in 1..Cardinality(S)
  <2>1. below(s) \in SUBSET S /\ below(s) # S
    BY <1>3
  <2>2. Cardinality(below(s)) <= Cardinality(S) /\ Cardinality(below(s)) # Cardinality(S)
    BY <2>1, FS_Subset
  <2>3. Rank(S, s) = Cardinality(below(s)) + 1
    BY DEF Rank
  <2> QED
    BY <1>1, <1>2, <2>2, <2>3
<1>4. ASSUME NEW s \in S, NEW t \in S, s < t PROVE Rank(S, s) < Rank(S, t)
  <2>0. /\ s \in Int /\ t \in Int /\ \A k \in S : k \in Int
        /\ \A k \in S : k < s => k < t
    BY <1>4
  <2>a. below(s) \in SUBSET below(t)
    BY <2>0, Zenon
  <2>b. ~(s < s)
    BY <2>0
  <2>1. below(s) \in SUBSET below(t) /\ s \in below(t) /\ s \notin below(s)
    BY <1>4, <2>a, <2>b, Zenon
  <2>2. Cardinality(below(s)) <= Cardinality(below(t)) /\ Cardinality(below(s)) # Cardinality(below(t))
    BY <1>2, <2>1, FS_Subset
  <2>3. Rank(S, s) = Cardinality(below(s)) + 1 /\ Rank(S, t) = Cardinality(below(t)) + 1
    BY DEF Rank
  <2> QED
    BY <1>2, <2>2, <2>3
<1> QED
  BY <1>1, <1>3, <1>4

LEMMA Numbered ==
    ASSUME NEW S, IsFiniteSet(S), S \subseteq Int
    PROVE  /\ \A n \in 1..Cardinality(S) : Nth(S, n) \in S /\ Rank(S, Nth(S, n)) = n
           /\ \A s \in S : Nth(S, Rank(S, s)) = s
           /\ \A n, m \in 1..Cardinality(S) : n < m => Nth(S, n) < Nth(S, m)
<1>1. /\ Cardinality(S) \in Nat
      /\ \A s \in S : Rank(S, s) \in 1..Cardinality(S)
      /\ \A s, t \in S : s < t => Rank(S, s) < Rank(S, t)
  BY Ranked
<1> DEFINE f == [s \in S |-> Rank(S, s)]
<1>2. \A s, t \in S : Rank(S, s) = Rank(S, t) => s = t
  BY <1>1
<1>3. f \in Injection(S, 1..Cardinality(S))
  BY <1>1, <1>2 DEF Injection, IsInjective
<1>4. IsFiniteSet(1..Cardinality(S)) /\ Cardinality(1..Cardinality(S)) = Cardinality(S)
  BY <1>1, FS_Interval
<1>5. f \in Surjection(S, 1..Cardinality(S))
  BY <1>3, <1>4, FS_Injection
<1>6. \A n \in 1..Cardinality(S) : \E s \in S : Rank(S, s) = n
  BY <1>5 DEF Surjection
<1>7. \A n \in 1..Cardinality(S), s \in S : Rank(S, s) = n <=> Cardinality({k \in S : k < s}) = n - 1
  <2> SUFFICES ASSUME NEW n \in 1..Cardinality(S), NEW s \in S
               PROVE  Rank(S, s) = n <=> Cardinality({k \in S : k < s}) = n - 1
    OBVIOUS
  <2>1. Cardinality({k \in S : k < s}) \in Nat
    <3>1. {k \in S : k < s} \in SUBSET S
      OBVIOUS
    <3> QED
      BY <3>1, FS_Subset, FS_CardinalityType
  <2> QED
    BY <2>1, <1>1 DEF Rank
<1>8. ASSUME NEW n \in 1..Cardinality(S) PROVE Nth(S, n) \in S /\ Rank(S, Nth(S, n)) = n
  <2>1. PICK s \in S : Rank(S, s) = n
    BY <1>6
  <2>2. Cardinality({k \in S : k < s}) = n - 1
    BY <1>7, <2>1
  <2>3. Nth(S, n) \in S /\ Cardinality({k \in S : k < Nth(S, n)}) = n - 1
    BY <2>2 DEF Nth
  <2> QED
    BY <1>7, <2>3
<1>9. \A s \in S : Nth(S, Rank(S, s)) = s
  BY <1>1, <1>2, <1>8
<1>10. \A n, m \in 1..Cardinality(S) : n < m => Nth(S, n) < Nth(S, m)
  <2> SUFFICES ASSUME NEW n \in 1..Cardinality(S), NEW m \in 1..Cardinality(S), n < m,
                      ~(Nth(S, n) < Nth(S, m))
               PROVE  FALSE
    OBVIOUS
  <2>1. Nth(S, n) \in Int /\ Nth(S, m) \in Int /\ Rank(S, Nth(S, n)) = n /\ Rank(S, Nth(S, m)) = m
        /\ Nth(S, n) \in S /\ Nth(S, m) \in S
    BY <1>8
  <2>2. Nth(S, m) < Nth(S, n) \/ Nth(S, m) = Nth(S, n)
    BY <2>1
  <2>3. m < n \/ m = n
    BY <1>1, <2>1, <2>2
  <2> QED
    BY <1>1, <2>3
<1> QED
  BY <1>8, <1>9, <1>10

\* The plans of requests: one row after the other, each of them once.
LEMMA PlansInOrder ==
    ASSUME NEW S, IsFiniteSet(S), S \subseteq Int
    PROVE  /\ Cardinality(S) \in Nat
           /\ Edits!Sorted(S) = [n \in 1..Cardinality(S) |-> {SongRow(Nth(S, n))}]
           /\ Edits!AlbumsSorted(S) = [n \in 1..Cardinality(S) |-> {AlbumRow(Nth(S, n))}]
           /\ \A s \in S : Rank(S, s) \in 1..Cardinality(S) /\ Nth(S, Rank(S, s)) = s
<1> DEFINE nth(n) == CHOOSE s \in S : Edits!Cardinality({k \in S : k < s}) = n - 1
<1>1. Edits!Cardinality(S) = Cardinality(S) /\ \A n : Nth(S, n) = nth(n)
  BY EditsCount DEF Nth
<1>2. Edits!Sorted(S) = [n \in 1..Edits!Cardinality(S) |-> {SongRow(nth(n))}]
  BY Zenon DEF Edits!Sorted, Edits!Row, SongRow
<1>3. Edits!AlbumsSorted(S) = [n \in 1..Edits!Cardinality(S) |-> {AlbumRow(nth(n))}]
  BY Zenon DEF Edits!AlbumsSorted, Edits!Row, AlbumRow
<1> HIDE DEF nth
<1>4. Edits!Sorted(S) = [n \in 1..Cardinality(S) |-> {SongRow(Nth(S, n))}]
  BY <1>1, <1>2
<1>5. Edits!AlbumsSorted(S) = [n \in 1..Cardinality(S) |-> {AlbumRow(Nth(S, n))}]
  BY <1>1, <1>3
<1>6. /\ Cardinality(S) \in Nat
      /\ \A s \in S : Rank(S, s) \in 1..Cardinality(S)
  BY Ranked
<1>7. \A s \in S : Nth(S, Rank(S, s)) = s
  BY Numbered
<1> QED
  BY <1>4, <1>5, <1>6, <1>7

-----------------------------------------------------------------------------
(* Rows and locks.                                                           *)

LEMMA RowsDiffer ==
    \A x, y : /\ SongRow(x) # AlbumRow(y) /\ SongRow(x) # ShareRow(y) /\ AlbumRow(x) # ShareRow(y)
              /\ SongRow(x) = SongRow(y) => x = y
              /\ AlbumRow(x) = AlbumRow(y) => x = y
              /\ ShareRow(x) = ShareRow(y) => x = y
              /\ SongRow(x).kind = "song" /\ SongRow(x).row = x
              /\ AlbumRow(x).kind = "album" /\ AlbumRow(x).row = x
              /\ ShareRow(x).kind = "share" /\ ShareRow(x).row = x
BY DEF SongRow, AlbumRow, ShareRow

LEMMA RowKinds ==
    /\ \A r \in Edits!Rows :
          \/ r.row \in Songs /\ r = SongRow(r.row) /\ r.kind = "song"
          \/ r.row \in Shelves /\ r = AlbumRow(r.row) /\ r.kind = "album"
          \/ r.row \in Shelves /\ r = ShareRow(r.row) /\ r.kind = "share"
    /\ \A s \in Songs : SongRow(s) \in Edits!Rows
    /\ \A a \in Shelves : AlbumRow(a) \in Edits!Rows /\ ShareRow(a) \in Edits!Rows
<1>1. Edits!Rows = {SongRow(s) : s \in Songs} \union {AlbumRow(a) : a \in Shelves}
                   \union {ShareRow(a) : a \in Shelves}
  BY DEF Edits!Rows, Edits!Row, SongRow, AlbumRow, ShareRow
<1> QED
  BY <1>1, RowsDiffer

LEMMA BlockedBy ==
    \A d, x : /\ Edits!Blocks(d, SongRow(x)) <=> SongRow(x) \in edit[d].held
              /\ Edits!Blocks(d, AlbumRow(x)) <=> AlbumRow(x) \in edit[d].held \/ ShareRow(x) \in edit[d].held
              /\ Edits!Blocks(d, ShareRow(x)) <=> AlbumRow(x) \in edit[d].held
BY DEF Edits!Blocks, Edits!Holds, Edits!Row, SongRow, AlbumRow, ShareRow

LEMMA HeldApart ==
    ASSUME Apart, NEW c \in Admins, NEW d \in Admins, c # d, NEW x
    PROVE  /\ SongRow(x) \in edit[c].held => SongRow(x) \notin edit[d].held
           /\ AlbumRow(x) \in edit[c].held =>
                 AlbumRow(x) \notin edit[d].held /\ ShareRow(x) \notin edit[d].held
           /\ ShareRow(x) \in edit[c].held => AlbumRow(x) \notin edit[d].held
BY BlockedBy, Zenon DEF Apart

LEMMA EditTyped ==
    ASSUME EditTypes, NEW c \in Admins
    PROVE  /\ edit[c] \in EditRecords /\ edit[c].op \in Edits!Ops
           /\ edit[c].songs \subseteq Songs /\ edit[c].to \in Shelves \union {None}
           /\ edit[c].sources \subseteq Shelves /\ edit[c].held \subseteq Edits!Rows
           /\ edit[c].emptied \subseteq Shelves /\ edit[c].plan \in Seq(SUBSET Edits!Rows)
           /\ edit[c].seenSong \in [Songs -> Nat] /\ edit[c].seenAlbum \in [Shelves -> Nat]
BY DEF EditTypes, EditRecords

LEMMA SongTyped ==
    ASSUME EditTypes, NEW s \in Songs
    PROVE  /\ song[s] \in SongRecords /\ song[s].album \in Shelves \union {None}
           /\ song[s].version \in Nat /\ song[s].version \in 1..edits + 1
           /\ song[s].status \in {"READY", "ARCHIVED", "GONE"} /\ edits \in Nat
BY EditsAssumption DEF EditTypes, SongRecords

LEMMA AlbumTyped ==
    ASSUME EditTypes, NEW a \in Shelves
    PROVE  /\ sleeve[a] \in AlbumRecords /\ sleeve[a].there \in BOOLEAN
           /\ sleeve[a].cover \in Covers \union {None}
           /\ sleeve[a].version \in Nat /\ sleeve[a].version \in 1..edits + 1
BY DEF EditTypes, AlbumRecords

\* A step of c changes rows that it has locked, and takes tracks to and from
\* albums that it has locked.
UnderLocks(c) ==
    /\ \A s \in Songs : song'[s] = song[s] \/ SongRow(s) \in edit[c].held
    /\ \A a \in Shelves : sleeve'[a] = sleeve[a] \/ AlbumRow(a) \in edit[c].held
    /\ \A a \in Shelves : \/ Edits!SongsOn(a)' = Edits!SongsOn(a)
                          \/ AlbumRow(a) \in edit[c].held \/ ShareRow(a) \in edit[c].held

LEMMA MergedOn ==
    ASSUME NEW c
    PROVE  Edits!MergedSongs(c) = UNION {Edits!SongsOn(a) : a \in edit[c].sources}
BY DEF Edits!MergedSongs, Edits!SongsOn

\* What an edit has locked stays as it is while others go on.
LEMMA OthersKeep ==
    ASSUME EditsInv, NEW c \in Admins, NEW d \in Admins, c # d, edit'[d] = edit[d], UnderLocks(c)
    PROVE  LockedFits(d)' /\ PlanFits(d)'
<1>1. EditTypes /\ Apart /\ LockedFits(d) /\ PlanFits(d)
  BY DEF EditsInv
<1>2. /\ \A s \in Songs : SongRow(s) \in edit[d].held => song'[s] = song[s]
      /\ \A a \in Shelves : AlbumRow(a) \in edit[d].held \/ ShareRow(a) \in edit[d].held =>
                                sleeve'[a] = sleeve[a]
      /\ \A a \in Shelves : AlbumRow(a) \in edit[d].held => Edits!SongsOn(a)' = Edits!SongsOn(a)
  BY <1>1, HeldApart DEF UnderLocks
<1>3. LockedFits(d)'
  BY <1>1, <1>2, EditTyped DEF LockedFits
<1>4. ASSUME NEW s \in Songs, Journey(d, s) PROVE Journey(d, s)'
  <2>1. CASE edit[d].plan = <<{SongRow(s)}>> /\ edit[d].held = {} /\ edit[d].emptied = {}
    BY <2>1 DEF Journey
  <2>2. CASE SongRow(s) \in edit[d].held
    <3>1. song'[s] = song[s] /\ (Travels(d, s)' <=> Travels(d, s))
      BY <1>2, <2>2 DEF Travels
    <3>2. song[s].album \in Shelves \union {None}
      BY <1>1, SongTyped
    <3>3. song[s].album # None /\ edit[d].held = {SongRow(s)} \union Shares(edit[d].to) \union Takes(song[s].album)
          => Edits!SongsOn(song[s].album)' = Edits!SongsOn(song[s].album)
      BY <1>2, <3>1, <3>2 DEF Takes
    <3> QED
      BY <1>4, <3>1, <3>3 DEF Journey
  <2>3. (edit[d].plan = <<{SongRow(s)}>> /\ edit[d].held = {} /\ edit[d].emptied = {})
        \/ SongRow(s) \in edit[d].held
    BY <1>4 DEF Journey
  <2> QED
    BY <2>1, <2>2, <2>3
<1>5. Merge(d) => Merge(d)'
  <2>1. (\A a \in edit[d].sources : AlbumRow(a) \in edit[d].held)
        => Edits!MergedSongs(d)' = Edits!MergedSongs(d)
    <3> SUFFICES ASSUME \A a \in edit[d].sources : AlbumRow(a) \in edit[d].held
                 PROVE  Edits!MergedSongs(d)' = Edits!MergedSongs(d)
      OBVIOUS
    <3>1. \A a \in edit[d].sources : Edits!SongsOn(a)' = Edits!SongsOn(a)
      BY <1>1, <1>2, EditTyped
    <3>2. Edits!MergedSongs(d)' = UNION {Edits!SongsOn(a)' : a \in edit[d].sources}
      BY DEF Edits!MergedSongs, Edits!SongsOn, Edits!Present
    <3> QED
      BY <3>1, <3>2, MergedOn
  <2>2. LocksAlbums(d) => LocksAlbums(d)'
    BY DEF LocksAlbums, Parties
  <2>3. ASSUME NEW S \in SUBSET Edits!MergedSongs(d), Awaits(d, S)
        PROVE  S \in SUBSET Edits!MergedSongs(d)' /\ Awaits(d, S)'
    <3>1. \A a \in edit[d].sources : AlbumRow(a) \in edit[d].held
      BY <2>3 DEF Awaits, Parties
    <3>2. Edits!MergedSongs(d)' = Edits!MergedSongs(d)
      BY <2>1, <3>1
    <3> QED
      BY <2>3, <3>2, Zenon DEF Awaits, Parties
  <2> QED
    BY <2>2, <2>3 DEF Merge
<1>6. PlanFits(d)'
  BY <1>1, <1>4, <1>5 DEF PlanFits, Sweep
<1> QED
  BY <1>3, <1>6

\* Locks exclude each other both ways.
Excludes(held, r) ==
    \/ r.kind = "song" /\ SongRow(r.row) \in held
    \/ r.kind = "album" /\ (AlbumRow(r.row) \in held \/ ShareRow(r.row) \in held)
    \/ r.kind = "share" /\ AlbumRow(r.row) \in held

LEMMA BlocksExclude ==
    \A d, r : (Edits!Blocks(d, r) <=> Excludes(edit[d].held, r))
              /\ (Edits!Blocks(d, r)' <=> Excludes(edit'[d].held, r))
BY DEF Edits!Blocks, Edits!Holds, Edits!Row, SongRow, AlbumRow, ShareRow, Excludes

LEMMA ExcludesBack ==
    ASSUME NEW held \in SUBSET Edits!Rows, NEW r \in Edits!Rows, Excludes(held, r)
    PROVE  \E q \in held : Excludes({r}, q)
BY RowKinds, RowsDiffer DEF Excludes

LEMMA ExcludesMore ==
    ASSUME NEW held, NEW more, NEW r, more \subseteq held, Excludes(more, r)
    PROVE  Excludes(held, r)
BY DEF Excludes

LEMMA EditLocks ==
    ASSUME EditsInv, NEW c \in Admins, NEW x \in EditRecords,
           edit' = [edit EXCEPT ![c] = x], UNCHANGED <<song, sleeve, dropped, edits>>,
           \A d \in Admins \ {c} : \A r \in x.held : ~Edits!Blocks(d, r),
           LockedFits(c)', PlanFits(c)'
    PROVE  EditsInv'
<1>1. EditTypes /\ EditTypes' /\ edit'[c] = x /\ \A d \in Admins \ {c} : edit'[d] = edit[d]
  BY DEF EditsInv, EditTypes
<1>2. Apart'
  <2> SUFFICES ASSUME NEW d \in Admins, NEW e \in Admins, d # e, NEW r \in edit'[d].held,
                      Excludes(edit'[e].held, r)
               PROVE  FALSE
    BY BlocksExclude, Zenon DEF Apart
  <2>1. CASE d = c
    BY <1>1, <2>1, BlocksExclude
  <2>2. CASE d # c /\ e # c
    BY <1>1, <2>2, BlocksExclude DEF EditsInv, Apart
  <2>3. CASE d # c /\ e = c
    <3>1. r \in edit[d].held /\ r \in Edits!Rows /\ Excludes(x.held, r) /\ x.held \in SUBSET Edits!Rows
      BY <1>1, <2>3, EditTyped DEF EditRecords
    <3>2. PICK q \in x.held : Excludes({r}, q)
      BY <3>1, ExcludesBack
    <3>3. Excludes(edit[d].held, q)
      BY <3>1, <3>2, ExcludesMore
    <3> QED
      BY <2>3, <3>3, BlocksExclude
  <2> QED
    BY <2>1, <2>2, <2>3
<1>3. EditsWhole'
  BY DEF EditsInv, EditsWhole, Edits!NoEmptyAlbum, Edits!NoTrackWithoutAlbum, Edits!ShownCoverKept,
         Edits!SongsOn, Edits!Present
<1>4. UnderLocks(c)
  BY DEF UnderLocks, Edits!SongsOn, Edits!Present
<1>5. \A d \in Admins : LockedFits(d)' /\ PlanFits(d)'
  BY <1>1, <1>4, OthersKeep
<1> QED
  BY <1>1, <1>2, <1>3, <1>5 DEF EditsInv

LEMMA NoEditTyped ==
    /\ Edits!NoEdit \in EditRecords /\ Edits!NoEdit.op = "none" /\ Edits!NoEdit.held = {}
    /\ Edits!NoEdit.songs = {} /\ Edits!NoEdit.emptied = {} /\ Edits!NoEdit.plan = <<>>
    /\ Edits!NoEdit.to = None /\ Edits!NoEdit.sources = {}
BY DEF Edits!NoEdit, EditRecords, Edits!Ops

LEMMA NothingFits ==
    ASSUME NEW c \in Admins, edit'[c] = Edits!NoEdit
    PROVE  LockedFits(c)' /\ PlanFits(c)'
BY NoEditTyped DEF LockedFits, PlanFits, Sweeps

LEMMA EditGivesUp ==
    ASSUME EditsInv, NEW c \in Admins, Edits!GiveUp(c), UNCHANGED <<song, sleeve, dropped, edits>>
    PROVE  EditsInv'
<1>1. edit' = [edit EXCEPT ![c] = Edits!NoEdit] /\ edit'[c] = Edits!NoEdit
  BY DEF Edits!GiveUp, EditsInv, EditTypes
<1>2. LockedFits(c)' /\ PlanFits(c)'
  BY <1>1, NothingFits
<1> QED
  BY <1>1, <1>2, NoEditTyped, EditLocks

-----------------------------------------------------------------------------
(* Requests begin.                                                           *)

LEMMA EditBegins ==
    ASSUME EditsInv, NEW c \in Admins, NEW op \in Edits!Ops, NEW S \in SUBSET Songs,
           NEW albums \in SUBSET Shelves, NEW to \in Shelves \union {None},
           NEW plan \in Seq(SUBSET Edits!Rows), Edits!Begin(c, op, S, albums, to, plan)
    PROVE  /\ edit'[c] \in EditRecords /\ edit' = [edit EXCEPT ![c] = edit'[c]]
           /\ edit'[c].op = op /\ edit'[c].songs = S /\ edit'[c].to = to /\ edit'[c].plan = plan
           /\ edit'[c].sources = albums \ {to} /\ edit'[c].held = {} /\ edit'[c].emptied = {}
           /\ UNCHANGED <<song, sleeve, dropped, edits>>
           /\ PlanFits(c)' => EditsInv'
<1> DEFINE seen == [s \in Songs |-> IF s \in S THEN song[s].version ELSE 0]
           seenThere == [a \in Shelves |-> IF a \in albums THEN sleeve[a].version ELSE 0]
           x == [Edits!NoEdit EXCEPT !.op = op, !.songs = S, !.to = to, !.plan = plan,
                     !.sources = albums \ {to}, !.seenSong = seen, !.seenAlbum = seenThere]
<1>1. edit' = [edit EXCEPT ![c] = x] /\ UNCHANGED <<song, sleeve, dropped, edits>>
  BY DEF Edits!Begin
<1>2. seen \in [Songs -> Nat] /\ seenThere \in [Shelves -> Nat]
  BY SongTyped, AlbumTyped DEF EditsInv
<1> HIDE DEF seen, seenThere
<1>3. /\ x \in EditRecords
      /\ x.op = op /\ x.songs = S /\ x.to = to /\ x.plan = plan
      /\ x.sources = albums \ {to} /\ x.held = {} /\ x.emptied = {}
  BY <1>2, NoEditTyped DEF EditRecords
<1> HIDE DEF x
<1>4. edit'[c] = x
  BY <1>1 DEF EditsInv, EditTypes
<1>5. PlanFits(c)' => EditsInv'
  <2>1. LockedFits(c)'
    BY <1>3, <1>4 DEF LockedFits
  <2>2. \A d \in Admins \ {c} : \A r \in x.held : ~Edits!Blocks(d, r)
    BY <1>3
  <2> QED
    BY <1>1, <1>3, <2>1, <2>2, EditLocks
<1> QED
  BY <1>1, <1>3, <1>4, <1>5

\* A plan of single rows.
LEMMA SinglesTyped ==
    ASSUME NEW S, IsFiniteSet(S), S \subseteq Int
    PROVE  /\ S \subseteq Songs => Edits!Sorted(S) \in Seq(SUBSET Edits!Rows)
           /\ S \subseteq Shelves => Edits!AlbumsSorted(S) \in Seq(SUBSET Edits!Rows)
           /\ Len(Edits!Sorted(S)) = Cardinality(S) /\ Len(Edits!AlbumsSorted(S)) = Cardinality(S)
           /\ Cardinality(S) \in Nat
           /\ \A i \in 1..Cardinality(S) :
                 /\ Nth(S, i) \in S
                 /\ Edits!Sorted(S)[i] = {SongRow(Nth(S, i))}
                 /\ Edits!AlbumsSorted(S)[i] = {AlbumRow(Nth(S, i))}
<1>1. /\ Cardinality(S) \in Nat
      /\ Edits!Sorted(S) = [n \in 1..Cardinality(S) |-> {SongRow(Nth(S, n))}]
      /\ Edits!AlbumsSorted(S) = [n \in 1..Cardinality(S) |-> {AlbumRow(Nth(S, n))}]
  BY PlansInOrder
<1>2. \A n \in 1..Cardinality(S) : Nth(S, n) \in S
  BY Numbered
<1>3. S \subseteq Songs => \A n \in 1..Cardinality(S) : {SongRow(Nth(S, n))} \in SUBSET Edits!Rows
  BY <1>2, RowKinds
<1>4. S \subseteq Shelves => \A n \in 1..Cardinality(S) : {AlbumRow(Nth(S, n))} \in SUBSET Edits!Rows
  BY <1>2, RowKinds
<1> QED
  BY <1>1, <1>2, <1>3, <1>4

LEMMA SweepBegins ==
    ASSUME EditsInv, NEW c \in Admins, NEW op \in Sweeps, NEW S \in SUBSET Songs,
           Edits!Begin(c, op, S, {}, None, Edits!Sorted(S))
    PROVE  EditsInv'
<1> DEFINE plan == Edits!Sorted(S)
<1>1. IsFiniteSet(S) /\ S \subseteq Int
  BY EditsAssumption, FS_Subset
<1>2. /\ plan \in Seq(SUBSET Edits!Rows) /\ Len(plan) = Cardinality(S) /\ Cardinality(S) \in Nat
      /\ \A i \in 1..Len(plan) : Nth(S, i) \in S /\ plan[i] = {SongRow(Nth(S, i))}
  BY <1>1, SinglesTyped
<1>3. /\ \A s \in S : \E i \in 1..Len(plan) : plan[i] = {SongRow(s)}
      /\ \A i, j \in 1..Len(plan) : i < j => Nth(S, i) < Nth(S, j)
  <2>1. \A s \in S : Rank(S, s) \in 1..Cardinality(S) /\ Nth(S, Rank(S, s)) = s
    BY <1>1, PlansInOrder
  <2>2. \A i, j \in 1..Cardinality(S) : i < j => Nth(S, i) < Nth(S, j)
    BY <1>1, Numbered
  <2> QED
    BY <1>2, <2>1, <2>2
<1> HIDE DEF plan
<1>4. /\ edit'[c].op = op /\ edit'[c].songs = S /\ edit'[c].plan = plan
      /\ edit'[c].held = {} /\ edit'[c].emptied = {} /\ (PlanFits(c)' => EditsInv')
  <2>1. op \in Edits!Ops /\ {} \in SUBSET Shelves /\ None \in Shelves \union {None}
        /\ Edits!Begin(c, op, S, {}, None, plan)
    BY DEF Sweeps, Edits!Ops, plan
  <2> QED
    BY <1>2, <2>1, EditBegins
<1>5. \A i \in 1..Len(plan) : \A q \in plan[i] :
          \A j \in i + 1..Len(plan) : \A r \in plan[j] : q.row < r.row
  <2> SUFFICES ASSUME NEW i \in 1..Len(plan), NEW q \in plan[i],
                      NEW j \in i + 1..Len(plan), NEW r \in plan[j]
               PROVE  q.row < r.row
    OBVIOUS
  <2>1. j \in 1..Len(plan) /\ i < j
    BY <1>2
  <2>2. q = SongRow(Nth(S, i)) /\ r = SongRow(Nth(S, j))
    BY <1>2, <2>1
  <2> QED
    BY <1>3, <2>1, <2>2, RowsDiffer
<1>6. Sweep(c)'
  <2>1. \A i \in 1..Len(plan) : \E s \in S : plan[i] = {SongRow(s)}
    BY <1>2
  <2> QED
    BY <1>3, <1>4, <1>5, <2>1 DEF Sweep, Ascending
<1>7. PlanFits(c)'
  BY <1>4, <1>6, Zenon DEF PlanFits, Sweeps
<1> QED
  BY <1>4, <1>7

LEMMA OneTyped ==
    ASSUME NEW s \in Songs
    PROVE  /\ Edits!One(s) = <<{SongRow(s)}>> /\ Edits!One(s) \in Seq(SUBSET Edits!Rows)
           /\ {s} \in SUBSET Songs /\ {} \in SUBSET Shelves /\ None \in Shelves \union {None}
<1>1. {SongRow(s)} \in SUBSET Edits!Rows
  BY RowKinds
<1>2. Edits!One(s) = <<{SongRow(s)}>>
  BY Zenon DEF Edits!One, Edits!Row, SongRow
<1> QED
  BY <1>1, <1>2

LEMMA OneBegins ==
    ASSUME EditsInv, NEW c \in Admins, NEW s \in Songs,
           \/ Edits!UpsertLyrics(c, s) \/ Edits!PublishTrack(c, s) \/ Edits!DeleteTrack(c, s)
           \/ \E to \in Shelves \union {None} : Edits!UpdateTrack(c, s, to)
    PROVE  EditsInv'
<1>1. PICK op \in {"lyrics", "publish", "delete", "move"}, to \in Shelves \union {None} :
          /\ op # "move" => to = None
          /\ Edits!Begin(c, op, {s}, {}, to, Edits!One(s))
  BY DEF Edits!UpsertLyrics, Edits!PublishTrack, Edits!DeleteTrack, Edits!UpdateTrack
<1>2. op \in Edits!Ops
  BY DEF Edits!Ops
<1>3. /\ edit'[c].op = op /\ edit'[c].songs = {s} /\ edit'[c].to = to
      /\ edit'[c].plan = <<{SongRow(s)}>>
      /\ edit'[c].held = {} /\ edit'[c].emptied = {} /\ (PlanFits(c)' => EditsInv')
  BY <1>1, <1>2, OneTyped, EditBegins
<1>4. op \in {"lyrics", "publish"} => Sweep(c)'
  <2>1. Len(<<{SongRow(s)}>>) = 1 /\ <<{SongRow(s)}>>[1] = {SongRow(s)}
    OBVIOUS
  <2> QED
    BY <1>3, <2>1 DEF Sweep, Ascending
<1>5. Journey(c, s)'
  BY <1>3 DEF Journey
<1>6. PlanFits(c)'
  BY <1>1, <1>3, <1>4, <1>5 DEF PlanFits, Sweeps
<1> QED
  BY <1>3, <1>6

LEMMA AlbumBegins ==
    ASSUME EditsInv, NEW c \in Admins, NEW a \in Shelves, Edits!UpdateAlbum(c, a)
    PROVE  EditsInv'
<1> DEFINE S == {a}  plan == Edits!AlbumsSorted(S)
<1>1. /\ IsFiniteSet(S) /\ S \subseteq Int /\ S \in SUBSET Shelves /\ Cardinality(S) = 1
      /\ a \in S /\ S \ {a} = {} /\ \A x \in S : x = a
  BY EditsAssumption, FS_Singleton
<1>2. Edits!Begin(c, "album", {}, S, a, plan)
  BY DEF Edits!UpdateAlbum
<1> HIDE DEF S
<1>3. plan = <<{AlbumRow(a)}>> /\ plan \in Seq(SUBSET Edits!Rows)
  <2>1. plan = [n \in 1..Cardinality(S) |-> {AlbumRow(Nth(S, n))}]
    BY <1>1, PlansInOrder
  <2>2. plan \in Seq(SUBSET Edits!Rows) /\ \A n \in 1..Cardinality(S) : Nth(S, n) \in S
    BY <1>1, SinglesTyped
  <2> HIDE DEF plan
  <2>3. \A n \in 1..1 : Nth(S, n) = a
    BY <1>1, <2>2
  <2>4. plan = [n \in 1..1 |-> {AlbumRow(a)}]
    BY <1>1, <2>1, <2>3
  <2>5. [n \in 1..1 |-> {AlbumRow(a)}] = <<{AlbumRow(a)}>>
    OBVIOUS
  <2> QED
    BY <2>2, <2>4, <2>5
<1> HIDE DEF plan
<1>5. /\ edit'[c].op = "album" /\ edit'[c].songs = {} /\ edit'[c].to = a
      /\ edit'[c].plan = plan /\ edit'[c].sources = {}
      /\ edit'[c].held = {} /\ edit'[c].emptied = {} /\ (PlanFits(c)' => EditsInv')
  <2>1. "album" \in Edits!Ops /\ {} \in SUBSET Songs /\ a \in Shelves \union {None}
    BY DEF Edits!Ops
  <2>2. /\ edit'[c].op = "album" /\ edit'[c].songs = {} /\ edit'[c].to = a
        /\ edit'[c].plan = plan /\ edit'[c].sources = S \ {a}
        /\ edit'[c].held = {} /\ edit'[c].emptied = {} /\ (PlanFits(c)' => EditsInv')
    BY <1>1, <1>2, <1>3, <2>1, EditBegins, Zenon
  <2> QED
    BY <1>1, <2>2
<1>6. PlanFits(c)'
  BY <1>3, <1>5 DEF PlanFits, Sweeps
<1> QED
  BY <1>5, <1>6

LEMMA MergeBegins ==
    ASSUME EditsInv, NEW c \in Admins, NEW to \in Shelves, NEW sources \in SUBSET Shelves,
           Edits!MergeAlbums(c, to, sources)
    PROVE  EditsInv'
<1> DEFINE S == sources \union {to}  plan == Edits!AlbumsSorted(S)
<1>1. IsFiniteSet(S) /\ S \subseteq Int /\ S \in SUBSET Shelves
  BY EditsAssumption, FS_Subset
<1>2. /\ plan \in Seq(SUBSET Edits!Rows) /\ Len(plan) = Cardinality(S) /\ Cardinality(S) \in Nat
      /\ \A i \in 1..Len(plan) : Nth(S, i) \in S /\ plan[i] = {AlbumRow(Nth(S, i))}
  BY <1>1, SinglesTyped
<1>3. \A a \in S : Rank(S, a) \in 1..Len(plan) /\ plan[Rank(S, a)] = {AlbumRow(a)}
  BY <1>1, <1>2, PlansInOrder
<1>4. to \notin sources /\ Edits!Begin(c, "merge", {}, S, to, plan)
  BY DEF Edits!MergeAlbums
<1>5. to \in S /\ S \ {to} = sources /\ sources \union {to} = S
  BY <1>4
<1> HIDE DEF S, plan
<1>6. plan # <<>>
  BY <1>2, <1>3, <1>5
<1>7. /\ edit'[c].op = "merge" /\ edit'[c].songs = {} /\ edit'[c].to = to
      /\ edit'[c].plan = plan /\ edit'[c].sources = sources
      /\ edit'[c].held = {} /\ edit'[c].emptied = {} /\ (PlanFits(c)' => EditsInv')
  <2>1. "merge" \in Edits!Ops /\ {} \in SUBSET Songs
    BY DEF Edits!Ops
  <2> QED
    BY <1>1, <1>2, <1>4, <1>5, <2>1, EditBegins
<1>8. Parties(c)' = S
  BY <1>5, <1>7 DEF Parties
<1>9. LocksAlbums(c)'
  BY <1>2, <1>3, <1>6, <1>7, <1>8 DEF LocksAlbums, Gathers
<1>10. PlanFits(c)'
  BY <1>4, <1>7, <1>9 DEF PlanFits, Sweeps, Merge
<1> QED
  BY <1>7, <1>10

-----------------------------------------------------------------------------
(* Locks are granted.                                                        *)

WithLock(c, r, plan, gone) ==
    [edit[c] EXCEPT !.held = @ \union {r}, !.plan = plan, !.emptied = gone]

LEMMA EditGrants ==
    ASSUME EditsInv, NEW c \in Admins, NEW r \in Edits!Rows, Edits!Blockers(c, r) = {},
           NEW plan \in Seq(SUBSET Edits!Rows), NEW gone \in SUBSET Shelves,
           edit' = [edit EXCEPT ![c] = WithLock(c, r, plan, gone)],
           UNCHANGED <<song, sleeve, dropped, edits>>,
           \A s \in edit[c].songs : r = SongRow(s) =>
               edit[c].seenSong[s] = song[s].version /\ song[s].status # "GONE",
           \A a \in Shelves : r = ShareRow(a) \/ (r = AlbumRow(a) /\ edit[c].op \in {"album", "merge"})
               => sleeve[a].there
    PROVE  /\ edit'[c].op = edit[c].op /\ edit'[c].songs = edit[c].songs /\ edit'[c].to = edit[c].to
           /\ edit'[c].sources = edit[c].sources /\ edit'[c].emptied = gone
           /\ edit'[c].held = edit[c].held \union {r} /\ edit'[c].plan = plan
           /\ PlanFits(c)' => EditsInv'
<1> DEFINE x == WithLock(c, r, plan, gone)
<1>1. edit[c] \in EditRecords /\ edit' = [edit EXCEPT ![c] = x] /\ edit[c].held \subseteq Edits!Rows
  BY EditTyped DEF EditsInv
<1>2. /\ x \in EditRecords
      /\ x.op = edit[c].op /\ x.songs = edit[c].songs /\ x.to = edit[c].to
      /\ x.sources = edit[c].sources /\ x.seenSong = edit[c].seenSong
      /\ x.held = edit[c].held \union {r} /\ x.plan = plan /\ x.emptied = gone
  BY <1>1 DEF EditRecords, WithLock
<1> HIDE DEF x
<1>3. edit'[c] = x
  BY <1>1 DEF EditsInv, EditTypes
<1>4. \A d \in Admins \ {c} : \A q \in x.held : ~Edits!Blocks(d, q)
  BY <1>2 DEF EditsInv, Apart, Edits!Blockers
<1>5. LockedFits(c)'
  <2>1. LockedFits(c)
    BY DEF EditsInv
  <2> QED
    BY <1>2, <1>3, <2>1 DEF LockedFits
<1> QED
  BY <1>1, <1>2, <1>3, <1>4, <1>5, EditLocks

\* The first set of a plan, and what a lock leaves of the plan.
LEMMA PlanRest ==
    ASSUME EditTypes, NEW c \in Admins, edit[c].plan # <<>>, NEW r \in Head(edit[c].plan)
    PROVE  /\ r \in Edits!Rows /\ Head(edit[c].plan) = edit[c].plan[1] /\ Len(edit[c].plan) \in Nat \ {0}
           /\ Head(edit[c].plan) = {r} => Edits!Rest(c, r) = Tail(edit[c].plan)
           /\ Edits!Rest(c, r) \in Seq(SUBSET Edits!Rows)
           /\ Tail(edit[c].plan) \in Seq(SUBSET Edits!Rows)
           /\ Len(Tail(edit[c].plan)) = Len(edit[c].plan) - 1
           /\ \A i \in 1..Len(edit[c].plan) - 1 : Tail(edit[c].plan)[i] = edit[c].plan[i + 1]
<1> DEFINE plan == edit[c].plan
<1>1. plan \in Seq(SUBSET Edits!Rows)
  BY EditTyped
<1>2. Edits!Rest(c, r) = IF Head(plan) \ {r} = {} THEN Tail(plan) ELSE <<Head(plan) \ {r}>> \o Tail(plan)
  BY Zenon DEF Edits!Rest
<1> HIDE DEF plan
<1>3. /\ Head(plan) \in SUBSET Edits!Rows /\ Tail(plan) \in Seq(SUBSET Edits!Rows) /\ r \in Head(plan)
      /\ Len(plan) \in Nat \ {0} /\ Head(plan) = plan[1] /\ Len(Tail(plan)) = Len(plan) - 1
      /\ \A i \in 1..Len(plan) - 1 : Tail(plan)[i] = plan[i + 1]
  BY <1>1 DEF plan
<1>4. <<Head(plan) \ {r}>> \in Seq(SUBSET Edits!Rows)
  BY <1>3
<1>5. <<Head(plan) \ {r}>> \o Tail(plan) \in Seq(SUBSET Edits!Rows)
  BY <1>3, <1>4
<1> QED
  BY <1>2, <1>3, <1>5 DEF plan

LEMMA GrantedAs ==
    ASSUME EditTypes, NEW c \in Admins, NEW r \in Edits!Rows, NEW more \in Seq(SUBSET Edits!Rows),
           Edits!Granted(c, r, more)
    PROVE  edit' = [edit EXCEPT ![c] = WithLock(c, r, Edits!Rest(c, r) \o more, edit[c].emptied)]
<1> DEFINE p == Edits!Rest(c, r) \o more  h == edit[c].held \union {r}
<1>1. edit' = [edit EXCEPT ![c] = [edit[c] EXCEPT !.held = h, !.plan = p]]
  BY DEF Edits!Granted
<1> HIDE DEF p, h
<1>2. [edit[c] EXCEPT !.held = h, !.plan = p]
        = [edit[c] EXCEPT !.held = h, !.plan = p, !.emptied = edit[c].emptied]
  BY EditTyped DEF EditRecords
<1> QED
  BY <1>1, <1>2 DEF p, h, WithLock

LEMMA Grants ==
    ASSUME EditsInv, NEW c \in Admins, edit[c].plan # <<>>, NEW r \in Head(edit[c].plan),
           Edits!Blockers(c, r) = {}, NEW more \in Seq(SUBSET Edits!Rows), Edits!Granted(c, r, more),
           UNCHANGED <<song, sleeve, dropped, edits>>,
           \A s \in edit[c].songs : r = SongRow(s) =>
               edit[c].seenSong[s] = song[s].version /\ song[s].status # "GONE",
           \A a \in Shelves : r = ShareRow(a) \/ (r = AlbumRow(a) /\ edit[c].op \in {"album", "merge"})
               => sleeve[a].there
    PROVE  /\ edit'[c].op = edit[c].op /\ edit'[c].songs = edit[c].songs /\ edit'[c].to = edit[c].to
           /\ edit'[c].sources = edit[c].sources /\ edit'[c].emptied = edit[c].emptied
           /\ edit'[c].held = edit[c].held \union {r}
           /\ edit'[c].plan = Edits!Rest(c, r) \o more
           /\ PlanFits(c)' => EditsInv'
<1> DEFINE plan == Edits!Rest(c, r) \o more  gone == edit[c].emptied
<1>1. EditTypes
  BY DEF EditsInv
<1>2. r \in Edits!Rows /\ Edits!Rest(c, r) \in Seq(SUBSET Edits!Rows)
  BY <1>1, PlanRest
<1>3. plan \in Seq(SUBSET Edits!Rows) /\ gone \in SUBSET Shelves
  BY <1>1, <1>2, EditTyped
<1>4. edit' = [edit EXCEPT ![c] = WithLock(c, r, plan, gone)]
  BY <1>1, <1>2, GrantedAs
<1> HIDE DEF plan, gone
<1>5. /\ edit'[c].op = edit[c].op /\ edit'[c].songs = edit[c].songs /\ edit'[c].to = edit[c].to
      /\ edit'[c].sources = edit[c].sources /\ edit'[c].emptied = gone
      /\ edit'[c].held = edit[c].held \union {r} /\ edit'[c].plan = plan
      /\ PlanFits(c)' => EditsInv'
  BY <1>2, <1>3, <1>4, EditGrants
<1> QED
  BY <1>5 DEF plan, gone

\* The last row of a plan whose sets are single rows.
LEMMA LastRow ==
    ASSUME EditTypes, NEW c \in Admins, NEW q \in Edits!Rows, edit[c].plan = <<{q}>>, NEW r \in Head(edit[c].plan)
    PROVE  r = q /\ Edits!Rest(c, r) = <<>>
<1>1. edit[c].plan # <<>> /\ Head(edit[c].plan) = {q} /\ r = q /\ Tail(edit[c].plan) = <<>>
  OBVIOUS
<1> QED
  BY <1>1, PlanRest

LEMMA SweepGoesOn ==
    ASSUME EditTypes, NEW c \in Admins, edit[c].plan # <<>>, NEW r \in Head(edit[c].plan), Sweep(c)
    PROVE  /\ \E s \in edit[c].songs : r = SongRow(s)
           /\ Edits!Rest(c, r) = Tail(edit[c].plan)
           /\ edit'[c].songs = edit[c].songs /\ edit'[c].plan = Tail(edit[c].plan)
              /\ edit'[c].held = edit[c].held \union {r} => Sweep(c)'
<1> DEFINE plan == edit[c].plan  rest == Tail(edit[c].plan)  held == edit[c].held  more == held \union {r}
           songs == edit[c].songs
<1>1. /\ Head(plan) = plan[1] /\ Len(plan) \in Nat \ {0} /\ Len(rest) = Len(plan) - 1
      /\ \A i \in 1..Len(plan) - 1 : rest[i] = plan[i + 1]
      /\ Head(plan) = {r} => Edits!Rest(c, r) = rest
  BY PlanRest
<1> HIDE DEF plan, rest, held, more, songs
<1>2. /\ held \subseteq {SongRow(s) : s \in songs}
      /\ \A s \in songs : SongRow(s) \in held \/ \E i \in 1..Len(plan) : plan[i] = {SongRow(s)}
      /\ \A i \in 1..Len(plan) : \E s \in songs : plan[i] = {SongRow(s)}
      /\ \A i \in 1..Len(plan) : \A q \in plan[i] :
            /\ \A h \in held : h.row < q.row
            /\ \A j \in i + 1..Len(plan) : \A t \in plan[j] : q.row < t.row
  BY DEF Sweep, Ascending, plan, held, songs
<1>3. 1 \in 1..Len(plan) /\ r \in plan[1]
  BY <1>1 DEF plan
<1>4. PICK s \in songs : plan[1] = {SongRow(s)}
  BY <1>2, <1>3
<1>5. r = SongRow(s) /\ Edits!Rest(c, r) = rest
  BY <1>1, <1>3, <1>4
<1>6. /\ more \subseteq {SongRow(t) : t \in songs}
      /\ \A i \in 1..Len(rest) : \E t \in songs : rest[i] = {SongRow(t)}
  BY <1>1, <1>2, <1>5 DEF more
<1>7. ASSUME NEW t \in songs
      PROVE  SongRow(t) \in more \/ \E i \in 1..Len(rest) : rest[i] = {SongRow(t)}
  <2>1. CASE SongRow(t) \in held
    BY <2>1 DEF more
  <2>2. CASE \E i \in 1..Len(plan) : plan[i] = {SongRow(t)}
    <3>1. PICK i \in 1..Len(plan) : plan[i] = {SongRow(t)}
      BY <2>2
    <3>2. CASE i = 1
      BY <1>3, <3>1, <3>2 DEF more
    <3>3. CASE i # 1
      <4>1. i - 1 \in 1..Len(rest) /\ rest[i - 1] = plan[(i - 1) + 1] /\ (i - 1) + 1 = i
        BY <1>1, <3>3
      <4> QED
        BY <3>1, <4>1
    <3> QED
      BY <3>2, <3>3
  <2> QED
    BY <1>2, <2>1, <2>2
<1>8. ASSUME NEW i \in 1..Len(rest), NEW q \in rest[i]
      PROVE  /\ \A h \in more : h.row < q.row
             /\ \A j \in i + 1..Len(rest) : \A t \in rest[j] : q.row < t.row
  <2>1. i + 1 \in 1..Len(plan) /\ i + 1 \in 1 + 1..Len(plan) /\ q \in plan[i + 1]
    BY <1>1
  <2>2. \A h \in held : h.row < q.row
    BY <1>2, <2>1
  <2>3. r.row < q.row
    BY <1>2, <1>3, <2>1
  <2>4. ASSUME NEW j \in i + 1..Len(rest), NEW t \in rest[j] PROVE q.row < t.row
    <3>1. j + 1 \in (i + 1) + 1..Len(plan) /\ t \in plan[j + 1]
      BY <1>1, <2>4
    <3> QED
      BY <1>2, <2>1, <3>1
  <2> QED
    BY <2>2, <2>3, <2>4 DEF more
<1>9. edit'[c].songs = songs /\ edit'[c].plan = rest /\ edit'[c].held = more => Sweep(c)'
  <2>1. \A t \in songs : SongRow(t) \in more \/ \E i \in 1..Len(rest) : rest[i] = {SongRow(t)}
    BY <1>7
  <2>2. \A i \in 1..Len(rest) : \A q \in rest[i] :
            /\ \A h \in more : h.row < q.row
            /\ \A j \in i + 1..Len(rest) : \A t \in rest[j] : q.row < t.row
    BY <1>8
  <2>3. Ascending(rest, more, songs)
    BY <1>6, <2>1, <2>2, Zenon DEF Ascending
  <2> QED
    BY <2>3 DEF Sweep
<1> QED
  BY <1>4, <1>5, <1>9 DEF songs, rest, more, held

\* Short plans put together.
LEMMA Joined ==
    ASSUME NEW T, NEW x \in T, NEW y \in T
    PROVE  /\ <<>> \o <<x>> = <<x>> /\ <<x>> \o <<>> = <<x>> /\ <<x>> \o <<y>> = <<x, y>>
           /\ <<x>> \in Seq(T) /\ <<x, y>> \in Seq(T) /\ <<>> \in Seq(T)
<1>1. <<x>> \in Seq(T) /\ <<y>> \in Seq(T) /\ <<>> \in Seq(T) /\ <<x, y>> \in Seq(T)
  OBVIOUS
<1>2. <<>> \o <<x>> = <<x>>
  BY <1>1
<1>3. <<x>> \o <<>> = <<x>>
  BY <1>1
<1>4. <<x>> \o <<y>> = <<x, y>>
  <2> DEFINE z == <<x>> \o <<y>>
  <2>1. z \in Seq(T) /\ Len(z) = 2 /\ z[1] = x /\ z[2] = y
    BY <1>1
  <2> HIDE DEF z
  <2>2. z = <<x, y>>
    BY <2>1
  <2> QED
    BY <2>2 DEF z
<1> QED
  BY <1>1, <1>2, <1>3, <1>4

\* A track is locked: its request goes on with it, or gives up.
LEMMA MayChangeSeen ==
    ASSUME EditsInv, NEW c \in Admins, NEW s \in Songs, Edits!MayChange(c, s)
    PROVE  /\ edit[c].seenSong[s] = song[s].version /\ song[s].status # "GONE"
           /\ edit[c].op \in Sweeps \union {"move", "delete"}
BY DEF Edits!MayChange, Edits!Present, Sweeps

LEMMA NextLocks ==
    ASSUME EditTypes, NEW c \in Admins, NEW s \in Songs
    PROVE  LET to == edit[c].to  old == song[s].album  more == Edits!AfterSong(c, s)
           IN  /\ edit[c].op \notin {"move", "delete"} => more = <<>>
               /\ edit[c].op = "move" /\ to = old => more = <<>>
               /\ edit[c].op = "move" /\ to # old =>
                     more = IF to = None THEN <<{AlbumRow(old)}>>
                            ELSE IF old = None THEN <<{ShareRow(to)}>>
                            ELSE <<{ShareRow(to)}, {AlbumRow(old)}>>
               /\ edit[c].op = "delete" => more = IF old = None THEN <<>> ELSE <<{AlbumRow(old)}>>
               /\ more \in Seq(SUBSET Edits!Rows)
<1> DEFINE to == edit[c].to  old == song[s].album  more == Edits!AfterSong(c, s)
<1>1. to \in Shelves \union {None} /\ old \in Shelves \union {None}
  BY EditTyped, SongTyped
<1>2. /\ Edits!Reference(to) = IF to = None THEN <<>> ELSE <<{ShareRow(to)}>>
      /\ Edits!Left(old) = IF old = None THEN <<>> ELSE <<{AlbumRow(old)}>>
  BY Zenon DEF Edits!Reference, Edits!Left, Edits!Row, ShareRow, AlbumRow
<1>3. more = IF edit[c].op = "move" /\ to # old THEN Edits!Reference(to) \o Edits!Left(old)
             ELSE IF edit[c].op = "delete" THEN Edits!Left(old) ELSE <<>>
  BY DEF Edits!AfterSong
<1> HIDE DEF to, old, more
<1>4. <<>> \o <<{AlbumRow(old)}>> = <<{AlbumRow(old)}>> /\ <<{ShareRow(to)}>> \o <<>> = <<{ShareRow(to)}>>
      /\ <<{ShareRow(to)}>> \o <<{AlbumRow(old)}>> = <<{ShareRow(to)}, {AlbumRow(old)}>>
  <2> DEFINE x == {ShareRow(to)}  y == {AlbumRow(old)}
  <2> HIDE DEF x, y
  <2>1. x \in {x, y} /\ y \in {x, y}
    OBVIOUS
  <2>2. <<>> \o <<y>> = <<y>> /\ <<x>> \o <<>> = <<x>> /\ <<x>> \o <<y>> = <<x, y>>
    BY <2>1, Joined
  <2> QED
    BY <2>2 DEF x, y
<1>5. /\ edit[c].op \notin {"move", "delete"} => more = <<>>
      /\ edit[c].op = "move" /\ to = old => more = <<>>
      /\ edit[c].op = "move" /\ to # old =>
            more = IF to = None THEN <<{AlbumRow(old)}>>
                   ELSE IF old = None THEN <<{ShareRow(to)}>>
                   ELSE <<{ShareRow(to)}, {AlbumRow(old)}>>
      /\ edit[c].op = "delete" => more = IF old = None THEN <<>> ELSE <<{AlbumRow(old)}>>
  BY <1>2, <1>3, <1>4
<1>6. /\ to # None => {ShareRow(to)} \in SUBSET Edits!Rows
      /\ old # None => {AlbumRow(old)} \in SUBSET Edits!Rows
  BY <1>1, RowKinds
<1>7. more \in Seq(SUBSET Edits!Rows)
  <2> DEFINE x == {ShareRow(to)}  y == {AlbumRow(old)}  T == SUBSET Edits!Rows
  <2>1. to # None => x \in T
    BY <1>6
  <2>2. old # None => y \in T
    BY <1>6
  <2>3. /\ edit[c].op = "move" /\ to # old =>
              more = IF to = None THEN <<y>> ELSE IF old = None THEN <<x>> ELSE <<x, y>>
        /\ edit[c].op = "delete" => more = IF old = None THEN <<>> ELSE <<y>>
    BY <1>5
  <2> HIDE DEF x, y, T
  <2>4. <<>> \in Seq(T) /\ (to # None => <<x>> \in Seq(T)) /\ (old # None => <<y>> \in Seq(T))
        /\ (to # None /\ old # None => <<x, y>> \in Seq(T))
    BY <2>1, <2>2
  <2>5. more \in Seq(T)
    BY <1>5, <2>3, <2>4
  <2> QED
    BY <2>5 DEF T
<1> QED
  BY <1>5, <1>7 DEF to, old, more

LEMMA SweepLocks ==
    ASSUME EditsInv, NEW c \in Admins, NEW r, Edits!LockSong(c, r), r \in Edits!Rows,
           Edits!MayChange(c, r.row), edit[c].op \in Sweeps
    PROVE  EditsInv'
<1>1. /\ EditTypes /\ edit[c].plan # <<>> /\ r \in Head(edit[c].plan) /\ Edits!Blockers(c, r) = {}
      /\ r.kind = "song" /\ UNCHANGED <<song, sleeve, dropped, edits>>
      /\ Edits!Granted(c, r, Edits!AfterSong(c, r.row))
  BY DEF Edits!LockSong, EditsInv
<1>2. r.row \in Songs /\ r = SongRow(r.row)
  BY <1>1, RowKinds
<1>3. Edits!AfterSong(c, r.row) = <<>> /\ <<>> \in Seq(SUBSET Edits!Rows)
  BY <1>1, <1>2, NextLocks DEF Sweeps
<1>4. /\ \A s \in edit[c].songs : r = SongRow(s) =>
             edit[c].seenSong[s] = song[s].version /\ song[s].status # "GONE"
      /\ \A a \in Shelves : r = ShareRow(a) \/ (r = AlbumRow(a) /\ edit[c].op \in {"album", "merge"})
             => sleeve[a].there
  BY <1>2, MayChangeSeen, RowsDiffer
<1>5. Edits!Granted(c, r, <<>>)
  BY <1>1, <1>3
<1>6. /\ edit'[c].op = edit[c].op /\ edit'[c].songs = edit[c].songs /\ edit'[c].to = edit[c].to
      /\ edit'[c].sources = edit[c].sources /\ edit'[c].emptied = edit[c].emptied
      /\ edit'[c].held = edit[c].held \union {r}
      /\ edit'[c].plan = Edits!Rest(c, r) \o <<>>
      /\ PlanFits(c)' => EditsInv'
  BY <1>1, <1>3, <1>4, <1>5, Grants
<1>7. Sweep(c) /\ edit[c].emptied = {}
  BY DEF EditsInv, PlanFits
<1>8. Edits!Rest(c, r) = Tail(edit[c].plan) /\ Edits!Rest(c, r) \in Seq(SUBSET Edits!Rows)
  BY <1>1, <1>7, SweepGoesOn, PlanRest
<1>9. edit'[c].plan = Tail(edit[c].plan)
  BY <1>6, <1>8
<1>10. Sweep(c)'
  BY <1>1, <1>6, <1>7, <1>9, SweepGoesOn
<1>11. PlanFits(c)'
  BY <1>6, <1>7, <1>10 DEF PlanFits, Sweeps
<1> QED
  BY <1>6, <1>11

\* The first lock of a track that may leave its album.
LEMMA JourneyLocks ==
    ASSUME EditsInv, NEW c \in Admins, NEW r, Edits!LockSong(c, r), r \in Edits!Rows,
           Edits!MayChange(c, r.row), edit[c].op \in {"move", "delete"}
    PROVE  EditsInv'
<1>1. /\ EditTypes /\ edit[c].plan # <<>> /\ r \in Head(edit[c].plan) /\ Edits!Blockers(c, r) = {}
      /\ r.kind = "song" /\ UNCHANGED <<song, sleeve, dropped, edits>>
      /\ Edits!Granted(c, r, Edits!AfterSong(c, r.row))
  BY DEF Edits!LockSong, EditsInv
<1>2. r.row \in Songs /\ r = SongRow(r.row)
  BY <1>1, RowKinds
<1>3. PICK s \in Songs : edit[c].songs = {s} /\ Journey(c, s)
  BY DEF EditsInv, PlanFits
<1> DEFINE more == Edits!AfterSong(c, s)  to == edit[c].to  old == song[s].album
<1>4. edit[c].plan = <<{SongRow(s)}>> /\ edit[c].held = {} /\ edit[c].emptied = {}
  <2>1. \A a : \A p : edit[c].plan # <<{ShareRow(a)}>> /\ edit[c].plan # <<{ShareRow(a)}, p>>
                      /\ edit[c].plan # <<{AlbumRow(a)}>>
    BY <1>1, <1>2, RowsDiffer
  <2> QED
    BY <1>1, <1>3, <2>1 DEF Journey
<1>5. r = SongRow(s) /\ r.row = s /\ Edits!Rest(c, r) = <<>>
  BY <1>1, <1>2, <1>4, LastRow, RowsDiffer, RowKinds
<1>6. /\ more \in Seq(SUBSET Edits!Rows) /\ Edits!Granted(c, r, more) /\ <<>> \o more = more
  <2>1. more \in Seq(SUBSET Edits!Rows)
    BY <1>1, NextLocks
  <2> QED
    BY <1>1, <1>5, <2>1
<1>7. /\ \A t \in edit[c].songs : r = SongRow(t) =>
             edit[c].seenSong[t] = song[t].version /\ song[t].status # "GONE"
      /\ \A a \in Shelves : r = ShareRow(a) \/ (r = AlbumRow(a) /\ edit[c].op \in {"album", "merge"})
             => sleeve[a].there
  BY <1>3, <1>5, MayChangeSeen, RowsDiffer
<1>8. /\ edit'[c].op = edit[c].op /\ edit'[c].songs = edit[c].songs /\ edit'[c].to = to
      /\ edit'[c].sources = edit[c].sources /\ edit'[c].emptied = {}
      /\ edit'[c].held = {SongRow(s)} /\ edit'[c].plan = more
      /\ PlanFits(c)' => EditsInv'
  <2> HIDE DEF more
  <2>1. /\ edit'[c].op = edit[c].op /\ edit'[c].songs = edit[c].songs /\ edit'[c].to = edit[c].to
        /\ edit'[c].sources = edit[c].sources /\ edit'[c].emptied = edit[c].emptied
        /\ edit'[c].held = edit[c].held \union {r} /\ edit'[c].plan = Edits!Rest(c, r) \o more
        /\ PlanFits(c)' => EditsInv'
    BY <1>1, <1>6, <1>7, Grants
  <2> QED
    BY <1>4, <1>5, <1>6, <2>1
<1>9. /\ to \in Shelves \union {None} /\ old \in Shelves \union {None} /\ song' = song
      /\ (edit[c].op = "delete" => to = None) /\ None \notin Shelves
  BY <1>1, EditTyped, SongTyped, EditsAssumption DEF EditsInv, PlanFits
<1>10. /\ edit[c].op = "move" /\ to = old => more = <<>>
       /\ edit[c].op = "move" /\ to # old =>
             more = IF to = None THEN <<{AlbumRow(old)}>>
                    ELSE IF old = None THEN <<{ShareRow(to)}>>
                    ELSE <<{ShareRow(to)}, {AlbumRow(old)}>>
       /\ edit[c].op = "delete" => more = IF old = None THEN <<>> ELSE <<{AlbumRow(old)}>>
  BY <1>1, NextLocks
<1>11. Travels(c, s)' <=> edit[c].op = "delete" \/ to # old
  BY <1>8, <1>9 DEF Travels
<1> HIDE DEF more, to, old
<1>12. Journey(c, s)'
  <2>0. song'[s].album = old
    BY <1>9 DEF old
  <2>1. CASE edit[c].op = "move" /\ to = old
    BY <1>8, <1>10, <1>11, <2>1 DEF Journey
  <2>2. CASE edit[c].op = "move" /\ to # old /\ to # None
    BY <1>8, <1>10, <1>11, <2>0, <2>2 DEF Journey
  <2>3. CASE to # old /\ to = None /\ edit[c].op = "move"
    BY <1>8, <1>10, <1>11, <2>0, <2>3 DEF Journey, Shares
  <2>4. CASE edit[c].op = "delete" /\ old # None
    BY <1>8, <1>9, <1>10, <1>11, <2>0, <2>4 DEF Journey, Shares
  <2>5. CASE edit[c].op = "delete" /\ old = None
    <3>1. Shares(None) = {} /\ Takes(None) = {}
      BY DEF Shares, Takes
    <3> QED
      BY <1>8, <1>9, <1>10, <1>11, <2>0, <2>5, <3>1 DEF Journey
  <2> QED
    BY <2>1, <2>2, <2>3, <2>4, <2>5
<1>13. PlanFits(c)'
  BY <1>3, <1>8, <1>9, <1>12 DEF PlanFits, Sweeps
<1> QED
  BY <1>8, <1>13

\* A merge takes the tracks of its albums in any order.
LEMMA MergeLocksSong ==
    ASSUME EditsInv, NEW c \in Admins, NEW r, Edits!LockSong(c, r), r \in Edits!Rows,
           edit[c].op = "merge"
    PROVE  EditsInv'
<1>1. /\ EditTypes /\ edit[c].plan # <<>> /\ r \in Head(edit[c].plan) /\ Edits!Blockers(c, r) = {}
      /\ r.kind = "song" /\ UNCHANGED <<song, sleeve, dropped, edits>>
      /\ Edits!Granted(c, r, Edits!AfterSong(c, r.row))
  BY DEF Edits!LockSong, EditsInv
<1>2. r.row \in Songs /\ r = SongRow(r.row)
  BY <1>1, RowKinds
<1>3. /\ edit[c].songs = {} /\ edit[c].emptied = {} /\ edit[c].to \in Shelves \ edit[c].sources
      /\ Merge(c)
  BY DEF EditsInv, PlanFits
<1>4. ~LocksAlbums(c)
  <2> SUFFICES ASSUME LocksAlbums(c) PROVE FALSE
    OBVIOUS
  <2>1. Head(edit[c].plan) = edit[c].plan[1] /\ 1 \in 1..Len(edit[c].plan)
    BY <1>1, PlanRest
  <2>2. PICK a : edit[c].plan[1] = {AlbumRow(a)}
    BY <2>1 DEF LocksAlbums, Gathers
  <2> QED
    BY <1>1, <1>2, <2>1, <2>2, RowsDiffer
<1>5. PICK S \in SUBSET Edits!MergedSongs(c) : Awaits(c, S)
  BY <1>3, <1>4 DEF Merge
<1> DEFINE rows == {SongRow(s) : s \in S}  more == S \ {r.row}  rest == {SongRow(s) : s \in more}
<1>6. edit[c].plan = <<rows>>
  BY <1>1, <1>5 DEF Awaits
<1>7. r \in rows /\ r.row \in S /\ rows \ {r} = rest /\ (more = {} <=> rest = {})
  <2>1. r \in rows
    BY <1>1, <1>6
  <2> QED
    BY <1>2, <2>1, RowsDiffer
<1>8. Edits!Rest(c, r) = IF more = {} THEN <<>> ELSE <<rest>>
  <2>1. Head(edit[c].plan) = rows /\ Tail(edit[c].plan) = <<>>
    BY <1>6
  <2>2. Edits!Rest(c, r) = IF rest = {} THEN <<>> ELSE <<rest>> \o <<>>
    <3>1. Edits!Rest(c, r) = IF rows \ {r} = {} THEN <<>> ELSE <<rows \ {r}>> \o <<>>
      <4> HIDE DEF rows
      <4> QED
        BY <2>1, Zenon DEF Edits!Rest
    <3> HIDE DEF rows, rest
    <3> QED
      BY <1>7, <3>1
  <2> HIDE DEF rows, rest
  <2>3. rest \in {rest} /\ <<rest>> \o <<>> = <<rest>>
    BY Joined
  <2> QED
    BY <1>7, <2>2, <2>3
<1>9. Edits!AfterSong(c, r.row) = <<>> /\ <<>> \in Seq(SUBSET Edits!Rows)
  BY <1>1, <1>2, NextLocks
<1>10. Edits!Granted(c, r, <<>>)
  BY <1>1, <1>9
<1>11. /\ \A s \in edit[c].songs : r = SongRow(s) =>
              edit[c].seenSong[s] = song[s].version /\ song[s].status # "GONE"
       /\ \A a \in Shelves : r = ShareRow(a) \/ (r = AlbumRow(a) /\ edit[c].op \in {"album", "merge"})
              => sleeve[a].there
  BY <1>2, <1>3, RowsDiffer
<1>12. /\ edit'[c].op = edit[c].op /\ edit'[c].songs = edit[c].songs /\ edit'[c].to = edit[c].to
       /\ edit'[c].sources = edit[c].sources /\ edit'[c].emptied = edit[c].emptied
       /\ edit'[c].held = edit[c].held \union {r}
       /\ edit'[c].plan = Edits!Rest(c, r) \o <<>>
       /\ PlanFits(c)' => EditsInv'
  BY <1>1, <1>9, <1>10, <1>11, Grants
<1>13. edit'[c].plan = IF more = {} THEN <<>> ELSE <<rest>>
  <2>1. Edits!Rest(c, r) \in Seq(SUBSET Edits!Rows)
    BY <1>1, PlanRest
  <2>2. edit'[c].plan = Edits!Rest(c, r)
    BY <1>12, <2>1
  <2> HIDE DEF more, rest
  <2> QED
    BY <1>8, <2>2
<1>14. Edits!MergedSongs(c)' = Edits!MergedSongs(c) /\ Parties(c)' = Parties(c)
  BY <1>1, <1>12 DEF Edits!MergedSongs, Edits!Present, Parties
<1>15. Awaits(c, more)'
  <2>1. edit'[c].held = {AlbumRow(a) : a \in Parties(c)}
                        \union {SongRow(s) : s \in Edits!MergedSongs(c) \ more}
    <3>1. edit[c].held = {AlbumRow(a) : a \in Parties(c)}
                         \union {SongRow(s) : s \in Edits!MergedSongs(c) \ S}
      BY <1>5 DEF Awaits
    <3>2. {SongRow(s) : s \in Edits!MergedSongs(c) \ more}
             = {SongRow(s) : s \in Edits!MergedSongs(c) \ S} \union {r}
      BY <1>2, <1>7
    <3> HIDE DEF more
    <3> QED
      BY <1>12, <3>1, <3>2
  <2> HIDE DEF more
  <2> QED
    BY <1>13, <1>14, <2>1 DEF Awaits
<1>16. Merge(c)'
  <2>1. more \in SUBSET Edits!MergedSongs(c)'
    BY <1>14
  <2> HIDE DEF more
  <2> QED
    BY <1>15, <2>1 DEF Merge
<1>17. PlanFits(c)'
  BY <1>3, <1>12, <1>16 DEF PlanFits, Sweeps
<1> QED
  BY <1>12, <1>17

LEMMA SongLocks ==
    ASSUME EditsInv, NEW c \in Admins, NEW r \in Edits!Rows, Edits!LockSong(c, r)
    PROVE  EditsInv'
<1>1. r.row \in Songs
  BY RowKinds DEF Edits!LockSong
<1>2. CASE edit[c].op = "merge"
  BY <1>2, MergeLocksSong
<1>3. CASE edit[c].op # "merge" /\ Edits!MayChange(c, r.row)
  BY <1>1, <1>3, MayChangeSeen, SweepLocks, JourneyLocks
<1>4. CASE ~(edit[c].op = "merge" \/ Edits!MayChange(c, r.row))
  BY <1>4, EditGivesUp DEF Edits!LockSong
<1> QED
  BY <1>2, <1>3, <1>4

\* The new album of a track is locked by the reference to it.
LEMMA ReferenceLocks ==
    ASSUME EditsInv, NEW c \in Admins, NEW r \in Edits!Rows, Edits!LockReference(c, r)
    PROVE  EditsInv'
<1>1. /\ EditTypes /\ edit[c].plan # <<>> /\ r \in Head(edit[c].plan) /\ Edits!Blockers(c, r) = {}
      /\ r.kind = "share" /\ UNCHANGED <<song, sleeve, dropped, edits>>
  BY DEF Edits!LockReference, EditsInv
<1>2. r.row \in Shelves /\ r = ShareRow(r.row)
  BY <1>1, RowKinds
<1>3. CASE ~sleeve[r.row].there
  BY <1>1, <1>3, EditGivesUp DEF Edits!LockReference
<1>4. CASE sleeve[r.row].there
  <2>1. Edits!Granted(c, r, <<>>) /\ <<>> \in Seq(SUBSET Edits!Rows)
    BY <1>4 DEF Edits!LockReference
  <2>2. /\ Head(edit[c].plan) = edit[c].plan[1] /\ 1 \in 1..Len(edit[c].plan)
        /\ Edits!Rest(c, r) \in Seq(SUBSET Edits!Rows)
        /\ Head(edit[c].plan) = {r} => Edits!Rest(c, r) = Tail(edit[c].plan)
    BY <1>1, PlanRest
  <2>3. edit[c].op \in {"move", "delete"}
    <3>1. \A x : edit[c].plan[1] # {AlbumRow(x)} /\ edit[c].plan[1] # {SongRow(x)}
      BY <1>1, <1>2, <2>2, RowsDiffer
    <3>2. ~Sweep(c)
      BY <2>2, <3>1 DEF Sweep, Ascending
    <3>3. ~LocksAlbums(c)
      BY <2>2, <3>1 DEF LocksAlbums, Gathers
    <3>4. \A S : ~Awaits(c, S)
      <4> SUFFICES ASSUME NEW S, Awaits(c, S) PROVE FALSE
        OBVIOUS
      <4>1. edit[c].plan = <<{SongRow(s) : s \in S}>>
        BY <1>1 DEF Awaits
      <4>2. r \in {SongRow(s) : s \in S}
        BY <1>1, <4>1
      <4> QED
        BY <1>2, <4>2, RowsDiffer
    <3>5. edit[c].plan # <<{AlbumRow(edit[c].to)}>>
      BY <3>1
    <3>6. edit[c].op # "none"
      BY <1>1, NoEditTyped DEF EditsInv, PlanFits
    <3>7. edit[c].op # "album" /\ edit[c].op # "merge" /\ edit[c].op \notin Sweeps
      BY <1>1, <3>2, <3>3, <3>4, <3>5 DEF EditsInv, PlanFits, Merge
    <3> QED
      BY <1>1, <3>6, <3>7, EditTyped DEF Edits!Ops, Sweeps
  <2>4. PICK s \in Songs : edit[c].songs = {s} /\ Journey(c, s)
    BY <2>3 DEF EditsInv, PlanFits
  <2> DEFINE to == edit[c].to  old == song[s].album
  <2>5. /\ Travels(c, s) /\ to # None /\ edit[c].held = {SongRow(s)} /\ edit[c].emptied = {}
        /\ edit[c].plan = IF old = None THEN <<{ShareRow(to)}>> ELSE <<{ShareRow(to)}, {AlbumRow(old)}>>
    <3>1. \A x : edit[c].plan # <<{AlbumRow(x)}>> /\ edit[c].plan # <<{SongRow(x)}>>
      BY <1>1, <1>2, RowsDiffer
    <3> QED
      BY <1>1, <2>4, <3>1 DEF Journey
  <2>6. /\ r = ShareRow(to)
        /\ Edits!Rest(c, r) = IF old = None THEN <<>> ELSE <<{AlbumRow(old)}>>
    <3> DEFINE x == {ShareRow(to)}  y == {AlbumRow(old)}
    <3>1. edit[c].plan = IF old = None THEN <<x>> ELSE <<x, y>>
      BY <2>5
    <3> HIDE DEF x, y, to, old
    <3>2. Head(edit[c].plan) = x /\ Tail(edit[c].plan) = IF old = None THEN <<>> ELSE <<y>>
      <4>1. CASE old = None
        BY <3>1, <4>1
      <4>2. CASE old # None
        BY <3>1, <4>2
      <4> QED
        BY <4>1, <4>2
    <3> QED
      BY <1>1, <2>2, <3>2 DEF x, y
  <2>7. /\ \A t \in edit[c].songs : r = SongRow(t) =>
               edit[c].seenSong[t] = song[t].version /\ song[t].status # "GONE"
        /\ \A a \in Shelves : r = ShareRow(a) \/ (r = AlbumRow(a) /\ edit[c].op \in {"album", "merge"})
               => sleeve[a].there
    BY <1>2, <1>4, RowsDiffer
  <2>8. /\ edit'[c].op = edit[c].op /\ edit'[c].songs = edit[c].songs /\ edit'[c].to = edit[c].to
        /\ edit'[c].sources = edit[c].sources /\ edit'[c].emptied = edit[c].emptied
        /\ edit'[c].held = edit[c].held \union {r}
        /\ edit'[c].plan = Edits!Rest(c, r) \o <<>>
        /\ PlanFits(c)' => EditsInv'
    BY <1>1, <2>1, <2>7, Grants
  <2>9. /\ edit'[c].plan = IF old = None THEN <<>> ELSE <<{AlbumRow(old)}>>
        /\ edit'[c].held = {SongRow(s)} \union Shares(to)
    BY <2>2, <2>5, <2>6, <2>8 DEF Shares
  <2>10. song'[s].album = old /\ Travels(c, s)' /\ edit'[c].to = to
    BY <1>1, <2>5, <2>8 DEF Travels
  <2> HIDE DEF to, old
  <2>11. Journey(c, s)'
    <3>1. CASE old = None
      <4>1. edit'[c].held = {SongRow(s)} \union Shares(to) \union Takes(old)
        BY <2>9, <3>1 DEF Takes
      <4> QED
        BY <2>5, <2>8, <2>9, <2>10, <3>1, <4>1 DEF Journey
    <3>2. CASE old # None
      BY <2>5, <2>8, <2>9, <2>10, <3>2 DEF Journey
    <3> QED
      BY <3>1, <3>2
  <2>12. edit'[c].op = "delete" => edit'[c].to = None
    BY <2>3, <2>8 DEF EditsInv, PlanFits
  <2>13. PlanFits(c)'
    BY <2>3, <2>4, <2>8, <2>11, <2>12 DEF PlanFits, Sweeps
  <2> QED
    BY <2>8, <2>13
<1> QED
  BY <1>3, <1>4

\* Only an edit that sees the version of an album goes on once it has its row.
LEMMA AlbumLocksFacts ==
    ASSUME EditsInv, NEW c \in Admins, NEW r \in Edits!Rows, Edits!LockAlbum(c, r)
    PROVE  /\ EditTypes /\ edit[c].plan # <<>> /\ r \in Head(edit[c].plan) /\ Edits!Blockers(c, r) = {}
           /\ UNCHANGED <<song, sleeve, dropped, edits>>
           /\ r.row \in Shelves /\ r = AlbumRow(r.row)
           /\ Head(edit[c].plan) = edit[c].plan[1] /\ 1 \in 1..Len(edit[c].plan)
           /\ Len(edit[c].plan) \in Nat \ {0}
           /\ edit[c].op \in {"album", "merge", "move", "delete"}
<1>1. /\ EditTypes /\ edit[c].plan # <<>> /\ r \in Head(edit[c].plan) /\ Edits!Blockers(c, r) = {}
      /\ r.kind = "album" /\ UNCHANGED <<song, sleeve, dropped, edits>>
  BY DEF Edits!LockAlbum, EditsInv
<1>2. r.row \in Shelves /\ r = AlbumRow(r.row)
  BY <1>1, RowKinds
<1>3. /\ Head(edit[c].plan) = edit[c].plan[1] /\ 1 \in 1..Len(edit[c].plan)
      /\ Len(edit[c].plan) \in Nat \ {0}
  BY <1>1, PlanRest
<1>4. ~Sweep(c)
  BY <1>1, <1>2, <1>3, RowsDiffer DEF Sweep, Ascending
<1>5. edit[c].op # "none"
  BY <1>1, NoEditTyped DEF EditsInv, PlanFits
<1>6. edit[c].op \notin Sweeps
  BY <1>4 DEF EditsInv, PlanFits
<1>7. edit[c].op \in {"album", "merge", "move", "delete"}
  BY <1>1, <1>5, <1>6, EditTyped DEF Edits!Ops, Sweeps
<1> QED
  BY <1>1, <1>2, <1>3, <1>7

LEMMA AlbumLocksAlbum ==
    ASSUME EditsInv, NEW c \in Admins, NEW r \in Edits!Rows, Edits!LockAlbum(c, r),
           edit[c].op = "album"
    PROVE  EditsInv'
<1>1. /\ EditTypes /\ edit[c].plan # <<>> /\ r \in Head(edit[c].plan) /\ Edits!Blockers(c, r) = {}
      /\ UNCHANGED <<song, sleeve, dropped, edits>>
      /\ r.row \in Shelves /\ r = AlbumRow(r.row)
  BY AlbumLocksFacts
<1>2. Edits!GiveUp(c) \/ (sleeve[r.row].there /\ Edits!Granted(c, r, <<>>))
  BY DEF Edits!LockAlbum
<1>3. CASE Edits!GiveUp(c)
  BY <1>1, <1>3, EditGivesUp
<1>4. CASE sleeve[r.row].there /\ Edits!Granted(c, r, <<>>)
  <2>1. /\ edit[c].songs = {} /\ edit[c].emptied = {} /\ edit[c].sources = {} /\ edit[c].to \in Shelves
        /\ edit[c].plan = <<{AlbumRow(edit[c].to)}>> /\ edit[c].held = {}
    BY <1>1 DEF EditsInv, PlanFits
  <2>2. r = AlbumRow(edit[c].to) /\ Edits!Rest(c, r) = <<>> /\ <<>> \in Seq(SUBSET Edits!Rows)
        /\ <<>> \o <<>> = <<>>
    BY <1>1, <2>1, LastRow, RowKinds
  <2>3. /\ \A t \in edit[c].songs : r = SongRow(t) =>
               edit[c].seenSong[t] = song[t].version /\ song[t].status # "GONE"
        /\ \A a \in Shelves : r = ShareRow(a) \/ (r = AlbumRow(a) /\ edit[c].op \in {"album", "merge"})
               => sleeve[a].there
    BY <1>1, <1>4, <2>1, RowsDiffer
  <2>4. /\ edit'[c].op = edit[c].op /\ edit'[c].songs = edit[c].songs /\ edit'[c].to = edit[c].to
        /\ edit'[c].sources = edit[c].sources /\ edit'[c].emptied = edit[c].emptied
        /\ edit'[c].held = edit[c].held \union {r}
        /\ edit'[c].plan = Edits!Rest(c, r) \o <<>>
        /\ PlanFits(c)' => EditsInv'
    BY <1>1, <1>4, <2>2, <2>3, Grants
  <2>5. edit'[c].plan = <<>> /\ edit'[c].held = {AlbumRow(edit[c].to)}
    BY <2>1, <2>2, <2>4
  <2>6. PlanFits(c)'
    BY <2>1, <2>4, <2>5 DEF PlanFits, Sweeps
  <2> QED
    BY <2>4, <2>6
<1> QED
  BY <1>2, <1>3, <1>4

LEMMA AlbumLocksMerge ==
    ASSUME EditsInv, NEW c \in Admins, NEW r \in Edits!Rows, Edits!LockAlbum(c, r),
           edit[c].op = "merge"
    PROVE  EditsInv'
<1> DEFINE merged == Edits!MergedSongs(c)  plan == edit[c].plan
           more == IF Len(plan) = 1 THEN Edits!InAnyOrder(merged) ELSE <<>>
<1>1. /\ EditTypes /\ plan # <<>> /\ r \in Head(plan) /\ Edits!Blockers(c, r) = {}
      /\ UNCHANGED <<song, sleeve, dropped, edits>>
      /\ r.row \in Shelves /\ r = AlbumRow(r.row)
      /\ Head(plan) = plan[1] /\ 1 \in 1..Len(plan) /\ Len(plan) \in Nat \ {0}
  BY AlbumLocksFacts
<1>2. Edits!GiveUp(c) \/ (sleeve[r.row].there /\ Edits!Granted(c, r, more))
  BY DEF Edits!LockAlbum
<1>3. CASE Edits!GiveUp(c)
  BY <1>1, <1>3, EditGivesUp
<1>4. CASE sleeve[r.row].there /\ Edits!Granted(c, r, more)
  <2>1. /\ edit[c].songs = {} /\ edit[c].emptied = {} /\ edit[c].to \in Shelves \ edit[c].sources
        /\ Merge(c)
    BY DEF EditsInv, PlanFits
  <2>2. LocksAlbums(c)
    <3>1. ASSUME NEW S, Awaits(c, S) PROVE FALSE
      <4>1. edit[c].plan = <<{SongRow(s) : s \in S}>>
        BY <1>1, <3>1 DEF Awaits
      <4>2. r \in {SongRow(s) : s \in S}
        BY <1>1, <4>1
      <4> QED
        BY <1>1, <4>2, RowsDiffer
    <3> QED
      BY <2>1, <3>1 DEF Merge
  <2>3. /\ merged \subseteq Songs
        /\ Edits!InAnyOrder(merged) = IF merged = {} THEN <<>> ELSE <<{SongRow(s) : s \in merged}>>
    <3>1. merged \subseteq Songs
      BY DEF Edits!MergedSongs
    <3> HIDE DEF merged
    <3> QED
      BY <3>1, Zenon DEF Edits!InAnyOrder, Edits!Row, SongRow
  <2>4. more \in Seq(SUBSET Edits!Rows)
    <3> DEFINE rows == {SongRow(s) : s \in merged}  T == SUBSET Edits!Rows
    <3>1. rows \in T
      BY <2>3, RowKinds
    <3>2. more = <<>> \/ more = <<rows>>
      BY <2>3
    <3> HIDE DEF rows, more, T
    <3>3. <<>> \in Seq(T) /\ <<rows>> \in Seq(T)
      BY <3>1, Joined
    <3>4. more \in Seq(T)
      BY <3>2, <3>3, Zenon
    <3> QED
      BY <3>4 DEF T
  <2>5. /\ \A t \in edit[c].songs : r = SongRow(t) =>
               edit[c].seenSong[t] = song[t].version /\ song[t].status # "GONE"
        /\ \A a \in Shelves : r = ShareRow(a) \/ (r = AlbumRow(a) /\ edit[c].op \in {"album", "merge"})
               => sleeve[a].there
    BY <1>1, <1>4, <2>1, RowsDiffer
  <2>6. /\ edit'[c].op = edit[c].op /\ edit'[c].songs = edit[c].songs /\ edit'[c].to = edit[c].to
        /\ edit'[c].sources = edit[c].sources /\ edit'[c].emptied = edit[c].emptied
        /\ edit'[c].held = edit[c].held \union {r}
        /\ edit'[c].plan = Edits!Rest(c, r) \o more
        /\ PlanFits(c)' => EditsInv'
    <3> HIDE DEF more
    <3> QED
      BY <1>1, <1>4, <2>4, <2>5, Grants
  <2> DEFINE rest == Tail(plan)  held == edit[c].held
  <2>7. PICK a \in Parties(c) : plan[1] = {AlbumRow(a)}
    BY <1>1, <2>2 DEF LocksAlbums, Gathers
  <2>8. /\ r = AlbumRow(a) /\ Edits!Rest(c, r) = rest /\ rest \in Seq(SUBSET Edits!Rows)
        /\ Len(rest) = Len(plan) - 1
        /\ \A i \in 1..Len(plan) - 1 : rest[i] = plan[i + 1]
    BY <1>1, <2>7, PlanRest
  <2>9. /\ held \subseteq {AlbumRow(b) : b \in Parties(c)}
        /\ \A i \in 1..Len(plan) : \E b \in Parties(c) : plan[i] = {AlbumRow(b)}
        /\ \A b \in Parties(c) : AlbumRow(b) \in held \/ \E i \in 1..Len(plan) : plan[i] = {AlbumRow(b)}
    BY <2>2 DEF LocksAlbums, Gathers
  <2>10. Edits!MergedSongs(c)' = merged /\ Parties(c)' = Parties(c)
    BY <1>1, <2>6 DEF Edits!MergedSongs, Edits!Present, Parties
  <2>11. ASSUME NEW b \in Parties(c)
         PROVE  AlbumRow(b) \in held \union {r} \/ \E i \in 1..Len(rest) : rest[i] = {AlbumRow(b)}
    <3> SUFFICES ASSUME NEW i \in 1..Len(plan), plan[i] = {AlbumRow(b)}
                 PROVE  AlbumRow(b) \in held \union {r} \/ \E j \in 1..Len(rest) : rest[j] = {AlbumRow(b)}
      BY <2>9
    <3> HIDE DEF plan, rest, held
    <3>1. CASE i = 1
      BY <2>7, <2>8, <3>1
    <3>2. CASE i # 1
      <4>1. i - 1 \in 1..Len(plan) - 1 /\ (i - 1) + 1 = i
        BY <1>1, <3>2
      <4>2. i - 1 \in 1..Len(rest) /\ rest[i - 1] = plan[i]
        BY <1>1, <2>8, <4>1
      <4> QED
        BY <4>2
    <3> QED
      BY <3>1, <3>2
  <2>12. CASE Len(plan) = 1
    <3>1. rest = <<>>
      <4> HIDE DEF plan, rest
      <4> QED
        BY <2>8, <2>12
    <3>2. edit'[c].plan = IF merged = {} THEN <<>> ELSE <<{SongRow(s) : s \in merged}>>
      <4>1. more = IF merged = {} THEN <<>> ELSE <<{SongRow(s) : s \in merged}>>
        BY <2>3, <2>12
      <4>2. <<>> \o more = more
        <5> HIDE DEF more
        <5> QED
          BY <2>4
      <4> HIDE DEF more, merged, plan, rest
      <4> QED
        BY <2>6, <2>8, <3>1, <4>1, <4>2
    <3>3. edit'[c].held = {AlbumRow(b) : b \in Parties(c)}
      <4>1. \A b \in Parties(c) : AlbumRow(b) \in held \union {r}
        <5> HIDE DEF rest
        <5> QED
          BY <2>11, <3>1
      <4>2. edit'[c].held = held \union {r}
        BY <2>6
      <4> HIDE DEF held
      <4> QED
        BY <2>7, <2>8, <2>9, <4>1, <4>2
    <3> PICK S \in SUBSET Songs : S = merged
      BY <2>3
    <3>4. Awaits(c, S)'
      <4>1. edit'[c].held = {AlbumRow(b) : b \in Parties(c)} \union {SongRow(s) : s \in merged \ S}
        BY <3>3
      <4> HIDE DEF merged
      <4> QED
        BY <2>10, <3>2, <4>1 DEF Awaits
    <3>5. Merge(c)'
      <4>1. S \in SUBSET Edits!MergedSongs(c)'
        BY <2>10
      <4> HIDE DEF merged
      <4> QED
        BY <3>4, <4>1 DEF Merge
    <3>6. PlanFits(c)'
      BY <2>1, <2>6, <3>5 DEF PlanFits, Sweeps
    <3> QED
      BY <2>6, <3>6
  <2>13. CASE Len(plan) # 1
    <3>1. edit'[c].plan = rest /\ rest # <<>>
      <4>1. more = <<>>
        BY <2>13
      <4> HIDE DEF more, plan, rest
      <4> QED
        BY <1>1, <2>6, <2>8, <2>13, <4>1
    <3>2. \A i \in 1..Len(rest) : \E b \in Parties(c) : rest[i] = {AlbumRow(b)}
      <4> SUFFICES ASSUME NEW i \in 1..Len(rest) PROVE \E b \in Parties(c) : rest[i] = {AlbumRow(b)}
        OBVIOUS
      <4> HIDE DEF plan, rest
      <4>1. i \in 1..Len(plan) - 1 /\ i + 1 \in 1..Len(plan)
        BY <1>1, <2>8
      <4> QED
        BY <2>8, <2>9, <4>1
    <3>3. edit'[c].held = held \union {r} /\ held \union {r} \subseteq {AlbumRow(b) : b \in Parties(c)}
      <4>1. edit'[c].held = held \union {r}
        BY <2>6
      <4> HIDE DEF held
      <4> QED
        BY <2>7, <2>8, <2>9, <4>1
    <3>4. LocksAlbums(c)'
      <4>1. \A b \in Parties(c) :
               AlbumRow(b) \in held \union {r} \/ \E i \in 1..Len(rest) : rest[i] = {AlbumRow(b)}
        BY <2>11
      <4>2. Gathers(rest, held \union {r}, Parties(c))
        <5> HIDE DEF held, rest
        <5> QED
          BY <3>1, <3>2, <3>3, <4>1 DEF Gathers
      <4> HIDE DEF held, rest
      <4> QED
        BY <2>10, <3>1, <3>3, <4>2, Zenon DEF LocksAlbums
    <3>5. PlanFits(c)'
      BY <2>1, <2>6, <3>4 DEF PlanFits, Sweeps, Merge
    <3> QED
      BY <2>6, <3>5
  <2> QED
    BY <2>12, <2>13
<1> QED
  BY <1>2, <1>3, <1>4

\* The album a track leaves: it goes with its last track.
LEMMA AlbumLocksJourney ==
    ASSUME EditsInv, NEW c \in Admins, NEW r \in Edits!Rows, Edits!LockAlbum(c, r),
           edit[c].op \in {"move", "delete"}
    PROVE  EditsInv'
<1>1. /\ EditTypes /\ edit[c].plan # <<>> /\ r \in Head(edit[c].plan) /\ Edits!Blockers(c, r) = {}
      /\ UNCHANGED <<song, sleeve, dropped, edits>>
      /\ r.row \in Shelves /\ r = AlbumRow(r.row)
  BY AlbumLocksFacts
<1> DEFINE a == r.row  gone == IF sleeve[a].there /\ Edits!Empty(c, a) THEN {a} ELSE {}
           plan == Edits!Rest(c, r)
<1>2. edit' = [edit EXCEPT ![c].held = @ \union {r}, ![c].plan = plan, ![c].emptied = gone]
  BY Zenon DEF Edits!LockAlbum
<1>3. edit' = [edit EXCEPT ![c] = WithLock(c, r, plan, gone)]
  <2> HIDE DEF plan, gone
  <2> QED
    BY <1>2 DEF WithLock
<1>4. PICK s \in Songs : edit[c].songs = {s} /\ Journey(c, s)
  BY DEF EditsInv, PlanFits
<1> DEFINE to == edit[c].to
<1> PICK old \in Shelves \union {None} : old = song[s].album
  BY <1>1, SongTyped
<1>5. /\ Travels(c, s) /\ old # None /\ edit[c].held = {SongRow(s)} \union Shares(to)
      /\ edit[c].emptied = {} /\ edit[c].plan = <<{AlbumRow(old)}>>
  <2>1. \A x, p : edit[c].plan # <<{ShareRow(x)}>> /\ edit[c].plan # <<{ShareRow(x)}, p>>
                  /\ edit[c].plan # <<{SongRow(x)}>>
    BY <1>1, RowsDiffer
  <2> QED
    BY <1>1, <1>4, <2>1 DEF Journey
<1>6. r = AlbumRow(old) /\ a = old /\ plan = <<>>
  <2>1. AlbumRow(old) \in Edits!Rows
    BY <1>5, RowKinds
  <2> QED
    BY <1>1, <1>5, <2>1, LastRow, RowsDiffer
<1>7. song[s].status # "GONE" /\ sleeve[old].there
  <2>1. SongRow(s) \in edit[c].held /\ s \in edit[c].songs
    BY <1>4, <1>5
  <2>2. song[s].status # "GONE"
    BY <2>1 DEF EditsInv, LockedFits
  <2> QED
    BY <1>5, <2>2 DEF EditsInv, EditsWhole, Edits!NoTrackWithoutAlbum, Edits!Present
<1>8. gone = IF old # None /\ Edits!SongsOn(old) = {s} THEN {old} ELSE {}
  <2>1. s \in Edits!SongsOn(old)
    BY <1>7 DEF Edits!SongsOn, Edits!Present
  <2>2. Edits!Empty(c, a) <=> Edits!SongsOn(old) \ {s} = {}
    BY <1>4, <1>6 DEF Edits!Empty
  <2> HIDE DEF a
  <2> QED
    BY <1>5, <1>6, <1>7, <2>1, <2>2
<1>9. plan \in Seq(SUBSET Edits!Rows) /\ gone \in SUBSET Shelves
  BY <1>1, <1>6
<1>10. /\ \A t \in edit[c].songs : r = SongRow(t) =>
              edit[c].seenSong[t] = song[t].version /\ song[t].status # "GONE"
       /\ \A b \in Shelves : r = ShareRow(b) \/ (r = AlbumRow(b) /\ edit[c].op \in {"album", "merge"})
              => sleeve[b].there
  BY <1>1, RowsDiffer
<1>11. /\ edit'[c].op = edit[c].op /\ edit'[c].songs = edit[c].songs /\ edit'[c].to = edit[c].to
       /\ edit'[c].sources = edit[c].sources /\ edit'[c].emptied = gone
       /\ edit'[c].held = edit[c].held \union {r} /\ edit'[c].plan = plan
       /\ PlanFits(c)' => EditsInv'
  <2> HIDE DEF plan, gone
  <2> QED
    BY <1>1, <1>3, <1>9, <1>10, EditGrants
<1>12. Journey(c, s)'
  <2>1. song'[s].album = old /\ Travels(c, s)' /\ Edits!SongsOn(old)' = Edits!SongsOn(old)
    BY <1>1, <1>5, <1>11 DEF Travels, Edits!SongsOn, Edits!Present
  <2>2. edit'[c].held = {SongRow(s)} \union Shares(to) \union Takes(old)
    BY <1>5, <1>6, <1>11 DEF Takes
  <2>3. edit'[c].plan = <<>> /\ edit'[c].to = to
        /\ edit'[c].emptied = IF old # None /\ Edits!SongsOn(old) = {s} THEN {old} ELSE {}
    BY <1>6, <1>8, <1>11
  <2> HIDE DEF to
  <2>4. edit'[c].emptied = IF old # None /\ Edits!SongsOn(old)' = {s} THEN {old} ELSE {}
    BY <2>1, <2>3
  <2>5. Edits!SongsOn(song[s].album)' = Edits!SongsOn(old)'
    BY <2>1 DEF Edits!SongsOn, Edits!Present
  <2> QED
    BY <2>1, <2>2, <2>3, <2>4, <2>5 DEF Journey
<1>13. edit'[c].op = "delete" => edit'[c].to = None
  BY <1>11 DEF EditsInv, PlanFits
<1>14. PlanFits(c)'
  BY <1>4, <1>11, <1>12, <1>13 DEF PlanFits, Sweeps
<1> QED
  BY <1>11, <1>14

LEMMA AlbumLocks ==
    ASSUME EditsInv, NEW c \in Admins, NEW r \in Edits!Rows, Edits!LockAlbum(c, r)
    PROVE  EditsInv'
BY AlbumLocksFacts, AlbumLocksAlbum, AlbumLocksMerge, AlbumLocksJourney

-----------------------------------------------------------------------------
(* Requests commit.                                                          *)

LEMMA EditCommits ==
    ASSUME EditsInv, NEW c \in Admins, Edits!Commit(c), UnderLocks(c), EditsWhole',
           song' \in [Songs -> SongRecords], sleeve' \in [Shelves -> AlbumRecords],
           dropped' \subseteq Covers,
           \A s \in Songs : song'[s].version \in {song[s].version, song[s].version + 1},
           \A a \in Shelves : sleeve'[a].version \in {sleeve[a].version, sleeve[a].version + 1}
    PROVE  EditsInv'
<1>1. /\ EditTypes /\ edit' = [edit EXCEPT ![c] = Edits!NoEdit] /\ edits' = edits + 1 /\ edits < MaxEdits
      /\ edit'[c] = Edits!NoEdit /\ \A d \in Admins \ {c} : edit'[d] = edit[d]
  BY DEF Edits!Commit, Edits!GiveUp, EditsInv, EditTypes
<1>2. EditTypes'
  <2>1. edits' \in 0..MaxEdits /\ edits \in Nat
    BY <1>1, EditsAssumption DEF EditTypes
  <2>2. edit' \in [Admins -> EditRecords]
    BY <1>1, NoEditTyped DEF EditTypes
  <2>3. ASSUME NEW s \in Songs PROVE song'[s].version \in 1..edits' + 1
    BY <1>1, <2>1, <2>3, SongTyped
  <2>4. ASSUME NEW a \in Shelves PROVE sleeve'[a].version \in 1..edits' + 1
    BY <1>1, <2>1, <2>4, AlbumTyped
  <2> QED
    BY <2>1, <2>2, <2>3, <2>4 DEF EditTypes
<1>3. Apart'
  <2>1. edit'[c].held = {} /\ \A r : ~Excludes({}, r)
    BY <1>1, NoEditTyped DEF Excludes
  <2> SUFFICES ASSUME NEW d \in Admins, NEW e \in Admins, d # e, NEW r \in edit'[d].held,
                      Excludes(edit'[e].held, r)
               PROVE  FALSE
    BY BlocksExclude, Zenon DEF Apart
  <2>2. d # c /\ e # c
    BY <2>1
  <2> QED
    BY <1>1, <2>2, BlocksExclude DEF EditsInv, Apart
<1>4. \A d \in Admins : LockedFits(d)' /\ PlanFits(d)'
  BY <1>1, NothingFits, OthersKeep
<1> QED
  BY <1>2, <1>3, <1>4 DEF EditsInv

\* Edits of tracks that stay where they are.
LEMMA SweepCommits ==
    ASSUME EditsInv, NEW c \in Admins, Edits!Commit(c), edit[c].op \in Sweeps, edit[c].plan = <<>>,
           UNCHANGED <<sleeve, dropped>>, song' \in [Songs -> SongRecords],
           \A s \in Songs \ edit[c].songs : song'[s] = song[s],
           \A s \in edit[c].songs :
              /\ song'[s].album = song[s].album /\ song'[s].version = song[s].version + 1
              /\ song'[s].status = "GONE" <=> song[s].status = "GONE"
    PROVE  EditsInv'
<1>1. EditTypes /\ EditsWhole /\ edit[c].songs \subseteq Songs
  BY EditTyped DEF EditsInv
<1>2. \A s \in edit[c].songs : SongRow(s) \in edit[c].held
  BY DEF EditsInv, PlanFits, Sweep, Ascending
<1>3. \A a : Edits!SongsOn(a)' = Edits!SongsOn(a)
  BY <1>1 DEF Edits!SongsOn, Edits!Present
<1>4. UnderLocks(c)
  BY <1>2, <1>3 DEF UnderLocks
<1>5. EditsWhole'
  <2>1. \A s \in Songs : song'[s].album = song[s].album /\ (Edits!Present(s)' <=> Edits!Present(s))
    BY <1>1 DEF Edits!Present
  <2>2. Edits!NoEmptyAlbum'
    BY <1>1, <1>3 DEF EditsWhole, Edits!NoEmptyAlbum
  <2>3. Edits!NoTrackWithoutAlbum'
    BY <1>1, <2>1 DEF EditsWhole, Edits!NoTrackWithoutAlbum
  <2>4. Edits!ShownCoverKept'
    BY <1>1 DEF EditsWhole, Edits!ShownCoverKept
  <2> QED
    BY <2>2, <2>3, <2>4 DEF EditsWhole
<1>6. sleeve' \in [Shelves -> AlbumRecords] /\ dropped' \subseteq Covers
      /\ \A a \in Shelves : sleeve'[a].version = sleeve[a].version
      /\ \A s \in Songs : song'[s].version \in {song[s].version, song[s].version + 1}
  BY <1>1 DEF EditTypes
<1> QED
  BY <1>4, <1>5, <1>6, EditCommits

\* What edits make of the row of a track.
Track(status, a, n) == [status |-> status, album |-> a, version |-> n]

LEMMA TrackFields ==
    \A status, a, n : /\ Track(status, a, n).status = status /\ Track(status, a, n).album = a
                     /\ Track(status, a, n).version = n
BY DEF Track

LEMMA TrackTyped ==
    ASSUME NEW x \in SongRecords, NEW status \in {"READY", "ARCHIVED", "GONE"},
           NEW a \in Shelves \union {None}
    PROVE  Track(status, a, x.version + 1) \in SongRecords
BY DEF SongRecords, Track

LEMMA TrackChanged ==
    ASSUME NEW x \in SongRecords, NEW status, NEW a
    PROVE  /\ [x EXCEPT !.status = status, !.version = @ + 1] = Track(status, x.album, x.version + 1)
           /\ [x EXCEPT !.album = a, !.version = @ + 1] = Track(x.status, a, x.version + 1)
           /\ [x EXCEPT !.version = @ + 1] = Track(x.status, x.album, x.version + 1)
<1> DEFINE n == x.version + 1
<1>1. x = [status |-> x.status, album |-> x.album, version |-> x.version]
  BY DEF SongRecords
<1> HIDE DEF n
<1>2. [x EXCEPT !.status = status, !.version = n] = Track(status, x.album, n)
  <2> DEFINE y == [x EXCEPT !.status = status]
  <2>1. y = Track(status, x.album, x.version)
    BY <1>1 DEF Track
  <2> HIDE DEF y
  <2>2. [y EXCEPT !.version = n] = Track(status, x.album, n)
    BY <2>1 DEF Track
  <2> QED
    BY <2>2 DEF y
<1>3. [x EXCEPT !.album = a, !.version = n] = Track(x.status, a, n)
  <2> DEFINE y == [x EXCEPT !.album = a]
  <2>1. y = Track(x.status, a, x.version)
    BY <1>1 DEF Track
  <2> HIDE DEF y
  <2>2. [y EXCEPT !.version = n] = Track(x.status, a, n)
    BY <2>1 DEF Track
  <2> QED
    BY <2>2 DEF y
<1>4. [x EXCEPT !.version = n] = Track(x.status, x.album, n)
  BY <1>1 DEF Track
<1> QED
  BY <1>2, <1>3, <1>4, Zenon DEF n

LEMMA TracksCommit ==
    ASSUME EditsInv, NEW c \in Admins,
           \/ Edits!CommitArchive(c) \/ Edits!CommitRestore(c)
           \/ Edits!CommitPublish(c) \/ Edits!CommitLyrics(c)
    PROVE  EditsInv'
<1>1. /\ EditTypes /\ edit[c].songs \subseteq Songs /\ Edits!Commit(c) /\ edit[c].op \in Sweeps
      /\ edit[c].plan = <<>> /\ UNCHANGED <<sleeve, dropped>>
  BY EditTyped DEF EditsInv, Edits!CommitArchive, Edits!CommitRestore, Edits!CommitPublish,
         Edits!CommitLyrics, Edits!Ready, Sweeps
<1>2. \A s \in edit[c].songs : song[s].status # "GONE"
  BY <1>1 DEF EditsInv, PlanFits, Sweep, Ascending, LockedFits
<1>3. \A s \in Songs : song[s] \in SongRecords
  BY <1>1, SongTyped
<1>4. /\ song' = [s \in Songs |-> song'[s]]
      /\ \A s \in Songs \ edit[c].songs : song'[s] = song[s]
      /\ \A s \in edit[c].songs : \E status \in {"READY", "ARCHIVED"} :
            song'[s] = Track(status, song[s].album, song[s].version + 1)
  <2>1. CASE Edits!CommitLyrics(c)
    <3>1. /\ song' = [s \in Songs |-> song'[s]]
          /\ \A s \in Songs \ edit[c].songs : song'[s] = song[s]
      BY <2>1 DEF Edits!CommitLyrics
    <3>2. ASSUME NEW s \in edit[c].songs
          PROVE  song'[s] = Track(song[s].status, song[s].album, song[s].version + 1)
      <4>1. song'[s] = [song[s] EXCEPT !.version = @ + 1]
        BY <1>1, <2>1 DEF Edits!CommitLyrics
      <4>2. song[s] \in SongRecords
        BY <1>1, <1>3
      <4> QED
        BY <4>1, <4>2, TrackChanged, Zenon
    <3> QED
      BY <1>1, <1>2, <1>3, <3>1, <3>2 DEF SongRecords
  <2>2. CASE ~Edits!CommitLyrics(c)
    <3>1. PICK status \in {"READY", "ARCHIVED"} : song' = Edits!Changed(c, status)
      BY <2>2 DEF Edits!CommitArchive, Edits!CommitRestore, Edits!CommitPublish
    <3>2. /\ song' = [s \in Songs |-> song'[s]]
          /\ \A s \in Songs \ edit[c].songs : song'[s] = song[s]
      BY <3>1 DEF Edits!Changed
    <3>3. ASSUME NEW s \in edit[c].songs
          PROVE  song'[s] = Track(status, song[s].album, song[s].version + 1)
      <4>1. song'[s] = [song[s] EXCEPT !.status = status, !.version = @ + 1]
        BY <1>1, <3>1 DEF Edits!Changed
      <4>2. song[s] \in SongRecords
        BY <1>1, <1>3
      <4> QED
        BY <4>1, <4>2, TrackChanged, Zenon
    <3> QED
      BY <3>2, <3>3
  <2> QED
    BY <2>1, <2>2
<1>5. ASSUME NEW s \in edit[c].songs
      PROVE  /\ song'[s] \in SongRecords
             /\ song'[s].album = song[s].album /\ song'[s].version = song[s].version + 1
             /\ song'[s].status = "GONE" <=> song[s].status = "GONE"
  <2>1. PICK status \in {"READY", "ARCHIVED"} : song'[s] = Track(status, song[s].album, song[s].version + 1)
    BY <1>4
  <2>2. song[s] \in SongRecords /\ status \in {"READY", "ARCHIVED", "GONE"} /\ status # "GONE"
    BY <1>1, <1>3
  <2>3. song'[s] \in SongRecords
    <3>1. song[s].album \in Shelves \union {None}
      BY <2>2 DEF SongRecords
    <3> QED
      BY <2>1, <2>2, <3>1, TrackTyped, Zenon
  <2> QED
    BY <1>2, <2>1, <2>2, <2>3, TrackFields
<1>6. song' \in [Songs -> SongRecords]
  <2>1. \A s \in Songs : song'[s] \in SongRecords
    BY <1>3, <1>4, <1>5
  <2> QED
    BY <1>4, <2>1
<1> QED
  BY <1>1, <1>4, <1>5, <1>6, SweepCommits

\* An album is edited.
LEMMA AlbumCommits ==
    ASSUME EditsInv, NEW c \in Admins, Edits!CommitAlbum(c)
    PROVE  EditsInv'
<1> DEFINE to == edit[c].to
<1>1. /\ EditTypes /\ EditsWhole /\ Edits!Commit(c) /\ to \in Shelves /\ edit[c].held = {AlbumRow(to)}
      /\ UNCHANGED <<song, dropped>> /\ sleeve' = [sleeve EXCEPT ![to].version = @ + 1]
  BY DEF EditsInv, PlanFits, Edits!CommitAlbum, Edits!Ready
<1> HIDE DEF to
<1>2. /\ sleeve' \in [Shelves -> AlbumRecords]
      /\ \A a \in Shelves : a # to => sleeve'[a] = sleeve[a]
      /\ \A a \in Shelves : /\ sleeve'[a].there = sleeve[a].there /\ sleeve'[a].cover = sleeve[a].cover
                            /\ sleeve'[a].version \in {sleeve[a].version, sleeve[a].version + 1}
  <2> DEFINE x == [sleeve[to] EXCEPT !.version = @ + 1]
  <2>1. /\ x \in AlbumRecords /\ x.there = sleeve[to].there /\ x.cover = sleeve[to].cover
        /\ x.version = sleeve[to].version + 1
    BY <1>1, AlbumTyped DEF AlbumRecords
  <2>2. sleeve' = [sleeve EXCEPT ![to] = x] /\ sleeve \in [Shelves -> AlbumRecords]
    BY <1>1 DEF EditTypes
  <2> HIDE DEF x
  <2> QED
    BY <1>1, <2>1, <2>2
<1>3. \A a : Edits!SongsOn(a)' = Edits!SongsOn(a)
  BY <1>1 DEF Edits!SongsOn, Edits!Present
<1>4. UnderLocks(c)
  BY <1>1, <1>2, <1>3 DEF UnderLocks
<1>5. EditsWhole'
  <2>1. Edits!NoEmptyAlbum'
    BY <1>1, <1>2, <1>3 DEF EditsWhole, Edits!NoEmptyAlbum
  <2>2. Edits!NoTrackWithoutAlbum'
    <3> SUFFICES ASSUME NEW s \in Songs, song'[s].status # "GONE", song'[s].album # None
                 PROVE  sleeve'[song'[s].album].there
      BY DEF Edits!NoTrackWithoutAlbum, Edits!Present
    <3>1. song[s].album \in Shelves /\ sleeve[song[s].album].there /\ song'[s] = song[s]
      BY <1>1, SongTyped DEF EditsWhole, Edits!NoTrackWithoutAlbum, Edits!Present
    <3> QED
      BY <1>2, <3>1
  <2>3. Edits!ShownCoverKept'
    BY <1>1, <1>2 DEF EditsWhole, Edits!ShownCoverKept
  <2> QED
    BY <2>1, <2>2, <2>3 DEF EditsWhole
<1>6. song' \in [Songs -> SongRecords] /\ dropped' \subseteq Covers
      /\ \A s \in Songs : song'[s].version = song[s].version
  BY <1>1 DEF EditTypes
<1> QED
  BY <1>1, <1>2, <1>4, <1>5, <1>6, EditCommits

\* Albums are dropped, and the pictures that no album shows any longer.
LEMMA AlbumsDropped ==
    ASSUME EditTypes, NEW S, NEW albums, albums = Edits!deleteAlbumIfEmpty(S)
    PROVE  /\ albums \in [Shelves -> AlbumRecords]
           /\ \A a \in Shelves :
                 /\ albums[a].there <=> sleeve[a].there /\ a \notin S
                 /\ albums[a].cover = sleeve[a].cover /\ albums[a].version = sleeve[a].version
                 /\ a \notin S => albums[a] = sleeve[a]
<1>1. /\ albums = [a \in Shelves |-> albums[a]]
      /\ \A a \in Shelves : albums[a] = IF a \in S THEN [sleeve[a] EXCEPT !.there = FALSE] ELSE sleeve[a]
  BY DEF Edits!deleteAlbumIfEmpty
<1>2. ASSUME NEW a \in Shelves
      PROVE  /\ albums[a] \in AlbumRecords
             /\ albums[a].there <=> sleeve[a].there /\ a \notin S
             /\ albums[a].cover = sleeve[a].cover /\ albums[a].version = sleeve[a].version
             /\ a \notin S => albums[a] = sleeve[a]
  <2>1. sleeve[a] \in AlbumRecords
    BY AlbumTyped
  <2>2. CASE a \in S
    <3> DEFINE x == [sleeve[a] EXCEPT !.there = FALSE]
    <3>1. x \in AlbumRecords /\ ~x.there /\ x.cover = sleeve[a].cover /\ x.version = sleeve[a].version
      BY <2>1 DEF AlbumRecords
    <3>2. albums[a] = x
      BY <1>1, <2>2
    <3> HIDE DEF x
    <3> QED
      BY <2>2, <3>1, <3>2
  <2>3. CASE a \notin S
    BY <1>1, <2>1, <2>3
  <2> QED
    BY <2>2, <2>3
<1> QED
  BY <1>1, <1>2

LEMMA CoversDropped ==
    ASSUME EditTypes, NEW covers \in SUBSET (Covers \union {None}),
           dropped' = dropped \union Edits!scheduleArtworkCleanup(covers, sleeve'),
           \A a \in Shelves : sleeve'[a].there /\ sleeve'[a].cover # None => sleeve'[a].cover \notin dropped
    PROVE  dropped' \subseteq Covers /\ Edits!ShownCoverKept'
<1>1. dropped' = dropped \union {k \in covers \ {None} :
                                    \A a \in Shelves : sleeve'[a].there => sleeve'[a].cover # k}
  BY DEF Edits!scheduleArtworkCleanup
<1>2. dropped \subseteq Covers
  BY DEF EditTypes
<1>3. Edits!ShownCoverKept'
  BY <1>1 DEF Edits!ShownCoverKept
<1> QED
  BY <1>1, <1>2, <1>3

\* A track that leaves its album, for another one or for good.
LEMMA JourneyCommits ==
    ASSUME EditsInv, NEW c \in Admins, NEW s \in Songs, Edits!Commit(c), Edits!DropEmptied(c),
           edit[c].op \in {"move", "delete"}, edit[c].plan = <<>>, edit[c].songs = {s}, Journey(c, s),
           song' \in [Songs -> SongRecords], \A t \in Songs \ {s} : song'[t] = song[t],
           song'[s].version = song[s].version + 1,
           edit[c].op = "move" => song'[s].status = song[s].status /\ song'[s].album = edit[c].to,
           edit[c].op = "delete" => song'[s].status = "GONE"
    PROVE  EditsInv'
<1> DEFINE to == edit[c].to  old == song[s].album  gone == edit[c].emptied  held == edit[c].held
<1>1. /\ EditTypes /\ to \in Shelves \union {None} /\ old \in Shelves \union {None} /\ None \notin Shelves
      /\ gone \subseteq Shelves /\ (edit[c].op = "delete" => to = None)
  BY EditTyped, SongTyped, EditsAssumption DEF EditsInv, PlanFits
<1>2. SongRow(s) \in held
  BY DEF Journey
<1>3. song[s].status # "GONE"
  BY <1>2 DEF EditsInv, LockedFits
<1>4. \/ ~Travels(c, s) /\ gone = {}
      \/ /\ Travels(c, s) /\ held = {SongRow(s)} \union Shares(to) \union Takes(old)
         /\ gone = IF old # None /\ Edits!SongsOn(old) = {s} THEN {old} ELSE {}
  BY DEF Journey
<1>5. Travels(c, s) <=> edit[c].op = "delete" \/ to # old
  BY DEF Travels
<1>6. /\ sleeve' \in [Shelves -> AlbumRecords]
      /\ \A a \in Shelves :
            /\ sleeve'[a].there <=> sleeve[a].there /\ a \notin gone
            /\ sleeve'[a].cover = sleeve[a].cover /\ sleeve'[a].version = sleeve[a].version
            /\ a \notin gone => sleeve'[a] = sleeve[a]
  BY <1>1, AlbumsDropped DEF Edits!DropEmptied
<1>7. \A a : Edits!SongsOn(a) = {t \in Songs : song[t].status # "GONE" /\ song[t].album = a}
      /\ Edits!SongsOn(a)' = {t \in Songs : song'[t].status # "GONE" /\ song'[t].album = a}
  BY DEF Edits!SongsOn, Edits!Present
<1>8. \A a \in Shelves : Edits!SongsOn(a)' = IF a = to THEN Edits!SongsOn(a) \union {s}
                                             ELSE Edits!SongsOn(a) \ {s}
  <2> SUFFICES ASSUME NEW a \in Shelves
               PROVE  Edits!SongsOn(a)' = IF a = to THEN Edits!SongsOn(a) \union {s}
                                          ELSE Edits!SongsOn(a) \ {s}
    OBVIOUS
  <2>1. s \in Edits!SongsOn(a)' <=> a = to
    <3>1. CASE edit[c].op = "move"
      BY <1>1, <1>3, <1>7, <3>1
    <3>2. CASE edit[c].op = "delete"
      BY <1>1, <1>7, <3>2
    <3> QED
      BY <3>1, <3>2
  <2>2. \A t \in Songs \ {s} : t \in Edits!SongsOn(a)' <=> t \in Edits!SongsOn(a)
    BY <1>7
  <2>3. Edits!SongsOn(a) \subseteq Songs /\ Edits!SongsOn(a)' \subseteq Songs
    BY <1>7
  <2> QED
    BY <2>1, <2>2, <2>3
<1>9. \A a \in Shelves : s \in Edits!SongsOn(a) <=> a = old
  BY <1>3, <1>7
<1> HIDE DEF to, old, gone, held
<1>10. \A a \in Shelves : a \in gone => a = old /\ Edits!SongsOn(a) = {s} /\ AlbumRow(a) \in held /\ a # to
  <2> SUFFICES ASSUME NEW a \in Shelves, a \in gone
               PROVE  a = old /\ Edits!SongsOn(a) = {s} /\ AlbumRow(a) \in held /\ a # to
    OBVIOUS
  <2>1. /\ Travels(c, s) /\ held = {SongRow(s)} \union Shares(to) \union Takes(old)
        /\ old # None /\ Edits!SongsOn(old) = {s} /\ gone = {old}
    BY <1>4
  <2>2. a = old /\ AlbumRow(old) \in held
    BY <2>1 DEF Takes
  <2>3. old # to
    BY <1>1, <1>5, <2>1
  <2> QED
    BY <2>1, <2>2, <2>3
<1>11. UnderLocks(c)
  <2>1. \A a \in Shelves : \/ Edits!SongsOn(a)' = Edits!SongsOn(a)
                           \/ AlbumRow(a) \in held \/ ShareRow(a) \in held
    <3> SUFFICES ASSUME NEW a \in Shelves, Edits!SongsOn(a)' # Edits!SongsOn(a)
                 PROVE  AlbumRow(a) \in held \/ ShareRow(a) \in held
      OBVIOUS
    <3> DEFINE on == Edits!SongsOn(a)
    <3>0. (s \in on => on \union {s} = on) /\ (s \notin on => on \ {s} = on) /\ (s \in on <=> a = old)
      BY <1>9
    <3>1. (a = to /\ a # old) \/ (a # to /\ a = old)
      <4>1. CASE a = to
        <5>1. Edits!SongsOn(a)' = on \union {s}
          BY <1>8, <4>1
        <5> QED
          BY <3>0, <4>1, <5>1, Zenon
      <4>2. CASE a # to
        <5>1. Edits!SongsOn(a)' = on \ {s}
          BY <1>8, <4>2
        <5> QED
          BY <3>0, <4>2, <5>1, Zenon
      <4> QED
        BY <4>1, <4>2
    <3>2. held = {SongRow(s)} \union Shares(to) \union Takes(old)
      BY <1>4, <1>5, <3>1
    <3> QED
      BY <1>1, <3>1, <3>2 DEF Shares, Takes
  <2> QED
    BY <1>2, <1>6, <1>10, <2>1 DEF UnderLocks, held
<1>12. Edits!NoEmptyAlbum'
  <2> SUFFICES ASSUME NEW a \in Shelves, sleeve'[a].there PROVE Edits!SongsOn(a)' # {}
    BY DEF Edits!NoEmptyAlbum
  <2>1. sleeve[a].there /\ a \notin gone /\ Edits!SongsOn(a) # {}
    BY <1>6 DEF EditsInv, EditsWhole, Edits!NoEmptyAlbum
  <2>2. CASE a = to
    BY <1>8, <2>2
  <2>3. CASE a # to
    <3> SUFFICES ASSUME Edits!SongsOn(a) \ {s} = {} PROVE FALSE
      BY <1>8, <2>3
    <3>1. Edits!SongsOn(a) = {s} /\ a = old
      BY <1>9, <2>1
    <3>2. old # None /\ Travels(c, s)
      BY <1>1, <1>5, <2>3, <3>1
    <3>3. gone = {old}
      BY <1>4, <3>1, <3>2
    <3> QED
      BY <2>1, <3>1, <3>3
  <2> QED
    BY <2>2, <2>3
<1>13. Edits!NoTrackWithoutAlbum'
  <2> SUFFICES ASSUME NEW t \in Songs, song'[t].status # "GONE", song'[t].album # None
               PROVE  sleeve'[song'[t].album].there
    BY DEF Edits!NoTrackWithoutAlbum, Edits!Present
  <2>0. \A q \in Songs : song[q].status # "GONE" /\ song[q].album # None =>
            song[q].album \in Shelves /\ sleeve[song[q].album].there
    BY <1>1, SongTyped DEF EditsInv, EditsWhole, Edits!NoTrackWithoutAlbum, Edits!Present
  <2>1. CASE t = s
    <3>1. edit[c].op = "move" /\ song'[s].album = to /\ to \in Shelves
      BY <1>1, <2>1 DEF to
    <3>2. sleeve[to].there
      <4>1. CASE to = old
        BY <1>1, <1>3, <2>0, <3>1, <4>1 DEF old
      <4>2. CASE to # old
        <5>1. ShareRow(to) \in held
          BY <1>1, <1>4, <1>5, <3>1, <4>2 DEF Shares
        <5> QED
          BY <3>1, <5>1 DEF EditsInv, LockedFits, held
      <4> QED
        BY <4>1, <4>2
    <3> QED
      BY <1>6, <1>10, <2>1, <3>1, <3>2
  <2>2. CASE t # s
    <3>1. song'[t] = song[t] /\ song[t].album \in Shelves /\ sleeve[song[t].album].there
      BY <2>0, <2>2
    <3>2. t \in Edits!SongsOn(song[t].album)
      BY <1>7, <3>1
    <3>3. song[t].album \notin gone
      BY <1>10, <2>2, <3>1, <3>2
    <3> QED
      BY <1>6, <3>1, <3>3
  <2> QED
    BY <2>1, <2>2
<1>14. dropped' \subseteq Covers /\ Edits!ShownCoverKept'
  <2> DEFINE covers == {sleeve[a].cover : a \in gone}
  <2>1. covers \in SUBSET (Covers \union {None})
    BY <1>1, AlbumTyped
  <2>2. dropped' = dropped \union Edits!scheduleArtworkCleanup(covers, sleeve')
    BY DEF Edits!DropEmptied, gone
  <2>3. \A a \in Shelves : sleeve'[a].there /\ sleeve'[a].cover # None => sleeve'[a].cover \notin dropped
    BY <1>6 DEF EditsInv, EditsWhole, Edits!ShownCoverKept
  <2> HIDE DEF covers
  <2> QED
    BY <1>1, <2>1, <2>2, <2>3, CoversDropped
<1>15. /\ \A t \in Songs : song'[t].version \in {song[t].version, song[t].version + 1}
       /\ \A a \in Shelves : sleeve'[a].version \in {sleeve[a].version, sleeve[a].version + 1}
  BY <1>6
<1>16. EditsWhole'
  BY <1>12, <1>13, <1>14 DEF EditsWhole
<1> QED
  BY <1>6, <1>11, <1>14, <1>15, <1>16, EditCommits

LEMMA MoveCommits ==
    ASSUME EditsInv, NEW c \in Admins, Edits!CommitMove(c) \/ Edits!CommitDelete(c)
    PROVE  EditsInv'
<1>1. /\ EditTypes /\ edit[c].op \in {"move", "delete"} /\ edit[c].plan = <<>>
      /\ Edits!Commit(c) /\ Edits!DropEmptied(c)
      /\ edit[c].op = "move" => Edits!CommitMove(c)
      /\ edit[c].op = "delete" => Edits!CommitDelete(c)
  BY DEF EditsInv, Edits!CommitMove, Edits!CommitDelete, Edits!Ready
<1>2. PICK s \in Songs : edit[c].songs = {s} /\ Journey(c, s)
  BY <1>1 DEF EditsInv, PlanFits
<1>3. song[s] \in SongRecords /\ song \in [Songs -> SongRecords] /\ edit[c].to \in Shelves \union {None}
  BY <1>1, SongTyped, EditTyped DEF EditTypes
<1>4. PICK status \in {"READY", "ARCHIVED", "GONE"}, a \in Shelves \union {None} :
         /\ song'[s] = Track(status, a, song[s].version + 1)
         /\ edit[c].op = "move" => status = song[s].status /\ a = edit[c].to
         /\ edit[c].op = "delete" => status = "GONE"
         /\ song' = [t \in Songs |-> song'[t]] /\ \A t \in Songs \ {s} : song'[t] = song[t]
  <2>1. CASE edit[c].op = "move"
    <3>1. /\ song'[s] = [song[s] EXCEPT !.album = edit[c].to, !.version = @ + 1]
          /\ song' = [t \in Songs |-> song'[t]] /\ \A t \in Songs \ {s} : song'[t] = song[t]
      BY <1>1, <1>2, <2>1 DEF Edits!CommitMove
    <3>2. song'[s] = Track(song[s].status, edit[c].to, song[s].version + 1)
      BY <1>3, <3>1, TrackChanged, Zenon
    <3>3. song[s].status \in {"READY", "ARCHIVED", "GONE"}
      BY <1>3 DEF SongRecords
    <3> QED
      BY <1>3, <2>1, <3>1, <3>2, <3>3
  <2>2. CASE edit[c].op = "delete"
    <3>1. /\ song'[s] = [song[s] EXCEPT !.status = "GONE", !.version = @ + 1]
          /\ song' = [t \in Songs |-> song'[t]] /\ \A t \in Songs \ {s} : song'[t] = song[t]
      BY <1>1, <1>2, <2>2 DEF Edits!CommitDelete, Edits!Changed
    <3>2. song'[s] = Track("GONE", song[s].album, song[s].version + 1)
      BY <1>3, <3>1, TrackChanged, Zenon
    <3>3. song[s].album \in Shelves \union {None}
      BY <1>3 DEF SongRecords
    <3> QED
      BY <2>2, <3>1, <3>2, <3>3
  <2> QED
    BY <1>1, <2>1, <2>2
<1>5. /\ song'[s] \in SongRecords /\ song'[s].version = song[s].version + 1
      /\ song'[s].status = status /\ song'[s].album = a
  <2>1. Track(status, a, song[s].version + 1) \in SongRecords
    BY <1>3, TrackTyped, Zenon
  <2>2. song'[s] = Track(status, a, song[s].version + 1)
    BY <1>4
  <2>3. song'[s] \in SongRecords
    BY <2>1, <2>2
  <2>4. song'[s].version = song[s].version + 1 /\ song'[s].status = status /\ song'[s].album = a
    BY <2>2 DEF Track
  <2> QED
    BY <2>3, <2>4
<1>6. song' \in [Songs -> SongRecords]
  <2>1. \A t \in Songs : song'[t] \in SongRecords
    BY <1>3, <1>4, <1>5
  <2> QED
    BY <1>4, <2>1
<1>7. /\ \A t \in Songs \ {s} : song'[t] = song[t]
      /\ edit[c].op = "move" => song'[s].status = song[s].status /\ song'[s].album = edit[c].to
      /\ edit[c].op = "delete" => song'[s].status = "GONE"
  BY <1>4, <1>5
<1> QED
  BY <1>1, <1>2, <1>5, <1>6, <1>7, JourneyCommits

\* Albums are merged: their tracks move to one of them, which stays.
LEMMA MergeCommits ==
    ASSUME EditsInv, NEW c \in Admins, NEW coverOf \in Shelves \union {None},
           Edits!CommitMerge(c, coverOf)
    PROVE  EditsInv'
<1> PICK to \in Shelves \union {None}, sources \in SUBSET Shelves : to = edit[c].to /\ sources = edit[c].sources
  BY EditTyped DEF EditsInv
<1> PICK merged \in SUBSET Songs : merged = Edits!MergedSongs(c)
  BY DEF Edits!MergedSongs
<1> DEFINE held == edit[c].held
           moved == {r.row : r \in {q \in held : q.kind = "song"}}
           cover == IF coverOf = None THEN None ELSE sleeve[coverOf].cover
           left == Edits!deleteAlbumIfEmpty(sources)
<1>1. /\ EditTypes /\ edit[c].op = "merge" /\ edit[c].plan = <<>> /\ Edits!Commit(c)
      /\ coverOf \in sources \union {to, None}
      /\ song' = [s \in Songs |-> IF s \in moved
                     THEN [song[s] EXCEPT !.album = to, !.version = @ + 1] ELSE song[s]]
      /\ sleeve' = [left EXCEPT ![to].cover = cover, ![to].version = @ + 1]
      /\ dropped' = dropped \union
            Edits!scheduleArtworkCleanup({sleeve[a].cover : a \in sources \union {to}}, sleeve')
  BY DEF EditsInv, Edits!CommitMerge, Edits!Ready
<1>2. to \in Shelves \ sources /\ Merge(c) /\ None \notin Shelves
  BY <1>1, EditsAssumption DEF EditsInv, PlanFits
<1>3. held = {AlbumRow(a) : a \in sources \union {to}} \union {SongRow(s) : s \in merged}
  <2>1. ~LocksAlbums(c)
    BY <1>1 DEF LocksAlbums, Gathers
  <2>2. PICK S \in SUBSET merged : Awaits(c, S)
    BY <1>2, <2>1 DEF Merge
  <2>3. S = {}
    <3>1. edit[c].plan = <<>>
      BY <1>1
    <3>2. edit[c].plan = IF S = {} THEN <<>> ELSE <<{SongRow(s) : s \in S}>>
      BY <2>2 DEF Awaits
    <3> DEFINE rows == {SongRow(s) : s \in S}
    <3>3. <<rows>> # <<>>
      OBVIOUS
    <3> QED
      BY <3>1, <3>2, <3>3
  <2> QED
    BY <2>2, <2>3 DEF Awaits, Parties
<1>4. moved = merged
  <2>1. \A r \in held : r.kind = "song" => r.row \in merged
    BY <1>3, RowsDiffer
  <2>2. \A s \in merged : SongRow(s) \in held
    BY <1>3
  <2> QED
    BY <2>1, <2>2, RowsDiffer
<1>5. \A a \in sources \union {to} : AlbumRow(a) \in held /\ sleeve[a].there
  <2>1. \A a \in sources \union {to} : AlbumRow(a) \in held /\ a \in Shelves
    BY <1>2, <1>3
  <2> QED
    BY <1>1, <2>1 DEF EditsInv, LockedFits
<1>6. \A s \in Songs : s \in merged <=> song[s].status # "GONE" /\ song[s].album \in sources
  BY DEF Edits!MergedSongs, Edits!Present
<1> HIDE DEF held, moved
<1>7. /\ song' \in [Songs -> SongRecords]
      /\ \A s \in Songs \ merged : song'[s] = song[s]
      /\ \A s \in merged : /\ song'[s].album = to /\ song'[s].status = song[s].status
                           /\ song'[s].version = song[s].version + 1
  <2>1. song' = [s \in Songs |-> song'[s]] /\ \A s \in Songs \ merged : song'[s] = song[s]
    BY <1>1, <1>4
  <2>2. \A s \in Songs : song[s] \in SongRecords
    BY <1>1, SongTyped
  <2>3. ASSUME NEW s \in merged
        PROVE  /\ song'[s] \in SongRecords /\ song'[s].album = to /\ song'[s].status = song[s].status
               /\ song'[s].version = song[s].version + 1
    <3>1. song'[s] = [song[s] EXCEPT !.album = to, !.version = @ + 1]
      BY <1>1, <1>4
    <3>2. song[s] \in SongRecords
      BY <2>2
    <3>3. song'[s] = Track(song[s].status, to, song[s].version + 1)
      BY <3>1, <3>2, TrackChanged, Zenon
    <3>4. song[s].status \in {"READY", "ARCHIVED", "GONE"} /\ to \in Shelves \union {None}
      BY <3>2 DEF SongRecords
    <3>5. Track(song[s].status, to, song[s].version + 1) \in SongRecords
      BY <3>2, <3>4, TrackTyped, Zenon
    <3> QED
      BY <3>3, <3>5 DEF Track
  <2>4. \A s \in Songs : song'[s] \in SongRecords
    BY <2>1, <2>2, <2>3
  <2> QED
    BY <2>1, <2>3, <2>4
<1>8. /\ left \in [Shelves -> AlbumRecords]
      /\ \A a \in Shelves : /\ left[a].there <=> sleeve[a].there /\ a \notin sources
                            /\ left[a].cover = sleeve[a].cover /\ left[a].version = sleeve[a].version
                            /\ a \notin sources => left[a] = sleeve[a]
  <2>1. EditTypes /\ left = Edits!deleteAlbumIfEmpty(sources)
    BY <1>1
  <2> HIDE DEF left
  <2> QED
    BY <2>1, AlbumsDropped
<1>9. cover \in Covers \union {None} /\ (cover # None => coverOf \in Shelves /\ cover = sleeve[coverOf].cover)
  BY <1>1, AlbumTyped
<1> HIDE DEF left, cover
<1>10. /\ sleeve' \in [Shelves -> AlbumRecords]
       /\ sleeve'[to].there /\ sleeve'[to].cover = cover
       /\ sleeve'[to].version = sleeve[to].version + 1
       /\ \A a \in Shelves \ {to} : sleeve'[a] = left[a]
  <2> DEFINE n == left[to].version + 1  x == [left[to] EXCEPT !.cover = cover, !.version = n]
  <2>1. left[to] \in AlbumRecords /\ n \in Nat /\ n = sleeve[to].version + 1 /\ left[to].there
    <3>1. left[to] \in AlbumRecords /\ left[to].version = sleeve[to].version /\ left[to].there
      BY <1>2, <1>5, <1>8
    <3> QED
      BY <3>1 DEF AlbumRecords
  <2>2. sleeve' = [left EXCEPT ![to] = x]
    BY <1>1
  <2> HIDE DEF n
  <2>3. x \in AlbumRecords /\ x.there /\ x.cover = cover /\ x.version = n
    <3> DEFINE y == [left[to] EXCEPT !.cover = cover]
    <3>1. y \in AlbumRecords /\ y.there /\ y.cover = cover
      BY <1>9, <2>1 DEF AlbumRecords
    <3> HIDE DEF y
    <3>2. [y EXCEPT !.version = n] \in AlbumRecords /\ [y EXCEPT !.version = n].there
          /\ [y EXCEPT !.version = n].cover = cover /\ [y EXCEPT !.version = n].version = n
      BY <2>1, <3>1 DEF AlbumRecords
    <3> QED
      BY <3>2 DEF y
  <2> HIDE DEF x
  <2> QED
    BY <1>2, <1>8, <2>1, <2>2, <2>3
<1>11. \A a : Edits!SongsOn(a) = {t \in Songs : song[t].status # "GONE" /\ song[t].album = a}
       /\ Edits!SongsOn(a)' = {t \in Songs : song'[t].status # "GONE" /\ song'[t].album = a}
  BY DEF Edits!SongsOn, Edits!Present
<1>12. \A a \in Shelves \ (sources \union {to}) : Edits!SongsOn(a)' = Edits!SongsOn(a)
  <2> SUFFICES ASSUME NEW a \in Shelves \ (sources \union {to}), NEW t \in Songs
               PROVE  song'[t].status # "GONE" /\ song'[t].album = a
                      <=> song[t].status # "GONE" /\ song[t].album = a
    BY <1>11
  <2>1. CASE t \in merged
    BY <1>6, <1>7, <2>1
  <2>2. CASE t \notin merged
    BY <1>7, <2>2
  <2> QED
    BY <2>1, <2>2
<1>13. UnderLocks(c)
  <2>1. \A s \in Songs : song'[s] = song[s] \/ SongRow(s) \in held
    BY <1>3, <1>7
  <2>2. \A a \in Shelves : sleeve'[a] = sleeve[a] \/ AlbumRow(a) \in held
    BY <1>5, <1>8, <1>10
  <2>3. \A a \in Shelves : Edits!SongsOn(a)' = Edits!SongsOn(a) \/ AlbumRow(a) \in held
    BY <1>5, <1>12
  <2> QED
    BY <2>1, <2>2, <2>3, Zenon DEF UnderLocks, held
<1>14. Edits!NoEmptyAlbum'
  <2> SUFFICES ASSUME NEW a \in Shelves, sleeve'[a].there PROVE Edits!SongsOn(a)' # {}
    BY DEF Edits!NoEmptyAlbum
  <2>0. \A b \in Shelves : sleeve[b].there => Edits!SongsOn(b) # {}
    BY DEF EditsInv, EditsWhole, Edits!NoEmptyAlbum
  <2>1. CASE a = to
    <3>1. PICK t \in Songs : song[t].status # "GONE" /\ song[t].album = to
      BY <1>2, <1>5, <1>11, <2>0
    <3>2. song'[t] = song[t]
      BY <1>2, <1>6, <1>7, <3>1
    <3> QED
      BY <1>11, <2>1, <3>1, <3>2
  <2>2. CASE a # to
    <3>1. sleeve[a].there /\ a \notin sources
      BY <1>8, <1>10, <2>2
    <3> QED
      BY <1>12, <2>0, <2>2, <3>1
  <2> QED
    BY <2>1, <2>2
<1>15. Edits!NoTrackWithoutAlbum'
  <2> SUFFICES ASSUME NEW t \in Songs, song'[t].status # "GONE", song'[t].album # None
               PROVE  sleeve'[song'[t].album].there
    BY DEF Edits!NoTrackWithoutAlbum, Edits!Present
  <2>1. CASE t \in merged
    BY <1>7, <1>10, <2>1
  <2>2. CASE t \notin merged
    <3>1. song'[t] = song[t] /\ song[t].album \in Shelves /\ sleeve[song[t].album].there
      BY <1>1, <1>7, <2>2, SongTyped DEF EditsInv, EditsWhole, Edits!NoTrackWithoutAlbum, Edits!Present
    <3>2. song[t].album \notin sources
      BY <1>6, <2>2, <3>1
    <3> QED
      BY <1>8, <1>10, <3>1, <3>2
  <2> QED
    BY <2>1, <2>2
<1>16. dropped' \subseteq Covers /\ Edits!ShownCoverKept'
  <2> DEFINE covers == {sleeve[a].cover : a \in sources \union {to}}
  <2>1. covers \in SUBSET (Covers \union {None})
    BY <1>1, <1>2, AlbumTyped
  <2>2. dropped' = dropped \union Edits!scheduleArtworkCleanup(covers, sleeve')
    BY <1>1
  <2>3. \A a \in Shelves : sleeve[a].there /\ sleeve[a].cover # None => sleeve[a].cover \notin dropped
    BY DEF EditsInv, EditsWhole, Edits!ShownCoverKept
  <2>4. ASSUME NEW a \in Shelves, sleeve'[a].there, sleeve'[a].cover # None
        PROVE  sleeve'[a].cover \notin dropped
    <3>1. CASE a = to
      <4>1. coverOf \in Shelves /\ cover = sleeve[coverOf].cover /\ cover # None
        BY <1>9, <1>10, <2>4, <3>1
      <4>2. sleeve[coverOf].there
        BY <1>1, <1>2, <1>5, <4>1
      <4> QED
        BY <1>10, <2>3, <3>1, <4>1, <4>2
    <3>2. CASE a # to
      BY <1>8, <1>10, <2>3, <2>4, <3>2
    <3> QED
      BY <3>1, <3>2
  <2> HIDE DEF covers
  <2> QED
    BY <1>1, <2>1, <2>2, <2>4, CoversDropped
<1>17. /\ \A t \in Songs : song'[t].version \in {song[t].version, song[t].version + 1}
       /\ \A a \in Shelves : sleeve'[a].version \in {sleeve[a].version, sleeve[a].version + 1}
  BY <1>7, <1>8, <1>10
<1>18. EditsWhole'
  BY <1>14, <1>15, <1>16 DEF EditsWhole
<1> QED
  BY <1>1, <1>7, <1>10, <1>13, <1>16, <1>17, <1>18, EditCommits

-----------------------------------------------------------------------------
(* The edits as a whole.                                                     *)

LEMMA EditsInit == MCInit => EditsInv
<1> SUFFICES ASSUME MCInit PROVE EditsInv
  OBVIOUS
<1>1. PICK status \in [Songs -> {"READY", "ARCHIVED"}] :
         song = [s \in Songs |-> [status |-> status[s], album |-> FirstAlbum[s], version |-> 1]]
  BY DEF MCInit, Edits!Init
<1>2. /\ sleeve = [a \in Shelves |-> [there |-> \E s \in Songs : FirstAlbum[s] = a,
                                      version |-> 1, cover |-> FirstCover[a]]]
      /\ dropped = {} /\ edit = [c \in Admins |-> Edits!NoEdit] /\ edits = 0
  BY DEF MCInit, Edits!Init
<1>3. \A s \in Songs : /\ song[s] \in SongRecords /\ song[s].status # "GONE" /\ song[s].version = 1
                       /\ song[s].album = FirstAlbum[s]
  BY <1>1, EditsAssumption DEF SongRecords
<1>4. ASSUME NEW a \in Shelves
      PROVE  /\ sleeve[a] \in AlbumRecords /\ sleeve[a].version = 1
             /\ sleeve[a].there <=> \E s \in Songs : FirstAlbum[s] = a
  <2> DEFINE there == \E s \in Songs : FirstAlbum[s] = a
  <2>1. there \in BOOLEAN /\ sleeve[a] = [there |-> there, version |-> 1, cover |-> FirstCover[a]]
    BY <1>2
  <2>2. FirstCover[a] \in Covers \union {None}
    BY EditsAssumption
  <2> HIDE DEF there
  <2>3. sleeve[a] \in AlbumRecords /\ sleeve[a].version = 1 /\ (sleeve[a].there <=> there)
    BY <2>1, <2>2 DEF AlbumRecords
  <2> QED
    BY <2>3 DEF there
<1>5. EditTypes
  <2>1. song \in [Songs -> SongRecords]
    BY <1>1, <1>3
  <2>2. sleeve \in [Shelves -> AlbumRecords]
    BY <1>2, <1>4
  <2>3. edit \in [Admins -> EditRecords]
    BY <1>2, NoEditTyped
  <2>4. /\ dropped \subseteq Covers /\ edits \in 0..MaxEdits
        /\ \A s \in Songs : song[s].version \in 1..edits + 1
        /\ \A a \in Shelves : sleeve[a].version \in 1..edits + 1
    BY <1>2, <1>3, <1>4, EditsAssumption
  <2> QED
    BY <2>1, <2>2, <2>3, <2>4 DEF EditTypes
<1>6. \A c \in Admins : edit[c] = Edits!NoEdit
  BY <1>2
<1>7. Apart
  BY <1>6, NoEditTyped DEF Apart
<1>8. EditsWhole
  <2>1. Edits!NoEmptyAlbum
    BY <1>3, <1>4 DEF Edits!NoEmptyAlbum, Edits!SongsOn, Edits!Present
  <2>2. Edits!NoTrackWithoutAlbum
    <3> SUFFICES ASSUME NEW s \in Songs, song[s].album # None PROVE sleeve[song[s].album].there
      BY DEF Edits!NoTrackWithoutAlbum
    <3>1. song[s].album \in Shelves /\ FirstAlbum[s] = song[s].album
      BY <1>3 DEF SongRecords
    <3> QED
      BY <1>4, <3>1
  <2>3. Edits!ShownCoverKept
    BY <1>2 DEF Edits!ShownCoverKept
  <2> QED
    BY <2>1, <2>2, <2>3 DEF EditsWhole
<1>9. \A c \in Admins : LockedFits(c) /\ PlanFits(c)
  BY <1>6, NoEditTyped DEF LockedFits, PlanFits, Sweeps
<1> QED
  BY <1>5, <1>7, <1>8, <1>9 DEF EditsInv

LEMMA EditsStep == EditsInv /\ Edits!Next => EditsInv'
<1> SUFFICES ASSUME EditsInv, Edits!Next PROVE EditsInv'
  OBVIOUS
<1>1. PICK c \in Admins :
        \/ \E S \in (SUBSET Songs) \ {{}} : Edits!ArchiveTracksBatch(c, S) \/ Edits!RestoreTracksBatch(c, S)
        \/ \E s \in Songs : \/ Edits!UpsertLyrics(c, s) \/ Edits!PublishTrack(c, s) \/ Edits!DeleteTrack(c, s)
                            \/ \E to \in Shelves \union {None} : Edits!UpdateTrack(c, s, to)
        \/ \E a \in Shelves : Edits!UpdateAlbum(c, a)
        \/ \E to \in Shelves, S \in SUBSET Shelves : Edits!MergeAlbums(c, to, S)
        \/ \E r \in Edits!Rows : Edits!LockSong(c, r) \/ Edits!LockReference(c, r) \/ Edits!LockAlbum(c, r)
        \/ Edits!CommitArchive(c) \/ Edits!CommitRestore(c) \/ Edits!CommitPublish(c) \/ Edits!CommitLyrics(c)
        \/ Edits!CommitMove(c) \/ Edits!CommitDelete(c) \/ Edits!CommitAlbum(c)
        \/ \E a \in Shelves \union {None} : Edits!CommitMerge(c, a)
        \/ Edits!Rollback(c)
  BY DEF Edits!Next
<1>2. ASSUME NEW S \in SUBSET Songs, Edits!ArchiveTracksBatch(c, S) \/ Edits!RestoreTracksBatch(c, S)
      PROVE  EditsInv'
  BY <1>2, SweepBegins DEF Edits!ArchiveTracksBatch, Edits!RestoreTracksBatch, Sweeps
<1>3. ASSUME NEW s \in Songs,
             \/ Edits!UpsertLyrics(c, s) \/ Edits!PublishTrack(c, s) \/ Edits!DeleteTrack(c, s)
             \/ \E to \in Shelves \union {None} : Edits!UpdateTrack(c, s, to)
      PROVE  EditsInv'
  BY <1>3, OneBegins
<1>4. ASSUME NEW a \in Shelves, Edits!UpdateAlbum(c, a) PROVE EditsInv'
  BY <1>4, AlbumBegins
<1>5. ASSUME NEW to \in Shelves, NEW S \in SUBSET Shelves, Edits!MergeAlbums(c, to, S) PROVE EditsInv'
  BY <1>5, MergeBegins
<1>6. ASSUME NEW r \in Edits!Rows,
             Edits!LockSong(c, r) \/ Edits!LockReference(c, r) \/ Edits!LockAlbum(c, r)
      PROVE  EditsInv'
  BY <1>6, SongLocks, ReferenceLocks, AlbumLocks
<1>7. CASE \/ Edits!CommitArchive(c) \/ Edits!CommitRestore(c)
           \/ Edits!CommitPublish(c) \/ Edits!CommitLyrics(c)
  BY <1>7, TracksCommit
<1>8. CASE Edits!CommitMove(c) \/ Edits!CommitDelete(c)
  BY <1>8, MoveCommits
<1>9. CASE Edits!CommitAlbum(c)
  BY <1>9, AlbumCommits
<1>10. ASSUME NEW a \in Shelves \union {None}, Edits!CommitMerge(c, a) PROVE EditsInv'
  BY <1>10, MergeCommits
<1>11. CASE Edits!Rollback(c)
  BY <1>11, EditGivesUp DEF Edits!Rollback
<1> QED
  BY <1>1, <1>2, <1>3, <1>4, <1>5, <1>6, <1>7, <1>8, <1>9, <1>10, <1>11

LEMMA EditsStutter == EditsInv /\ UNCHANGED editVars => EditsInv'
<1> SUFFICES ASSUME EditsInv, UNCHANGED editVars PROVE EditsInv'
  OBVIOUS
<1>1. song' = song /\ sleeve' = sleeve /\ dropped' = dropped /\ edit' = edit /\ edits' = edits
  BY DEF editVars
<1>2. EditTypes' /\ Apart' /\ EditsWhole'
  BY <1>1 DEF EditsInv, EditTypes, Apart, Edits!Blocks, Edits!Holds, EditsWhole, Edits!NoEmptyAlbum,
             Edits!NoTrackWithoutAlbum, Edits!ShownCoverKept, Edits!SongsOn, Edits!Present
<1>3. ASSUME NEW c \in Admins PROVE LockedFits(c)' /\ PlanFits(c)'
  <2>1. LockedFits(c) /\ PlanFits(c)
    BY DEF EditsInv
  <2> QED
    BY <1>1, <2>1 DEF LockedFits, PlanFits, Sweep, Journey, Travels, Merge, LocksAlbums, Awaits, Parties,
                      Edits!MergedSongs, Edits!SongsOn, Edits!Present
<1> QED
  BY <1>2, <1>3 DEF EditsInv

\* The greatest of some tracks.
LEMMA Greatest ==
    ASSUME NEW S, IsFiniteSet(S), S \subseteq Int, S # {}
    PROVE  \E s \in S : \A t \in S : ~(s < t)
<1>1. /\ Cardinality(S) \in Nat
      /\ \A s \in S : Rank(S, s) \in 1..Cardinality(S)
      /\ \A s, t \in S : s < t => Rank(S, s) < Rank(S, t)
  BY Ranked
<1> PICK n \in Nat : n = Cardinality(S)
  BY <1>1
<1>2. n \in 1..n
  <2>1. PICK s \in S : TRUE
    OBVIOUS
  <2>2. Rank(S, s) \in 1..n
    BY <1>1
  <2> QED
    BY <2>2
<1>3. Nth(S, n) \in S /\ Rank(S, Nth(S, n)) = n
  BY <1>2, Numbered
<1>4. \A t \in S : ~(Nth(S, n) < t)
  <2> SUFFICES ASSUME NEW t \in S, Nth(S, n) < t PROVE FALSE
    OBVIOUS
  <2>1. Rank(S, Nth(S, n)) < Rank(S, t) /\ Rank(S, t) \in 1..n
    BY <1>1, <1>3
  <2> QED
    BY <1>3, <2>1
<1> QED
  BY <1>3, <1>4

LEMMA NothingIsLost == EditsInv => Edits!NoEditIsLost
<1> SUFFICES ASSUME EditsInv, NEW c \in Admins, NEW s \in Songs, edit[c].plan = <<>>, s \in edit[c].songs
             PROVE  song[s].version = edit[c].seenSong[s]
  BY DEF Edits!NoEditIsLost
<1>1. /\ edit[c].op \in Edits!Ops /\ LockedFits(c) /\ PlanFits(c)
  BY EditTyped DEF EditsInv
<1>2. SongRow(s) \in edit[c].held
  <2>1. edit[c].op # "none"
    BY <1>1, NoEditTyped DEF PlanFits
  <2>2. CASE edit[c].op \in Sweeps
    BY <1>1, <2>2 DEF PlanFits, Sweep, Ascending
  <2>3. CASE edit[c].op \in {"move", "delete"}
    <3>1. Journey(c, s)
      BY <1>1, <2>3 DEF PlanFits
    <3> QED
      BY <3>1 DEF Journey
  <2>4. edit[c].op \notin {"album", "merge"}
    BY <1>1 DEF PlanFits
  <2> QED
    BY <1>1, <2>1, <2>2, <2>3, <2>4 DEF Sweeps, Edits!Ops
<1> QED
  BY <1>1, <1>2 DEF LockedFits

LEMMA OnlyMovesWait == EditsInv => Edits!OnlyMovesDeadlock
<1> SUFFICES ASSUME EditsInv, NEW D \in (SUBSET Admins) \ {{}}, Edits!Circle(D),
                    \A c \in D : edit[c].op \notin {"move", "merge"}
             PROVE  FALSE
  BY DEF Edits!OnlyMovesDeadlock
<1>1. \A c \in D : /\ edit[c].plan # <<>> /\ edit[c].op \in Edits!Ops /\ PlanFits(c) /\ EditTypes
                   /\ Head(edit[c].plan) = edit[c].plan[1] /\ 1 \in 1..Len(edit[c].plan)
  <2> SUFFICES ASSUME NEW c \in D
               PROVE  /\ edit[c].plan # <<>> /\ edit[c].op \in Edits!Ops /\ PlanFits(c) /\ EditTypes
                      /\ Head(edit[c].plan) = edit[c].plan[1] /\ 1 \in 1..Len(edit[c].plan)
    OBVIOUS
  <2>1. edit[c].plan # <<>> /\ EditTypes /\ PlanFits(c)
    BY DEF Edits!Circle, EditsInv
  <2>2. edit[c].op \in Edits!Ops /\ edit[c].plan \in Seq(SUBSET Edits!Rows)
    BY <2>1, EditTyped
  <2> QED
    BY <2>1, <2>2
\* Whoever waits holds tracks only.
<1>2. \A c \in D : /\ edit[c].op \in Sweeps \union {"delete", "album"}
                   /\ \A r \in edit[c].held : \E s \in Songs : r = SongRow(s)
  <2> SUFFICES ASSUME NEW c \in D
               PROVE  /\ edit[c].op \in Sweeps \union {"delete", "album"}
                      /\ \A r \in edit[c].held : \E s \in Songs : r = SongRow(s)
    OBVIOUS
  <2>1. edit[c].op # "none"
    BY <1>1, NoEditTyped DEF PlanFits
  <2>2. edit[c].op \in Sweeps \union {"delete", "album"}
    BY <1>1, <2>1 DEF Sweeps, Edits!Ops
  <2>3. CASE edit[c].op \in Sweeps
    <3>1. edit[c].songs \subseteq Songs /\ edit[c].held \subseteq {SongRow(s) : s \in edit[c].songs}
      BY <1>1, <2>3, EditTyped DEF PlanFits, Sweep, Ascending
    <3> QED
      BY <2>2, <3>1
  <2>4. CASE edit[c].op = "delete"
    <3>1. PICK s \in Songs : Journey(c, s) /\ edit[c].to = None
      BY <1>1, <2>4 DEF PlanFits
    <3>2. edit[c].held \subseteq {SongRow(s)}
      BY <1>1, <3>1 DEF Journey, Shares
    <3> QED
      BY <2>2, <3>2
  <2>5. CASE edit[c].op = "album"
    BY <1>1, <2>2, <2>5 DEF PlanFits
  <2> QED
    BY <2>2, <2>3, <2>4, <2>5
\* So it waits for a track, which another one of them holds.
<1>3. ASSUME NEW c \in D, NEW r \in Head(edit[c].plan)
      PROVE  \E d \in D, s \in Songs : r = SongRow(s) /\ SongRow(s) \in edit[d].held
  <2>1. PICK d \in D : Edits!Blocks(d, r)
    BY DEF Edits!Circle, Edits!Blockers
  <2>2. r \in Edits!Rows
    BY <1>1, PlanRest
  <2>3. CASE r.row \in Songs /\ r = SongRow(r.row)
    BY <2>1, <2>3, BlockedBy
  <2>4. CASE r = AlbumRow(r.row)
    BY <1>2, <2>1, <2>4, BlockedBy, RowsDiffer
  <2>5. CASE r = ShareRow(r.row)
    BY <1>2, <2>1, <2>5, BlockedBy, RowsDiffer
  <2> QED
    BY <2>2, <2>3, <2>4, <2>5, RowKinds
\* It holds tracks that come before the one it waits for.
<1>4. \A c \in D : \E s \in Songs : Head(edit[c].plan) = {SongRow(s)}
                                    /\ \A h \in Songs : SongRow(h) \in edit[c].held => h < s
  <2> SUFFICES ASSUME NEW c \in D
               PROVE  \E s \in Songs : Head(edit[c].plan) = {SongRow(s)}
                                       /\ \A h \in Songs : SongRow(h) \in edit[c].held => h < s
    OBVIOUS
  <2>1. \A x : Head(edit[c].plan) # {AlbumRow(x)}
    BY <1>3, RowsDiffer
  <2>2. CASE edit[c].op \in Sweeps
    <3>1. /\ edit[c].songs \subseteq Songs
          /\ \E s \in edit[c].songs : edit[c].plan[1] = {SongRow(s)}
          /\ \A q \in edit[c].plan[1] : \A h \in edit[c].held : h.row < q.row
      BY <1>1, <2>2, EditTyped DEF PlanFits, Sweep, Ascending
    <3> QED
      BY <1>1, <3>1, RowsDiffer
  <2>3. CASE edit[c].op = "delete"
    <3>1. PICK s \in Songs : Journey(c, s) /\ edit[c].to = None
      BY <1>1, <2>3 DEF PlanFits
    <3>2. edit[c].plan = <<{SongRow(s)}>> /\ edit[c].held = {}
      BY <1>1, <2>1, <3>1 DEF Journey
    <3> QED
      BY <3>2
  <2>4. edit[c].op # "album"
    <3> SUFFICES ASSUME edit[c].op = "album" PROVE FALSE
      OBVIOUS
    <3>1. edit[c].plan = <<{AlbumRow(edit[c].to)}>>
      BY <1>1 DEF PlanFits
    <3> QED
      BY <2>1, <3>1
  <2> QED
    BY <1>2, <2>2, <2>3, <2>4
<1> DEFINE awaited == {s \in Songs : \E c \in D : Head(edit[c].plan) = {SongRow(s)}}
<1>5. /\ awaited \subseteq Songs /\ awaited # {}
      /\ IsFiniteSet(awaited) /\ awaited \subseteq Int
  <2>1. awaited \in SUBSET Songs
    OBVIOUS
  <2> QED
    BY <1>4, <2>1, EditsAssumption, FS_Subset
<1>6. PICK s \in awaited : \A t \in awaited : ~(s < t)
  <2> HIDE DEF awaited
  <2> QED
    BY <1>5, Greatest
<1>7. PICK c \in D : Head(edit[c].plan) = {SongRow(s)}
  BY <1>6
<1>8. PICK d \in D : SongRow(s) \in edit[d].held
  BY <1>3, <1>7, RowsDiffer
<1>9. PICK t \in Songs : Head(edit[d].plan) = {SongRow(t)} /\ s < t
  BY <1>4, <1>5, <1>8
<1> QED
  BY <1>6, <1>9

LEMMA EditsInvHolds == MCSpec => []EditsInv
<1>1. EditsInv /\ [MCNext]_<<view, projVars, editVars, pageVars>> => EditsInv'
  <2> SUFFICES ASSUME EditsInv, [MCNext]_<<view, projVars, editVars, pageVars>> PROVE EditsInv'
    OBVIOUS
  <2>1. Edits!Next \/ UNCHANGED editVars
    BY DEF MCNext
  <2> QED
    BY <2>1, EditsStep, EditsStutter
<1> QED
  BY <1>1, EditsInit, PTL DEF MCSpec

(* Whatever administrators edit at once (archives and restores of many tracks, *)
(* lyrics, publications, moves, deletions, edits and merges of albums): no     *)
(* album is left without tracks and no track without its album, a picture that *)
(* an album shows is not given to the clean-up, an edit replaces only what its *)
(* administrator saw, and edits wait for each other in a circle only when one  *)
(* of them moves tracks between albums.                                        *)
THEOREM EditsLeaveTheCatalogueWhole == MCSpec => []EditsKeepCatalogue
<1>1. EditsInv => EditsKeepCatalogue
  BY NothingIsLost, OnlyMovesWait DEF EditsKeepCatalogue, EditsInv, EditsWhole
<1> QED
  BY <1>1, EditsInvHolds, PTL

-----------------------------------------------------------------------------
(* Pages: what is read of a set in an order.                                 *)

\* The place of an element, the first n elements, and the page and its last
\* element when one element more than the page holds is read.
Position(S, R, i) == Cardinality({j \in S : <<j, i>> \in R})
FirstOf(S, R, n) == {i \in S : Position(S, R, i) \in 0..n - 1}
PageOf(S, R, n) == {i \in FirstOf(S, R, n + 1) : Position(FirstOf(S, R, n + 1), R, i) < n}
LastOf(S, R, n) == CHOOSE i \in PageOf(S, R, n) : Position(PageOf(S, R, n), R, i) = n - 1

Orders(R, S) ==
    /\ \A i \in S : <<i, i>> \notin R
    /\ \A i, j, k \in S : <<i, j>> \in R /\ <<j, k>> \in R => <<i, k>> \in R
    /\ \A i, j \in S : i # j => <<i, j>> \in R \/ <<j, i>> \in R

LEMMA Positions ==
    ASSUME NEW S, IsFiniteSet(S), NEW R, Orders(R, S)
    PROVE  /\ Cardinality(S) \in Nat
           /\ \A i \in S : Position(S, R, i) \in 0..Cardinality(S) - 1
           /\ \A i, j \in S : <<i, j>> \in R => Position(S, R, i) < Position(S, R, j)
           /\ \A n \in 0..Cardinality(S) - 1 : \E i \in S : Position(S, R, i) = n
<1> DEFINE before(i) == {j \in S : <<j, i>> \in R}
<1>1. Cardinality(S) \in Nat
  BY FS_CardinalityType
<1>2. \A i \in S : IsFiniteSet(before(i)) /\ Cardinality(before(i)) \in Nat
  <2> SUFFICES ASSUME NEW i \in S PROVE IsFiniteSet(before(i)) /\ Cardinality(before(i)) \in Nat
    OBVIOUS
  <2>1. before(i) \in SUBSET S
    OBVIOUS
  <2> QED
    BY <2>1, FS_Subset, FS_CardinalityType
<1>3. ASSUME NEW i \in S PROVE Position(S, R, i) \in 0..Cardinality(S) - 1
  <2>1. before(i) \in SUBSET S /\ before(i) # S
    BY <1>3 DEF Orders
  <2>2. Cardinality(before(i)) <= Cardinality(S) /\ Cardinality(before(i)) # Cardinality(S)
    BY <2>1, FS_Subset
  <2>3. Position(S, R, i) = Cardinality(before(i))
    BY DEF Position
  <2> QED
    BY <1>1, <1>2, <2>2, <2>3
<1>4. ASSUME NEW i \in S, NEW j \in S, <<i, j>> \in R
      PROVE  Position(S, R, i) < Position(S, R, j)
  <2>1. before(i) \in SUBSET before(j) /\ i \in before(j) /\ i \notin before(i)
    BY <1>4 DEF Orders
  <2>2. Cardinality(before(i)) <= Cardinality(before(j)) /\ Cardinality(before(i)) # Cardinality(before(j))
    BY <1>2, <2>1, FS_Subset
  <2>3. Position(S, R, i) = Cardinality(before(i)) /\ Position(S, R, j) = Cardinality(before(j))
    BY DEF Position
  <2> QED
    BY <1>2, <2>2, <2>3
<1>5. \A n \in 0..Cardinality(S) - 1 : \E i \in S : Position(S, R, i) = n
  <2> DEFINE f == [i \in S |-> Position(S, R, i)]
  <2>1. \A i, j \in S : Position(S, R, i) = Position(S, R, j) => i = j
    <3> SUFFICES ASSUME NEW i \in S, NEW j \in S, i # j PROVE Position(S, R, i) # Position(S, R, j)
      OBVIOUS
    <3>1. <<i, j>> \in R \/ <<j, i>> \in R
      BY DEF Orders
    <3>2. Position(S, R, i) \in Nat /\ Position(S, R, j) \in Nat
      BY <1>3
    <3>3. Position(S, R, i) < Position(S, R, j) \/ Position(S, R, j) < Position(S, R, i)
      BY <1>4, <3>1
    <3> QED
      BY <3>2, <3>3
  <2>2. f \in Injection(S, 0..Cardinality(S) - 1)
    BY <1>3, <2>1 DEF Injection, IsInjective
  <2>3. /\ IsFiniteSet(0..Cardinality(S) - 1)
        /\ Cardinality(0..Cardinality(S) - 1) = Cardinality(S)
    BY <1>1, FS_Interval
  <2>4. f \in Surjection(S, 0..Cardinality(S) - 1)
    BY <2>2, <2>3, FS_Injection
  <2> QED
    BY <2>4 DEF Surjection
<1> QED
  BY <1>1, <1>3, <1>4, <1>5

\* A read takes a lower part of the set: all of it, or as many as it asks for.
LEMMA Readings ==
    ASSUME NEW S, IsFiniteSet(S), NEW R, Orders(R, S), NEW n \in Nat
    PROVE  /\ FirstOf(S, R, n) \subseteq S /\ IsFiniteSet(FirstOf(S, R, n))
           /\ Orders(R, FirstOf(S, R, n))
           /\ FirstOf(S, R, n) = S \/ Cardinality(FirstOf(S, R, n)) = n
           /\ \A i \in FirstOf(S, R, n) : Position(FirstOf(S, R, n), R, i) = Position(S, R, i)
<1> DEFINE rows == FirstOf(S, R, n)
<1>0. /\ Cardinality(S) \in Nat
      /\ \A i \in S : Position(S, R, i) \in 0..Cardinality(S) - 1
      /\ \A i, j \in S : <<i, j>> \in R => Position(S, R, i) < Position(S, R, j)
      /\ \A k \in 0..Cardinality(S) - 1 : \E i \in S : Position(S, R, i) = k
  BY Positions
<1>1. rows \subseteq S /\ IsFiniteSet(rows) /\ \A i \in S : i \in rows <=> Position(S, R, i) < n
  <2>1. rows \subseteq S /\ \A i \in S : i \in rows <=> Position(S, R, i) < n
    BY <1>0 DEF FirstOf
  <2> HIDE DEF rows
  <2>2. rows \in SUBSET S
    BY <2>1
  <2> QED
    BY <2>1, <2>2, FS_Subset
<1> HIDE DEF rows
<1>2. Orders(R, rows)
  BY <1>1 DEF Orders
<1>3. /\ Cardinality(rows) \in Nat
      /\ \A i \in rows : Position(rows, R, i) \in 0..Cardinality(rows) - 1
      /\ \A k \in 0..Cardinality(rows) - 1 : \E i \in rows : Position(rows, R, i) = k
  BY <1>1, <1>2, Positions
<1>4. \A i \in rows : Position(rows, R, i) = Position(S, R, i)
  <2> SUFFICES ASSUME NEW i \in rows PROVE {j \in rows : <<j, i>> \in R} = {j \in S : <<j, i>> \in R}
    BY DEF Position
  <2>1. \A j \in S : <<j, i>> \in R => Position(S, R, j) < n
    BY <1>0, <1>1
  <2> QED
    BY <1>1, <2>1
<1>5. ASSUME rows # S PROVE Cardinality(rows) = n
  <2>1. PICK x \in S : x \notin rows
    BY <1>1, <1>5
  <2>2. Position(S, R, x) >= n /\ n \in 0..Cardinality(S) - 1
    BY <1>0, <1>1, <2>1
  <2>3. ASSUME Cardinality(rows) < n PROVE FALSE
    <3>1. PICK i \in S : Position(S, R, i) = Cardinality(rows)
      BY <1>0, <1>3, <2>2, <2>3
    <3>2. i \in rows
      BY <1>1, <2>3, <3>1
    <3> QED
      BY <1>3, <1>4, <3>1, <3>2
  <2>4. ASSUME n < Cardinality(rows) PROVE FALSE
    <3>1. PICK i \in rows : Position(rows, R, i) = n
      BY <1>3, <2>4
    <3> QED
      BY <1>1, <1>4, <3>1
  <2> QED
    BY <1>3, <2>3, <2>4
<1> QED
  BY <1>1, <1>2, <1>4, <1>5 DEF rows

\* The element that is read beyond the page says whether one follows; the
\* page ends with its last element.
LEMMA Paged ==
    ASSUME NEW S, IsFiniteSet(S), NEW R, Orders(R, S), NEW n \in Nat \ {0}
    PROVE  /\ PageOf(S, R, n) \subseteq S
           /\ ~(Cardinality(FirstOf(S, R, n + 1)) > n) => PageOf(S, R, n) = S
           /\ Cardinality(FirstOf(S, R, n + 1)) > n =>
                /\ LastOf(S, R, n) \in PageOf(S, R, n)
                /\ \A i \in S : i \in PageOf(S, R, n) <=> ~(<<LastOf(S, R, n), i>> \in R)
<1> DEFINE rows == FirstOf(S, R, n + 1)  page == PageOf(S, R, n)  last == LastOf(S, R, n)
<1>0. /\ Cardinality(S) \in Nat
      /\ \A i \in S : Position(S, R, i) \in 0..Cardinality(S) - 1
      /\ \A i, j \in S : <<i, j>> \in R => Position(S, R, i) < Position(S, R, j)
  BY Positions
<1>1. /\ rows \subseteq S /\ IsFiniteSet(rows) /\ Orders(R, rows)
      /\ rows = S \/ Cardinality(rows) = n + 1
      /\ \A i \in rows : Position(rows, R, i) = Position(S, R, i)
  BY Readings
<1>2. rows = {i \in S : Position(S, R, i) \in 0..n} /\ n + 1 - 1 = n
  BY DEF FirstOf
<1>3. page = {i \in rows : Position(rows, R, i) < n}
  BY DEF PageOf
<1> HIDE DEF rows
<1>4. page = {i \in S : Position(S, R, i) < n}
  BY <1>0, <1>1, <1>2, <1>3
<1>5. page = FirstOf(S, R, n)
  BY <1>0, <1>4 DEF FirstOf
<1>6. /\ IsFiniteSet(page) /\ Orders(R, page)
      /\ page = S \/ Cardinality(page) = n
      /\ \A i \in page : Position(page, R, i) = Position(S, R, i)
  BY <1>5, Readings
<1>7. last = CHOOSE i \in page : Position(page, R, i) = n - 1
  BY DEF LastOf
<1> HIDE DEF page, last
<1>8. page \subseteq S
  BY <1>4
<1>9. ASSUME ~(Cardinality(rows) > n) PROVE page = S
  <2>1. rows = S /\ Cardinality(S) <= n
    BY <1>0, <1>1, <1>9
  <2> QED
    BY <1>0, <1>4, <2>1
<1>10. ASSUME Cardinality(rows) > n
       PROVE  last \in page /\ \A i \in S : i \in page <=> ~(<<last, i>> \in R)
  <2>1. \A k \in 0..Cardinality(rows) - 1 : \E i \in rows : Position(rows, R, i) = k
    BY <1>1, Positions
  <2>2. PICK i \in rows : Position(rows, R, i) = n - 1
    <3>1. Cardinality(rows) \in Nat
      BY <1>1, FS_CardinalityType
    <3>2. n - 1 \in 0..Cardinality(rows) - 1
      BY <1>10, <3>1
    <3> QED
      BY <2>1, <3>2
  <2>3. i \in page /\ Position(page, R, i) = n - 1
    BY <1>1, <1>3, <1>6, <2>2
  <2>4. last \in page /\ Position(page, R, last) = n - 1
    BY <1>7, <2>3
  <2>5. Position(S, R, last) = n - 1 /\ last \in S
    BY <1>6, <1>8, <2>4
  <2>6. ASSUME NEW j \in S PROVE j \in page <=> ~(<<last, j>> \in R)
    <3>1. j \in page <=> Position(S, R, j) < n
      BY <1>4
    <3>2. Position(S, R, j) \in Nat
      BY <1>0
    <3>3. <<last, j>> \in R => Position(S, R, last) < Position(S, R, j)
      BY <1>0, <2>5
    <3>4. j # last /\ ~(<<last, j>> \in R) => Position(S, R, j) < Position(S, R, last)
      BY <1>0, <2>5 DEF Orders
    <3>5. ~(<<last, last>> \in R)
      BY <2>5 DEF Orders
    <3> QED
      BY <2>5, <3>1, <3>2, <3>3, <3>4, <3>5
  <2> QED
    BY <2>4, <2>6
<1> QED
  BY <1>8, <1>9, <1>10 DEF rows, page, last

-----------------------------------------------------------------------------
(* The order of each listing, by a key of three numbers.                     *)

Before(x, y) == \/ x[1] < y[1]
                \/ x[1] = y[1] /\ x[2] < y[2]
                \/ x[1] = y[1] /\ x[2] = y[2] /\ x[3] < y[3]

ByNumber == {"duplicates", "members", "directories"}
Missing(l) == IF l = "adminAlbumsNewest" THEN 0 - 1 ELSE 1
Signed(desc, n) == IF desc THEN 0 - n ELSE n
Key(l, desc, r) ==
    CASE l \in ByNumber -> <<0, 0, r.id>>
      [] l = "entries" -> <<0, 0, 0 - r.id>>
      [] l = "lyrics" -> <<1 - r.a, r.b, r.id>>
      [] l = "albumTracks" -> <<IF r.a = Null THEN 9 ELSE r.a, IF r.b = Null THEN 9 ELSE r.b, r.id>>
      [] l = "albumOrder" -> <<IF r.a = Null THEN 1 ELSE r.a, IF r.b = Null THEN 0 ELSE r.b, r.id>>
      [] OTHER -> IF r.a = Null THEN <<Missing(l), 0, Signed(desc, r.id)>>
                  ELSE <<0, Signed(desc, r.a), Signed(desc, r.id)>>

Precedes(l, desc, r, s) == Before(Key(l, desc, r), Key(l, desc, s))

ListRows(l) == UNION {Pages!RowsOf(l, i) : i \in Numbers}

\* The columns that a list is ordered by are numbers or missing.
LEMMA RowColumns ==
    ASSUME NEW l \in Pages!Listings, NEW i \in Numbers, NEW r \in Pages!RowsOf(l, i)
    PROVE  /\ r.id = i /\ r = [a |-> r.a, b |-> r.b, id |-> r.id]
           /\ r.a \in Int \union {Null} /\ r.b \in Int \union {Null}
           /\ l = "lyrics" => r.a \in Int /\ r.b \in Int
           /\ l \notin Pages!Dates \union {"albumTracks", "albumOrder"} => r.a \in Int
           /\ l \in Pages!Milliseconds => r.a \in 0..3
           /\ l = "random" => r.a \in 0..1
<1>1. PICK v \in Pages!ValuesOf(l) : r = [a |-> v[1], b |-> v[2], id |-> i]
  BY DEF Pages!RowsOf
<1>2. r.id = i /\ r.a = v[1] /\ r.b = v[2] /\ r = [a |-> r.a, b |-> r.b, id |-> r.id]
  BY <1>1
<1> USE DEF Pages!ValuesOf, Pages!Titles, Pages!Places, Pages!Times, Pages!Milliseconds, Pages!Dates, Pages!Pairs
<1>3. CASE l \in Pages!Titles \union Pages!Places
  <2>1. Pages!ValuesOf(l) = {<<a, 0>> : a \in 0..1}
    BY <1>3
  <2>2. v[1] \in 0..1 /\ v[2] = 0
    BY <2>1
  <2> QED
    BY <1>2, <1>3, <2>2
<1>4. CASE l \in Pages!Times \union Pages!Milliseconds
  <2>1. Pages!ValuesOf(l) = {<<a, 0>> : a \in 0..3}
    BY <1>4
  <2>2. v[1] \in 0..3 /\ v[2] = 0
    BY <2>1
  <2> QED
    BY <1>2, <1>4, <2>2
<1>5. CASE l \in Pages!Dates
  <2>1. Pages!ValuesOf(l) = {<<a, 0>> : a \in {0, 1, Null}}
    BY <1>5
  <2>2. v[1] \in {0, 1, Null} /\ v[2] = 0
    BY <2>1
  <2> QED
    BY <1>2, <1>5, <2>2
<1>8. CASE l = "lyrics"
  <2>1. Pages!ValuesOf(l) = {<<a, b>> : a \in 0..1, b \in 0..1}
    BY <1>8
  <2>2. v[1] \in 0..1 /\ v[2] \in 0..1
    BY <2>1
  <2> QED
    BY <1>2, <1>8, <2>2
<1>9. CASE l \in {"albumTracks", "albumOrder"}
  <2>1. Pages!ValuesOf(l) = {<<a, b>> : a \in {1, 2, Null}, b \in {0, 1, Null}}
    BY <1>9
  <2>2. v[1] \in {1, 2, Null} /\ v[2] \in {0, 1, Null}
    BY <2>1
  <2> QED
    BY <1>2, <1>9, <2>2
<1> QED
  BY <1>3, <1>4, <1>5, <1>8, <1>9 DEF Pages!Listings

LEMMA KeysAre ==
    ASSUME NEW l \in Pages!Listings, NEW desc \in BOOLEAN,
           NEW i \in Numbers, NEW r \in Pages!RowsOf(l, i)
    PROVE  /\ Key(l, desc, r) = <<Key(l, desc, r)[1], Key(l, desc, r)[2], Key(l, desc, r)[3]>>
           /\ Key(l, desc, r)[1] \in Int /\ Key(l, desc, r)[2] \in Int
           /\ Key(l, desc, r)[3] =
                IF l \in ByNumber \union {"lyrics", "albumTracks", "albumOrder"} THEN i
                ELSE IF l = "entries" THEN 0 - i ELSE Signed(desc, i)
<1>1. /\ r.id = i /\ r.a \in Int \union {Null} /\ r.b \in Int \union {Null}
      /\ l = "lyrics" => r.a \in Int /\ r.b \in Int
  BY RowColumns
<1>2. i \in Int
  BY PagesAssumption
<1>3. CASE l \in ByNumber
  <2>1. Key(l, desc, r) = <<0, 0, i>>
    BY <1>1, <1>3 DEF Key, ByNumber
  <2> QED
    BY <1>3, <2>1
<1>4. CASE l = "entries"
  <2>1. Key(l, desc, r) = <<0, 0, 0 - i>>
    BY <1>1, <1>4 DEF Key, ByNumber
  <2> QED
    BY <1>4, <2>1 DEF ByNumber
<1>5. CASE l = "lyrics"
  <2>1. Key(l, desc, r) = <<1 - r.a, r.b, i>> /\ 1 - r.a \in Int
    BY <1>1, <1>5 DEF Key, ByNumber
  <2> QED
    BY <1>1, <1>5, <2>1
<1>6. CASE l \in {"albumTracks", "albumOrder"}
  <2>1. \E x, y \in Int : Key(l, desc, r) = <<x, y, i>>
    BY <1>1, <1>6 DEF Key, ByNumber
  <2> QED
    BY <1>6, <2>1
<1>7. CASE l \notin ByNumber \union {"entries", "lyrics", "albumTracks", "albumOrder"}
  <2>1. Key(l, desc, r) = IF r.a = Null THEN <<Missing(l), 0, Signed(desc, i)>>
                          ELSE <<0, Signed(desc, r.a), Signed(desc, i)>>
    BY <1>1, <1>7 DEF Key
  <2>2. Missing(l) \in Int /\ (r.a # Null => Signed(desc, r.a) \in Int)
    BY <1>1 DEF Signed, Missing
  <2> QED
    BY <1>7, <2>1, <2>2
<1> QED
  BY <1>3, <1>4, <1>5, <1>6, <1>7

LEMMA KeysDiffer ==
    ASSUME NEW l \in Pages!Listings, NEW desc \in BOOLEAN,
           NEW i \in Numbers, NEW r \in Pages!RowsOf(l, i), NEW j \in Numbers, NEW s \in Pages!RowsOf(l, j)
    PROVE  /\ Key(l, desc, r)[1] \in Int /\ Key(l, desc, r)[2] \in Int /\ Key(l, desc, r)[3] \in Int
           /\ i # j => Key(l, desc, r)[3] # Key(l, desc, s)[3]
<1>1. i \in Int /\ j \in Int
  BY PagesAssumption
<1>2. /\ Signed(desc, i) \in Int /\ Signed(desc, j) \in Int
      /\ i # j => Signed(desc, i) # Signed(desc, j) /\ 0 - i # 0 - j
  BY <1>1 DEF Signed
<1>3. /\ Key(l, desc, r)[1] \in Int /\ Key(l, desc, r)[2] \in Int
      /\ Key(l, desc, r)[3] = IF l \in ByNumber \union {"lyrics", "albumTracks", "albumOrder"} THEN i
                              ELSE IF l = "entries" THEN 0 - i ELSE Signed(desc, i)
      /\ Key(l, desc, s)[3] = IF l \in ByNumber \union {"lyrics", "albumTracks", "albumOrder"} THEN j
                              ELSE IF l = "entries" THEN 0 - j ELSE Signed(desc, j)
  BY KeysAre
<1> HIDE DEF Signed
<1> QED
  BY <1>1, <1>2, <1>3

\* Rows of one list are totally ordered, and so are a cursor and the rows.
LEMMA RowsOrdered ==
    ASSUME NEW l \in Pages!Listings, NEW desc \in BOOLEAN, NEW S \in SUBSET Numbers, NEW f,
           \A i \in S : f[i] \in Pages!RowsOf(l, i)
    PROVE  Orders({p \in Numbers \X Numbers : Precedes(l, desc, f[p[1]], f[p[2]])}, S)
<1> DEFINE R == {p \in Numbers \X Numbers : Precedes(l, desc, f[p[1]], f[p[2]])}
           k(i) == Key(l, desc, f[i])
<1>1. \A i, j \in S : <<i, j>> \in R <=> Before(k(i), k(j))
  BY DEF Precedes
<1>2. \A i, j \in S : /\ k(i)[1] \in Int /\ k(i)[2] \in Int /\ k(i)[3] \in Int
                      /\ i # j => k(i)[3] # k(j)[3]
  BY KeysDiffer
<1> HIDE DEF R, k
<1>3. Orders(R, S)
  BY <1>1, <1>2 DEF Orders, Before
<1> QED
  BY <1>3 DEF R

LEMMA Follow ==
    ASSUME NEW l \in Pages!Listings, NEW desc \in BOOLEAN,
           NEW c \in ListRows(l), NEW r \in ListRows(l), NEW s \in ListRows(l),
           Precedes(l, desc, c, r), Precedes(l, desc, r, s)
    PROVE  Precedes(l, desc, c, s)
<1>1. \A x \in ListRows(l) : /\ Key(l, desc, x)[1] \in Int /\ Key(l, desc, x)[2] \in Int
                             /\ Key(l, desc, x)[3] \in Int
  BY KeysDiffer DEF ListRows
<1> QED
  BY <1>1 DEF Precedes, Before

-----------------------------------------------------------------------------
(* What the queries order by, and what they seek past.                       *)

Columns == Pages!Titles \union Pages!Times \union Pages!Milliseconds \union {"random"}

Typed(r) == r \in ListRows(walk.listing)
Sought(r, s) == Precedes(walk.listing, walk.desc, r, s)
\* A cursor without a date finds no album that has one.
ReachedIn(l, desc, c, s) == Precedes(l, desc, c, s) /\ ~(l = "adminAlbumsNewest" /\ c.a = Null /\ s.a # Null)
Reached(c, s) == ReachedIn(walk.listing, walk.desc, c, s)
WalkFits == /\ walk.listing \in Pages!Listings /\ walk.desc \in BOOLEAN
            /\ walk.mode \in {"cursor", "offset"} /\ Pages!Walkable(walk)

LEMMA TypedColumns ==
    ASSUME WalkFits, NEW r, Typed(r)
    PROVE  /\ r.id \in Numbers /\ r.id \in Int /\ r = [a |-> r.a, b |-> r.b, id |-> r.id]
           /\ r.a \in Int \union {Null} /\ r.b \in Int \union {Null}
           /\ walk.listing = "lyrics" => r.a \in Int /\ r.b \in Int
           /\ walk.listing \notin Pages!Dates \union {"albumTracks", "albumOrder"} => r.a \in Int
           /\ walk.listing \in Pages!Milliseconds => r.a \in 0..3
           /\ walk.listing = "random" => r.a \in 0..1
<1>1. PICK i \in Numbers : r \in Pages!RowsOf(walk.listing, i)
  BY DEF Typed, ListRows
<1>2. i \in Int
  BY PagesAssumption
<1> QED
  BY <1>1, <1>2, RowColumns DEF WalkFits

LEMMA ColumnKey ==
    ASSUME NEW l \in Columns \union Pages!Dates, NEW desc, NEW r
    PROVE  Key(l, desc, r) = IF r.a = Null THEN <<Missing(l), 0, Signed(desc, r.id)>>
                             ELSE <<0, Signed(desc, r.a), Signed(desc, r.id)>>
BY DEF Key, ByNumber, Columns, Pages!Dates, Pages!Titles, Pages!Times, Pages!Milliseconds

LEMMA ByColumns ==
    ASSUME WalkFits, walk.listing \in Columns, NEW r, Typed(r), NEW s, Typed(s)
    PROVE  /\ Pages!ByColumn(r, s) <=> Sought(r, s)
           /\ Pages!Seek(r, s) <=> Sought(r, s)
<1>1. r.a \in Int /\ s.a \in Int /\ r.id \in Int /\ s.id \in Int /\ Null \notin Int
  BY TypedColumns, PagesAssumption
    DEF Columns, Pages!Titles, Pages!Times, Pages!Milliseconds, Pages!Dates
<1>2. /\ Key(walk.listing, walk.desc, r) = <<0, Signed(walk.desc, r.a), Signed(walk.desc, r.id)>>
      /\ Key(walk.listing, walk.desc, s) = <<0, Signed(walk.desc, s.a), Signed(walk.desc, s.id)>>
  BY <1>1, ColumnKey
<1>3. walk.desc \in BOOLEAN
  BY DEF WalkFits
<1> QED
  BY <1>1, <1>2, <1>3 DEF Sought, Precedes, Before, Signed, Pages!ByColumn, Pages!Seek, Pages!Beyond

\* Dates that may be missing: last when the list ascends or says so, else first.
LEMMA ByDates ==
    ASSUME WalkFits, walk.listing \in Pages!Dates, NEW r, Typed(r), NEW s, Typed(s)
    PROVE  /\ walk.listing = "albumsByDate" =>
                /\ Pages!albumOrderSQL(r, s) <=> Sought(r, s)
                /\ Pages!albumAfterCondition(r, s) <=> Sought(r, s)
           /\ walk.listing # "albumsByDate" =>
                /\ Pages!AdminAlbumOrder(r, s) <=> Sought(r, s)
                /\ Pages!catalogSeekCondition(r, s) <=> Reached(r, s)
<1>1. /\ r.a \in Int \union {Null} /\ s.a \in Int \union {Null}
      /\ r.id \in Int /\ s.id \in Int /\ Null \notin Int
  BY TypedColumns, PagesAssumption
<1>2. /\ Key(walk.listing, walk.desc, r) = IF r.a = Null THEN <<Missing(walk.listing), 0, Signed(walk.desc, r.id)>>
                             ELSE <<0, Signed(walk.desc, r.a), Signed(walk.desc, r.id)>>
      /\ Key(walk.listing, walk.desc, s) = IF s.a = Null THEN <<Missing(walk.listing), 0, Signed(walk.desc, s.id)>>
                             ELSE <<0, Signed(walk.desc, s.a), Signed(walk.desc, s.id)>>
  BY ColumnKey
<1>3. /\ walk.listing = "albumsByDate" => walk.desc = TRUE /\ Missing(walk.listing) = 1
      /\ walk.listing = "adminAlbumsByDate" => walk.desc = FALSE /\ Missing(walk.listing) = 1
      /\ walk.listing = "adminAlbumsNewest" => walk.desc = TRUE /\ Missing(walk.listing) = 0 - 1
      /\ walk.listing \in {"albumsByDate", "adminAlbumsByDate", "adminAlbumsNewest"}
  BY DEF WalkFits, Pages!Walkable, Pages!AlwaysUp, Pages!BothWays, Pages!Titles, Pages!Pairs, Pages!Dates, Missing
<1>4. /\ Sought(r, s) <=> Before(Key(walk.listing, walk.desc, r), Key(walk.listing, walk.desc, s))
      /\ Reached(r, s) <=> Sought(r, s) /\ ~(walk.listing = "adminAlbumsNewest" /\ r.a = Null /\ s.a # Null)
  BY DEF Sought, Precedes, Reached, ReachedIn
<1> USE <1>1, <1>2, <1>3, <1>4 DEF Before, Signed, Pages!ByNullable, Pages!ByColumn, Pages!Seek, Pages!Beyond
<1>5. CASE r.a = Null /\ s.a = Null
  BY <1>5 DEF Pages!albumOrderSQL, Pages!albumAfterCondition, Pages!AdminAlbumOrder, Pages!catalogSeekCondition
<1>6. CASE r.a = Null /\ s.a # Null
  BY <1>6 DEF Pages!albumOrderSQL, Pages!albumAfterCondition, Pages!AdminAlbumOrder, Pages!catalogSeekCondition
<1>7. CASE r.a # Null /\ s.a = Null
  BY <1>7 DEF Pages!albumOrderSQL, Pages!albumAfterCondition, Pages!AdminAlbumOrder, Pages!catalogSeekCondition
<1>8. CASE r.a # Null /\ s.a # Null
  BY <1>8 DEF Pages!albumOrderSQL, Pages!albumAfterCondition, Pages!AdminAlbumOrder, Pages!catalogSeekCondition
<1> QED
  BY <1>5, <1>6, <1>7, <1>8

LEMMA Lexicals ==
    ASSUME NEW x1 \in Int, NEW x2 \in Int, NEW x3 \in Int, NEW y1 \in Int, NEW y2 \in Int, NEW y3 \in Int
    PROVE  Pages!Lexical(<<x1, x2, x3>>, <<y1, y2, y3>>) <=> Before(<<x1, x2, x3>>, <<y1, y2, y3>>)
<1> DEFINE x == <<x1, x2, x3>>  y == <<y1, y2, y3>>
<1>1. x[1] = x1 /\ x[2] = x2 /\ x[3] = x3 /\ y[1] = y1 /\ y[2] = y2 /\ y[3] = y3
  OBVIOUS
<1> HIDE DEF x, y
<1>2. Pages!Lexical(x, y) <=> \E k \in {1, 2, 3} : x[k] < y[k] /\ \A j \in 1..k - 1 : x[j] = y[j]
  <2>1. 1..3 = {1, 2, 3}
    OBVIOUS
  <2> QED
    BY <2>1 DEF Pages!Lexical
<1>3. /\ (\A j \in 1..1 - 1 : x[j] = y[j]) /\ ((\A j \in 1..2 - 1 : x[j] = y[j]) <=> x[1] = y[1])
      /\ (\A j \in 1..3 - 1 : x[j] = y[j]) <=> (x[1] = y[1] /\ x[2] = y[2])
  <2>1. 1..1 - 1 = {} /\ 1..2 - 1 = {1} /\ 1..3 - 1 = {1, 2}
    OBVIOUS
  <2> QED
    BY <2>1
<1>4. Pages!Lexical(x, y) <=> Before(x, y)
  BY <1>2, <1>3 DEF Before
<1> QED
  BY <1>4 DEF x, y

\* Two columns that may be missing, then the identifier.
LEMMA ByPairs ==
    ASSUME WalkFits, NEW r, Typed(r), NEW s, Typed(s)
    PROVE  /\ walk.listing = "albumTracks" =>
                /\ Pages!AlbumTrackOrder(r, s) <=> Sought(r, s)
                /\ Pages!AlbumTrackAfter(r, s) <=> Sought(r, s)
           /\ walk.listing = "albumOrder" =>
                /\ Pages!trackOrderSQL(r, s) <=> Sought(r, s)
                /\ Pages!trackAfterCondition(r, s) <=> Sought(r, s)
           /\ walk.listing = "lyrics" =>
                /\ Pages!LyricOrder(r, s) <=> Sought(r, s)
                /\ Pages!LyricAfter(r, s) <=> Sought(r, s)
<1>1. /\ r.a \in Int \union {Null} /\ s.a \in Int \union {Null}
      /\ r.b \in Int \union {Null} /\ s.b \in Int \union {Null}
      /\ r.id \in Int /\ s.id \in Int
      /\ walk.listing = "lyrics" => r.a \in Int /\ r.b \in Int /\ s.a \in Int /\ s.b \in Int
  BY TypedColumns
<1>2. CASE walk.listing = "albumTracks"
  <2>1. /\ Key(walk.listing, walk.desc, r) = <<Pages!Or(r.a, 9), Pages!Or(r.b, 9), r.id>>
        /\ Key(walk.listing, walk.desc, s) = <<Pages!Or(s.a, 9), Pages!Or(s.b, 9), s.id>>
    BY <1>2 DEF Key, ByNumber, Pages!Or
  <2>2. /\ Pages!Or(r.a, 9) \in Int /\ Pages!Or(r.b, 9) \in Int
        /\ Pages!Or(s.a, 9) \in Int /\ Pages!Or(s.b, 9) \in Int
    BY <1>1 DEF Pages!Or
  <2>3. Pages!AlbumTrackOrder(r, s) <=> Sought(r, s)
    BY <1>1, <2>1, <2>2, Lexicals DEF Pages!AlbumTrackOrder, Sought, Precedes
  <2> QED
    BY <1>2, <2>3 DEF Pages!AlbumTrackAfter
<1>3. CASE walk.listing = "albumOrder"
  <2>1. /\ Key(walk.listing, walk.desc, r) = <<Pages!Or(r.a, 1), Pages!Or(r.b, 0), r.id>>
        /\ Key(walk.listing, walk.desc, s) = <<Pages!Or(s.a, 1), Pages!Or(s.b, 0), s.id>>
    BY <1>3 DEF Key, ByNumber, Pages!Or
  <2>2. /\ Pages!Or(r.a, 1) \in Int /\ Pages!Or(r.b, 0) \in Int
        /\ Pages!Or(s.a, 1) \in Int /\ Pages!Or(s.b, 0) \in Int
    BY <1>1 DEF Pages!Or
  <2>3. Pages!Lexical(Pages!InAlbum(r), Pages!InAlbum(s)) <=> Sought(r, s)
    BY <1>1, <2>1, <2>2, Lexicals DEF Pages!InAlbum, Sought, Precedes
  <2> QED
    BY <1>3, <2>3 DEF Pages!trackOrderSQL, Pages!trackAfterCondition
<1>4. CASE walk.listing = "lyrics"
  <2>1. /\ Key(walk.listing, walk.desc, r) = <<1 - r.a, r.b, r.id>>
        /\ Key(walk.listing, walk.desc, s) = <<1 - s.a, s.b, s.id>>
    BY <1>4 DEF Key, ByNumber
  <2>2. 1 - r.a \in Int /\ 1 - s.a \in Int
    BY <1>1, <1>4
  <2>3. Pages!LyricOrder(r, s) <=> Sought(r, s)
    BY <1>1, <1>4, <2>1, <2>2, Lexicals DEF Pages!LyricOrder, Sought, Precedes
  <2> QED
    BY <1>4, <2>3 DEF Pages!LyricAfter
<1> QED
  BY <1>2, <1>3, <1>4

\* Lists by identifier.
LEMMA ByIdentifier ==
    ASSUME WalkFits, NEW r, Typed(r), NEW s, Typed(s)
    PROVE  /\ walk.listing \in ByNumber => (r.id < s.id <=> Sought(r, s))
           /\ walk.listing = "entries" => (s.id < r.id <=> Sought(r, s))
<1>1. r.id \in Int /\ s.id \in Int
  BY TypedColumns
<1>2. CASE walk.listing \in ByNumber
  <2>1. Key(walk.listing, walk.desc, r) = <<0, 0, r.id>> /\ Key(walk.listing, walk.desc, s) = <<0, 0, s.id>>
    BY <1>2 DEF Key, ByNumber
  <2> QED
    BY <1>1, <1>2, <2>1 DEF Sought, Precedes, Before, ByNumber
<1>3. CASE walk.listing = "entries"
  <2>1. /\ Key(walk.listing, walk.desc, r) = <<0, 0, 0 - r.id>>
        /\ Key(walk.listing, walk.desc, s) = <<0, 0, 0 - s.id>>
    BY <1>3 DEF Key, ByNumber
  <2> QED
    BY <1>1, <1>3, <2>1 DEF Sought, Precedes, Before, ByNumber
<1> QED
  BY <1>2, <1>3

-----------------------------------------------------------------------------
(* One page.                                                                 *)

InOrder == {p \in Pages!Present \X Pages!Present : Sought(listed[p[1]], listed[p[2]])}
Unread == {i \in Pages!Present : walk.at = "first" \/ Reached(walk.cursor, listed[i])}
Encoded(r) ==
    CASE walk.listing \in Pages!Milliseconds -> [r EXCEPT !.a = Pages!Timestamp(r.a)]
      [] walk.listing = "albumOrder" -> [r EXCEPT !.a = Pages!Or(r.a, 1), !.b = Pages!Or(r.b, 0)]
      [] OTHER -> r

\* A page of the rows S in an order, its last row, and the step to the cursor c.
RowsOver(S, order) == Pages!Read(S, 0, Pages!CursorLimit, order)
PageIn(S, order) == Pages!WithoutLookahead(RowsOver(S, order), order)
LastIn(S, order) == CHOOSE i \in PageIn(S, order) : Pages!Place(PageIn(S, order), i, order) = PageSize - 1
PageTo(S, order, c) ==
    walk' = IF Pages!HasNext(RowsOver(S, order))
            THEN [walk EXCEPT !.at = "next", !.shown = Pages!Shown(PageIn(S, order)),
                              !.scope = Pages!Scope, !.cursor = c, !.ends = @ \union {listed[LastIn(S, order)]}]
            ELSE [walk EXCEPT !.at = "ended", !.shown = Pages!Shown(PageIn(S, order))]
PageOver(S, order) == PageTo(S, order, Encoded(listed[LastIn(S, order)]))
Turn == /\ walk.listing # "random" /\ walk.mode = "cursor" /\ walk.at \in {"first", "next"}
        /\ PageOver(Unread, InOrder)
        /\ UNCHANGED <<listed, version, moves>>

RowsFit == /\ \A i \in Pages!Present : listed[i] \in Pages!RowsOf(walk.listing, i)
           /\ walk.at = "next" /\ walk.mode = "cursor" /\ walk.listing # "random" => Typed(walk.cursor)

LEMMA PagesCount == \A S : Pages!Cardinality(S) = Cardinality(S)
BY Zenon DEF Pages!Cardinality, Cardinality

LEMMA PresentTyped ==
    ASSUME WalkFits, RowsFit
    PROVE  /\ Pages!Present \subseteq Numbers /\ \A i \in Pages!Present : Typed(listed[i])
           /\ walk.at = "next" /\ walk.mode = "cursor" /\ walk.listing # "random" => Typed(walk.cursor)
BY DEF RowsFit, Typed, ListRows, Pages!Present

LEMMA UnreadIs ==
    walk.listing # "adminAlbumsNewest"
    => Unread = {i \in Pages!Present : walk.at = "first" \/ Sought(walk.cursor, listed[i])}
BY DEF Unread, Reached, ReachedIn, Sought

\* The columns of most lists.
ColumnRows == {i \in Pages!Present : walk.at = "first" \/ Pages!Seek(walk.cursor, listed[i])}
ColumnOrder == {p \in Pages!Present \X Pages!Present : Pages!ByColumn(listed[p[1]], listed[p[2]])}

LEMMA ColumnTurns ==
    ASSUME WalkFits, RowsFit
    PROVE  /\ walk.listing \in Columns => ColumnOrder = InOrder
           /\ walk.listing \in Columns \ {"random"} /\ walk.mode = "cursor" /\ walk.at \in {"first", "next"}
                => ColumnRows = Unread
<1>1. ASSUME walk.listing \in Columns PROVE ColumnOrder = InOrder
  <2>1. \A i, j \in Pages!Present : Pages!ByColumn(listed[i], listed[j]) <=> Sought(listed[i], listed[j])
    BY <1>1, PresentTyped, ByColumns
  <2> QED
    BY <2>1 DEF ColumnOrder, InOrder
<1>2. ASSUME walk.listing \in Columns \ {"random"}, walk.mode = "cursor", walk.at \in {"first", "next"}
      PROVE  ColumnRows = Unread
  <2>1. walk.at = "first" \/ \A i \in Pages!Present : Pages!Seek(walk.cursor, listed[i]) <=> Sought(walk.cursor, listed[i])
    BY <1>2, PresentTyped, ByColumns
  <2>2. walk.listing # "adminAlbumsNewest"
    BY <1>2 DEF Columns, Pages!Titles, Pages!Times, Pages!Milliseconds
  <2> QED
    BY <2>1, <2>2, UnreadIs DEF ColumnRows
<1> QED
  BY <1>1, <1>2

LEMMA ColumnPages ==
    ASSUME WalkFits, RowsFit,
           walk.listing \in Columns \ {"random"}, walk.mode = "cursor", walk.at \in {"first", "next"},
           PageOver(ColumnRows, ColumnOrder), UNCHANGED <<listed, version, moves>>
    PROVE  Turn
BY ColumnTurns DEF Turn

\* Lists whose condition is the plain one.
LEMMA PlainTurns ==
    ASSUME WalkFits, RowsFit,
           \/ Pages!AdminListTracks \/ Pages!ListJobs \/ Pages!ListUsers \/ Pages!ListUserSessions
           \/ Pages!ListArtists \/ Pages!ListRoots \/ Pages!ListFiles \/ Pages!ListRuns
           \/ Pages!ListWritebacks
    PROVE  Turn
<1> DEFINE Names == {"adminTracks", "adminTracksByTime", "jobs", "jobsByTime", "users", "userSessions",
                     "artists", "roots", "files", "scans", "writebacks"}
           Plain == /\ walk.listing \in Names /\ walk.mode = "cursor" /\ walk.at \in {"first", "next"}
                    /\ UNCHANGED <<listed, version, moves>>
           last == LastIn(ColumnRows, ColumnOrder)
<1>1. Plain
  BY Zenon DEF Pages!Page, Pages!AdminListTracks, Pages!ListJobs, Pages!ListUsers, Pages!ListUserSessions,
            Pages!ListArtists, Pages!ListRoots, Pages!ListFiles, Pages!ListRuns, Pages!ListWritebacks
<1>2. PageTo(ColumnRows, ColumnOrder, listed[last])
  BY Zenon DEF PageTo, PageIn, LastIn, RowsOver, Pages!Page, Pages!Sorted, Pages!Whole, ColumnRows, ColumnOrder,
         Pages!AdminListTracks, Pages!ListJobs, Pages!ListUsers, Pages!ListUserSessions,
         Pages!ListArtists, Pages!ListRoots, Pages!ListFiles, Pages!ListRuns, Pages!ListWritebacks,
         Pages!trackSeekCondition, Pages!JobAfter, Pages!UserAfter, Pages!SessionAfter, Pages!ArtistAfter,
         Pages!RootAfter, Pages!FileAfter, Pages!ScanAfter, Pages!WritebackAfter
<1>3. walk.listing \in Columns \ {"random"} /\ \A r : Encoded(r) = r
  BY <1>1 DEF Columns, Pages!Titles, Pages!Times, Pages!Milliseconds, Encoded
<1>4. PageOver(ColumnRows, ColumnOrder)
  BY <1>2, <1>3 DEF PageOver
<1> QED
  BY <1>1, <1>3, <1>4, ColumnPages

\* A page that reads what is unread in order, and keeps its last row.
LEMMA OnePage ==
    ASSUME WalkFits, RowsFit, NEW S, NEW order, NEW c,
           walk.listing # "random", walk.mode = "cursor", walk.at \in {"first", "next"},
           UNCHANGED <<listed, version, moves>>,
           PageTo(S, order, c), S = Unread, order = InOrder, c = Encoded(listed[LastIn(S, order)])
    PROVE  Turn
BY DEF Turn, PageOver

\* Lists by columns whose cursors or conditions have other cases.
LEMMA ColumnListTurns ==
    ASSUME WalkFits, RowsFit,
           \/ Pages!AdminListArtists \/ Pages!Search
           \/ Pages!ListFavorites \/ Pages!ListHistory \/ Pages!ListOwned
    PROVE  Turn
<1> DEFINE last == LastIn(ColumnRows, ColumnOrder)
           Reads == /\ walk.mode = "cursor" /\ walk.at \in {"first", "next"}
                    /\ UNCHANGED <<listed, version, moves>>
<1>0. Reads
  BY Zenon DEF Pages!Page, Pages!AdminListArtists, Pages!Search,
            Pages!ListFavorites, Pages!ListHistory, Pages!ListOwned
<1>1. ASSUME Pages!AdminListArtists PROVE Turn
  <2> DEFINE S == {i \in Pages!Present : walk.at = "first" \/ Pages!catalogSeekCondition(walk.cursor, listed[i])}
  <2>1. walk.listing = "adminArtists" /\ PageTo(S, ColumnOrder, listed[LastIn(S, ColumnOrder)])
    BY <1>1, Zenon DEF PageTo, PageIn, LastIn, RowsOver, Pages!Page, Pages!Sorted, Pages!Whole, ColumnOrder,
                Pages!AdminListArtists
  <2>2. S = ColumnRows
    BY <2>1 DEF ColumnRows, Pages!catalogSeekCondition
  <2>3. walk.listing \in Columns \ {"random"} /\ Encoded(listed[last]) = listed[last]
    BY <2>1 DEF Columns, Pages!Titles, Pages!Milliseconds, Encoded
  <2> HIDE DEF S
  <2> QED
    BY <1>0, <2>1, <2>2, <2>3, ColumnTurns, OnePage
<1>2. ASSUME Pages!Search PROVE Turn
  <2> DEFINE S == {i \in Pages!Present : walk.at = "first" \/ Pages!SearchAfter(walk.cursor, listed[i])}
  <2>1. walk.listing = "search" /\ PageTo(S, ColumnOrder, listed[LastIn(S, ColumnOrder)])
    BY <1>2, Zenon DEF PageTo, PageIn, LastIn, RowsOver, Pages!Page, Pages!Sorted, Pages!Whole, ColumnOrder,
                Pages!Search
  <2>2. walk.desc = FALSE
    BY <2>1 DEF WalkFits, Pages!Walkable, Pages!AlwaysUp
  <2>3. S = ColumnRows
    BY <2>2 DEF ColumnRows, Pages!SearchAfter, Pages!Seek, Pages!Beyond
  <2>4. walk.listing \in Columns \ {"random"} /\ Encoded(listed[last]) = listed[last]
    BY <2>1 DEF Columns, Pages!Titles, Pages!Milliseconds, Encoded
  <2> HIDE DEF S
  <2> QED
    BY <1>0, <2>1, <2>3, <2>4, ColumnTurns, OnePage
<1>3. ASSUME Pages!ListFavorites PROVE Turn
  <2>1. /\ walk.listing \in {"favorites", "favoritesByTime"}
        /\ PageTo(ColumnRows, ColumnOrder, Pages!encodeFavoriteCursor(listed[last]))
    BY <1>3, Zenon DEF PageTo, PageIn, LastIn, RowsOver, Pages!Page, Pages!Sorted, ColumnRows, ColumnOrder,
                Pages!ListFavorites, Pages!FavoriteAfter
  <2>2. /\ walk.listing \in Columns \ {"random"}
        /\ Pages!encodeFavoriteCursor(listed[last]) = Encoded(listed[last])
    BY <2>1 DEF Columns, Pages!Titles, Pages!Milliseconds, Encoded, Pages!encodeFavoriteCursor
  <2> QED
    BY <1>0, <2>1, <2>2, ColumnTurns, OnePage
<1>4. ASSUME Pages!ListHistory PROVE Turn
  <2>1. walk.listing = "history" /\ PageTo(ColumnRows, ColumnOrder, Pages!encodeHistoryCursor(listed[last]))
    BY <1>4, Zenon DEF PageTo, PageIn, LastIn, RowsOver, Pages!Page, Pages!Sorted, ColumnRows, ColumnOrder,
                Pages!ListHistory, Pages!HistoryAfter
  <2>2. /\ walk.listing \in Columns \ {"random"}
        /\ Pages!encodeHistoryCursor(listed[last]) = Encoded(listed[last])
    BY <2>1 DEF Columns, Pages!Milliseconds, Encoded, Pages!encodeHistoryCursor
  <2> QED
    BY <1>0, <2>1, <2>2, ColumnTurns, OnePage
<1>5. ASSUME Pages!ListOwned PROVE Turn
  <2>1. /\ walk.listing \in {"playlists", "playlistsByTime"}
        /\ PageTo(ColumnRows, ColumnOrder, Pages!encodePlaylistCursor(listed[last]))
    BY <1>5, Zenon DEF PageTo, PageIn, LastIn, RowsOver, Pages!Page, Pages!Sorted, ColumnRows, ColumnOrder,
                Pages!ListOwned, Pages!playlistAfterCondition
  <2>2. /\ walk.listing \in Columns \ {"random"}
        /\ Pages!encodePlaylistCursor(listed[last]) = Encoded(listed[last])
    BY <2>1 DEF Columns, Pages!Titles, Pages!Milliseconds, Encoded, Pages!encodePlaylistCursor
  <2> QED
    BY <1>0, <2>1, <2>2, ColumnTurns, OnePage
<1> QED
  BY <1>1, <1>2, <1>3, <1>4, <1>5

\* Lists of albums and tracks, whose dates and positions may be missing.
LEMMA CatalogueTurns ==
    ASSUME WalkFits, RowsFit, Pages!AdminListAlbums \/ Pages!ListTracks \/ Pages!ListAlbums
    PROVE  Turn
<1> DEFINE Reads == /\ walk.mode = "cursor" /\ walk.at \in {"first", "next"}
                    /\ UNCHANGED <<listed, version, moves>>
           Seen(i) == walk.at = "first" \/ Sought(walk.cursor, listed[i])
<1>0. Reads
  BY Zenon DEF Pages!Page, Pages!AdminListAlbums, Pages!ListTracks, Pages!ListAlbums
<1>t. \A i \in Pages!Present : Typed(listed[i])
  BY PresentTyped
<1>c. walk.listing # "random" => walk.at = "first" \/ Typed(walk.cursor)
  BY <1>0, PresentTyped
<1>1. ASSUME Pages!AdminListAlbums PROVE Turn
  <2> DEFINE S == {i \in Pages!Present : walk.at = "first" \/ Pages!catalogSeekCondition(walk.cursor, listed[i])}
             order == {p \in Pages!Present \X Pages!Present : Pages!AdminAlbumOrder(listed[p[1]], listed[p[2]])}
  <2>1. \/ /\ walk.listing \in {"adminAlbums", "adminAlbumsByTime"}
           /\ PageTo(S, ColumnOrder, listed[LastIn(S, ColumnOrder)])
        \/ /\ walk.listing \in {"adminAlbumsByDate", "adminAlbumsNewest"}
           /\ PageTo(S, order, listed[LastIn(S, order)])
    BY <1>1, Zenon DEF PageTo, PageIn, LastIn, RowsOver, Pages!Page, Pages!Sorted, Pages!Whole, ColumnOrder,
                Pages!AdminListAlbums
  <2>2. /\ walk.listing # "random" /\ Encoded(listed[LastIn(S, ColumnOrder)]) = listed[LastIn(S, ColumnOrder)]
        /\ Encoded(listed[LastIn(S, order)]) = listed[LastIn(S, order)]
    BY <2>1 DEF Pages!Milliseconds, Encoded
  <2>3. CASE /\ walk.listing \in {"adminAlbums", "adminAlbumsByTime"}
             /\ PageTo(S, ColumnOrder, listed[LastIn(S, ColumnOrder)])
    <3>1. S = ColumnRows /\ walk.listing \in Columns \ {"random"}
      BY <2>3 DEF ColumnRows, Pages!catalogSeekCondition, Columns, Pages!Titles, Pages!Times
    <3> HIDE DEF S
    <3> QED
      BY <1>0, <2>2, <2>3, <3>1, ColumnTurns, OnePage
  <2>4. CASE /\ walk.listing \in {"adminAlbumsByDate", "adminAlbumsNewest"}
             /\ PageTo(S, order, listed[LastIn(S, order)])
    <3>1. \A i, j \in Pages!Present :
            Pages!AdminAlbumOrder(listed[i], listed[j]) <=> Sought(listed[i], listed[j])
      BY <1>t, <2>4, ByDates DEF Pages!Dates
    <3>2. walk.at = "first" \/ \A i \in Pages!Present :
            Pages!catalogSeekCondition(walk.cursor, listed[i]) <=> Reached(walk.cursor, listed[i])
      BY <1>t, <1>c, <2>4, ByDates DEF Pages!Dates
    <3>3. S = Unread
      BY <3>2 DEF Unread
    <3>4. order = InOrder
      BY <3>1 DEF InOrder
    <3> HIDE DEF S, order
    <3> QED
      BY <1>0, <2>2, <2>4, <3>3, <3>4, OnePage
  <2> QED
    BY <2>1, <2>3, <2>4
<1>2. ASSUME Pages!ListTracks PROVE Turn
  <2> DEFINE S == {i \in Pages!Present : walk.at = "first" \/ Pages!trackAfterCondition(walk.cursor, listed[i])}
             order == {p \in Pages!Present \X Pages!Present : Pages!trackOrderSQL(listed[p[1]], listed[p[2]])}
             last == LastIn(S, order)
  <2>1. /\ walk.listing \in {"tracks", "tracksByPublication", "albumOrder"}
        /\ PageTo(S, order, Pages!encodeTrackCursor(listed[last]))
    BY <1>2, Zenon DEF PageTo, PageIn, LastIn, RowsOver, Pages!Page, Pages!Sorted, Pages!ListTracks
  <2>2. ASSUME NEW r, NEW s, Typed(r), Typed(s)
        PROVE  /\ Pages!trackOrderSQL(r, s) <=> Sought(r, s)
               /\ Pages!trackAfterCondition(r, s) <=> Sought(r, s)
    <3>1. CASE walk.listing = "albumOrder"
      BY <2>2, <3>1, ByPairs
    <3>2. CASE walk.listing \in {"tracks", "tracksByPublication"}
      <4>1. walk.listing \in Columns /\ walk.listing # "albumOrder"
        BY <3>2 DEF Columns, Pages!Titles, Pages!Milliseconds
      <4> QED
        BY <2>2, <4>1, ByColumns DEF Pages!trackOrderSQL, Pages!trackAfterCondition
    <3> QED
      BY <2>1, <3>1, <3>2
  <2>3. walk.listing # "random" /\ Pages!encodeTrackCursor(listed[last]) = Encoded(listed[last])
    <3> HIDE DEF last
    <3> QED
      BY <2>1 DEF Pages!Milliseconds, Encoded, Pages!encodeTrackCursor
  <2>4. S = Unread
    <3>1. walk.at = "first" \/ \A i \in Pages!Present :
            Pages!trackAfterCondition(walk.cursor, listed[i]) <=> Sought(walk.cursor, listed[i])
      BY <1>t, <1>c, <2>2, <2>3
    <3> QED
      BY <2>1, <3>1, UnreadIs
  <2>5. order = InOrder
    <3>1. \A i, j \in Pages!Present :
            Pages!trackOrderSQL(listed[i], listed[j]) <=> Sought(listed[i], listed[j])
      BY <1>t, <2>2
    <3> QED
      BY <3>1 DEF InOrder
  <2> HIDE DEF S, order
  <2> QED
    BY <1>0, <2>1, <2>3, <2>4, <2>5, OnePage
<1>3. ASSUME Pages!ListAlbums PROVE Turn
  <2> DEFINE S == {i \in Pages!Present : walk.at = "first" \/ Pages!albumAfterCondition(walk.cursor, listed[i])}
             order == {p \in Pages!Present \X Pages!Present : Pages!albumOrderSQL(listed[p[1]], listed[p[2]])}
  <2>1. \/ /\ walk.listing = "albums"
           /\ PageTo(S, ColumnOrder, listed[LastIn(S, ColumnOrder)])
        \/ /\ walk.listing = "albumsByDate"
           /\ PageTo(S, order, listed[LastIn(S, order)])
    BY <1>3, Zenon DEF PageTo, PageIn, LastIn, RowsOver, Pages!Page, Pages!Sorted, Pages!Whole, ColumnOrder,
                Pages!ListAlbums
  <2>2. /\ walk.listing # "random" /\ Encoded(listed[LastIn(S, ColumnOrder)]) = listed[LastIn(S, ColumnOrder)]
        /\ Encoded(listed[LastIn(S, order)]) = listed[LastIn(S, order)]
    BY <2>1 DEF Pages!Milliseconds, Encoded
  <2>3. CASE walk.listing = "albums" /\ PageTo(S, ColumnOrder, listed[LastIn(S, ColumnOrder)])
    <3>1. S = ColumnRows /\ walk.listing \in Columns \ {"random"}
      BY <2>3 DEF ColumnRows, Pages!albumAfterCondition, Columns, Pages!Titles
    <3> HIDE DEF S
    <3> QED
      BY <1>0, <2>2, <2>3, <3>1, ColumnTurns, OnePage
  <2>4. CASE walk.listing = "albumsByDate" /\ PageTo(S, order, listed[LastIn(S, order)])
    <3>1. \A i, j \in Pages!Present :
            Pages!albumOrderSQL(listed[i], listed[j]) <=> Sought(listed[i], listed[j])
      BY <1>t, <2>4, ByDates DEF Pages!Dates
    <3>2. walk.at = "first" \/ \A i \in Pages!Present :
            Pages!albumAfterCondition(walk.cursor, listed[i]) <=> Sought(walk.cursor, listed[i])
      BY <1>t, <1>c, <2>4, ByDates DEF Pages!Dates
    <3>3. S = Unread
      BY <2>4, <3>2, UnreadIs
    <3>4. order = InOrder
      BY <3>1 DEF InOrder
    <3> HIDE DEF S, order
    <3> QED
      BY <1>0, <2>2, <2>4, <3>3, <3>4, OnePage
  <2> QED
    BY <2>1, <2>3, <2>4
<1> QED
  BY <1>1, <1>2, <1>3

\* The tracks and lyrics of an album or track, entries of a playlist, and lists
\* by identifier.
LEMMA SingleTurns ==
    ASSUME WalkFits, RowsFit,
           \/ Pages!AdminAlbum \/ Pages!AdminTrack \/ Pages!ListEntries \/ Pages!Browse
           \/ Pages!DuplicateAlbums
    PROVE  Turn
<1> DEFINE Reads == /\ walk.mode = "cursor" /\ walk.at \in {"first", "next"}
                    /\ UNCHANGED <<listed, version, moves>>
<1>0. Reads
  BY Zenon DEF Pages!Page, Pages!AdminAlbum, Pages!AdminTrack, Pages!ListEntries, Pages!Browse,
            Pages!DuplicateAlbums
<1>t. \A i \in Pages!Present : Typed(listed[i])
  BY PresentTyped
<1>1. ASSUME Pages!AdminAlbum PROVE Turn
  <2> DEFINE S == {i \in Pages!Present : walk.at = "first" \/ Pages!AlbumTrackAfter(walk.cursor, listed[i])}
             order == {p \in Pages!Present \X Pages!Present : Pages!AlbumTrackOrder(listed[p[1]], listed[p[2]])}
             last == LastIn(S, order)
  <2>1. walk.listing = "albumTracks" /\ PageTo(S, order, listed[last])
    BY <1>1, Zenon DEF PageTo, PageIn, LastIn, RowsOver, Pages!Page, Pages!Sorted, Pages!Whole, Pages!AdminAlbum
  <2>2. \A i, j \in Pages!Present : Pages!AlbumTrackOrder(listed[i], listed[j]) <=> Sought(listed[i], listed[j])
    BY <1>t, <2>1, ByPairs
  <2>3. walk.at = "first" \/ \A i \in Pages!Present :
          Pages!AlbumTrackAfter(walk.cursor, listed[i]) <=> Sought(walk.cursor, listed[i])
    BY <1>0, <1>t, <2>1, PresentTyped, ByPairs
  <2>4. S = Unread
    BY <2>1, <2>3, UnreadIs
  <2>5. order = InOrder
    BY <2>2 DEF InOrder
  <2>6. walk.listing # "random" /\ Encoded(listed[last]) = listed[last]
    BY <2>1 DEF Pages!Milliseconds, Encoded
  <2> HIDE DEF S, order
  <2> QED
    BY <1>0, <2>1, <2>4, <2>5, <2>6, OnePage
<1>2. ASSUME Pages!AdminTrack PROVE Turn
  <2> DEFINE S == {i \in Pages!Present : walk.at = "first" \/ Pages!LyricAfter(walk.cursor, listed[i])}
             order == {p \in Pages!Present \X Pages!Present : Pages!LyricOrder(listed[p[1]], listed[p[2]])}
             last == LastIn(S, order)
  <2>1. walk.listing = "lyrics" /\ PageTo(S, order, listed[last])
    BY <1>2, Zenon DEF PageTo, PageIn, LastIn, RowsOver, Pages!Page, Pages!Sorted, Pages!Whole, Pages!AdminTrack
  <2>2. \A i, j \in Pages!Present : Pages!LyricOrder(listed[i], listed[j]) <=> Sought(listed[i], listed[j])
    BY <1>t, <2>1, ByPairs
  <2>3. walk.at = "first" \/ \A i \in Pages!Present :
          Pages!LyricAfter(walk.cursor, listed[i]) <=> Sought(walk.cursor, listed[i])
    BY <1>0, <1>t, <2>1, PresentTyped, ByPairs
  <2>4. S = Unread
    BY <2>1, <2>3, UnreadIs
  <2>5. order = InOrder
    BY <2>2 DEF InOrder
  <2>6. walk.listing # "random" /\ Encoded(listed[last]) = listed[last]
    BY <2>1 DEF Pages!Milliseconds, Encoded
  <2> HIDE DEF S, order
  <2> QED
    BY <1>0, <2>1, <2>4, <2>5, <2>6, OnePage
<1>3. ASSUME Pages!ListEntries PROVE Turn
  <2> DEFINE S == {i \in Pages!Present : walk.at = "first" \/ Pages!EntryAfter(walk.cursor, listed[i])}
             order == {p \in Pages!Present \X Pages!Present : Pages!EntryOrder(listed[p[1]], listed[p[2]])}
             last == LastIn(S, order)
  <2>1. walk.listing = "entries" /\ PageTo(S, order, listed[last])
    BY <1>3, Zenon DEF PageTo, PageIn, LastIn, RowsOver, Pages!Page, Pages!Sorted, Pages!Whole, Pages!ListEntries
  <2>2. \A i, j \in Pages!Present : Pages!EntryOrder(listed[i], listed[j]) <=> Sought(listed[i], listed[j])
    BY <1>t, <2>1, ByIdentifier DEF Pages!EntryOrder, Pages!EntryAfter
  <2>3. walk.at = "first" \/ \A i \in Pages!Present :
          Pages!EntryAfter(walk.cursor, listed[i]) <=> Sought(walk.cursor, listed[i])
    BY <1>0, <1>t, <2>1, PresentTyped, ByIdentifier DEF Pages!EntryOrder, Pages!EntryAfter
  <2>4. S = Unread
    BY <2>1, <2>3, UnreadIs
  <2>5. order = InOrder
    BY <2>2 DEF InOrder
  <2>6. walk.listing # "random" /\ Encoded(listed[last]) = listed[last]
    BY <2>1 DEF Pages!Milliseconds, Encoded
  <2> HIDE DEF S, order
  <2> QED
    BY <1>0, <2>1, <2>4, <2>5, <2>6, OnePage
<1>4. ASSUME Pages!Browse PROVE Turn
  <2> DEFINE S == {i \in Pages!Present : walk.at = "first" \/ Pages!DirectoryOrder(walk.cursor, listed[i])}
             order == {p \in Pages!Present \X Pages!Present : Pages!DirectoryOrder(listed[p[1]], listed[p[2]])}
             last == LastIn(S, order)
  <2>1. walk.listing = "directories" /\ PageTo(S, order, listed[last])
    BY <1>4, Zenon DEF PageTo, PageIn, LastIn, RowsOver, Pages!Page, Pages!Sorted, Pages!Whole, Pages!Browse
  <2>2. \A i, j \in Pages!Present : Pages!DirectoryOrder(listed[i], listed[j]) <=> Sought(listed[i], listed[j])
    BY <1>t, <2>1, ByIdentifier DEF ByNumber, Pages!DirectoryOrder
  <2>3. walk.at = "first" \/ \A i \in Pages!Present :
          Pages!DirectoryOrder(walk.cursor, listed[i]) <=> Sought(walk.cursor, listed[i])
    BY <1>0, <1>t, <2>1, PresentTyped, ByIdentifier DEF ByNumber, Pages!DirectoryOrder
  <2>4. S = Unread
    BY <2>1, <2>3, UnreadIs
  <2>5. order = InOrder
    BY <2>2 DEF InOrder
  <2>6. walk.listing # "random" /\ Encoded(listed[last]) = listed[last]
    BY <2>1 DEF Pages!Milliseconds, Encoded
  <2> HIDE DEF S, order
  <2> QED
    BY <1>0, <2>1, <2>4, <2>5, <2>6, OnePage
<1>5. ASSUME Pages!DuplicateAlbums PROVE Turn
  <2> DEFINE S == {i \in Pages!Present : walk.at = "first" \/ Pages!GroupAfter(walk.cursor, listed[i])}
             order == {p \in Pages!Present \X Pages!Present : Pages!GroupOrder(listed[p[1]], listed[p[2]])}
             last == LastIn(S, order)
  <2>1. walk.listing \in {"duplicates", "members"} /\ PageTo(S, order, listed[last])
    BY <1>5, Zenon DEF PageTo, PageIn, LastIn, RowsOver, Pages!Page, Pages!Sorted, Pages!Whole,
      Pages!DuplicateAlbums, Pages!GroupOrder, Pages!GroupAfter, Pages!MemberOrder, Pages!MemberAfter
  <2>2. \A i, j \in Pages!Present : Pages!GroupOrder(listed[i], listed[j]) <=> Sought(listed[i], listed[j])
    BY <1>t, <2>1, ByIdentifier DEF ByNumber, Pages!GroupOrder
  <2>3. walk.at = "first" \/ \A i \in Pages!Present :
          Pages!GroupAfter(walk.cursor, listed[i]) <=> Sought(walk.cursor, listed[i])
    <3>1. ASSUME NEW i \in Pages!Present, walk.at # "first"
          PROVE  Pages!GroupAfter(walk.cursor, listed[i]) <=> Sought(walk.cursor, listed[i])
      <4>1. Typed(walk.cursor) /\ Typed(listed[i])
        BY <1>0, <1>t, <2>1, <3>1, PresentTyped
      <4>2. walk.cursor.id < listed[i].id <=> Sought(walk.cursor, listed[i])
        BY <2>1, <4>1, ByIdentifier DEF ByNumber
      <4>3. walk.cursor.id \in Int /\ listed[i].id \in Int
        BY <4>1, TypedColumns
      <4> QED
        BY <4>2, <4>3 DEF Pages!GroupAfter
    <3> QED
      BY <3>1
  <2>4. S = Unread
    BY <2>1, <2>3, UnreadIs
  <2>5. order = InOrder
    BY <2>2 DEF InOrder
  <2>6. walk.listing # "random" /\ Encoded(listed[last]) = listed[last]
    BY <2>1 DEF Pages!Milliseconds, Encoded
  <2> HIDE DEF S, order
  <2> QED
    BY <1>0, <2>1, <2>4, <2>5, <2>6, OnePage
<1> QED
  BY <1>1, <1>2, <1>3, <1>4, <1>5

-----------------------------------------------------------------------------
(* What a walk has shown.                                                    *)

Cells == [a : Int \union {Null}, b : Int \union {Null}, id : Int]
WalkRecords ==
    [listing : Pages!Listings, desc : BOOLEAN, mode : {"cursor", "offset"},
     at : {"first", "next", "ended", "refused"}, cursor : Cells, scope : Int, page : Nat,
     ends : SUBSET Cells, shown : [Numbers -> 0..2], steady : SUBSET Numbers]

Filled(rows) == {i \in Numbers : rows[i] # Pages!NoRow}
OrderOf(w, rows) == {p \in Filled(rows) \X Filled(rows) : Precedes(w.listing, w.desc, rows[p[1]], rows[p[2]])}
ShownIn(w) == {i \in Numbers : w.shown[i] > 0}

\* The rows that the pages so far have come past.
Passed(w, rows, i) ==
    IF w.mode = "offset" THEN Position(Filled(rows), OrderOf(w, rows), i) < w.page * PageSize
    ELSE IF w.listing = "random" THEN rows[i].a >= w.cursor.a
    ELSE ~ReachedIn(w.listing, w.desc, w.cursor, rows[i])

\* The rows that a cursor of the row end cuts off, and those that the pages so far did.
CutBy(l, end, s) ==
    \/ l \in Pages!Milliseconds /\ Pages!Timestamp(end.a) # end.a /\ Pages!Timestamp(end.a) = Pages!Timestamp(s.a)
    \/ l = "adminAlbumsNewest" /\ end.a = Null /\ s.a # Null
Cut(w, rows, i) == \E end \in w.ends : CutBy(w.listing, end, rows[i])
Accounted(w, rows, i) ==
    \/ w.shown[i] = IF Passed(w, rows, i) THEN 1 ELSE 0
    \/ w.shown[i] = 0 /\ Cut(w, rows, i)

CursorFits(w, rows) ==
    IF w.listing = "random"
    THEN /\ w.cursor.a \in 0..1 /\ Cardinality(ShownIn(w)) < PageSize
         /\ \A i \in Filled(rows) : w.shown[i] > 0 => rows[i].a >= w.cursor.a
    ELSE w.cursor \in ListRows(w.listing)

WalkInv(w, rows, n) ==
    /\ w \in WalkRecords /\ Pages!Walkable(w) /\ rows \in [Numbers -> Cells]
    /\ \A i \in Filled(rows) : rows[i] \in Pages!RowsOf(w.listing, i)
    /\ w.steady \subseteq Filled(rows) /\ w.ends \subseteq ListRows(w.listing)
    /\ w.at = "first" => w.page = 0 /\ \A i \in Numbers : w.shown[i] = 0
    /\ w.at = "next" /\ w.mode = "cursor" => CursorFits(w, rows)
    /\ w.mode = "cursor" \/ n = 0 =>
          /\ \A i \in w.steady : w.shown[i] <= 1
          /\ w.at = "next" => \A i \in w.steady : Accounted(w, rows, i)
          /\ w.at = "ended" => \/ w.listing = "random" /\ Cardinality(ShownIn(w)) >= PageSize
                               \/ \A i \in w.steady : w.shown[i] = 1 \/ Cut(w, rows, i)

PagesInv == /\ WalkInv(walk, listed, moves)
            /\ moves \in 0..MaxMoves /\ version \in 0..MaxMoves /\ version <= moves

LEMMA PagesFacts ==
    ASSUME PagesInv
    PROVE  /\ WalkFits /\ RowsFit /\ walk \in WalkRecords
           /\ Pages!Present = Filled(listed) /\ InOrder = OrderOf(walk, listed)
<1>1. Pages!Present = Filled(listed)
  BY DEF Pages!Present, Filled
<1>2. WalkFits
  BY DEF PagesInv, WalkInv, WalkFits, WalkRecords
<1>3. RowsFit
  BY <1>1 DEF PagesInv, WalkInv, CursorFits, RowsFit, Typed
<1>4. InOrder = OrderOf(walk, listed)
  BY <1>1 DEF InOrder, OrderOf, Sought
<1> QED
  BY <1>1, <1>2, <1>3, <1>4 DEF PagesInv, WalkInv

LEMMA OrderedPresent ==
    ASSUME PagesInv
    PROVE  \A S \in SUBSET Pages!Present : IsFiniteSet(S) /\ Orders(InOrder, S)
<1> SUFFICES ASSUME NEW S \in SUBSET Pages!Present PROVE IsFiniteSet(S) /\ Orders(InOrder, S)
  OBVIOUS
<1>1. S \in SUBSET Numbers /\ IsFiniteSet(S)
  <2>1. S \in SUBSET Numbers
    BY DEF Pages!Present
  <2> QED
    BY <2>1, PagesAssumption, FS_Subset
<1> DEFINE R == {p \in Numbers \X Numbers : Precedes(walk.listing, walk.desc, listed[p[1]], listed[p[2]])}
<1>2. walk.listing \in Pages!Listings /\ walk.desc \in BOOLEAN
  BY PagesFacts DEF WalkFits
<1>3. \A i \in S : listed[i] \in Pages!RowsOf(walk.listing, i)
  BY PagesFacts DEF RowsFit
<1>4. Orders(R, S)
  BY <1>1, <1>2, <1>3, RowsOrdered
<1>5. \A i, j \in S : <<i, j>> \in InOrder <=> <<i, j>> \in R
  BY <1>1 DEF InOrder, Sought
<1> HIDE DEF R
<1> QED
  BY <1>1, <1>4, <1>5 DEF Orders

\* What is shown once more.
LEMMA ShownMore ==
    ASSUME PagesInv, NEW page \in SUBSET Numbers
    PROVE  /\ Pages!Shown(page) \in [Numbers -> 0..2]
           /\ \A i \in page : Pages!Shown(page)[i] = IF walk.shown[i] < 2 THEN walk.shown[i] + 1 ELSE walk.shown[i]
           /\ \A i \in Numbers \ page : Pages!Shown(page)[i] = walk.shown[i]
<1>1. walk.shown \in [Numbers -> 0..2]
  BY DEF PagesInv, WalkInv, WalkRecords
<1> QED
  BY <1>1 DEF Pages!Shown

LEMMA PageIsPaged ==
    ASSUME NEW S, NEW order
    PROVE  /\ Pages!HasNext(RowsOver(S, order)) <=> Cardinality(FirstOf(S, order, PageSize + 1)) > PageSize
           /\ PageIn(S, order) = PageOf(S, order, PageSize)
           /\ LastIn(S, order) = LastOf(S, order, PageSize)
<1>1. \A T : \A i : Pages!Place(T, i, order) = Position(T, order, i)
  BY PagesCount DEF Pages!Place, Position
<1>2. RowsOver(S, order) = FirstOf(S, order, PageSize + 1)
  <2>1. 0..0 + Pages!CursorLimit - 1 = 0..(PageSize + 1) - 1
    BY PagesAssumption DEF Pages!CursorLimit
  <2>2. \A i \in S : Pages!Place(S, i, order) = Position(S, order, i)
    BY <1>1
  <2>3. RowsOver(S, order) = {i \in S : Pages!Place(S, i, order) \in 0..0 + Pages!CursorLimit - 1}
    BY Zenon DEF RowsOver, Pages!Read
  <2>4. FirstOf(S, order, PageSize + 1) = {i \in S : Position(S, order, i) \in 0..(PageSize + 1) - 1}
    BY Zenon DEF FirstOf
  <2>5. {i \in S : Pages!Place(S, i, order) \in 0..(PageSize + 1) - 1}
          = {i \in S : Position(S, order, i) \in 0..(PageSize + 1) - 1}
    BY <2>2
  <2> QED
    BY <2>1, <2>3, <2>4, <2>5, Zenon
<1>3. PageIn(S, order) = PageOf(S, order, PageSize)
  BY <1>1, <1>2 DEF PageIn, Pages!WithoutLookahead, PageOf
<1>4. LastIn(S, order) = LastOf(S, order, PageSize)
  BY <1>1, <1>3 DEF LastIn, LastOf
<1> QED
  BY <1>2, <1>3, <1>4, PagesCount DEF Pages!HasNext

LEMMA Uncut == \A w, rows, i : w.listing \notin Pages!Milliseconds \union {"adminAlbumsNewest"} => ~Cut(w, rows, i)
BY DEF Cut, CutBy

\* A cursor is a row of its list: what it finds follows the row it is of, and what
\* follows that row is found or cut off.
LEMMA CursorOf ==
    ASSUME WalkFits, walk.listing # "random", NEW r, Typed(r)
    PROVE  /\ Typed(Encoded(r)) /\ Encoded(r) \in Cells
           /\ \A s : Typed(s) => /\ Reached(Encoded(r), s) => Sought(r, s)
                                 /\ Sought(r, s) => Reached(Encoded(r), s) \/ CutBy(walk.listing, r, s)
           /\ walk.listing = "adminAlbumsNewest" => Encoded(r) = r
<1>1. PICK i \in Numbers : r \in Pages!RowsOf(walk.listing, i)
  BY DEF Typed, ListRows
<1>2. /\ r.id = i /\ i \in Int /\ r = [a |-> r.a, b |-> r.b, id |-> r.id]
      /\ r.a \in Int \union {Null} /\ r.b \in Int \union {Null}
      /\ walk.listing \in Pages!Milliseconds => r.a \in 0..3
  BY <1>1, RowColumns, PagesAssumption DEF WalkFits
<1>3. CASE walk.listing \in Pages!Milliseconds
  <2> DEFINE c == [a |-> Pages!Timestamp(r.a), b |-> r.b, id |-> r.id]
  <2>1. Encoded(r) = c
    BY <1>2, <1>3 DEF Encoded, Pages!Milliseconds
  <2>2. \A x \in 0..3 : /\ Pages!Timestamp(x) \in 0..3 /\ Pages!Timestamp(x) \in {x, x - 1}
                        /\ x # 0 => Pages!Timestamp(x) = Pages!Timestamp(x - 1) \/ Pages!Timestamp(x) = x
    BY DEF Pages!Timestamp
  <2>3. Pages!ValuesOf(walk.listing) = {<<a, 0>> : a \in 0..3}
    BY <1>3 DEF Pages!ValuesOf, Pages!Titles, Pages!Places, Pages!Times, Pages!Milliseconds, Pages!Dates
  <2>4. r.b = 0 /\ c \in Pages!RowsOf(walk.listing, i)
    <3>1. PICK v \in Pages!ValuesOf(walk.listing) : r = [a |-> v[1], b |-> v[2], id |-> i]
      BY <1>1 DEF Pages!RowsOf
    <3>2. r.b = 0
      BY <2>3, <3>1
    <3>3. <<c.a, c.b>> \in Pages!ValuesOf(walk.listing) /\ c.id = i
      BY <1>2, <1>3, <2>2, <2>3, <3>2
    <3> QED
      BY <3>2, <3>3, <1>2 DEF Pages!RowsOf
  <2>5. Typed(c) /\ c \in Cells
    BY <1>2, <1>3, <2>2, <2>4 DEF Typed, ListRows, Cells
  <2>6. walk.listing \in Columns /\ walk.listing # "adminAlbumsNewest" /\ walk.desc = TRUE
    BY <1>3 DEF Columns, Pages!Milliseconds, WalkFits, Pages!Walkable, Pages!AlwaysUp, Pages!BothWays,
                Pages!Titles, Pages!Pairs
  <2>7. ASSUME NEW s, Typed(s)
        PROVE  /\ Reached(c, s) => Sought(r, s)
               /\ Sought(r, s) => Reached(c, s) \/ CutBy(walk.listing, r, s)
    <3>1. s.a \in 0..3 /\ s.id \in Int
      BY <1>3, <2>7, TypedColumns
    <3>2. /\ Sought(r, s) <=> s.a < r.a \/ (s.a = r.a /\ s.id < r.id)
          /\ Reached(c, s) <=> s.a < c.a \/ (s.a = c.a /\ s.id < c.id)
      BY <2>5, <2>6, <2>7, ByColumns DEF Pages!Seek, Pages!Beyond, Reached, ReachedIn, Sought
    <3>3. c.a = Pages!Timestamp(r.a) /\ c.id = r.id /\ r.a \in 0..3
      BY <1>2, <1>3
    <3> HIDE DEF c
    <3>4. s.a < r.a /\ ~(s.a < c.a) /\ s.id \in Int => c.a # r.a /\ Pages!Timestamp(r.a) = Pages!Timestamp(s.a)
      BY <2>2, <3>1, <3>3 DEF Pages!Timestamp
    <3> QED
      BY <1>2, <1>3, <2>2, <3>1, <3>2, <3>3, <3>4 DEF CutBy
  <2> QED
    BY <2>1, <2>5, <2>6, <2>7
<1>4. CASE walk.listing = "albumOrder"
  <2> DEFINE c == [a |-> Pages!Or(r.a, 1), b |-> Pages!Or(r.b, 0), id |-> r.id]
  <2>1. Encoded(r) = c
    BY <1>2, <1>4 DEF Encoded, Pages!Milliseconds
  <2>2. Pages!ValuesOf(walk.listing) = {<<a, b>> : a \in {1, 2, Null}, b \in {0, 1, Null}}
    BY <1>4 DEF Pages!ValuesOf, Pages!Titles, Pages!Places, Pages!Times, Pages!Milliseconds, Pages!Dates
  <2>3. PICK v \in Pages!ValuesOf(walk.listing) : r = [a |-> v[1], b |-> v[2], id |-> i]
    BY <1>1 DEF Pages!RowsOf
  <2>4. r.a \in {1, 2, Null} /\ r.b \in {0, 1, Null}
    BY <2>2, <2>3
  <2>5. Pages!Or(r.a, 1) \in {1, 2} /\ Pages!Or(r.b, 0) \in {0, 1} /\ Null \notin Int
    BY <2>4, PagesAssumption DEF Pages!Or
  <2>6. <<c.a, c.b>> \in Pages!ValuesOf(walk.listing) /\ c.id = i
    BY <1>2, <2>2, <2>5
  <2>7. c \in Pages!RowsOf(walk.listing, i)
    BY <2>6, <1>2 DEF Pages!RowsOf
  <2>8. Key(walk.listing, walk.desc, c) = Key(walk.listing, walk.desc, r)
    BY <1>4, <2>5 DEF Key, ByNumber, Pages!Or
  <2> QED
    BY <1>2, <1>4, <2>1, <2>5, <2>7, <2>8 DEF Typed, ListRows, Sought, Reached, ReachedIn, Precedes, Cells
<1>5. CASE walk.listing \notin Pages!Milliseconds \union {"albumOrder"}
  <2>1. Encoded(r) = r
    BY <1>5 DEF Encoded
  <2> QED
    BY <1>2, <2>1 DEF Cells, Reached, ReachedIn, Sought, CutBy
<1> QED
  BY <1>3, <1>4, <1>5

\* A step of a walk whose rows stay as they are.
LEMMA WalkKept ==
    ASSUME PagesInv, UNCHANGED <<listed, version, moves>>, WalkInv(walk', listed, moves)
    PROVE  PagesInv'
BY DEF PagesInv

\* Before a page every untouched row is shown already, cut off or unread.
LEMMA SteadyUnread ==
    ASSUME PagesInv, walk.listing # "random", walk.mode = "cursor", walk.at \in {"first", "next"}
    PROVE  \A i \in walk.steady : /\ i \in Pages!Present
                                   /\ \/ walk.shown[i] = IF i \in Unread THEN 0 ELSE 1
                                      \/ walk.shown[i] = 0 /\ Cut(walk, listed, i)
<1> SUFFICES ASSUME NEW i \in walk.steady
             PROVE  /\ i \in Pages!Present
                    /\ \/ walk.shown[i] = IF i \in Unread THEN 0 ELSE 1
                       \/ walk.shown[i] = 0 /\ Cut(walk, listed, i)
  OBVIOUS
<1>1. i \in Pages!Present /\ i \in Numbers
  BY PagesFacts DEF PagesInv, WalkInv, Filled
<1>2. CASE walk.at = "first"
  BY <1>1, <1>2 DEF PagesInv, WalkInv, Unread
<1>3. CASE walk.at = "next"
  <2>1. Accounted(walk, listed, i)
    BY <1>3 DEF PagesInv, WalkInv
  <2>2. Passed(walk, listed, i) <=> ~Reached(walk.cursor, listed[i])
    BY DEF Passed, Reached
  <2> QED
    BY <1>1, <1>3, <2>1, <2>2 DEF Unread, Accounted
<1> QED
  BY <1>2, <1>3

\* A page shows what comes next in the order, and the cursor is its last row.
LEMMA TurnKeepsPages ==
    ASSUME PagesInv, Turn
    PROVE  PagesInv'
<1> DEFINE S == Unread
           sheet == PageIn(S, InOrder)
           last == LastIn(S, InOrder)
           more == Pages!HasNext(RowsOver(S, InOrder))
           c == Encoded(listed[last])
           w == IF more
                THEN [walk EXCEPT !.at = "next", !.shown = Pages!Shown(sheet), !.scope = Pages!Scope, !.cursor = c,
                                  !.ends = @ \union {listed[last]}]
                ELSE [walk EXCEPT !.at = "ended", !.shown = Pages!Shown(sheet)]
<1>1. /\ walk' = w /\ UNCHANGED <<listed, version, moves>>
      /\ walk.listing # "random" /\ walk.mode = "cursor" /\ walk.at \in {"first", "next"}
  BY Zenon DEF Turn, PageOver, PageTo
<1>2. /\ WalkFits /\ RowsFit /\ walk \in WalkRecords
      /\ Pages!Present = Filled(listed) /\ InOrder = OrderOf(walk, listed)
      /\ \A i \in Pages!Present : i \in Numbers /\ Typed(listed[i])
  BY PagesFacts, PresentTyped
<1>3. S \in SUBSET Pages!Present /\ S \in SUBSET Numbers
  BY <1>2 DEF Unread
<1>4. /\ sheet \subseteq S
      /\ ~more => sheet = S
      /\ more => last \in sheet /\ \A i \in S : i \in sheet <=> ~(<<last, i>> \in InOrder)
  <2>1. IsFiniteSet(S) /\ Orders(InOrder, S)
    BY <1>3, OrderedPresent
  <2>2. PageSize \in Nat \ {0}
    BY PagesAssumption
  <2>3. /\ more <=> Cardinality(FirstOf(S, InOrder, PageSize + 1)) > PageSize
        /\ sheet = PageOf(S, InOrder, PageSize) /\ last = LastOf(S, InOrder, PageSize)
    BY PageIsPaged
  <2> HIDE DEF S, sheet, last, more
  <2> QED
    BY <2>1, <2>2, <2>3, Paged
<1>5. \A i \in walk.steady : /\ i \in Pages!Present
                             /\ \/ walk.shown[i] = IF i \in S THEN 0 ELSE 1
                                \/ walk.shown[i] = 0 /\ Cut(walk, listed, i)
  BY <1>1, SteadyUnread
<1>6. ASSUME more
      PROVE  /\ c \in Cells /\ c \in ListRows(walk.listing)
             /\ last \in S /\ listed[last] \in Cells /\ listed[last] \in ListRows(walk.listing)
             /\ \A i \in Pages!Present :
                   /\ Reached(c, listed[i]) => <<last, i>> \in InOrder
                   /\ <<last, i>> \in InOrder => Reached(c, listed[i]) \/ CutBy(walk.listing, listed[last], listed[i])
             /\ walk.listing = "adminAlbumsNewest" => c = listed[last]
  <2> HIDE DEF S, sheet, last, more
  <2>1. last \in S /\ last \in Pages!Present
    BY <1>3, <1>4, <1>6
  <2>2. Typed(listed[last])
    BY <1>2, <2>1
  <2>3. /\ Typed(c) /\ c \in Cells
        /\ \A s : Typed(s) => /\ Reached(c, s) => Sought(listed[last], s)
                              /\ Sought(listed[last], s) => Reached(c, s) \/ CutBy(walk.listing, listed[last], s)
        /\ walk.listing = "adminAlbumsNewest" => c = listed[last]
    BY <1>1, <1>2, <2>2, CursorOf
  <2>5. listed[last] \in Cells
    BY <1>3, <2>1 DEF PagesInv, WalkInv, Pages!Present
  <2> HIDE DEF c
  <2>4. \A i \in Pages!Present : Sought(listed[last], listed[i]) <=> <<last, i>> \in InOrder
    BY <2>1 DEF InOrder
  <2>6. \A i \in Pages!Present :
           /\ Reached(c, listed[i]) => <<last, i>> \in InOrder
           /\ <<last, i>> \in InOrder => Reached(c, listed[i]) \/ CutBy(walk.listing, listed[last], listed[i])
    BY <1>2, <2>3, <2>4
  <2>7. c \in ListRows(walk.listing) /\ listed[last] \in ListRows(walk.listing)
    BY <2>2, <2>3 DEF Typed
  <2> QED
    BY <2>1, <2>3, <2>5, <2>6, <2>7
<1> HIDE DEF S, sheet, last, more, c
<1>7. /\ Pages!Shown(sheet) \in [Numbers -> 0..2]
      /\ \A i \in walk.steady : \/ Pages!Shown(sheet)[i] = IF i \in S /\ i \notin sheet THEN 0 ELSE 1
                                \/ i \notin sheet /\ Pages!Shown(sheet)[i] = 0 /\ Cut(walk, listed, i)
  <2>1. sheet \in SUBSET Numbers
    BY <1>3, <1>4
  <2>2. /\ Pages!Shown(sheet) \in [Numbers -> 0..2]
        /\ \A i \in sheet : Pages!Shown(sheet)[i] = IF walk.shown[i] < 2 THEN walk.shown[i] + 1 ELSE walk.shown[i]
        /\ \A i \in Numbers \ sheet : Pages!Shown(sheet)[i] = walk.shown[i]
    BY <2>1, ShownMore
  <2> QED
    BY <1>2, <1>4, <1>5, <2>1, <2>2
<1>8. /\ w \in WalkRecords /\ w.listing = walk.listing /\ w.desc = walk.desc /\ w.mode = walk.mode
      /\ w.steady = walk.steady /\ w.shown = Pages!Shown(sheet)
      /\ w.at = IF more THEN "next" ELSE "ended"
      /\ more => w.cursor = c /\ w.ends = walk.ends \union {listed[last]}
      /\ ~more => w.ends = walk.ends
  <2>1. Pages!Scope \in Int
    BY DEF Pages!Scope, PagesInv
  <2> QED
    BY <1>2, <1>6, <1>7, <2>1 DEF WalkRecords
<1>11. /\ \A i : Cut(walk, listed, i) => Cut(w, listed, i)
      /\ \A i : more /\ CutBy(walk.listing, listed[last], listed[i]) => Cut(w, listed, i)
  BY <1>8 DEF Cut
<1>9. ASSUME more, NEW i \in walk.steady PROVE Accounted(w, listed, i)
  <2>1. Passed(w, listed, i) <=> ~Reached(c, listed[i])
    BY <1>1, <1>8, <1>9 DEF Passed, Reached
  <2>2. /\ Reached(c, listed[i]) => <<last, i>> \in InOrder
        /\ <<last, i>> \in InOrder => Reached(c, listed[i]) \/ Cut(w, listed, i)
    BY <1>5, <1>6, <1>9, <1>11
  <2>3. CASE i \in S
    BY <1>4, <1>7, <1>8, <1>9, <1>11, <2>1, <2>2, <2>3 DEF Accounted
  <2>4. CASE i \notin S
    <3>1. i \in Pages!Present /\ last \in Pages!Present
      BY <1>3, <1>5, <1>6, <1>9
    <3>2. walk.at = "next" /\ ~Reached(walk.cursor, listed[i])
      BY <1>1, <2>4, <3>1 DEF S, Unread
    <3>3. Reached(walk.cursor, listed[last])
      BY <1>6, <1>9, <3>2 DEF S, Unread
    <3>4. Typed(walk.cursor) /\ Typed(listed[last]) /\ Typed(listed[i])
      BY <1>1, <1>2, <3>1, <3>2, PresentTyped
    <3>5. Sought(listed[last], listed[i]) => Sought(walk.cursor, listed[i])
      BY <1>2, <3>3, <3>4, Follow DEF Typed, Sought, Reached, ReachedIn, WalkFits
    <3>6. Reached(c, listed[i]) => Sought(listed[last], listed[i])
      BY <2>2 DEF InOrder
    <3>7. ~Reached(c, listed[i])
      BY <1>6, <1>9, <3>2, <3>3, <3>5, <3>6 DEF Reached, ReachedIn, Sought
    <3> QED
      BY <1>4, <1>7, <1>8, <1>9, <1>11, <2>1, <2>4, <3>7 DEF Accounted
  <2> QED
    BY <2>3, <2>4
<1>10. WalkInv(w, listed, moves)
  <2>1. /\ Pages!Walkable(w) /\ listed \in [Numbers -> Cells]
        /\ \A i \in Filled(listed) : listed[i] \in Pages!RowsOf(w.listing, i)
        /\ w.steady \subseteq Filled(listed)
    BY <1>8 DEF PagesInv, WalkInv, Pages!Walkable
  <2>0. w.ends \subseteq ListRows(w.listing)
    BY <1>6, <1>8 DEF PagesInv, WalkInv
  <2>2. /\ w.at # "first"
        /\ w.at = "next" => more
        /\ w.at = "ended" => ~more
    BY <1>8
  <2>3. more => CursorFits(w, listed)
    BY <1>1, <1>6, <1>8 DEF CursorFits
  <2>4. \A i \in w.steady : w.shown[i] <= 1 /\ (~more => w.shown[i] = 1 \/ Cut(w, listed, i))
    BY <1>4, <1>7, <1>8, <1>11
  <2>5. more => \A i \in w.steady : Accounted(w, listed, i)
    BY <1>8, <1>9
  <2> HIDE DEF w
  <2> QED
    BY <1>8, <2>0, <2>1, <2>2, <2>3, <2>4, <2>5 DEF WalkInv
<1> QED
  BY <1>1, <1>10, WalkKept

LEMMA Division ==
    ASSUME NEW a \in Nat, NEW n \in Nat \ {0}, NEW p \in Nat, a \div n <= p
    PROVE  a < (p + 1) * n
<1>1. a = n * (a \div n) + (a % n) /\ (a % n) \in 0..n - 1 /\ (a \div n) \in Nat
  OBVIOUS
<1>2. \A x, y, m \in Nat : x <= y => m * x <= m * y
  OBVIOUS
<1>3. n * (a \div n) <= n * p
  BY <1>1, <1>2
<1>4. (p + 1) * n = n * p + n /\ n * p \in Nat
  OBVIOUS
<1> QED
  BY <1>1, <1>3, <1>4

\* Pages by number come past one page of places at a time.
LEMMA NumberKeepsPages ==
    ASSUME PagesInv, Pages!ListByNumber
    PROVE  PagesInv'
<1> DEFINE k == walk.page * PageSize
           rows == Pages!Read(Pages!Present, k, PageSize, ColumnOrder)
           ends == walk.page + 1 >= Pages!TotalPages(Cardinality(Pages!Present))
           w == [walk EXCEPT !.shown = Pages!Shown(rows), !.page = @ + 1, !.at = IF ends THEN "ended" ELSE "next"]
           place(i) == Position(Pages!Present, InOrder, i)
<1>1. /\ walk' = w /\ UNCHANGED <<listed, version, moves>>
      /\ walk.mode = "offset" /\ walk.at \in {"first", "next"}
  BY PagesCount, Zenon DEF Pages!ListByNumber, Pages!Sorted, ColumnOrder
<1>2. /\ WalkFits /\ RowsFit /\ walk \in WalkRecords
      /\ Pages!Present = Filled(listed) /\ InOrder = OrderOf(walk, listed)
      /\ Pages!Present \in SUBSET Numbers
  BY PagesFacts, PresentTyped
<1>3. walk.listing \in Columns /\ walk.listing # "random"
  BY <1>1, <1>2 DEF WalkFits, Pages!Walkable, Columns, Pages!Titles
<1>4. ColumnOrder = InOrder
  BY <1>2, <1>3, ColumnTurns
<1>5. /\ Cardinality(Pages!Present) \in Nat
      /\ \A i \in Pages!Present : place(i) \in 0..Cardinality(Pages!Present) - 1
  BY OrderedPresent, Positions
<1>6. walk.page \in Nat /\ PageSize \in Nat \ {0} /\ k \in Nat /\ (walk.page + 1) * PageSize = k + PageSize
  <2>1. walk.page \in Nat /\ PageSize \in Nat \ {0}
    BY <1>2, PagesAssumption DEF WalkRecords
  <2> QED
    BY <2>1
<1>7. \A i \in Pages!Present : i \in rows <=> place(i) >= k /\ place(i) < k + PageSize
  <2>1. \A i \in Pages!Present : Pages!Place(Pages!Present, i, InOrder) = place(i)
    BY PagesCount DEF Pages!Place, Position
  <2>2. \A i \in Pages!Present : i \in rows <=> place(i) \in k..k + PageSize - 1
    BY <1>4, <2>1 DEF Pages!Read
  <2> HIDE DEF k, rows, place
  <2> QED
    BY <1>5, <1>6, <2>2
<1>8. rows \in SUBSET Numbers
  BY <1>2 DEF Pages!Read
<1>9. ASSUME ends, NEW i \in Pages!Present PROVE place(i) < k + PageSize
  <2> DEFINE total == Cardinality(Pages!Present)
  <2>1. total # 0 /\ total - 1 \in Nat /\ place(i) <= total - 1 /\ place(i) \in Nat /\ total \in Nat
    BY <1>5
  <2>2. (total - 1) \div PageSize <= walk.page
    <3>1. (total - 1) \div PageSize \in Nat
      BY <1>6, <2>1
    <3>2. walk.page + 1 >= (total - 1) \div PageSize + 1
      BY <1>9, <2>1 DEF Pages!TotalPages
    <3> QED
      BY <1>6, <3>1, <3>2
  <2> HIDE DEF total, k, place
  <2>3. total - 1 < (walk.page + 1) * PageSize
    BY <1>6, <2>1, <2>2, Division
  <2> QED
    BY <1>6, <2>1, <2>3
<1> HIDE DEF k, rows, ends, place
<1>10. /\ Pages!Shown(rows) \in [Numbers -> 0..2]
       /\ \A i \in rows : Pages!Shown(rows)[i] = IF walk.shown[i] < 2 THEN walk.shown[i] + 1 ELSE walk.shown[i]
       /\ \A i \in Numbers \ rows : Pages!Shown(rows)[i] = walk.shown[i]
  BY <1>8, ShownMore
<1>11. /\ w \in WalkRecords /\ w.listing = walk.listing /\ w.desc = walk.desc /\ w.mode = walk.mode
       /\ w.steady = walk.steady /\ w.shown = Pages!Shown(rows) /\ w.page = walk.page + 1
       /\ w.ends = walk.ends /\ w.at = IF ends THEN "ended" ELSE "next"
  <2> DEFINE v(f, n, x) == [walk EXCEPT !.shown = f, !.page = n, !.at = x]
  <2>5. \A x \in {"ended", "next"}, f \in [Numbers -> 0..2], n \in Nat : v(f, n, x) \in WalkRecords
    BY <1>2 DEF WalkRecords
  <2>6. \A x, f, n :
          /\ v(f, n, x).listing = walk.listing
          /\ v(f, n, x).desc = walk.desc /\ v(f, n, x).mode = walk.mode
          /\ v(f, n, x).steady = walk.steady /\ v(f, n, x).shown = f
          /\ v(f, n, x).page = n /\ v(f, n, x).at = x /\ v(f, n, x).ends = walk.ends
    BY <1>2 DEF WalkRecords
  <2> DEFINE x == IF ends THEN "ended" ELSE "next"
             f == Pages!Shown(rows)
             n == walk.page + 1
  <2>2. n \in Nat /\ x \in {"ended", "next"} /\ f \in [Numbers -> 0..2]
    BY <1>6, <1>10
  <2>3. w = v(f, n, x)
    BY Zenon
  <2> HIDE DEF v, w, x, f, n
  <2>4. /\ w \in WalkRecords /\ w.listing = walk.listing /\ w.desc = walk.desc /\ w.mode = walk.mode
        /\ w.steady = walk.steady /\ w.shown = f /\ w.page = n /\ w.at = x /\ w.ends = walk.ends
    BY <2>2, <2>3, <2>5, <2>6
  <2> QED
    BY <2>4 DEF x, f, n
<1>12. ASSUME moves = 0, NEW i \in walk.steady
       PROVE  /\ w.shown[i] = IF place(i) < k + PageSize THEN 1 ELSE 0
              /\ Passed(w, listed, i) <=> place(i) < k + PageSize
  <2>1. i \in Pages!Present /\ i \in Numbers
    BY <1>2 DEF PagesInv, WalkInv
  <2>2. walk.shown[i] = IF place(i) < k THEN 1 ELSE 0
    <3>1. CASE walk.at = "first"
      <4>1. walk.page = 0 /\ walk.shown[i] = 0
        BY <2>1, <3>1 DEF PagesInv, WalkInv
      <4>2. k = 0
        BY <1>6, <4>1 DEF k
      <4> QED
        BY <1>5, <2>1, <4>1, <4>2
    <3>2. CASE walk.at = "next"
      <4>0. walk.listing \in {"adminTracks", "adminAlbums", "jobs"}
        BY <1>1, <1>2 DEF WalkFits, Pages!Walkable
      <4>3. ~Cut(walk, listed, i)
        BY <4>0, Uncut DEF Pages!Milliseconds
      <4>4. Accounted(walk, listed, i)
        BY <1>12, <3>2 DEF PagesInv, WalkInv
      <4>1. walk.shown[i] = IF Passed(walk, listed, i) THEN 1 ELSE 0
        BY <4>3, <4>4 DEF Accounted
      <4>2. Passed(walk, listed, i) <=> place(i) < k
        BY <1>1, <1>2 DEF Passed, place, k
      <4> QED
        BY <4>1, <4>2
    <3> QED
      BY <1>1, <3>1, <3>2
  <2>3. w.shown[i] = IF place(i) < k + PageSize THEN 1 ELSE 0
    BY <1>5, <1>6, <1>7, <1>10, <1>11, <2>1, <2>2
  <2>4. Passed(w, listed, i) <=> place(i) < k + PageSize
    <3>1. OrderOf(w, listed) = InOrder
      BY <1>2, <1>11 DEF OrderOf
    <3>2. Passed(w, listed, i) <=> place(i) < (walk.page + 1) * PageSize
      BY <1>1, <1>2, <1>11, <3>1 DEF Passed, place
    <3> QED
      BY <1>6, <3>2
  <2> QED
    BY <2>3, <2>4
<1>13. WalkInv(w, listed, moves)
  <2>1. /\ Pages!Walkable(w) /\ listed \in [Numbers -> Cells]
        /\ \A i \in Filled(listed) : listed[i] \in Pages!RowsOf(w.listing, i)
        /\ w.steady \subseteq Filled(listed)
    BY <1>11 DEF PagesInv, WalkInv, Pages!Walkable
  <2>2. w.at # "first" /\ w.mode # "cursor"
    BY <1>1, <1>11
  <2>3. moves = 0 => \A i \in w.steady : w.shown[i] <= 1 /\ Accounted(w, listed, i)
    BY <1>11, <1>12 DEF Accounted
  <2>4. moves = 0 /\ w.at = "ended" => \A i \in w.steady : w.shown[i] = 1
    <3> SUFFICES ASSUME moves = 0, w.at = "ended", NEW i \in walk.steady PROVE w.shown[i] = 1
      BY <1>11
    <3>1. ends /\ i \in Pages!Present
      BY <1>2, <1>11 DEF PagesInv, WalkInv
    <3> QED
      BY <1>9, <1>12, <3>1
  <2>5. w.ends \subseteq ListRows(w.listing)
    BY <1>11 DEF PagesInv, WalkInv
  <2> HIDE DEF w
  <2> QED
    BY <1>11, <2>1, <2>2, <2>3, <2>4, <2>5 DEF WalkInv
<1> QED
  BY <1>1, <1>13, WalkKept

\* Random rows come from an anchor on, and then from the start.
LEMMA RandomKeepsPages ==
    ASSUME PagesInv, Pages!RandomRows
    PROVE  PagesInv'
<1> DEFINE first == walk.at = "first"
           had == Cardinality(ShownIn(walk))
<1>1. UNCHANGED <<listed, version, moves>> /\ walk.listing = "random" /\ walk.at \in {"first", "next"}
  BY DEF Pages!RandomRows
<1>2. PICK anchor \in IF first THEN 0..1 ELSE {walk.cursor.a} :
            walk' = [walk EXCEPT
               !.shown = Pages!Shown(Pages!Read({i \in Pages!Present : first = (listed[i].a >= anchor)},
                                                0, PageSize - had, ColumnOrder)),
               !.cursor = [Pages!NoRow EXCEPT !.a = anchor],
               !.at = IF first /\ Cardinality(Pages!Read({i \in Pages!Present : first = (listed[i].a >= anchor)},
                                                0, PageSize - had, ColumnOrder)) < PageSize
                      THEN "next" ELSE "ended"]
  BY PagesCount, Zenon DEF Pages!RandomRows, Pages!Sorted, ColumnOrder, ShownIn
<1> DEFINE match == {i \in Pages!Present : first = (listed[i].a >= anchor)}
           rows == Pages!Read(match, 0, PageSize - had, ColumnOrder)
           from == [Pages!NoRow EXCEPT !.a = anchor]
           phase == IF first /\ Cardinality(rows) < PageSize THEN "next" ELSE "ended"
           v(f, n, x) == [walk EXCEPT !.shown = f, !.cursor = n, !.at = x]
           w == v(Pages!Shown(rows), from, phase)
<1>3. walk' = w
  BY <1>2, Zenon
<1>4. /\ WalkFits /\ RowsFit /\ walk \in WalkRecords
      /\ Pages!Present = Filled(listed) /\ Pages!Present \in SUBSET Numbers
      /\ \A i \in Pages!Present : Typed(listed[i])
  BY PagesFacts, PresentTyped
<1>5. ColumnOrder = InOrder /\ walk.mode = "cursor"
  BY <1>1, <1>4, ColumnTurns DEF Columns, WalkFits, Pages!Walkable
<1>6. \A i \in Pages!Present : listed[i].a \in 0..1
  BY <1>1, <1>4, TypedColumns
<1>7. /\ first => \A i \in Numbers : walk.shown[i] = 0
      /\ ~first => /\ walk.cursor.a \in 0..1 /\ had < PageSize
                   /\ \A i \in Pages!Present : walk.shown[i] > 0 => listed[i].a >= walk.cursor.a
                   /\ \A i \in walk.steady : walk.shown[i] = IF listed[i].a >= walk.cursor.a THEN 1 ELSE 0
  <2>1. \A i \in Numbers : ~Cut(walk, listed, i)
    BY <1>1, Uncut DEF Pages!Milliseconds
  <2> QED
    BY <1>1, <1>4, <1>5, <2>1 DEF PagesInv, WalkInv, CursorFits, Accounted, Passed, Filled
<1>8. IsFiniteSet(ShownIn(walk)) /\ had \in Nat /\ (first => had = 0)
  <2>1. ShownIn(walk) \in SUBSET Numbers
    BY DEF ShownIn
  <2>2. first => ShownIn(walk) = {}
    BY <1>7 DEF ShownIn
  <2> QED
    BY <2>1, <2>2, PagesAssumption, FS_Subset, FS_CardinalityType, FS_EmptySet
<1>9. anchor \in 0..1 /\ (~first => anchor = walk.cursor.a)
  <2>1. (first => anchor \in 0..1) /\ (~first => anchor = walk.cursor.a)
    BY <1>2
  <2> QED
    BY <1>7, <2>1
<1>10. \A i \in Pages!Present : i \in match <=> (first <=> listed[i].a >= anchor)
  BY <1>6, <1>9
<1>11. /\ rows \subseteq match /\ IsFiniteSet(rows) /\ Cardinality(rows) \in Nat
       /\ rows = match \/ Cardinality(rows) = PageSize - had
  <2>1. PageSize - had \in Nat
    BY <1>7, <1>8, PagesAssumption
  <2>2. IsFiniteSet(match) /\ Orders(InOrder, match)
    BY OrderedPresent
  <2>3. rows = FirstOf(match, InOrder, PageSize - had)
    <3>1. \A i \in match : Pages!Place(match, i, InOrder) = Position(match, InOrder, i)
      BY PagesCount DEF Pages!Place, Position
    <3>2. 0..0 + (PageSize - had) - 1 = 0..(PageSize - had) - 1
      BY <2>1
    <3>3. rows = {i \in match : Pages!Place(match, i, InOrder) \in 0..0 + (PageSize - had) - 1}
      BY <1>5, Zenon DEF Pages!Read
    <3>4. {i \in match : Pages!Place(match, i, InOrder) \in 0..(PageSize - had) - 1}
            = {i \in match : Position(match, InOrder, i) \in 0..(PageSize - had) - 1}
      BY <3>1
    <3> HIDE DEF match, rows, had
    <3> QED
      BY <3>2, <3>3, <3>4, Zenon DEF FirstOf
  <2> HIDE DEF match, rows, had
  <2>4. /\ rows \subseteq match /\ IsFiniteSet(rows)
        /\ rows = match \/ Cardinality(rows) = PageSize - had
    BY <2>1, <2>2, <2>3, Readings
  <2> QED
    BY <2>4, FS_CardinalityType
<1>12. match \in SUBSET Pages!Present
  OBVIOUS
<1>13. from \in Cells /\ from.a = anchor
  BY <1>9 DEF Cells, Pages!NoRow
<1>14. phase \in {"next", "ended"} /\ (phase = "next" <=> first /\ Cardinality(rows) < PageSize)
  OBVIOUS
<1> HIDE DEF match, rows, from, phase, had
<1>15. rows \in SUBSET Numbers
  BY <1>4, <1>11, <1>12
<1>16. /\ Pages!Shown(rows) \in [Numbers -> 0..2]
       /\ \A i \in rows : Pages!Shown(rows)[i] = IF walk.shown[i] < 2 THEN walk.shown[i] + 1 ELSE walk.shown[i]
       /\ \A i \in Numbers \ rows : Pages!Shown(rows)[i] = walk.shown[i]
  BY <1>15, ShownMore
<1>17. /\ w \in WalkRecords /\ w.listing = walk.listing /\ w.desc = walk.desc
       /\ w.mode = walk.mode /\ w.page = walk.page
       /\ w.steady = walk.steady /\ w.shown = Pages!Shown(rows)
       /\ w.cursor = from /\ w.at = phase /\ w.ends = walk.ends
  <2>1. ASSUME NEW x \in {"next", "ended"}, NEW f \in [Numbers -> 0..2], NEW n \in Cells
        PROVE  v(f, n, x) \in WalkRecords
    <3>1. ASSUME NEW u \in WalkRecords PROVE [u EXCEPT !.shown = f] \in WalkRecords
      BY <3>1 DEF WalkRecords
    <3>2. ASSUME NEW u \in WalkRecords PROVE [u EXCEPT !.cursor = n] \in WalkRecords
      BY <3>2 DEF WalkRecords
    <3>3. ASSUME NEW u \in WalkRecords PROVE [u EXCEPT !.at = x] \in WalkRecords
      BY <3>3 DEF WalkRecords
    <3> DEFINE u1 == [walk EXCEPT !.shown = f]  u2 == [u1 EXCEPT !.cursor = n]
    <3>4. v(f, n, x) = [u2 EXCEPT !.at = x]
      BY Zenon
    <3>5. u1 \in WalkRecords
      BY <1>4, <3>1
    <3> HIDE DEF u1
    <3>6. u2 \in WalkRecords
      BY <3>2, <3>5
    <3> HIDE DEF v, u2
    <3> QED
      BY <3>3, <3>4, <3>6
  <2>2. \A x, f, n :
          /\ v(f, n, x).listing = walk.listing /\ v(f, n, x).desc = walk.desc
          /\ v(f, n, x).mode = walk.mode /\ v(f, n, x).page = walk.page
          /\ v(f, n, x).steady = walk.steady /\ v(f, n, x).shown = f
          /\ v(f, n, x).cursor = n /\ v(f, n, x).at = x /\ v(f, n, x).ends = walk.ends
    BY <1>4 DEF WalkRecords
  <2> HIDE DEF v
  <2> QED
    BY <1>13, <1>14, <1>16, <2>1, <2>2
<1> HIDE DEF w, v
<1>18. \A i \in walk.steady : i \in Pages!Present /\ i \in Numbers
  BY <1>4 DEF PagesInv, WalkInv
<1>19. walk.shown \in [Numbers -> 0..2] /\ w.ends \subseteq ListRows(w.listing)
  BY <1>4, <1>17 DEF WalkRecords, PagesInv, WalkInv
<1>20. CASE first
  <2>1. ShownIn(w) = rows
    BY <1>7, <1>15, <1>16, <1>17, <1>20 DEF ShownIn
  <2>2. \A i \in walk.steady : w.shown[i] = IF i \in rows THEN 1 ELSE 0
    BY <1>7, <1>16, <1>17, <1>18, <1>20
  <2>3. ASSUME phase = "next"
        PROVE  /\ CursorFits(w, listed)
               /\ \A i \in walk.steady : Accounted(w, listed, i)
    <3>1. rows = match /\ Cardinality(rows) < PageSize
      BY <1>8, <1>11, <1>14, <1>20, <2>3, PagesAssumption
    <3>2. \A i \in Pages!Present : i \in rows <=> listed[i].a >= anchor
      BY <1>10, <1>20, <3>1
    <3>3. \A i \in Pages!Present : w.shown[i] > 0 => i \in rows
      BY <1>4, <2>1 DEF ShownIn
    <3>4. CursorFits(w, listed)
      BY <1>1, <1>4, <1>9, <1>13, <1>17, <2>1, <3>1, <3>2, <3>3 DEF CursorFits
    <3>5. \A i \in walk.steady : Passed(w, listed, i) <=> i \in rows
      BY <1>1, <1>5, <1>13, <1>17, <1>18, <3>2 DEF Passed
    <3> QED
      BY <2>2, <3>4, <3>5 DEF Accounted
  <2>4. ASSUME phase = "ended" PROVE Cardinality(ShownIn(w)) >= PageSize
    BY <1>11, <1>14, <1>20, <2>1, <2>4, PagesAssumption
  <2>5. WalkInv(w, listed, moves)
    <3>1. \A i \in w.steady : w.shown[i] <= 1
      BY <1>17, <2>2
    <3> QED
      BY <1>1, <1>14, <1>17, <1>19, <2>3, <2>4, <3>1 DEF PagesInv, WalkInv, Pages!Walkable
  <2> QED
    BY <1>1, <1>3, <2>5, WalkKept
<1>21. CASE ~first
  <2>1. \A i \in rows : i \in Pages!Present /\ listed[i].a < anchor /\ walk.shown[i] = 0
    <3>1. \A i \in rows : i \in Pages!Present /\ i \in Numbers /\ ~(listed[i].a >= anchor)
      BY <1>10, <1>11, <1>12, <1>15, <1>21
    <3>2. \A i \in rows : ~(walk.shown[i] > 0) /\ walk.shown[i] \in 0..2
      BY <1>7, <1>9, <1>19, <1>21, <3>1
    <3> QED
      BY <1>6, <1>9, <3>1, <3>2
  <2>2. ShownIn(w) = ShownIn(walk) \union rows /\ ShownIn(walk) \intersect rows = {}
    BY <1>15, <1>16, <1>17, <2>1 DEF ShownIn
  <2>3. Cardinality(ShownIn(w)) = had + Cardinality(rows)
    <3>1. Cardinality(ShownIn(walk) \union rows)
            = Cardinality(ShownIn(walk)) + Cardinality(rows) - Cardinality(ShownIn(walk) \intersect rows)
      BY <1>8, <1>11, FS_Union
    <3>2. Cardinality(ShownIn(walk) \intersect rows) = 0
      BY <2>2, FS_EmptySet
    <3> QED
      BY <1>8, <1>11, <2>2, <3>1, <3>2 DEF had
  <2>4. \A i \in walk.steady : w.shown[i] <= 1
    BY <1>7, <1>16, <1>17, <1>18, <1>21, <2>1
  <2>5. Cardinality(ShownIn(w)) >= PageSize \/ \A i \in walk.steady : w.shown[i] = 1
    <3>1. CASE Cardinality(rows) = PageSize - had
      BY <1>8, <1>11, <2>3, <3>1, PagesAssumption
    <3>2. CASE rows = match
      <4>1. ASSUME NEW i \in walk.steady PROVE w.shown[i] = 1
        <5>1. CASE i \in rows
          BY <1>16, <1>17, <2>1, <5>1
        <5>2. CASE i \notin rows
          <6>1. listed[i].a >= anchor
            BY <1>10, <1>18, <1>21, <3>2, <4>1, <5>2
          <6> QED
            BY <1>7, <1>9, <1>16, <1>17, <1>18, <1>21, <4>1, <5>2, <6>1
        <5> QED
          BY <5>1, <5>2
      <4> QED
        BY <4>1
    <3> QED
      BY <1>11, <3>1, <3>2
  <2>6. w.at = "ended"
    BY <1>14, <1>17, <1>21
  <2>7. WalkInv(w, listed, moves)
    BY <1>1, <1>17, <1>19, <2>4, <2>5, <2>6 DEF PagesInv, WalkInv, Pages!Walkable
  <2> QED
    BY <1>1, <1>3, <2>7, WalkKept
<1> QED
  BY <1>20, <1>21

\* A row that is written is no longer one nobody touched; the others keep their
\* place before or after the cursor.
LEMMA WriteKeepsPages ==
    ASSUME PagesInv, NEW i \in Numbers, NEW r \in Pages!RowsOf(walk.listing, i) \union {Pages!NoRow},
           walk.listing = "random" /\ walk.shown[i] > 0 => r = Pages!NoRow \/ r.a >= walk.cursor.a,
           Pages!Write(i, r)
    PROVE  PagesInv'
<1> DEFINE w == [walk EXCEPT !.steady = @ \ {i}]
           rows == [listed EXCEPT ![i] = r]
           n == moves + 1
<1>1. /\ walk' = w /\ listed' = rows /\ moves' = n /\ walk.at = "next" /\ moves < MaxMoves
      /\ version' \in {version, version + 1}
  BY DEF Pages!Write
<1>2. /\ WalkFits /\ walk \in WalkRecords /\ listed \in [Numbers -> Cells]
      /\ moves \in 0..MaxMoves /\ version \in 0..MaxMoves /\ version <= moves /\ MaxMoves \in Nat
  BY PagesFacts, PagesAssumption DEF PagesInv, WalkInv
<1>3. /\ w \in WalkRecords /\ w.listing = walk.listing /\ w.desc = walk.desc /\ w.mode = walk.mode
      /\ w.page = walk.page /\ w.shown = walk.shown /\ w.cursor = walk.cursor /\ w.at = "next"
      /\ w.steady = walk.steady \ {i} /\ w.ends = walk.ends
  BY <1>1, <1>2 DEF WalkRecords
<1>4. r \in Cells
  <2>1. CASE r = Pages!NoRow
    BY <2>1 DEF Pages!NoRow, Cells
  <2>2. CASE r \in Pages!RowsOf(walk.listing, i)
    <3>1. i \in Int
      BY PagesAssumption
    <3>2. /\ r.id = i /\ r = [a |-> r.a, b |-> r.b, id |-> r.id]
          /\ r.a \in Int \union {Null} /\ r.b \in Int \union {Null}
      BY <1>2, <2>2, RowColumns DEF WalkFits
    <3> QED
      BY <3>1, <3>2 DEF Cells
  <2> QED
    BY <2>1, <2>2
<1>5. /\ rows \in [Numbers -> Cells] /\ rows[i] = r
      /\ \A j \in Numbers : j # i => rows[j] = listed[j]
  BY <1>2, <1>4
<1> HIDE DEF w, rows
<1>6. \A j \in Filled(rows) : /\ j \in Numbers /\ (j # i => j \in Filled(listed))
                              /\ j = i => r # Pages!NoRow
  BY <1>5 DEF Filled
<1>7. \A j \in Filled(rows) : rows[j] \in Pages!RowsOf(w.listing, j)
  BY <1>3, <1>5, <1>6 DEF PagesInv, WalkInv
<1>8. \A j \in w.steady : /\ j \in Numbers /\ j # i /\ rows[j] = listed[j]
                          /\ j \in Filled(rows) /\ j \in walk.steady
  BY <1>3, <1>5 DEF PagesInv, WalkInv, Filled
<1>9. w.mode = "cursor" => CursorFits(w, rows)
  <2>1. SUFFICES ASSUME w.mode = "cursor" PROVE CursorFits(w, rows)
    OBVIOUS
  <2>2. CursorFits(walk, listed)
    BY <1>1, <1>3, <2>1 DEF PagesInv, WalkInv
  <2>3. CASE walk.listing = "random"
    <3>1. ShownIn(w) = ShownIn(walk)
      BY <1>3 DEF ShownIn
    <3>2. ASSUME NEW j \in Filled(rows), w.shown[j] > 0 PROVE rows[j].a >= w.cursor.a
      <4>1. CASE j = i
        BY <1>3, <1>5, <1>6, <2>3, <3>2, <4>1
      <4>2. CASE j # i
        BY <1>3, <1>5, <1>6, <2>2, <2>3, <3>2, <4>2 DEF CursorFits
      <4> QED
        BY <4>1, <4>2
    <3> QED
      BY <1>3, <2>2, <2>3, <3>1, <3>2 DEF CursorFits
  <2>4. CASE walk.listing # "random"
    BY <1>3, <2>2, <2>4 DEF CursorFits
  <2> QED
    BY <2>3, <2>4
<1>10. w.mode = "cursor" \/ n = 0 =>
          \A j \in w.steady : w.shown[j] <= 1 /\ Accounted(w, rows, j)
  <2>1. SUFFICES ASSUME w.mode = "cursor", NEW j \in w.steady
                 PROVE  w.shown[j] <= 1 /\ Accounted(w, rows, j)
    BY <1>2
  <2>2. walk.shown[j] <= 1 /\ Accounted(walk, listed, j)
    BY <1>1, <1>3, <1>8, <2>1 DEF PagesInv, WalkInv
  <2>3. Passed(w, rows, j) <=> Passed(walk, listed, j)
    BY <1>3, <1>8, <2>1 DEF Passed
  <2>4. Cut(w, rows, j) <=> Cut(walk, listed, j)
    BY <1>3, <1>8, <2>1 DEF Cut
  <2> QED
    BY <1>3, <2>2, <2>3, <2>4 DEF Accounted
<1>11. WalkInv(w, rows, n)
  <2>1. Pages!Walkable(w)
    BY <1>3 DEF PagesInv, WalkInv, Pages!Walkable
  <2>2. w.ends \subseteq ListRows(w.listing)
    BY <1>3 DEF PagesInv, WalkInv
  <2> HIDE DEF n
  <2> QED
    BY <1>3, <1>5, <1>7, <1>8, <1>9, <1>10, <2>1, <2>2 DEF WalkInv
<1>12. moves' \in 0..MaxMoves /\ version' \in 0..MaxMoves /\ version' <= moves'
  BY <1>1, <1>2
<1>13. WalkInv(walk', listed', moves')
  BY <1>1, <1>11
<1> QED
  BY <1>12, <1>13 DEF PagesInv

LEMMA RequestsKeepPages ==
    ASSUME PagesInv, NEW i \in Numbers, Pages!Insert(i) \/ Pages!Delete(i) \/ Pages!Change(i)
    PROVE  PagesInv'
<1>1. CASE Pages!Insert(i)
  <2>1. PICK r \in Pages!RowsOf(walk.listing, i) :
          /\ walk.listing = "random" /\ walk.shown[i] > 0 => r.a >= walk.cursor.a
          /\ Pages!Write(i, r)
    BY <1>1 DEF Pages!Insert
  <2> QED
    BY <2>1, WriteKeepsPages
<1>2. CASE Pages!Delete(i)
  <2>1. Pages!Write(i, Pages!NoRow)
    BY <1>2 DEF Pages!Delete
  <2> QED
    BY <2>1, WriteKeepsPages
<1>3. CASE Pages!Change(i)
  <2>1. PICK r \in Pages!RowsOf(walk.listing, i) : Pages!Write(i, r) /\ walk.listing # "random"
    BY <1>3 DEF Pages!Change
  <2> QED
    BY <2>1, WriteKeepsPages
<1> QED
  BY <1>1, <1>2, <1>3

\* A client whose cursor is refused stops, and is promised nothing more.
LEMMA RefusalKeepsPages ==
    ASSUME PagesInv, Pages!DecodeCursor
    PROVE  PagesInv'
<1> DEFINE w == [walk EXCEPT !.at = "refused"]
<1>1. walk' = w /\ UNCHANGED <<listed, version, moves>> /\ walk.at = "next"
  BY DEF Pages!DecodeCursor, Pages!InvalidCursor
<1>2. walk \in WalkRecords
  BY PagesFacts
<1>3. /\ w \in WalkRecords /\ w.listing = walk.listing /\ w.desc = walk.desc /\ w.mode = walk.mode
      /\ w.page = walk.page /\ w.shown = walk.shown /\ w.cursor = walk.cursor /\ w.at = "refused"
      /\ w.steady = walk.steady /\ w.ends = walk.ends
  BY <1>2 DEF WalkRecords
<1> HIDE DEF w
<1>4. WalkInv(w, listed, moves)
  BY <1>3 DEF PagesInv, WalkInv, Pages!Walkable
<1> QED
  BY <1>1, <1>4, WalkKept

LEMMA PagesStart == Pages!Init => PagesInv
<1> SUFFICES ASSUME Pages!Init PROVE PagesInv
  OBVIOUS
<1>1. version = 0 /\ moves = 0
  BY Zenon DEF Pages!Init
<1>2. PICK s \in Pages!Walks :
            /\ Pages!Walkable(s)
            /\ walk = [listing |-> s.listing, desc |-> s.desc, mode |-> s.mode, at |-> "first",
                       cursor |-> Pages!NoRow, scope |-> 0, page |-> 0, ends |-> {},
                       shown |-> [i \in Numbers |-> 0], steady |-> {i \in Numbers : listed[i] # Pages!NoRow}]
            /\ listed \in {r \in [Numbers -> (UNION {Pages!RowsOf(s.listing, i) : i \in Numbers}) \union {Pages!NoRow}] :
                              \A i \in Numbers : r[i] = Pages!NoRow \/ r[i].id = i}
  BY Zenon DEF Pages!Init
<1>3. /\ s.listing \in Pages!Listings /\ s.desc \in BOOLEAN /\ s.mode \in {"cursor", "offset"}
      /\ walk.listing = s.listing /\ walk.desc = s.desc /\ walk.mode = s.mode
  BY <1>2 DEF Pages!Walks
<1>4. Pages!NoRow \in Cells
  BY DEF Pages!NoRow, Cells
<1>5. walk \in WalkRecords /\ Pages!Walkable(walk)
  <2>1. [i \in Numbers |-> 0] \in [Numbers -> 0..2]
    OBVIOUS
  <2>2. {i \in Numbers : listed[i] # Pages!NoRow} \in SUBSET Numbers
    OBVIOUS
  <2>3. walk \in WalkRecords
    BY <1>2, <1>3, <1>4, <2>1, <2>2 DEF WalkRecords
  <2> QED
    BY <1>2, <1>3, <2>3 DEF Pages!Walkable
<1>6. ASSUME NEW i \in Numbers
      PROVE  listed[i] = Pages!NoRow \/ listed[i] \in Pages!RowsOf(walk.listing, i)
  <2>1. /\ listed[i] \in (UNION {Pages!RowsOf(s.listing, j) : j \in Numbers}) \union {Pages!NoRow}
        /\ listed[i] = Pages!NoRow \/ listed[i].id = i
    BY <1>2
  <2>2. ASSUME listed[i] # Pages!NoRow PROVE listed[i] \in Pages!RowsOf(walk.listing, i)
    <3>1. PICK j \in Numbers : listed[i] \in Pages!RowsOf(s.listing, j)
      BY <2>1, <2>2
    <3>2. listed[i].id = j
      BY <1>3, <3>1, RowColumns
    <3> QED
      BY <1>3, <2>1, <2>2, <3>1, <3>2
  <2> QED
    BY <2>2
<1>7. listed \in [Numbers -> Cells]
  <2>1. \A i \in Numbers : listed[i] \in Cells
    <3> SUFFICES ASSUME NEW i \in Numbers, listed[i] # Pages!NoRow PROVE listed[i] \in Cells
      BY <1>4
    <3>1. i \in Int /\ listed[i] \in Pages!RowsOf(walk.listing, i)
      BY <1>6, PagesAssumption
    <3>2. /\ listed[i].id = i /\ listed[i] = [a |-> listed[i].a, b |-> listed[i].b, id |-> listed[i].id]
          /\ listed[i].a \in Int \union {Null} /\ listed[i].b \in Int \union {Null}
      BY <1>3, <3>1, RowColumns
    <3> QED
      BY <3>1, <3>2 DEF Cells
  <2>2. listed = [i \in Numbers |-> listed[i]]
    BY <1>2
  <2> QED
    BY <2>1, <2>2
<1>8. \A i \in Filled(listed) : listed[i] \in Pages!RowsOf(walk.listing, i)
  BY <1>6 DEF Filled
<1>9. /\ walk.steady = Filled(listed) /\ walk.at = "first" /\ walk.page = 0 /\ walk.ends = {}
      /\ \A i \in Numbers : walk.shown[i] = 0
  BY <1>2 DEF Filled
<1>10. \A i \in Filled(listed) : i \in Numbers
  BY DEF Filled
<1>11. WalkInv(walk, listed, moves)
  BY <1>5, <1>7, <1>8, <1>9, <1>10 DEF WalkInv
<1> QED
  BY <1>1, <1>11, PagesAssumption DEF PagesInv

LEMMA PagesNext ==
    ASSUME PagesInv, [MCNext]_<<view, projVars, editVars, pageVars>>
    PROVE  PagesInv'
<1>1. CASE UNCHANGED pageVars
  BY <1>1 DEF PagesInv, pageVars
<1>2. CASE Pages!Next
  <2>1. WalkFits /\ RowsFit
    BY PagesFacts
  <2>2. CASE \/ Pages!AdminListTracks \/ Pages!ListJobs \/ Pages!ListUsers \/ Pages!ListUserSessions
             \/ Pages!ListArtists \/ Pages!ListRoots \/ Pages!ListFiles \/ Pages!ListRuns
             \/ Pages!ListWritebacks
    BY <2>1, <2>2, PlainTurns, TurnKeepsPages
  <2>3. CASE \/ Pages!AdminListArtists \/ Pages!Search
             \/ Pages!ListFavorites \/ Pages!ListHistory \/ Pages!ListOwned
    BY <2>1, <2>3, ColumnListTurns, TurnKeepsPages
  <2>4. CASE Pages!AdminListAlbums \/ Pages!ListTracks \/ Pages!ListAlbums
    BY <2>1, <2>4, CatalogueTurns, TurnKeepsPages
  <2>5. CASE \/ Pages!AdminAlbum \/ Pages!AdminTrack \/ Pages!ListEntries \/ Pages!Browse
             \/ Pages!DuplicateAlbums
    BY <2>1, <2>5, SingleTurns, TurnKeepsPages
  <2>6. CASE Pages!ListByNumber
    BY <2>6, NumberKeepsPages
  <2>7. CASE Pages!RandomRows
    BY <2>7, RandomKeepsPages
  <2>8. CASE Pages!DecodeCursor
    BY <2>8, RefusalKeepsPages
  <2>9. CASE \E i \in Numbers : Pages!Insert(i) \/ Pages!Delete(i) \/ Pages!Change(i)
    BY <2>9, RequestsKeepPages
  <2>10. CASE Pages!Done
    <3>1. UNCHANGED pageVars
      BY <2>10 DEF Pages!Done, Pages!pageVars, pageVars
    <3> QED
      BY <1>1, <3>1
  <2> QED
    BY <1>2, <2>2, <2>3, <2>4, <2>5, <2>6, <2>7, <2>8, <2>9, <2>10, Zenon DEF Pages!Next
<1>3. UNCHANGED pageVars \/ Pages!Next
  BY DEF MCNext
<1> QED
  BY <1>1, <1>2, <1>3

LEMMA PagesShow == PagesInv => EveryRowShown
<1> SUFFICES ASSUME PagesInv, walk.mode = "cursor" \/ moves = 0
             PROVE  /\ \A i \in walk.steady : walk.shown[i] <= 1
                    /\ walk.at = "ended" =>
                         \/ walk.listing = "random" /\ Cardinality(ShownIn(walk)) >= PageSize
                         \/ \A i \in walk.steady : walk.shown[i] = 1 \/ Pages!CutOff(i)
  BY PagesCount DEF EveryRowShown, Pages!EveryRowShown, ShownIn
<1>1. \A i \in walk.steady : Cut(walk, listed, i) => Pages!CutOff(i)
  BY DEF Cut, CutBy, Pages!CutOff
<1> QED
  BY <1>1 DEF PagesInv, WalkInv

\* A client that follows the cursors to the end is shown every row that nobody
\* touched meanwhile, none of them twice, in each of the listings, ways and page
\* sizes: the condition that seeks past a cursor is the order the rows are read in
\* (the administrator's, reader's and user's lists of the backend), whatever comes,
\* goes or moves around those rows. What it can miss is stated in it: in the four
\* lists by a time whose cursor keeps milliseconds the rows of a millisecond within
\* which a page ended, and in the administrator's newest albums those with a date,
\* once a page ended at one without. Pages by number show all while nothing changes.
THEOREM EveryRowIsShown == MCSpec => []EveryRowShown
<1>1. MCInit => PagesInv
  BY PagesStart DEF MCInit
<1>2. PagesInv /\ [MCNext]_<<view, projVars, editVars, pageVars>> => PagesInv'
  BY PagesNext
<1>3. PagesInv => EveryRowShown
  BY PagesShow
<1> QED
  BY <1>1, <1>2, <1>3, PTL DEF MCSpec
=============================================================================
