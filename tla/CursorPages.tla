---------------------------- MODULE CursorPages ----------------------------
(* Pages of a listing: a client walks from page to page while rows come, go  *)
(* and change. Every listing has an ORDER BY and a condition that seeks past *)
(* the last row of the page before (modules/admincatalog, adminjobs,         *)
(* adminmanagement, adminmetadata, adminsources, catalog, library, playlist  *)
(* and shared/pagination).                                                   *)
EXTENDS Integers, FiniteSets

CONSTANTS Ids,         \* identifiers of rows, numbers in their order
          PageSize,
          Null,
          MaxChanges   \* bound: rows inserted, deleted or changed during a walk

VARIABLES row,      \* the rows that match the listing's filter
          walk,     \* the listing, the client's place in it and what it was shown
          version,  \* the version of the playlist whose entries are listed
          changes

pageVars == <<row, walk, version, changes>>

\* Listings by a date that may be missing, by one column of text, by a time whose
\* cursor keeps it whole, and by a time whose cursor keeps its milliseconds.
Dates == {"albumsByDate", "adminAlbumsByDate", "adminAlbumsNewest"}
Titles == {"adminTracks", "adminArtists", "adminAlbums", "jobs", "tracks", "artists",
           "albums", "search", "favorites", "playlists", "roots", "files"}
Times == {"adminTracksByTime", "adminAlbumsByTime", "jobsByTime", "users", "userSessions",
          "scans", "writebacks"}
Milliseconds == {"tracksByPublication", "favoritesByTime", "history", "playlistsByTime"}
Pairs == {"albumTracks", "albumOrder", "lyrics"}
Places == {"duplicates", "members", "entries", "random", "directories"}
Listings == Titles \union Times \union Milliseconds \union Dates \union Pairs \union Places
BothWays == (Titles \ {"search", "favorites", "roots", "files"})
            \union {"adminTracksByTime", "adminAlbumsByTime", "jobsByTime"}
AlwaysUp == {"search", "favorites", "roots", "files", "directories", "duplicates", "members", "random", "adminAlbumsByDate"} \union Pairs

NoRow == [a |-> 0, b |-> 0, id |-> 0]
\* The values that the sorted columns take: a time is counted in half milliseconds.
ValuesOf(l) ==
    CASE l \in Titles \union Places -> {<<a, 0>> : a \in 0..1}
      [] l \in Times \union Milliseconds -> {<<a, 0>> : a \in 0..3}
      [] l \in Dates -> {<<a, 0>> : a \in {0, 1, Null}}
      [] l = "lyrics" -> {<<a, b>> : a \in 0..1, b \in 0..1}
      [] OTHER -> {<<a, b>> : a \in {1, 2, Null}, b \in {0, 1, Null}}
RowsOf(l, i) == {[a |-> v[1], b |-> v[2], id |-> i] : v \in ValuesOf(l)}

Walks == [listing : Listings, desc : BOOLEAN, mode : {"cursor", "offset"}]
Walkable(w) ==
    /\ w.listing \in AlwaysUp => ~w.desc
    /\ w.listing \notin AlwaysUp \union BothWays => w.desc
    /\ w.mode = "offset" => w.listing \in {"adminTracks", "adminAlbums", "jobs"}
Present == {i \in Ids : row[i] # NoRow}

TypeOK ==
    /\ walk.listing \in Listings /\ walk.desc \in BOOLEAN
    /\ walk.at \in {"first", "next", "ended", "refused"}
    /\ walk.ends \subseteq UNION {RowsOf(walk.listing, i) : i \in Ids}
    /\ walk.shown \in [Ids -> 0..2] /\ walk.steady \subseteq Ids /\ walk.page \in Nat
    /\ \A i \in Ids : row[i] \in RowsOf(walk.listing, i) \union {NoRow}
    /\ version \in 0..MaxChanges /\ changes \in 0..MaxChanges

Init ==
    /\ \E w \in Walks :
          /\ Walkable(w)
          /\ row \in {r \in [Ids -> (UNION {RowsOf(w.listing, i) : i \in Ids}) \union {NoRow}] :
                         \A i \in Ids : r[i] = NoRow \/ r[i].id = i}
          /\ walk = [listing |-> w.listing, desc |-> w.desc, mode |-> w.mode, at |-> "first",
                     cursor |-> NoRow, scope |-> 0, page |-> 0, ends |-> {},
                     shown |-> [i \in Ids |-> 0], steady |-> {i \in Ids : row[i] # NoRow}]
    /\ version = 0 /\ changes = 0

---------------------------------------------------------------------------

\* The orders the listings are read in. A missing value comes last when the
\* order says so or ascends, and first when it descends.
Beyond(desc, x, y) == IF desc THEN x < y ELSE x > y
ByColumn(r, s) == Beyond(walk.desc, s.a, r.a) \/ (r.a = s.a /\ Beyond(walk.desc, s.id, r.id))
ByNullable(nullLast, r, s) ==
    IF r.a = Null \/ s.a = Null
    THEN IF r.a = s.a THEN Beyond(walk.desc, s.id, r.id) ELSE (s.a = Null) = nullLast
    ELSE ByColumn(r, s)
AdminAlbumOrder(r, s) == ByNullable(~walk.desc, r, s)
albumOrderSQL(r, s) == ByNullable(TRUE, r, s)

Lexical(x, y) == \E k \in 1..3 : x[k] < y[k] /\ \A j \in 1..k - 1 : x[j] = y[j]
Or(v, default) == IF v = Null THEN default ELSE v
InAlbum(r) == <<Or(r.a, 1), Or(r.b, 0), r.id>>
trackOrderSQL(r, s) == IF walk.listing = "albumOrder" THEN Lexical(InAlbum(r), InAlbum(s)) ELSE ByColumn(r, s)
AlbumTrackOrder(r, s) == Lexical(<<Or(r.a, 9), Or(r.b, 9), r.id>>, <<Or(s.a, 9), Or(s.b, 9), s.id>>)
LyricOrder(r, s) == Lexical(<<1 - r.a, r.b, r.id>>, <<1 - s.a, s.b, s.id>>)
\* Groups of albums are listed by the title they share, their members by identifier.
GroupOrder(r, s) == r.id < s.id
MemberOrder(r, s) == r.id < s.id
EntryOrder(r, s) == s.id < r.id
\* The directories under a path are listed by name: no two of them share one.
DirectoryOrder(r, s) == r.id < s.id

\* What the cursor of a page keeps of its last row: the administrator's keep a
\* time whole, the others its milliseconds.
Timestamp(t) == (t \div 2) * 2
Whole(r) == r
encodeTrackCursor(r) ==
    CASE walk.listing = "tracksByPublication" -> [r EXCEPT !.a = Timestamp(r.a)]
      [] walk.listing = "albumOrder" -> [r EXCEPT !.a = Or(r.a, 1), !.b = Or(r.b, 0)]
      [] OTHER -> r
encodeFavoriteCursor(r) == IF walk.listing = "favoritesByTime" THEN [r EXCEPT !.a = Timestamp(r.a)] ELSE r
encodeHistoryCursor(r) == [r EXCEPT !.a = Timestamp(r.a)]
encodePlaylistCursor(r) == IF walk.listing = "playlistsByTime" THEN [r EXCEPT !.a = Timestamp(r.a)] ELSE r

\* The conditions that seek past a cursor.
SeekIgnoringTies(c, r) == Beyond(walk.desc, r.a, c.a)
Seek(c, r) == Beyond(walk.desc, r.a, c.a) \/ (r.a = c.a /\ Beyond(walk.desc, r.id, c.id))
trackSeekIgnoringTies(c, r) == SeekIgnoringTies(c, r)
trackSeekCondition(c, r) == Seek(c, r)
catalogSeekCondition(c, r) ==
    IF walk.listing \notin {"adminAlbumsByDate", "adminAlbumsNewest"} THEN Seek(c, r)
    ELSE IF c.a = Null THEN r.a = Null /\ Beyond(walk.desc, r.id, c.id)
    ELSE IF r.a = Null THEN ~walk.desc
    ELSE Seek(c, r)
AlbumTrackAfter(c, r) == AlbumTrackOrder(c, r)
LyricAfter(c, r) == LyricOrder(c, r)
GroupAfter(c, r) == r.id > c.id
MemberAfter(c, r) == r.id > c.id
JobAfter(c, r) == Seek(c, r)
UserAfter(c, r) == Seek(c, r)
SessionAfter(c, r) == Seek(c, r)
trackAfterCondition(c, r) == IF walk.listing = "albumOrder" THEN Lexical(InAlbum(c), InAlbum(r)) ELSE Seek(c, r)
ArtistAfter(c, r) == Seek(c, r)
albumAfterCondition(c, r) ==
    IF walk.listing = "albums" THEN Seek(c, r)
    ELSE IF c.a = Null THEN r.a = Null /\ r.id < c.id
    ELSE r.a = Null \/ Seek(c, r)
SearchAfter(c, r) == r.a > c.a \/ (r.a = c.a /\ r.id > c.id)
FavoriteAfter(c, r) == Seek(c, r)
HistoryAfter(c, r) == Seek(c, r)
playlistAfterCondition(c, r) == Seek(c, r)
EntryAfter(c, r) == r.id < c.id
RootAfter(c, r) == Seek(c, r)
FileAfter(c, r) == Seek(c, r)
ScanAfter(c, r) == Seek(c, r)
WritebackAfter(c, r) == Seek(c, r)

---------------------------------------------------------------------------

\* The rows sorted in an order, and those of S read from one place on.
Sorted(Before(_, _)) == {p \in Present \X Present : Before(row[p[1]], row[p[2]])}
Place(S, i, order) == Cardinality({j \in S : <<j, i>> \in order})
Read(S, skip, limit, order) == {i \in S : Place(S, i, order) \in skip..skip + limit - 1}
Shown(rows) == [i \in Ids |-> IF i \in rows /\ walk.shown[i] < 2 THEN walk.shown[i] + 1
                              ELSE walk.shown[i]]
Scope == IF walk.listing = "entries" THEN version ELSE 0

\* A cursor is signed together with the listing, its filter and, for the
\* entries of a playlist, the version.
InvalidCursor == walk.at = "next" /\ walk.mode = "cursor" /\ walk.scope # Scope
DecodeCursor ==
    /\ InvalidCursor
    /\ walk' = [walk EXCEPT !.at = "refused"]
    /\ UNCHANGED <<row, version, changes>>

\* One row more than the page shows is read: it says whether a page follows.
CursorLimit == PageSize + 1
WithoutLookahead(rows, order) == {i \in rows : Place(rows, i, order) < PageSize}
HasNext(rows) == Cardinality(rows) > PageSize
Page(names, Before(_, _), After(_, _), Encode(_)) ==
    /\ walk.listing \in names /\ walk.mode = "cursor"
    /\ walk.at \in {"first", "next"} /\ ~InvalidCursor
    /\ LET order == Sorted(Before)
           match == {i \in Present : walk.at = "first" \/ After(walk.cursor, row[i])}
           rows == Read(match, 0, CursorLimit, order)
           page == WithoutLookahead(rows, order)
           last == CHOOSE i \in page : Place(page, i, order) = PageSize - 1
       IN  walk' = IF HasNext(rows)
                   THEN [walk EXCEPT !.at = "next", !.shown = Shown(page), !.scope = Scope,
                                     !.cursor = Encode(row[last]), !.ends = @ \union {row[last]}]
                   ELSE [walk EXCEPT !.at = "ended", !.shown = Shown(page)]
    /\ UNCHANGED <<row, version, changes>>

\* One action per listing that the services offer.
AdminListTracks == Page({"adminTracks", "adminTracksByTime"}, ByColumn, trackSeekCondition, Whole)
AdminListArtists == Page({"adminArtists"}, ByColumn, catalogSeekCondition, Whole)
AdminListAlbums ==
    \/ Page({"adminAlbums", "adminAlbumsByTime"}, ByColumn, catalogSeekCondition, Whole)
    \/ Page({"adminAlbumsByDate", "adminAlbumsNewest"}, AdminAlbumOrder, catalogSeekCondition, Whole)
AdminAlbum == Page({"albumTracks"}, AlbumTrackOrder, AlbumTrackAfter, Whole)
AdminTrack == Page({"lyrics"}, LyricOrder, LyricAfter, Whole)
DuplicateAlbums ==
    \/ Page({"duplicates"}, GroupOrder, GroupAfter, Whole)
    \/ Page({"members"}, MemberOrder, MemberAfter, Whole)
ListJobs == Page({"jobs", "jobsByTime"}, ByColumn, JobAfter, Whole)
ListUsers == Page({"users"}, ByColumn, UserAfter, Whole)
ListUserSessions == Page({"userSessions"}, ByColumn, SessionAfter, Whole)
ListTracks == Page({"tracks", "tracksByPublication", "albumOrder"}, trackOrderSQL, trackAfterCondition,
                   encodeTrackCursor)
ListArtists == Page({"artists"}, ByColumn, ArtistAfter, Whole)
ListAlbums ==
    \/ Page({"albums"}, ByColumn, albumAfterCondition, Whole)
    \/ Page({"albumsByDate"}, albumOrderSQL, albumAfterCondition, Whole)
Search == Page({"search"}, ByColumn, SearchAfter, Whole)
ListFavorites == Page({"favorites", "favoritesByTime"}, ByColumn, FavoriteAfter, encodeFavoriteCursor)
ListHistory == Page({"history"}, ByColumn, HistoryAfter, encodeHistoryCursor)
ListOwned == Page({"playlists", "playlistsByTime"}, ByColumn, playlistAfterCondition, encodePlaylistCursor)
ListEntries == Page({"entries"}, EntryOrder, EntryAfter, Whole)

ListRoots == Page({"roots"}, ByColumn, RootAfter, Whole)
ListFiles == Page({"files"}, ByColumn, FileAfter, Whole)
ListRuns == Page({"scans"}, ByColumn, ScanAfter, Whole)
ListWritebacks == Page({"writebacks"}, ByColumn, WritebackAfter, Whole)

\* The directories are read again for every page, and skipped up to the cursor.
Browse == Page({"directories"}, DirectoryOrder, DirectoryOrder, Whole)

\* Pages by number: the total is counted again for every page.
TotalPages(total) == IF total = 0 THEN 0 ELSE (total - 1) \div PageSize + 1
ListByNumber ==
    /\ walk.mode = "offset" /\ walk.at \in {"first", "next"}
    /\ walk' = [walk EXCEPT
          !.shown = Shown(Read(Present, walk.page * PageSize, PageSize, Sorted(ByColumn))), !.page = @ + 1,
          !.at = IF walk.page + 1 >= TotalPages(Cardinality(Present)) THEN "ended" ELSE "next"]
    /\ UNCHANGED <<row, version, changes>>

\* Some rows by their random keys: from a random place on, and then from the start.
RandomRows ==
    /\ walk.listing = "random" /\ walk.at \in {"first", "next"}
    /\ \E anchor \in IF walk.at = "first" THEN 0..1 ELSE {walk.cursor.a} :
          LET had == Cardinality({i \in Ids : walk.shown[i] > 0})
              match == {i \in Present : (walk.at = "first") = (row[i].a >= anchor)}
              rows == Read(match, 0, PageSize - had, Sorted(ByColumn))
          IN  walk' = [walk EXCEPT !.shown = Shown(rows), !.cursor = [NoRow EXCEPT !.a = anchor],
                          !.at = IF walk.at = "first" /\ Cardinality(rows) < PageSize
                                 THEN "next" ELSE "ended"]
    /\ UNCHANGED <<row, version, changes>>

\* Other requests write rows between two pages. A write to a playlist's entries
\* moves its version on. A track keeps its random key (migrations/0000_initial.sql):
\* one that was shown and left comes back on the same side of the anchor.
Write(i, r) ==
    /\ walk.at = "next" /\ changes < MaxChanges
    /\ row' = [row EXCEPT ![i] = r]
    /\ walk' = [walk EXCEPT !.steady = @ \ {i}]
    /\ changes' = changes + 1
    /\ version' = IF walk.listing = "entries" THEN version + 1 ELSE version
Insert(i) ==
    /\ row[i] = NoRow
    /\ \E r \in RowsOf(walk.listing, i) :
          /\ walk.listing = "random" /\ walk.shown[i] > 0 => r.a >= walk.cursor.a
          /\ Write(i, r)
Delete(i) == row[i] # NoRow /\ Write(i, NoRow)
Change(i) ==
    /\ row[i] # NoRow /\ walk.listing # "random"
    /\ \E r \in RowsOf(walk.listing, i) \ {row[i]} : Write(i, r)

Done == walk.at \in {"ended", "refused"} /\ UNCHANGED pageVars

Next ==
    \/ AdminListTracks \/ AdminListArtists \/ AdminListAlbums \/ AdminAlbum \/ AdminTrack
    \/ DuplicateAlbums \/ ListJobs \/ ListUsers \/ ListUserSessions
    \/ ListTracks \/ ListArtists \/ ListAlbums \/ Search
    \/ ListFavorites \/ ListHistory \/ ListOwned \/ ListEntries
    \/ ListRoots \/ ListFiles \/ ListRuns \/ ListWritebacks \/ Browse
    \/ ListByNumber \/ RandomRows \/ DecodeCursor
    \/ \E i \in Ids : Insert(i) \/ Delete(i) \/ Change(i)
    \/ Done

Spec == Init /\ [][Next]_pageVars

---------------------------------------------------------------------------

\* shared/pagination/offset.go says that "cursor pagination can continue through
\* every matching record": a client that follows the cursors to the end has been
\* shown every row that nobody touched meanwhile. It does not hold.
EveryMatchingRowReached ==
    walk.mode = "cursor" /\ walk.listing # "random" /\ walk.at = "ended" =>
        \A i \in walk.steady : walk.shown[i] = 1

\* The rows that the cursors cut off: where a cursor keeps milliseconds, those that
\* share theirs with a row that a page ended at within a millisecond; and of the
\* albums that the administrator lists from the newest on those with a date, once
\* a page ended at one without.
CutOff(i) ==
    \E end \in walk.ends :
        \/ /\ walk.listing \in Milliseconds
           /\ Timestamp(end.a) # end.a /\ Timestamp(end.a) = Timestamp(row[i].a)
        \/ walk.listing = "adminAlbumsNewest" /\ end.a = Null /\ row[i].a # Null

\* A client that follows the cursors to the end is shown every row nobody
\* touched meanwhile that is not one of those, and no row twice, whatever is
\* inserted, deleted or moved around it: otherwise the seek conditions agree with
\* the orders, ties and missing values included. Pages by number promise it only
\* while nothing changes, random rows only as many as were asked for.
EveryRowShown ==
    (walk.mode = "cursor" \/ changes = 0) =>
        /\ \A i \in walk.steady : walk.shown[i] <= 1
        /\ walk.at = "ended" =>
              \/ walk.listing = "random" /\ Cardinality({i \in Ids : walk.shown[i] > 0}) >= PageSize
              \/ \A i \in walk.steady : walk.shown[i] = 1 \/ CutOff(i)
=============================================================================
