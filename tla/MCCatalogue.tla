----------------------------- MODULE MCCatalogue -----------------------------
(* What scans, administrators and readers do with the catalogue, in three     *)
(* views of which a behaviour chooses one at its start: the tags a track      *)
(* shows (MetadataProjection), the edits of tracks and albums (CatalogEdits), *)
(* and the pages a client reads (CursorPages).                                *)
EXTENDS Integers, FiniteSets, TLC

CONSTANTS Null, None,
          Tracks, Legacy, Committers, Editors, \* of MetadataProjection
          Snapshots, Patches, MaxChanges,
          Songs, Shelves, Covers, FirstAlbum,  \* of CatalogEdits: tracks, albums, pictures
          FirstCover, MayBeArchived, Admins, MaxEdits,
          Numbers, PageSize, MaxMoves          \* of CursorPages

VARIABLES view,
          file, artist, album, row, known, tx, orphaned, changes,
          song, sleeve, dropped, edit, edits,
          listed, walk, version, moves

projVars == <<file, artist, album, row, known, tx, orphaned, changes>>
editVars == <<song, sleeve, dropped, edit, edits>>
pageVars == <<listed, walk, version, moves>>

Proj == INSTANCE MetadataProjection WITH Matchers <- Editors

Edits == INSTANCE CatalogEdits
    WITH album <- sleeve, Albums <- Shelves, Editors <- Admins

Pages == INSTANCE CursorPages
    WITH row <- listed, changes <- moves, Ids <- Numbers, MaxChanges <- MaxMoves

\* Tags say an artist, an album and lyrics; an override some of them.
Fields == {"artist", "album", "lyrics"}
Texts == {None} \union UNION {{m[f] : f \in DOMAIN m} : m \in Snapshots \union Patches}
ASSUME ProjectionAssumption ==
    /\ IsFiniteSet(Committers) /\ IsFiniteSet(Editors) /\ Committers \cap Editors = {}
    /\ Legacy \subseteq Tracks
    /\ Snapshots # {} /\ Snapshots \subseteq [Fields -> Texts]
    /\ \A p \in Patches : DOMAIN p \subseteq Fields
    /\ None \notin Int /\ None \notin Tracks /\ None \notin [Fields -> Texts]
    /\ MaxChanges \in Nat

\* Tracks and albums are numbered in the order in which their rows are locked.
ASSUME EditsAssumption ==
    /\ IsFiniteSet(Songs) /\ Songs \subseteq Int
    /\ IsFiniteSet(Shelves) /\ Shelves \subseteq Int
    /\ None \notin Shelves /\ None \notin Covers
    /\ FirstAlbum \in [Songs -> Shelves \union {None}]
    /\ FirstCover \in [Shelves -> Covers \union {None}]
    /\ MaxEdits \in Nat

ASSUME PagesAssumption ==
    /\ IsFiniteSet(Numbers) /\ Numbers \subseteq Nat \ {0}
    /\ PageSize \in Nat \ {0} /\ MaxMoves \in Nat /\ Null \notin Int

MCInit ==
    /\ view \in {"tags", "edits", "pages"}
    /\ Proj!Init /\ Edits!Init /\ Pages!Init
    /\ \A s \in Songs \ MayBeArchived : song[s].status = "READY"
    \* A view that is not explored starts in one state.
    /\ view # "tags" => file = [t \in Tracks \ Legacy |-> CHOOSE tags \in Snapshots : TRUE]
    /\ view # "edits" => \A s \in Songs : song[s].status = "READY"
    /\ view # "pages" => /\ walk.listing = "random" /\ walk.mode = "cursor" /\ ~walk.desc
                         /\ listed = [i \in Numbers |-> Pages!NoRow]

MCNext ==
    \/ view = "tags" /\ Proj!Next /\ UNCHANGED <<view, editVars, pageVars>>
    \/ view = "edits" /\ Edits!Next /\ UNCHANGED <<view, projVars, pageVars>>
    \/ view = "pages" /\ Pages!Next /\ UNCHANGED <<view, projVars, editVars>>

MCSpec == MCInit /\ [][MCNext]_<<view, projVars, editVars, pageVars>>

TypesOK == Proj!TypeOK /\ Edits!TypeOK /\ Pages!TypeOK
ShownFollowsMetadata == Proj!ShownFollowsMetadata
ScansMakeOneOfEach == Proj!ScansMakeOneOfEach

(* Edits of tracks and albums that run at once leave no album without tracks *)
(* and no track without its album, keep the pictures that albums show, never *)
(* undo one another, and only moves and merges can wait for each other.      *)
EditsKeepCatalogue ==
    /\ Edits!NoEmptyAlbum /\ Edits!NoTrackWithoutAlbum /\ Edits!ShownCoverKept
    /\ Edits!NoEditIsLost /\ Edits!OnlyMovesDeadlock

(* Whoever follows the cursors misses no row but those that cursors are known *)
(* to cut off, and sees none twice; that no row is cut off does not hold.     *)
EveryRowShown == Pages!EveryRowShown
EveryMatchingRowReached == Pages!EveryMatchingRowReached

\* The values of the run.
Tags(a, b, l) == [artist |-> a, album |-> b, lyrics |-> l]
FileTags == {Tags("Abba", "Hits", "old"), Tags("Blur", "Gold", "new")}
OnePatch == {Tags("Blur", "Gold", "own")}
TwoAndOne == 1 :> 1 @@ 2 :> 1 @@ 3 :> 2
FirstOnly == [a \in Shelves |-> IF a = 1 THEN CHOOSE k \in Covers : TRUE ELSE None]
Alike == Permutations(Tracks \ Legacy) \union Permutations(Committers)
              \union Permutations(Admins)
==============================================================================
