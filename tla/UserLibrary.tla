---------------------------- MODULE UserLibrary ----------------------------
(* What a user keeps (modules/playlist and modules/library): a playlist whose *)
(* entries have positions under a unique index, edited by the owner's devices *)
(* against the version they saw; the tracks marked as favourites; and the     *)
(* play history, written by events that arrive in any order and repeatedly.   *)
EXTENDS Integers, Sequences, FiniteSets, SequencesExt

CONSTANTS Tracks, Entries, Devices, None,
          MaxPlaylistEntries,
          PositionShift,   \* positionShift: beyond every position in use
          Events,          \* playback events: [at, session, kind]
          MaxEdits         \* bound: edits and deletions of tracks

VARIABLES track,      \* the tracks that exist
          entry,      \* playlist_tracks: [Entries -> [track, at]], `at` a position or None
          version,    \* of the playlist; 0 once it is deleted
          intended,   \* the playlist as its owner's edits meant it
          device,     \* the devices: what each saw, and the edit it has under way
          collided,   \* a statement could violate the unique index
          favorite,   \* favorite_tracks
          history,    \* the row of play_history
          heard,      \* the events recorded so far
          edits

libraryVars == <<track, entry, version, intended, device, collided, favorite, history, heard, edits>>

Absent == [track |-> None, at |-> None]
Nothing == [phase |-> "none", seen |-> <<>>, version |-> 0, op |-> "none",
            entry |-> None, track |-> None, at |-> 0, order |-> <<>>, wanted |-> <<>>]
Unplayed == [at |-> 0, session |-> None, kind |-> "none", count |-> 0]
Phases == {"none", "looked", "locked", "favorite"}
Ops == {"none", "add", "remove", "reorder"}

TypeOK ==
    /\ track \subseteq Tracks /\ favorite \subseteq Tracks
    /\ entry \in [Entries -> [track : Tracks \union {None}, at : Nat \union {None}]]
    /\ version \in 0..MaxEdits + 1
    /\ intended \in Seq(Entries) /\ collided \in BOOLEAN
    /\ \A d \in Devices : /\ device[d].phase \in Phases /\ device[d].op \in Ops
                          /\ device[d].wanted \in Seq(Entries)
    /\ heard \subseteq Events /\ history.count \in Nat
    /\ edits \in 0..MaxEdits

Init ==
    /\ track = Tracks /\ favorite = {}
    /\ entry = [e \in Entries |-> Absent]
    /\ version = 1 /\ intended = <<>> /\ collided = FALSE
    /\ device = [d \in Devices |-> Nothing]
    /\ history = Unplayed /\ heard = {} /\ edits = 0

Listed == {e \in Entries : entry[e].at # None}
\* The members of S, each once, from the lowest key to the highest.
InOrder(S, key) ==
    CHOOSE list \in SetToSeqs(S) : \A i, j \in DOMAIN list : i < j => key[list[i]] <= key[list[j]]
PositionIn(list, e) == CHOOSE n \in DOMAIN list : list[n] = e
Keep(list, S) == InOrder(ToSet(list) \intersect S, [e \in ToSet(list) |-> PositionIn(list, e)])
\* In storage order; clients see the reverse.
ListEntries == InOrder(Listed, [e \in Listed |-> entry[e].at])
Playlist == <<entry, version, intended, collided>>
Others == <<favorite, history, heard>>
Edited == edits < MaxEdits /\ edits' = edits + 1

---------------------------------------------------------------------------
(* Edits of the playlist *)

Get(d) ==
    /\ version > 0 /\ device[d].phase \in {"none", "looked"}
    /\ device' = [device EXCEPT ![d] = [Nothing EXCEPT !.phase = "looked", !.seen = ListEntries,
                                                       !.version = version]]
    /\ UNCHANGED <<track, Playlist, Others, edits>>

\* The row of the playlist is locked until the transaction ends.
SeenVersion(d) == device[d].version = version
Lock(d) == /\ device[d].phase = "looked" /\ version > 0 /\ SeenVersion(d)
           /\ \A other \in Devices : device[other].phase # "locked"

Holds(f) == {e \in Listed : entry[e].track = f}
MaxPosition == IF Listed = {} THEN -1
               ELSE CHOOSE n \in {entry[e].at : e \in Listed} : \A e \in Listed : entry[e].at <= n
PutAfter(list, after, e) ==
    IF after = None THEN Append(list, e) ELSE InsertAt(list, 1 + PositionIn(list, after), e)

\* `after` is an entry in storage order, so what clients show before the new one.
AddTrack(d, e, f, after) ==
    /\ Lock(d) /\ e \notin Listed /\ f \in track /\ Holds(f) = {}
    /\ Cardinality(Listed) < MaxPlaylistEntries
    /\ after # None => after \in Listed
    /\ device' = [device EXCEPT
          ![d].phase = "locked", ![d].op = "add", ![d].entry = e, ![d].track = f,
          ![d].at = 1 + (IF after = None THEN MaxPosition ELSE entry[after].at),
          ![d].wanted = PutAfter(Keep(device[d].seen, Listed), after, e)]
    /\ UNCHANGED <<track, Playlist, Others, edits>>

RemoveTrack(d, e) ==
    /\ Lock(d) /\ e \in Listed
    /\ device' = [device EXCEPT
          ![d].phase = "locked", ![d].op = "remove", ![d].entry = e, ![d].at = entry[e].at,
          ![d].wanted = Keep(device[d].seen, Listed \ {e})]
    /\ UNCHANGED <<track, Playlist, Others, edits>>

Reorder(d, order) ==
    /\ Lock(d) /\ order \in SetToSeqs(Listed)
    /\ device' = [device EXCEPT ![d].phase = "locked", ![d].op = "reorder",
                                ![d].order = order, ![d].wanted = order]
    /\ UNCHANGED <<track, Playlist, Others, edits>>

\* One UPDATE moves the rows of S in no particular order, and the index is
\* checked row by row.
Moved(rows, S, distance) ==
    [e \in Entries |-> IF e \in S THEN [rows[e] EXCEPT !.at = @ + distance] ELSE rows[e]]
Collides(rows, S, distance) ==
    \E e \in S : \E f \in Entries \ {e} : rows[f].at # None /\ rows[e].at + distance = rows[f].at
From(rows, position) == {e \in Entries : rows[e].at # None /\ rows[e].at >= position}

ShiftAtOnce(rows, position, distance) ==
    [rows |-> Moved(rows, From(rows, position), distance),
     collides |-> Collides(rows, From(rows, position), distance)]
\* The second UPDATE without its condition on the staged positions.
ShiftEveryRowBack(rows, position, distance) ==
    LET staged == Moved(rows, From(rows, position), PositionShift) IN
    [rows |-> Moved(staged, From(staged, 0), distance - PositionShift), collides |-> FALSE]
\* Every row at `position` or beyond moves by `distance`, by way of positions
\* no other row can have.
ShiftPositions(rows, position, distance) ==
    LET staged == Moved(rows, From(rows, position), PositionShift)
        back == From(staged, PositionShift) IN
    [rows |-> Moved(staged, back, distance - PositionShift),
     collides |-> \/ Collides(rows, From(rows, position), PositionShift)
                  \/ Collides(staged, back, distance - PositionShift)]

Ends(d, rows, clash) ==
    /\ Edited
    /\ entry' = rows /\ collided' = (collided \/ clash)
    /\ version' = version + 1
    /\ intended' = device[d].wanted
    /\ device' = [device EXCEPT ![d] = Nothing]
    /\ UNCHANGED <<track, Others>>
Aborts(d) == /\ device' = [device EXCEPT ![d] = Nothing]
             /\ UNCHANGED <<track, Playlist, Others, edits>>

CommitAdd(d) ==
    LET shifted == ShiftPositions(entry, device[d].at, 1)
        row == [track |-> device[d].track, at |-> device[d].at] IN
    /\ device[d].phase = "locked" /\ device[d].op = "add"
    /\ IF device[d].track \in track
       THEN Ends(d, [shifted.rows EXCEPT ![device[d].entry] = row],
                 shifted.collides \/ \E e \in Entries : shifted.rows[e].at = device[d].at)
       ELSE Aborts(d)
CommitRemove(d) ==
    LET left == [entry EXCEPT ![device[d].entry] = Absent]
        shifted == ShiftPositions(left, device[d].at + 1, -1) IN
    /\ device[d].phase = "locked" /\ device[d].op = "remove"
    /\ Ends(d, shifted.rows, shifted.collides)
CommitReorder(d) ==
    LET shifted == Moved(entry, Listed, PositionShift) IN
    /\ device[d].phase = "locked" /\ device[d].op = "reorder"
    /\ Ends(d, [e \in Entries |-> IF e \in Listed
                   THEN [shifted[e] EXCEPT !.at = PositionIn(device[d].order, e) - 1] ELSE shifted[e]],
            Collides(entry, Listed, PositionShift))
RollBack(d) == device[d].phase = "locked" /\ Aborts(d)

\* One statement each, compared with the version in its WHERE.
UpdatePlaylist(d) ==
    /\ Lock(d) /\ version' = version + 1
    /\ device' = [device EXCEPT ![d] = Nothing]
    /\ UNCHANGED <<track, entry, intended, collided, Others>>
Update(d) == Edited /\ UpdatePlaylist(d)
DeletePlaylist(d) ==
    /\ Lock(d) /\ Edited /\ version' = 0
    /\ entry' = [e \in Entries |-> Absent] /\ intended' = <<>>
    /\ device' = [device EXCEPT ![d] = Nothing]
    /\ UNCHANGED <<track, collided, Others>>

\* A track is deleted for good with its entries; the version stays, and so do
\* the gaps.
DeleteTrack(f) ==
    /\ f \in track /\ Edited /\ track' = track \ {f}
    /\ entry' = [e \in Entries |-> IF entry[e].track = f THEN Absent ELSE entry[e]]
    /\ intended' = Keep(intended, Entries \ Holds(f))
    /\ device' = [d \in Devices |-> [device[d] EXCEPT !.wanted = Keep(@, Entries \ Holds(f))]]
    /\ favorite' = favorite \ {f}
    /\ UNCHANGED <<version, collided, history, heard>>

---------------------------------------------------------------------------
(* Favourites and the play history *)

\* The mark is inserted if it is missing, and read again if it was not.
AddFavorite(d, f) ==
    /\ device[d].phase = "none" /\ f \in track
    /\ IF f \in favorite THEN device' = [device EXCEPT ![d].phase = "favorite", ![d].track = f]
                         ELSE UNCHANGED device
    /\ favorite' = favorite \union {f}
    /\ UNCHANGED <<track, Playlist, history, heard, edits>>
FavoriteRead(d) ==
    /\ device[d].phase = "favorite"
    /\ device' = [device EXCEPT ![d] = Nothing]
    /\ UNCHANGED <<track, Playlist, Others, edits>>
RemoveFavorite(f) ==
    /\ f \in favorite /\ favorite' = favorite \ {f}
    /\ UNCHANGED <<track, Playlist, device, history, heard, edits>>

AlwaysNewer(event) == TRUE
NotOlder(event) == history.at <= event.at
UpsertPlayback(event) ==
    /\ heard' = heard \union {event}
    /\ history' = IF NotOlder(event)
                  THEN [at |-> event.at, session |-> event.session, kind |-> event.kind,
                        count |-> history.count +
                            IF event.kind = "STARTED" /\ history.session # event.session
                            THEN 1 ELSE 0]
                  ELSE history
    /\ UNCHANGED <<track, Playlist, device, favorite, edits>>
RecordPlayback(event) == history.count < MaxEdits /\ UpsertPlayback(event)

---------------------------------------------------------------------------
Edit(d) ==
    \/ \E e \in Entries, f \in Tracks, after \in Entries \union {None} : AddTrack(d, e, f, after)
    \/ \E e \in Entries : RemoveTrack(d, e)
    \/ \E order \in SetToSeqs(Listed) : Reorder(d, order)
    \/ CommitAdd(d) \/ CommitRemove(d) \/ CommitReorder(d) \/ RollBack(d)
    \/ Get(d) \/ Update(d) \/ DeletePlaylist(d)

Editing == (\E d \in Devices : Edit(d)) \/ \E f \in Tracks : DeleteTrack(f)
Listening ==
    \/ \E d \in Devices : FavoriteRead(d) \/ \E f \in Tracks : AddFavorite(d, f)
    \/ \E f \in Tracks : RemoveFavorite(f)
    \/ \E event \in Events : RecordPlayback(event)

Next == Editing \/ Listening
Spec == Init /\ [][Next]_libraryVars

---------------------------------------------------------------------------
\* The order of the entries is always the one the owner's edits meant, each
\* applied to the list its device had seen: no edit lands on a list that has
\* changed since, no shift of positions disturbs the order, and no statement
\* can run into the unique index on positions, with gaps left by deleted
\* tracks or without.
PlaylistAsIntended == ~collided /\ ListEntries = intended

\* The history shows the latest of the events, in whatever order and however
\* often they arrived.
LatestEventShown ==
    \A event \in heard : /\ event.at <= history.at
                         /\ \E shown \in heard : shown.at = history.at /\ shown.kind = history.kind
=============================================================================
