---------------------------- MODULE MCLibraryFiles -----------------------------
(* What a scan does with the files it meets, in two views of which a          *)
(* behaviour chooses one at its start: the rows it keeps, moves and deletes   *)
(* (LibraryFiles), and the transactions and connections its commit workers    *)
(* share (ScanCommit).                                                        *)
EXTENDS ScanCommit, TLC

CONSTANTS AudioPaths, \* paths of LibraryFiles
          MaxScans, MaxIds, MaxChanges, MaxFailures

VARIABLES view, onDisk, sources, scan, clock, ids, changes, failures

filesVars == <<onDisk, sources, scan, clock, ids, changes, failures>>

Files == INSTANCE LibraryFiles
    WITH disk <- onDisk, rows <- sources, Paths <- AudioPaths, Scanners <- {"scan"}

MCInit ==
    /\ view \in {"rows", "commits"}
    /\ Files!Init /\ Init
    /\ view = "rows" => rows = [p \in Paths |-> Absent] /\ disk = rows

MCNext ==
    \/ view = "rows" /\ Files!Next /\ UNCHANGED <<view, vars>>
    \/ view = "commits" /\ Next /\ UNCHANGED <<view, filesVars>>
    \* Deadlock is checked of the commit workers only.
    \/ view = "rows" /\ UNCHANGED <<view, vars, filesVars>>

MCSpec == MCInit /\ [][MCNext]_<<view, vars, filesVars>>

TypesOK == TypeOK /\ Files!TypeOK
SeenSourcesKept == Files!SeenSourcesKept
MovedFileKeepsTrack == Files!MovedFileKeepsTrack

Symmetry == Permutations(Paths) \cup Permutations(AudioPaths) \cup Permutations(Contents)
              \cup Permutations(Workers)
=============================================================================
