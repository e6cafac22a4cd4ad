-------------------------- MODULE LibraryFilesProofs --------------------------
(***************************************************************************)
(* What one scan does, for any number of files, contents, workers and        *)
(* connections, and any batch size.                                          *)
(* Of the commit workers:                                                    *)
(*   - the types, with every connection accounted for;                       *)
(*   - two workers never move the same row;                                  *)
(*   - no batch waits for its own locks, if no moved file left its old path  *)
(*     to another file.                                                      *)
(* Of the rows of the files (LibraryFiles, with one scanner):                *)
(*   - the types, with one row per id;                                       *)
(*   - the deletions spare the files that lay still;                         *)
(*   - a moved file keeps its row.                                           *)
(* That some commit worker can always go on is left to TLC, which looks for  *)
(* deadlocks.                                                                *)
(***************************************************************************)
EXTENDS MCLibraryFiles, FiniteSetTheorems, TLAPS

Phases == {"idle", "taken", "batch", "rename", "alone", "own"}

(* TypeOK without the counter of the pool; a worker whose own transaction   *)
(* is open has the file it is for.                                          *)
Types ==
    /\ {rows, disk} \subseteq [Paths -> Contents \cup {Absent}]
    /\ found \subseteq Paths /\ ready \subseteq Paths
    /\ batch \in [Workers -> Seq(Paths)]
    /\ phase \in [Workers -> Phases]
    /\ target \in [Workers -> SUBSET Paths]
    /\ claimed \subseteq Paths
    /\ lock \in [Paths -> Workers \cup {NoWorker}]
    /\ \A w \in Workers : phase[w] \in {"rename", "own"} => batch[w] # <<>>

(* A transaction holds a connection; a rename in a batch holds a second one. *)
Holding == {w \in Workers : phase[w] \in {"batch", "rename", "own"}}
Second == {w \in Workers : phase[w] = "rename"}

ConnectionsCounted ==
    /\ free \in Nat
    /\ free + Cardinality(Holding) + Cardinality(Second) = Connections

-----------------------------------------------------------------------------
(* Batches are sequences of paths, and what is left of one after Drops is   *)
(* one, too.                                                                *)
LEMMA BatchType ==
    ASSUME ready \subseteq Paths, NEW files \in Batches
    PROVE  files \in Seq(Paths)
<1>1. PICK n \in 1..BatchSize : files \in [1..n -> ready]
  BY DEF Batches
<1>2. n \in Nat
  BY CommitAssumption
<1> QED
  BY <1>1, <1>2

LEMMA InitTypes == Init => Types
BY DEF Init, Types, Phases

LEMMA NextTypes == Types /\ [Next]_vars => Types'
<1> SUFFICES ASSUME Types, [Next]_vars PROVE Types'
  OBVIOUS
<1> USE DEF Types, Phases, Goes, Drops, Wants, SameFiles
<1>1. ASSUME NEW p \in Paths, PrepareFile(p) PROVE Types'
  BY <1>1 DEF PrepareFile
<1>2. ASSUME NEW w \in Workers, Step(w) PROVE Types'
  <2>0. batch[w] # <<>> => Head(batch[w]) \in Paths /\ Tail(batch[w]) \in Seq(Paths)
    OBVIOUS
  <2>1. CASE TakeBatch(w)
    <3>1. PICK files \in Batches :
              /\ batch' = [batch EXCEPT ![w] = files]
              /\ ready' = ready \ {files[i] : i \in DOMAIN files}
      BY <2>1 DEF TakeBatch
    <3>2. files \in Seq(Paths)
      BY BatchType
    <3> QED
      BY <2>1, <3>1, <3>2 DEF TakeBatch
  <2>2. CASE GoOneByOne(w)
    BY <2>2 DEF GoOneByOne
  <2>3. CASE BeginBatch(w)
    BY <2>3 DEF BeginBatch
  <2>4. CASE StoreInBatch(w)
    BY <2>4, <2>0 DEF StoreInBatch
  <2>5. CASE BeginRename(w)
    BY <2>5 DEF BeginRename, RenamedFrom
  <2>6. CASE EndRename(w)
    BY <2>6, <2>0 DEF EndRename, EndOwn
  <2>7. CASE CommitBatch(w)
    BY <2>7 DEF CommitBatch
  <2>8. CASE BeginAlone(w)
    BY <2>8, <2>0 DEF BeginAlone, RenamedFrom
  <2>9. CASE EndAlone(w)
    BY <2>9, <2>0 DEF EndAlone, EndOwn
  <2>10. CASE EndAll(w)
    BY <2>10 DEF EndAll
  <2> QED
    BY <1>2, <2>1, <2>2, <2>3, <2>4, <2>5, <2>6, <2>7, <2>8, <2>9, <2>10 DEF Step
<1>3. CASE UNCHANGED vars
  BY <1>3 DEF vars
<1> QED
  BY <1>1, <1>2, <1>3 DEF Next

-----------------------------------------------------------------------------
(* The pool.  Opening and ending a transaction add or remove one worker of  *)
(* Holding or Second, and one connection.                                   *)
LEMMA PoolIsFinite == IsFiniteSet(Holding) /\ IsFiniteSet(Second)
BY CommitAssumption, FS_Subset DEF Holding, Second

LEMMA InitConnections == Init => ConnectionsCounted
<1> SUFFICES ASSUME Init PROVE ConnectionsCounted
  OBVIOUS
<1>1. Holding = {} /\ Second = {}
  BY DEF Init, Holding, Second
<1> QED
  BY <1>1, CommitAssumption, FS_EmptySet DEF Init, ConnectionsCounted

(* Entering a phase that holds one connection more. *)
LEMMA Opens ==
    ASSUME Types, ConnectionsCounted, NEW w \in Workers, free > 0, free' = free - 1,
           \/ phase[w] \in {"taken", "alone"} /\ Holding' = Holding \cup {w} /\ Second' = Second
           \/ phase[w] = "batch" /\ Holding' = Holding /\ Second' = Second \cup {w}
    PROVE  ConnectionsCounted'
<1>1. CASE phase[w] \in {"taken", "alone"} /\ Holding' = Holding \cup {w} /\ Second' = Second
  <2>1. w \notin Holding
    BY <1>1 DEF Holding
  <2>2. Cardinality(Holding') = Cardinality(Holding) + 1
    BY <1>1, <2>1, PoolIsFinite, FS_AddElement
  <2>3. Cardinality(Holding) \in Nat /\ Cardinality(Second) \in Nat
    BY PoolIsFinite, FS_CardinalityType
  <2> QED
    BY <1>1, <2>2, <2>3, CommitAssumption DEF ConnectionsCounted
<1>2. CASE phase[w] = "batch" /\ Holding' = Holding /\ Second' = Second \cup {w}
  <2>1. w \notin Second
    BY <1>2 DEF Second
  <2>2. Cardinality(Second') = Cardinality(Second) + 1
    BY <1>2, <2>1, PoolIsFinite, FS_AddElement
  <2>3. Cardinality(Holding) \in Nat /\ Cardinality(Second) \in Nat
    BY PoolIsFinite, FS_CardinalityType
  <2> QED
    BY <1>2, <2>2, <2>3, CommitAssumption DEF ConnectionsCounted
<1> QED
  BY <1>1, <1>2

(* Leaving it again. *)
LEMMA Closes ==
    ASSUME Types, ConnectionsCounted, NEW w \in Workers, free' = free + 1,
           \/ phase[w] \in {"batch", "own"} /\ Holding' = Holding \ {w} /\ Second' = Second
           \/ phase[w] = "rename" /\ Holding' = Holding /\ Second' = Second \ {w}
    PROVE  ConnectionsCounted'
<1>1. CASE phase[w] \in {"batch", "own"} /\ Holding' = Holding \ {w} /\ Second' = Second
  <2>1. w \in Holding
    BY <1>1 DEF Holding
  <2>2. Cardinality(Holding') = Cardinality(Holding) - 1
    BY <1>1, <2>1, PoolIsFinite, FS_RemoveElement
  <2>3. Cardinality(Holding) \in Nat /\ Cardinality(Second) \in Nat
    BY PoolIsFinite, FS_CardinalityType
  <2> QED
    BY <1>1, <2>2, <2>3, CommitAssumption DEF ConnectionsCounted
<1>2. CASE phase[w] = "rename" /\ Holding' = Holding /\ Second' = Second \ {w}
  <2>1. w \in Second
    BY <1>2 DEF Second
  <2>2. Cardinality(Second') = Cardinality(Second) - 1
    BY <1>2, <2>1, PoolIsFinite, FS_RemoveElement
  <2>3. Cardinality(Holding) \in Nat /\ Cardinality(Second) \in Nat
    BY PoolIsFinite, FS_CardinalityType
  <2> QED
    BY <1>2, <2>2, <2>3, CommitAssumption DEF ConnectionsCounted
<1> QED
  BY <1>1, <1>2

LEMMA NextConnections == Types /\ ConnectionsCounted /\ [Next]_vars => ConnectionsCounted'
<1> SUFFICES ASSUME Types, ConnectionsCounted, [Next]_vars PROVE ConnectionsCounted'
  OBVIOUS
<1>0. ASSUME UNCHANGED free, Holding' = Holding, Second' = Second PROVE ConnectionsCounted'
  BY <1>0 DEF ConnectionsCounted
<1>1. ASSUME NEW p \in Paths, PrepareFile(p) PROVE ConnectionsCounted'
  BY <1>0, <1>1 DEF PrepareFile, Holding, Second
<1>2. ASSUME NEW w \in Workers, Step(w) PROVE ConnectionsCounted'
  <2>1. CASE TakeBatch(w) \/ GoOneByOne(w) \/ EndAll(w)
    <3>1. UNCHANGED free /\ Holding' = Holding /\ Second' = Second
      BY <2>1 DEF TakeBatch, GoOneByOne, EndAll, Goes, Types, Holding, Second
    <3> QED
      BY <3>1, <1>0
  <2>2. CASE StoreInBatch(w)
    BY <2>2, <1>0 DEF StoreInBatch, Holding, Second
  <2>3. CASE BeginBatch(w) \/ BeginAlone(w)
    <3>1. /\ phase[w] \in {"taken", "alone"} /\ free > 0 /\ free' = free - 1
          /\ Holding' = Holding \cup {w} /\ Second' = Second
      BY <2>3 DEF BeginBatch, BeginAlone, Goes, Types, Holding, Second
    <3> QED
      BY <3>1, Opens
  <2>4. CASE BeginRename(w)
    <3>1. /\ phase[w] = "batch" /\ free > 0 /\ free' = free - 1
          /\ Holding' = Holding /\ Second' = Second \cup {w}
      BY <2>4 DEF BeginRename, Goes, Types, Holding, Second
    <3> QED
      BY <3>1, Opens
  <2>5. CASE CommitBatch(w) \/ EndAlone(w)
    <3>1. /\ phase[w] \in {"batch", "own"} /\ free' = free + 1
          /\ Holding' = Holding \ {w} /\ Second' = Second
      BY <2>5 DEF CommitBatch, EndAlone, EndOwn, Goes, Types, Holding, Second
    <3> QED
      BY <3>1, Closes
  <2>6. CASE EndRename(w)
    <3>1. /\ phase[w] = "rename" /\ free' = free + 1
          /\ Holding' = Holding /\ Second' = Second \ {w}
      BY <2>6 DEF EndRename, EndOwn, Goes, Types, Holding, Second
    <3> QED
      BY <3>1, Closes
  <2> QED
    BY <1>2, <2>1, <2>2, <2>3, <2>4, <2>5, <2>6 DEF Step
<1>3. CASE UNCHANGED vars
  BY <1>0, <1>3 DEF vars, Holding, Second
<1> QED
  BY <1>1, <1>2, <1>3 DEF Next

LEMMA CommitTypes == Types /\ ConnectionsCounted => TypeOK
<1> SUFFICES ASSUME Types, ConnectionsCounted PROVE TypeOK
  OBVIOUS
<1>1. Cardinality(Holding) \in Nat /\ Cardinality(Second) \in Nat
  BY PoolIsFinite, FS_CardinalityType
<1>2. free \in 0..Connections
  BY <1>1, CommitAssumption DEF ConnectionsCounted
<1> QED
  BY <1>2 DEF Types, TypeOK, Phases

(* Every variable keeps its range, and no connection is lost or given back  *)
(* twice: what is free and what open transactions hold is always the pool.  *)
THEOREM CommitTypeCorrect == Spec => []TypeOK
BY CommitTypes, InitTypes, NextTypes, InitConnections, NextConnections, PTL DEF Spec

-----------------------------------------------------------------------------
(* A worker that moves a row has claimed it, and no other worker moves it.   *)
(* The claims are what makes the second conjunct inductive: a new rename     *)
(* only takes rows that are not claimed, and gives up only its own.          *)
RenamesAreClaimed ==
    /\ \A w \in Workers : Renaming(w) => target[w] \subseteq claimed
    /\ OneRename

LEMMA NextRenames == Types /\ RenamesAreClaimed /\ [Next]_vars => RenamesAreClaimed'
<1> SUFFICES ASSUME Types, RenamesAreClaimed, [Next]_vars PROVE RenamesAreClaimed'
  OBVIOUS
<1> USE DEF Renaming, Goes, Drops, Wants, SameFiles
<1>0. ASSUME NEW w \in Workers, claimed \subseteq claimed',
             \A v \in Workers \ {w} :
                 phase'[v] = phase[v] /\ target'[v] = target[v] /\ batch'[v] = batch[v],
             Renaming(w)' => Renaming(w) /\ target'[w] = target[w]
      PROVE  RenamesAreClaimed'
  BY <1>0 DEF RenamesAreClaimed, OneRename
<1>1. ASSUME NEW p \in Paths, PrepareFile(p) PROVE RenamesAreClaimed'
  BY <1>1 DEF PrepareFile, RenamesAreClaimed, OneRename
<1>2. ASSUME NEW w \in Workers, Step(w) PROVE RenamesAreClaimed'
  <2>1. CASE TakeBatch(w)
    <3>1. Renaming(w)' => FALSE
      BY <2>1 DEF TakeBatch, Types
    <3>2. claimed' = claimed /\ \A v \in Workers \ {w} :
              phase'[v] = phase[v] /\ target'[v] = target[v] /\ batch'[v] = batch[v]
      BY <2>1 DEF TakeBatch, Types
    <3> QED
      BY <3>1, <3>2, <1>0
  <2>2. CASE GoOneByOne(w) \/ BeginBatch(w) \/ CommitBatch(w) \/ EndAll(w)
    <3>1. Renaming(w)' => FALSE
      BY <2>2 DEF GoOneByOne, BeginBatch, CommitBatch, EndAll, Types
    <3>2. claimed' = claimed /\ \A v \in Workers \ {w} :
              phase'[v] = phase[v] /\ target'[v] = target[v] /\ batch'[v] = batch[v]
      BY <2>2 DEF GoOneByOne, BeginBatch, CommitBatch, EndAll, Types
    <3> QED
      BY <3>1, <3>2, <1>0
  <2>3. CASE StoreInBatch(w)
    <3>1. Renaming(w)' => FALSE
      BY <2>3 DEF StoreInBatch, Types
    <3>2. claimed' = claimed /\ \A v \in Workers \ {w} :
              phase'[v] = phase[v] /\ target'[v] = target[v] /\ batch'[v] = batch[v]
      BY <2>3 DEF StoreInBatch, Types
    <3> QED
      BY <3>1, <3>2, <1>0
  <2>4. CASE BeginRename(w) \/ BeginAlone(w)
    <3>1. /\ Renaming(w)' => target'[w] = RenamedFrom(Head(batch[w]))
          /\ claimed' = claimed \cup RenamedFrom(Head(batch[w]))
          /\ \A v \in Workers \ {w} :
                 phase'[v] = phase[v] /\ target'[v] = target[v] /\ batch'[v] = batch[v]
      BY <2>4 DEF BeginRename, BeginAlone, Types
    <3>2. RenamedFrom(Head(batch[w])) \cap claimed = {}
      BY DEF RenamedFrom
    <3> QED
      BY <3>1, <3>2 DEF RenamesAreClaimed, OneRename
  <2>5. CASE EndRename(w) \/ EndAlone(w)
    <3>1. /\ Renaming(w)' => FALSE
          /\ claimed' \in {claimed, IF Renaming(w) THEN claimed \ target[w] ELSE claimed}
          /\ \A v \in Workers \ {w} :
                 phase'[v] = phase[v] /\ target'[v] = target[v] /\ batch'[v] = batch[v]
      BY <2>5 DEF EndRename, EndAlone, EndOwn, Types
    <3>2. \A v \in Workers \ {w} :
              Renaming(v) => target[v] \subseteq claimed /\ (Renaming(w) => target[v] \cap target[w] = {})
      BY DEF RenamesAreClaimed, OneRename
    <3>3. \A v \in Workers \ {w} : Renaming(v)' => Renaming(v) /\ target[v] \subseteq claimed'
      BY <3>1, <3>2
    <3> QED
      BY <3>1, <3>3 DEF RenamesAreClaimed, OneRename
  <2> QED
    BY <1>2, <2>1, <2>2, <2>3, <2>4, <2>5 DEF Step
<1>3. CASE UNCHANGED vars
  BY <1>3 DEF vars, RenamesAreClaimed, OneRename
<1> QED
  BY <1>1, <1>2, <1>3 DEF Next

(* Two workers that meet two copies of a moved file never move its row both  *)
(* (claimRenameCandidate), whatever is committed, rolled back or done over.  *)
THEOREM RowsAreMovedOnce == Spec => []OneRename
<1>1. Init => RenamesAreClaimed
  BY DEF Init, RenamesAreClaimed, OneRename, Renaming
<1>2. RenamesAreClaimed => OneRename
  BY DEF RenamesAreClaimed
<1> QED
  BY <1>1, <1>2, InitTypes, NextTypes, NextRenames, PTL DEF Spec

-----------------------------------------------------------------------------
(* What a batch transaction has locked is the row of a file that is in its   *)
(* place with other content; what a rename wants is the row with the content *)
(* of a file that has none.  Both at once is MovedAndReplaced.               *)
BatchesAreChanged ==
    /\ ~MovedAndReplaced(rows, disk)
    /\ \A p \in found \cup ready : disk[p] # Absent
    /\ \A w \in Workers : \A i \in DOMAIN batch[w] :
           /\ disk[batch[w][i]] # Absent
           /\ phase[w] \in {"batch", "rename"} => ~UnchangedFile(batch[w][i])
    /\ \A q \in Paths : lock[q] # NoWorker => disk[q] \notin {Absent, rows[q]}
    /\ \A w \in Workers : phase[w] = "rename" =>
           /\ batch[w] # <<>>
           /\ rows[Head(batch[w])] = Absent
           /\ \A q \in target[w] : rows[q] = disk[Head(batch[w])]

LEMMA LeftOfBatch ==
    ASSUME Types, NEW w \in Workers, batch[w] # <<>>
    PROVE  /\ Head(batch[w]) = batch[w][1] /\ 1 \in DOMAIN batch[w]
           /\ \A i \in DOMAIN Tail(batch[w]) :
                  i + 1 \in DOMAIN batch[w] /\ Tail(batch[w])[i] = batch[w][i + 1]
BY DEF Types

LEMMA NextBatches == Types /\ BatchesAreChanged /\ [Next]_vars => BatchesAreChanged'
<1> SUFFICES ASSUME Types, BatchesAreChanged, [Next]_vars PROVE BatchesAreChanged'
  OBVIOUS
<1> USE DEF Goes, Drops, Wants, SameFiles, MovedAndReplaced, UnchangedFile, Known
<1>1. ASSUME NEW p \in Paths, PrepareFile(p) PROVE BatchesAreChanged'
  BY <1>1 DEF PrepareFile, BatchesAreChanged
<1>2. ASSUME NEW w \in Workers, Step(w) PROVE BatchesAreChanged'
  <2>1. CASE TakeBatch(w)
    <3>1. PICK files \in Batches :
              /\ batch' = [batch EXCEPT ![w] = files]
              /\ ready' = ready \ {files[i] : i \in DOMAIN files}
      BY <2>1 DEF TakeBatch
    <3>2. \A i \in DOMAIN files : files[i] \in ready
      BY DEF Batches
    <3> QED
      BY <2>1, <3>1, <3>2 DEF TakeBatch, BatchesAreChanged, Types
  <2>2. CASE GoOneByOne(w)
    BY <2>2 DEF GoOneByOne, BatchesAreChanged, Types
  <2>3. CASE BeginBatch(w)
    BY <2>3 DEF BeginBatch, BatchesAreChanged, Types
  <2>4. CASE StoreInBatch(w)
    <3>1. disk[Head(batch[w])] # Absent /\ ~UnchangedFile(Head(batch[w]))
      BY <2>4, LeftOfBatch DEF StoreInBatch, BatchesAreChanged
    <3>2. \A q \in Paths : lock'[q] # NoWorker => disk[q] \notin {Absent, rows[q]}
      BY <2>4, <3>1 DEF StoreInBatch, BatchesAreChanged, Types
    <3>3. \A i \in DOMAIN batch'[w] : \E j \in DOMAIN batch[w] : batch'[w][i] = batch[w][j]
      BY <2>4, LeftOfBatch DEF StoreInBatch, Types
    <3> QED
      BY <2>4, <3>2, <3>3 DEF StoreInBatch, BatchesAreChanged, Types
  <2>5. CASE BeginRename(w)
    BY <2>5 DEF BeginRename, RenamedFrom, Candidates, BatchesAreChanged, Types
  <2>6. CASE EndRename(w) \/ EndAlone(w)
    <3>1. batch[w] # <<>> /\ batch' = [batch EXCEPT ![w] = Tail(batch[w])]
      BY <2>6 DEF EndRename, EndAlone, EndOwn, Types
    <3>2. \/ phase[w] = "rename" /\ phase' = [phase EXCEPT ![w] = "batch"]
          \/ phase[w] = "own" /\ phase' = [phase EXCEPT ![w] = "alone"]
      BY <2>6 DEF EndRename, EndAlone, EndOwn
    <3>3. UNCHANGED <<rows, disk, found, ready, lock>> /\ target' = [target EXCEPT ![w] = {}]
      BY <2>6 DEF EndRename, EndAlone, EndOwn
    <3>4. batch'[w] = Tail(batch[w]) /\ \A v \in Workers \ {w} : batch'[v] = batch[v]
      BY <3>1 DEF Types
    <3>5. \A i \in DOMAIN batch'[w] : \E j \in DOMAIN batch[w] : batch'[w][i] = batch[w][j]
      BY <3>1, <3>4, LeftOfBatch
    <3>6. \A v \in Workers : \A i \in DOMAIN batch'[v] :
              /\ disk[batch'[v][i]] # Absent
              /\ phase'[v] \in {"batch", "rename"} => ~UnchangedFile(batch'[v][i])
      <4> SUFFICES ASSUME NEW v \in Workers, NEW i \in DOMAIN batch'[v]
                   PROVE  /\ disk[batch'[v][i]] # Absent
                          /\ phase'[v] \in {"batch", "rename"} => ~UnchangedFile(batch'[v][i])
        OBVIOUS
      <4>1. CASE v = w
        <5>1. PICK j \in DOMAIN batch[w] : batch'[w][i] = batch[w][j]
          BY <4>1, <3>5
        <5>2. phase'[w] \in {"batch", "rename"} => phase[w] = "rename"
          BY <3>2 DEF Types
        <5> QED
          BY <4>1, <5>1, <5>2 DEF BatchesAreChanged
      <4>2. CASE v # w
        BY <4>2, <3>2, <3>4 DEF BatchesAreChanged, Types
      <4> QED
        BY <4>1, <4>2
    <3>7. \A v \in Workers : phase'[v] = "rename" => v # w /\ phase[v] = "rename" /\ target'[v] = target[v]
      BY <3>2, <3>3 DEF Types
    <3> QED
      BY <3>3, <3>4, <3>6, <3>7 DEF BatchesAreChanged
  <2>7. CASE CommitBatch(w)
    BY <2>7 DEF CommitBatch, BatchesAreChanged, Types
  <2>8. CASE BeginAlone(w)
    BY <2>8 DEF BeginAlone, BatchesAreChanged, Types
  <2>9. CASE EndAll(w)
    BY <2>9 DEF EndAll, BatchesAreChanged, Types
  <2> QED
    BY <1>2, <2>1, <2>2, <2>3, <2>4, <2>5, <2>6, <2>7, <2>8, <2>9 DEF Step
<1>3. CASE UNCHANGED vars
  BY <1>3 DEF vars, BatchesAreChanged
<1> QED
  BY <1>1, <1>2, <1>3 DEF Next

(* The claim of production_sync_batch.go:23, where it is true: unless a      *)
(* moved file has left its old path to another file, no batch of any worker  *)
(* comes to wait for a row it has locked itself.                             *)
THEOREM NoBatchWaitsForItself ==
    ASSUME ~Reoccupied
    PROVE  Spec => []NeverWaitsForOwnBatch
<1>1. Init => BatchesAreChanged
  BY DEF Init, BatchesAreChanged
<1>2. BatchesAreChanged /\ Types => NeverWaitsForOwnBatch
  <2> SUFFICES ASSUME BatchesAreChanged, Types,
                      NEW w \in Workers, phase[w] = "rename", NEW q \in target[w], lock[q] = w
               PROVE  FALSE
    BY DEF NeverWaitsForOwnBatch
  <2> DEFINE p == Head(batch[w])
  <2>1. p \in Paths /\ q \in Paths /\ disk[p] # Absent
    BY LeftOfBatch DEF BatchesAreChanged, Types
  <2>2. rows[p] = Absent /\ rows[q] = disk[p]
    BY DEF BatchesAreChanged
  <2>3. disk[q] \notin {Absent, rows[q]}
    BY <2>1, CommitAssumption DEF BatchesAreChanged
  <2> QED
    BY <2>1, <2>2, <2>3 DEF BatchesAreChanged, MovedAndReplaced
<1> QED
  BY <1>1, <1>2, InitTypes, NextTypes, NextBatches, PTL DEF Spec

-----------------------------------------------------------------------------
(* The rows of the files: what a scan has seen carries its time, or is       *)
(* remembered in memory, and a moved file has the row of its old path.       *)

Scan == scan["scan"]
FileRowRecords == [id : Nat, content : Contents \cup {Absent}, ready : BOOLEAN, seen : Nat]
FileRows == [AudioPaths -> FileRowRecords]
FileScanRecords ==
    [phase : {"idle", "walk", "delete"}, cutoff : Nat, before : FileRows,
     todo : SUBSET AudioPaths, seen : SUBSET Nat, claimed : SUBSET Nat,
     disturbed : SUBSET AudioPaths, failed : BOOLEAN, lost : SUBSET AudioPaths]

FilesTypes ==
    /\ onDisk \in [AudioPaths -> Contents \cup {Absent}]
    /\ sources \in FileRows /\ scan \in [{"scan"} -> FileScanRecords]
    /\ clock \in Nat /\ ids \in Nat /\ changes \in Nat /\ failures \in Nat

RowFits(row) ==
    row.id <= ids /\ row.seen <= clock /\ (row.id = 0 => ~row.ready /\ row = Files!NoRow)
OneRow(f) == \A p, q \in AudioPaths : f[p].id = f[q].id /\ f[p].id # 0 => p = q

\* A row was stamped by this scan, or is as the scan found it.
Stamped(row) == row.seen = Scan.cutoff
AsFound(p) == sources[p].id = 0 \/ Stamped(sources[p]) \/ sources[p] = Scan.before[p]

\* A file that was visited, and lay still, is known to have been seen.
Accounted(p) ==
    \/ onDisk[p] = Absent \/ p \in Scan.disturbed \cup Scan.lost
    \/ sources[p].id = 0 \/ Stamped(sources[p])
    \/ Scan.phase = "walk" /\ sources[p].id \in Scan.seen

\* The file at `new` is the only one with the content of the row of `old`.
Moved(old, new) ==
    /\ onDisk[old] = Absent /\ onDisk[new] # Absent
    /\ Scan.before[old].ready /\ Scan.before[old].content = onDisk[new]
    /\ Scan.before[new].id = 0
    /\ \A p \in AudioPaths \ {new} : onDisk[p] # onDisk[new]
    /\ \A p \in AudioPaths \ {old} : Scan.before[p].content # onDisk[new]

\* Until the moved file is visited nobody takes its row, afterwards it has it.
Follows(old, new) ==
    IF new \in Scan.todo
    THEN /\ sources[old] = Scan.before[old] /\ sources[new].id = 0
         /\ Scan.before[old].id \notin Scan.seen \cup Scan.claimed
    ELSE sources[new].id = Scan.before[old].id /\ Stamped(sources[new])

FilesInv ==
    /\ FilesTypes
    /\ \A p \in AudioPaths : RowFits(sources[p]) /\ RowFits(Scan.before[p])
    /\ OneRow(sources) /\ OneRow(Scan.before)
    /\ Scan.cutoff <= clock /\ Scan.seen \cup Scan.claimed \subseteq 1..ids
    /\ Scan.phase = "delete" => Scan.todo = {}
    /\ Scan.phase # "idle" =>
          /\ \A p \in AudioPaths : Scan.before[p].seen < Scan.cutoff
          /\ \A p \in AudioPaths \ Scan.todo : Accounted(p)
          /\ Scan.disturbed = {} /\ ~Scan.failed =>
                \A old, new \in AudioPaths : Moved(old, new) => Follows(old, new)
    /\ Scan.phase = "walk" => \A p \in AudioPaths : AsFound(p)

LEMMA NoRowTyped ==
    Files!NoRow \in FileRowRecords /\ Files!NoRow.id = 0 /\ ~Files!NoRow.ready /\ Files!NoRow.seen = 0
BY DEF Files!NoRow, FileRowRecords

LEMMA IdleScanTyped ==
    /\ Files!IdleScan \in FileScanRecords /\ Files!IdleScan.phase = "idle"
    /\ Files!IdleScan.cutoff = 0 /\ Files!IdleScan.seen = {} /\ Files!IdleScan.claimed = {}
    /\ Files!IdleScan.before = [p \in AudioPaths |-> Files!NoRow]
BY NoRowTyped DEF Files!IdleScan, FileScanRecords, FileRows

\* What a scan that ends leaves.
LEMMA FilesIdle ==
    ASSUME FilesTypes', \A p \in AudioPaths : RowFits(sources[p])', OneRow(sources)',
           Scan' = Files!IdleScan
    PROVE  FilesInv'
<1>1. \A p \in AudioPaths : Scan'.before[p] = Files!NoRow
  BY IdleScanTyped
<1>2. \A p \in AudioPaths : RowFits(Scan.before[p])'
  BY <1>1, NoRowTyped DEF RowFits, FilesTypes
<1>3. OneRow(Scan.before)'
  BY <1>1, NoRowTyped DEF OneRow
<1> QED
  BY <1>2, <1>3, IdleScanTyped DEF FilesInv, FilesTypes

LEMMA FilesInit == Files!Init => FilesInv
<1> SUFFICES ASSUME Files!Init PROVE FilesInv
  OBVIOUS
<1>1. \A p \in AudioPaths : sources[p] = Files!NoRow
  BY DEF Files!Init
<1>2. Scan = Files!IdleScan
  BY DEF Files!Init, Scan
<1>3. FilesTypes
  BY NoRowTyped, IdleScanTyped DEF Files!Init, FilesTypes, FileRows
<1>4. \A p \in AudioPaths : Scan.before[p] = Files!NoRow
  BY <1>2, IdleScanTyped
<1>5. \A p \in AudioPaths : RowFits(sources[p]) /\ RowFits(Scan.before[p])
  BY <1>1, <1>3, <1>4, NoRowTyped DEF RowFits, FilesTypes
<1>6. OneRow(sources) /\ OneRow(Scan.before)
  BY <1>1, <1>4, NoRowTyped DEF OneRow
<1> QED
  BY <1>2, <1>3, <1>5, <1>6, IdleScanTyped DEF FilesInv, FilesTypes

-----------------------------------------------------------------------------
(* Users change the directory: what they touch is disturbed.                 *)
LEMMA DiskChanges ==
    ASSUME FilesInv, NEW paths \in SUBSET AudioPaths, paths # {},
           onDisk' \in [AudioPaths -> Contents \cup {Absent}],
           \A p \in AudioPaths \ paths : onDisk'[p] = onDisk[p],
           changes' = changes + 1, UNCHANGED <<sources, clock, ids, failures>>,
           scan' = [s \in {"scan"} |-> IF scan[s].phase # "idle"
                        THEN [scan[s] EXCEPT !.disturbed = @ \cup paths] ELSE scan[s]]
    PROVE  FilesInv'
<1>1. Scan \in FileScanRecords /\ FilesTypes
  BY DEF FilesInv, FilesTypes, Scan
<1>2. Scan' = IF Scan.phase # "idle" THEN [Scan EXCEPT !.disturbed = @ \cup paths] ELSE Scan
  BY DEF Scan
<1>3. /\ Scan' \in FileScanRecords /\ Scan'.phase = Scan.phase /\ Scan'.cutoff = Scan.cutoff
      /\ Scan'.before = Scan.before /\ Scan'.todo = Scan.todo /\ Scan'.seen = Scan.seen
      /\ Scan'.claimed = Scan.claimed /\ Scan'.failed = Scan.failed /\ Scan'.lost = Scan.lost
      /\ Scan'.disturbed = IF Scan.phase = "idle" THEN Scan.disturbed ELSE Scan.disturbed \cup paths
  BY <1>1, <1>2 DEF FileScanRecords
<1>4. FilesTypes'
  BY <1>1, <1>3 DEF FilesTypes, Scan
<1>5. /\ \A p \in AudioPaths : RowFits(sources[p])' /\ RowFits(Scan.before[p])'
      /\ OneRow(sources)' /\ OneRow(Scan.before)'
  BY <1>3 DEF FilesInv, RowFits, OneRow
<1>6. Scan.phase # "idle" => \A p \in AudioPaths \ Scan.todo : Accounted(p)'
  BY <1>3 DEF FilesInv, Accounted, Stamped
<1>7. Scan.phase = "walk" => \A p \in AudioPaths : AsFound(p)'
  BY <1>3 DEF FilesInv, AsFound, Stamped
<1>8. Scan.phase # "idle" => Scan'.disturbed # {}
  BY <1>3
<1> QED
  BY <1>3, <1>4, <1>5, <1>6, <1>7, <1>8 DEF FilesInv

LEMMA FilesWritten ==
    ASSUME FilesInv,
           \/ \E p \in AudioPaths, c \in Contents : Files!Write(p, c)
           \/ \E p \in AudioPaths : Files!Remove(p)
           \/ \E p, q \in AudioPaths : Files!Move(p, q)
    PROVE  FilesInv'
<1>0. onDisk \in [AudioPaths -> Contents \cup {Absent}]
  BY DEF FilesInv, FilesTypes
<1>1. ASSUME NEW p \in AudioPaths, NEW c \in Contents, Files!Write(p, c) PROVE FilesInv'
  <2>1. /\ onDisk' \in [AudioPaths -> Contents \cup {Absent}]
        /\ \A q \in AudioPaths \ {p} : onDisk'[q] = onDisk[q]
    BY <1>0, <1>1 DEF Files!Write, Files!ChangesDisk
  <2>2. /\ changes' = changes + 1 /\ UNCHANGED <<sources, clock, ids, failures>>
        /\ scan' = [s \in {"scan"} |-> IF scan[s].phase # "idle"
                        THEN [scan[s] EXCEPT !.disturbed = @ \cup {p}] ELSE scan[s]]
    BY <1>1 DEF Files!Write, Files!ChangesDisk
  <2>3. {p} \in SUBSET AudioPaths /\ {p} # {}
    OBVIOUS
  <2> QED
    BY <2>1, <2>2, <2>3, DiskChanges
<1>2. ASSUME NEW p \in AudioPaths, Files!Remove(p) PROVE FilesInv'
  <2>1. /\ onDisk' \in [AudioPaths -> Contents \cup {Absent}]
        /\ \A q \in AudioPaths \ {p} : onDisk'[q] = onDisk[q]
    BY <1>0, <1>2 DEF Files!Remove, Files!ChangesDisk
  <2>2. /\ changes' = changes + 1 /\ UNCHANGED <<sources, clock, ids, failures>>
        /\ scan' = [s \in {"scan"} |-> IF scan[s].phase # "idle"
                        THEN [scan[s] EXCEPT !.disturbed = @ \cup {p}] ELSE scan[s]]
    BY <1>2 DEF Files!Remove, Files!ChangesDisk
  <2>3. {p} \in SUBSET AudioPaths /\ {p} # {}
    OBVIOUS
  <2> QED
    BY <2>1, <2>2, <2>3, DiskChanges
<1>3. ASSUME NEW p \in AudioPaths, NEW q \in AudioPaths, Files!Move(p, q) PROVE FilesInv'
  <2>1. /\ onDisk' \in [AudioPaths -> Contents \cup {Absent}]
        /\ \A r \in AudioPaths \ {p, q} : onDisk'[r] = onDisk[r]
    BY <1>0, <1>3 DEF Files!Move, Files!ChangesDisk
  <2>2. /\ changes' = changes + 1 /\ UNCHANGED <<sources, clock, ids, failures>>
        /\ scan' = [s \in {"scan"} |-> IF scan[s].phase # "idle"
                        THEN [scan[s] EXCEPT !.disturbed = @ \cup {p, q}] ELSE scan[s]]
    BY <1>3 DEF Files!Move, Files!ChangesDisk
  <2>3. {p, q} \in SUBSET AudioPaths /\ {p, q} # {}
    OBVIOUS
  <2> QED
    BY <2>1, <2>2, <2>3, DiskChanges
<1> QED
  BY <1>1, <1>2, <1>3

-----------------------------------------------------------------------------
(* A visit: one path is done, and the rows of other paths stay or go.        *)
LEMMA FilesVisited ==
    ASSUME FilesInv, NEW p \in AudioPaths, Scan.phase = "walk", p \in Scan.todo,
           UNCHANGED <<onDisk, changes, clock>>, failures' \in Nat,
           ids' \in Nat, ids <= ids',
           Scan' \in FileScanRecords,
           Scan'.phase = "walk", Scan'.cutoff = Scan.cutoff, Scan'.before = Scan.before,
           Scan'.todo = Scan.todo \ {p}, Scan'.disturbed = Scan.disturbed,
           Scan.seen \subseteq Scan'.seen, Scan.lost \subseteq Scan'.lost,
           Scan.failed => Scan'.failed,
           Scan'.seen \cup Scan'.claimed \subseteq 1..ids,
           sources' \in FileRows, scan' \in [{"scan"} -> FileScanRecords],
           OneRow(sources)',
           \A q \in AudioPaths \ {p} : sources'[q] = sources[q] \/ sources'[q] = Files!NoRow,
           sources'[p] = sources[p] \/ (RowFits(sources[p])' /\ Stamped(sources[p])'),
           Accounted(p)',
           Scan.disturbed = {} /\ ~Scan'.failed =>
               \A old, new \in AudioPaths : Moved(old, new) =>
                   IF p = new THEN sources'[new].id = Scan.before[old].id /\ Stamped(sources[new])'
                   ELSE /\ UNCHANGED sources[new]
                        /\ new \in Scan.todo =>
                              /\ UNCHANGED sources[old]
                              /\ Scan.before[old].id \notin Scan'.seen \ Scan.seen
                              /\ Scan.before[old].id \notin Scan'.claimed \ Scan.claimed
    PROVE  FilesInv'
<1>1. FilesTypes /\ FilesTypes'
  BY DEF FilesInv, FilesTypes
<1>2. Scan \in FileScanRecords
  BY <1>1 DEF FilesTypes, Scan
<1>4. \A q \in AudioPaths : sources[q] \in FileRowRecords /\ sources'[q] \in FileRowRecords
                            /\ Scan.before[q] \in FileRowRecords
  BY <1>1, <1>2 DEF FilesTypes, FileRows, FileScanRecords
<1>5. \A q \in AudioPaths : RowFits(sources[q])' /\ RowFits(Scan.before[q])'
  <2> SUFFICES ASSUME NEW q \in AudioPaths PROVE RowFits(sources[q])' /\ RowFits(Scan.before[q])'
    OBVIOUS
  <2>1. RowFits(sources[q]) /\ RowFits(Scan.before[q])
    BY DEF FilesInv
  <2>2. RowFits(Scan.before[q])'
    BY <1>1, <1>4, <2>1 DEF RowFits, FilesTypes, FileRowRecords
  <2>3. sources'[q] = sources[q] => RowFits(sources[q])'
    BY <1>1, <1>4, <2>1 DEF RowFits, FilesTypes, FileRowRecords
  <2>4. sources'[q] = Files!NoRow => RowFits(sources[q])'
    BY <1>1, NoRowTyped DEF RowFits, FilesTypes
  <2> QED
    BY <2>2, <2>3, <2>4
<1>6. OneRow(Scan.before)'
  BY DEF FilesInv, OneRow
<1>7. \A q \in AudioPaths \ Scan'.todo : Accounted(q)'
  <2> SUFFICES ASSUME NEW q \in AudioPaths \ Scan.todo, q # p PROVE Accounted(q)'
    BY <1>2
  <2>1. Accounted(q)
    BY DEF FilesInv
  <2>2. sources'[q] = sources[q] \/ sources'[q].id = 0
    BY NoRowTyped
  <2> QED
    BY <2>1, <2>2 DEF Accounted, Stamped
<1>8. \A q \in AudioPaths : AsFound(q)'
  <2> SUFFICES ASSUME NEW q \in AudioPaths PROVE AsFound(q)'
    OBVIOUS
  <2>1. AsFound(q)
    BY DEF FilesInv
  <2>2. sources'[q] = sources[q] \/ sources'[q].id = 0 \/ Stamped(sources[q])'
    BY NoRowTyped
  <2> QED
    BY <2>1, <2>2 DEF AsFound, Stamped
<1>9. Scan'.disturbed = {} /\ ~Scan'.failed =>
          \A old, new \in AudioPaths : Moved(old, new)' => Follows(old, new)'
  <2> SUFFICES ASSUME Scan'.disturbed = {}, ~Scan'.failed,
                      NEW old \in AudioPaths, NEW new \in AudioPaths, Moved(old, new)'
               PROVE  Follows(old, new)'
    OBVIOUS
  <2>1. Moved(old, new)
    BY DEF Moved
  <2>2. Follows(old, new)
    BY <2>1 DEF FilesInv
  <2>3. CASE p = new
    BY <2>1, <2>3 DEF Follows, Stamped
  <2>4. CASE p # new
    BY <2>1, <2>2, <2>4 DEF Follows, Stamped
  <2> QED
    BY <2>3, <2>4
<1>10. /\ Scan'.cutoff <= clock' /\ Scan'.seen \cup Scan'.claimed \subseteq 1..ids'
       /\ \A q \in AudioPaths : Scan'.before[q].seen < Scan'.cutoff
  BY <1>1 DEF FilesInv, FilesTypes
<1> QED
  BY <1>1, <1>5, <1>6, <1>7, <1>8, <1>9, <1>10 DEF FilesInv

\* What a visit leaves of the scan.
LEMMA ScanVisits ==
    ASSUME FilesInv, NEW p \in AudioPaths,
           NEW seen \in SUBSET (1..ids), NEW claims \in SUBSET (1..ids), NEW fails \in BOOLEAN,
           Files!Visited("scan", p, seen, claims, fails)
    PROVE  /\ Scan' \in FileScanRecords /\ scan' \in [{"scan"} -> FileScanRecords]
           /\ Scan'.phase = Scan.phase /\ Scan'.cutoff = Scan.cutoff /\ Scan'.before = Scan.before
           /\ Scan'.todo = Scan.todo \ {p} /\ Scan'.disturbed = Scan.disturbed
           /\ Scan'.seen = Scan.seen \cup seen /\ Scan'.claimed = Scan.claimed \cup claims
           /\ (Scan'.failed <=> Scan.failed \/ fails) /\ Scan'.lost = Scan.lost
           /\ Scan'.seen \cup Scan'.claimed \subseteq 1..ids
<1>1. Scan \in FileScanRecords /\ scan \in [{"scan"} -> FileScanRecords]
  BY DEF FilesInv, FilesTypes, Scan
<1>2. Scan.seen \cup Scan.claimed \subseteq 1..ids /\ ids \in Nat
  BY DEF FilesInv, FilesTypes
<1>3. scan' = [scan EXCEPT !["scan"].todo = @ \ {p}, !["scan"].seen = @ \cup seen,
                           !["scan"].claimed = @ \cup claims, !["scan"].failed = @ \/ fails]
  BY DEF Files!Visited
<1>4. Scan' = [Scan EXCEPT !.todo = @ \ {p}, !.seen = @ \cup seen,
                           !.claimed = @ \cup claims, !.failed = @ \/ fails]
  BY <1>1, <1>3 DEF Scan
<1> DEFINE failing == Scan.failed \/ fails  saw == Scan.seen \cup seen  took == Scan.claimed \cup claims
<1>5. failing \in BOOLEAN
  BY Zenon
<1>6. 1..ids \subseteq Nat
  BY <1>2
<1>7. saw \in SUBSET Nat /\ took \in SUBSET Nat
  <2> HIDE DEF saw, took
  <2>1. saw \subseteq 1..ids /\ took \subseteq 1..ids
    BY <1>2 DEF saw, took
  <2> QED
    BY <1>6, <2>1
<1>8. Scan' = [Scan EXCEPT !.todo = @ \ {p}, !.seen = saw, !.claimed = took, !.failed = failing]
  BY <1>4
<1>9. failing = (Scan.failed \/ fails) /\ saw = Scan.seen \cup seen /\ took = Scan.claimed \cup claims
  OBVIOUS
<1> HIDE DEF failing, saw, took
<1>10. /\ Scan' \in FileScanRecords
      /\ Scan'.phase = Scan.phase /\ Scan'.cutoff = Scan.cutoff /\ Scan'.before = Scan.before
      /\ Scan'.todo = Scan.todo \ {p} /\ Scan'.disturbed = Scan.disturbed
      /\ Scan'.seen = saw /\ Scan'.claimed = took
      /\ Scan'.failed = failing /\ Scan'.lost = Scan.lost
  BY <1>1, <1>5, <1>8, <1>7 DEF FileScanRecords
<1>11. /\ Scan' \in FileScanRecords
      /\ Scan'.phase = Scan.phase /\ Scan'.cutoff = Scan.cutoff /\ Scan'.before = Scan.before
      /\ Scan'.todo = Scan.todo \ {p} /\ Scan'.disturbed = Scan.disturbed
      /\ Scan'.seen = Scan.seen \cup seen /\ Scan'.claimed = Scan.claimed \cup claims
      /\ Scan'.failed = (Scan.failed \/ fails) /\ Scan'.lost = Scan.lost
  BY <1>9, <1>10
<1>12. scan' \in [{"scan"} -> FileScanRecords]
  <2>1. scan' = [s \in {"scan"} |-> scan'[s]]
    BY <1>1, <1>3
  <2>2. scan'["scan"] \in FileScanRecords
    BY <1>11 DEF Scan
  <2> QED
    BY <2>1, <2>2
<1>13. Scan'.failed <=> Scan.failed \/ fails
  BY <1>11, Zenon
<1> QED
  BY <1>2, <1>11, <1>12, <1>13

\* The row i goes to p, wherever it was.
LEMMA RowMoves ==
    ASSUME FilesInv, NEW p \in AudioPaths, onDisk[p] # Absent,
           ids' \in Nat, ids <= ids', UNCHANGED clock, Scan'.cutoff = Scan.cutoff,
           NEW i \in 1..ids', Files!MovesRow(i, p, Files!Row(i, onDisk[p], "scan"))
    PROVE  /\ sources' \in FileRows /\ OneRow(sources)'
           /\ \A q \in AudioPaths \ {p} :
                 /\ sources'[q] = sources[q] \/ sources'[q] = Files!NoRow
                 /\ sources[q].id # i => sources'[q] = sources[q]
           /\ sources'[p].id = i /\ RowFits(sources[p])' /\ Stamped(sources[p])'
<1> DEFINE row == Files!Row(i, onDisk[p], "scan")
<1>1. Scan \in FileScanRecords /\ Scan.cutoff <= clock /\ Scan.cutoff \in Nat /\ clock \in Nat
      /\ onDisk[p] \in Contents \cup {Absent} /\ sources \in FileRows
  BY DEF FilesInv, FilesTypes, Scan, FileScanRecords
<1>2. row = [id |-> i, content |-> onDisk[p], ready |-> TRUE, seen |-> Scan.cutoff]
  BY DEF Files!Row, Scan
<1> HIDE DEF row
<1>a. i \in Nat
  OBVIOUS
<1>3. row \in FileRowRecords /\ row.id = i /\ row.seen = Scan.cutoff
  BY <1>1, <1>2, <1>a DEF FileRowRecords
<1>4. sources' = [q \in AudioPaths |-> IF q = p THEN row
                       ELSE IF sources[q].id = i THEN Files!NoRow ELSE sources[q]]
  BY DEF Files!MovesRow, row
<1>5. sources' \in FileRows
  BY <1>1, <1>3, <1>4, NoRowTyped DEF FileRows
<1>6. sources'[p] = row
  BY <1>4
<1>7. \A q \in AudioPaths \ {p} :
          /\ sources'[q] = sources[q] \/ sources'[q] = Files!NoRow
          /\ sources[q].id # i => sources'[q] = sources[q]
          /\ sources'[q].id # i
  BY <1>4, NoRowTyped
<1>8. OneRow(sources)'
  <2> SUFFICES ASSUME NEW q \in AudioPaths, NEW r \in AudioPaths, sources'[q].id = sources'[r].id,
                      sources'[q].id # 0
               PROVE  q = r
    BY DEF OneRow
  <2>1. CASE q = p \/ r = p
    BY <1>3, <1>6, <1>7, <2>1
  <2>2. CASE q # p /\ r # p
    <3>1. sources'[q] = sources[q] /\ sources'[r] = sources[r]
      BY <1>7, <2>2, NoRowTyped
    <3> QED
      BY <3>1 DEF FilesInv, OneRow
  <2> QED
    BY <2>1, <2>2
<1>9. RowFits(sources[p])'
  BY <1>1, <1>3, <1>6 DEF RowFits
<1> QED
  BY <1>3, <1>5, <1>6, <1>7, <1>8, <1>9 DEF Stamped

\* The row at p, or a new one, is marked as failed.
LEMMA RowFails ==
    ASSUME FilesInv, NEW p \in AudioPaths, UNCHANGED clock, Scan'.cutoff = Scan.cutoff,
           Files!RecordsFailure("scan", p)
    PROVE  /\ ids' \in Nat /\ ids <= ids'
           /\ sources' \in FileRows /\ OneRow(sources)'
           /\ \A q \in AudioPaths \ {p} : sources'[q] = sources[q]
           /\ RowFits(sources[p])' /\ Stamped(sources[p])'
<1>1. Scan \in FileScanRecords /\ Scan.cutoff <= clock /\ Scan.cutoff \in Nat /\ clock \in Nat
      /\ sources \in FileRows /\ ids \in Nat /\ sources[p] \in FileRowRecords
  BY DEF FilesInv, FilesTypes, Scan, FileScanRecords, FileRows
<1>2. \A q \in AudioPaths : sources[q].id <= ids /\ sources[q].id \in Nat
  BY <1>1 DEF FilesInv, RowFits, FileRows, FileRowRecords
<1>3. CASE sources[p].id # 0
  <2>1. ids' = ids /\ sources' = [sources EXCEPT ![p] = [sources[p] EXCEPT !.ready = FALSE, !.seen = Scan.cutoff]]
    BY <1>3 DEF Files!RecordsFailure, Files!Exists, Scan
  <2> DEFINE row == [sources[p] EXCEPT !.ready = FALSE, !.seen = Scan.cutoff]
  <2>2. row \in FileRowRecords /\ row.id = sources[p].id /\ row.seen = Scan.cutoff
    BY <1>1 DEF FileRowRecords
  <2>3. sources' = [sources EXCEPT ![p] = row]
    BY <2>1
  <2> HIDE DEF row
  <2>4. sources' \in FileRows /\ sources'[p] = row /\ \A q \in AudioPaths \ {p} : sources'[q] = sources[q]
    BY <1>1, <2>2, <2>3 DEF FileRows
  <2>5. OneRow(sources)'
    BY <2>2, <2>4 DEF FilesInv, OneRow
  <2>6. RowFits(sources[p])' /\ Stamped(sources[p])'
    BY <1>1, <1>2, <1>3, <2>1, <2>2, <2>4 DEF RowFits, Stamped
  <2> QED
    BY <1>1, <2>1, <2>4, <2>5, <2>6
<1>4. CASE sources[p].id = 0
  <2> DEFINE row == [id |-> ids + 1, content |-> Absent, ready |-> FALSE, seen |-> Scan.cutoff]
  <2>1. ids' = ids + 1 /\ sources' = [sources EXCEPT ![p] = row]
    BY <1>4 DEF Files!RecordsFailure, Files!Exists, Scan
  <2>2. row \in FileRowRecords /\ row.id = ids + 1 /\ row.seen = Scan.cutoff
    BY <1>1 DEF FileRowRecords
  <2> HIDE DEF row
  <2>4. sources' \in FileRows /\ sources'[p] = row /\ \A q \in AudioPaths \ {p} : sources'[q] = sources[q]
    BY <1>1, <2>1, <2>2 DEF FileRows
  <2>5. OneRow(sources)'
    <3> SUFFICES ASSUME NEW q \in AudioPaths, NEW r \in AudioPaths, sources'[q].id = sources'[r].id,
                        sources'[q].id # 0
                 PROVE  q = r
      BY DEF OneRow
    <3>1. CASE q = p \/ r = p
      BY <1>1, <1>2, <2>2, <2>4, <3>1
    <3>2. CASE q # p /\ r # p
      BY <2>4, <3>2 DEF FilesInv, OneRow
    <3> QED
      BY <3>1, <3>2
  <2>6. RowFits(sources[p])' /\ Stamped(sources[p])'
    BY <1>1, <2>1, <2>2, <2>4 DEF RowFits, Stamped
  <2> QED
    BY <1>1, <2>1, <2>4, <2>5, <2>6
<1> QED
  BY <1>3, <1>4

-----------------------------------------------------------------------------
(* The ways a visit ends.                                                    *)

\* What a scan that walks finds.
LEMMA FilesFound ==
    ASSUME FilesInv, NEW p \in AudioPaths
    PROVE  /\ Scan \in FileScanRecords /\ scan \in [{"scan"} -> FileScanRecords]
           /\ clock \in Nat /\ ids \in Nat /\ changes \in Nat /\ failures \in Nat
           /\ sources \in FileRows /\ OneRow(sources) /\ OneRow(Scan.before)
           /\ sources[p].id \in 0..ids /\ Scan.before[p].id \in 0..ids
           /\ Scan.before[p].ready => Scan.before[p].id \in 1..ids
           /\ Scan.phase # "idle" => Scan.before[p].seen < Scan.cutoff /\ Scan.before[p].seen \in Nat
                                     /\ Scan.cutoff \in Nat
           /\ Scan.phase = "walk" => AsFound(p)
<1>1. Scan \in FileScanRecords /\ FilesTypes
  BY DEF FilesInv, FilesTypes, Scan
<1>2. sources[p] \in FileRowRecords /\ Scan.before[p] \in FileRowRecords
  BY <1>1 DEF FilesTypes, FileRows, FileScanRecords
<1>3. RowFits(sources[p]) /\ RowFits(Scan.before[p])
  BY DEF FilesInv
<1>4. sources[p].id \in 0..ids /\ Scan.before[p].id \in 0..ids
  BY <1>1, <1>2, <1>3 DEF RowFits, FileRowRecords, FilesTypes
<1>5. Scan.before[p].ready => Scan.before[p].id \in 1..ids
  BY <1>1, <1>3, <1>4 DEF RowFits, FilesTypes
<1>6. Scan.before[p].seen \in Nat /\ Scan.cutoff \in Nat
  BY <1>1, <1>2 DEF FileRowRecords, FileScanRecords
<1> QED
  BY <1>1, <1>4, <1>5, <1>6 DEF FilesInv, FilesTypes

\* The row of a moved file is the only one it can be.
LEMMA MovedIsCandidate ==
    ASSUME FilesInv, Scan.phase = "walk", NEW old \in AudioPaths, NEW new \in AudioPaths,
           Moved(old, new), new \in Scan.todo, Follows(old, new)
    PROVE  Files!Candidates("scan", new) = {Scan.before[old].id} /\ Files!IsRename("scan", new)
<1>1. Scan.before[old].seen # Scan.cutoff
  BY FilesFound
<1>2. \A q \in AudioPaths : Scan.before[q].content = onDisk[new] => q = old
  BY DEF Moved
<1>3. Files!Candidates("scan", new)
        = {Scan.before[q].id : q \in {q \in AudioPaths : /\ Scan.before[q].ready
                                                       /\ Scan.before[q].content = onDisk[new]
                                                       /\ Scan.before[q].seen # Scan.cutoff}}
  BY DEF Files!Candidates, Scan
<1>4. Files!Candidates("scan", new) = {Scan.before[old].id}
  BY <1>1, <1>2, <1>3 DEF Moved
<1>5. Files!MayClaim("scan", Scan.before[old].id)
  BY DEF Follows, Files!MayClaim, Scan
<1>6. ~Files!Exists(Scan.before[new])
  BY DEF Moved, Files!Exists
<1> QED
  BY <1>4, <1>5, <1>6 DEF Files!IsRename, Scan

LEMMA FilesMarksSeen ==
    ASSUME FilesInv, NEW p \in AudioPaths, Files!MarksSeen("scan", p)
    PROVE  FilesInv'
<1> DEFINE known == Scan.before[p]
<1>1. /\ Scan.phase = "walk" /\ p \in Scan.todo /\ onDisk[p] # Absent
      /\ known.id # 0 /\ known.content = onDisk[p]
      /\ Files!Visited("scan", p, {known.id}, {}, FALSE)
      /\ UNCHANGED <<onDisk, changes, sources, clock, ids, failures>>
  BY DEF Files!MarksSeen, Files!Visiting, Files!OnDisk, Files!Exists, Files!UnchangedDisk, Scan
<1>2. known.id \in 1..ids
  BY <1>1, FilesFound
<1>3. /\ Scan' \in FileScanRecords /\ scan' \in [{"scan"} -> FileScanRecords]
      /\ Scan'.phase = Scan.phase /\ Scan'.cutoff = Scan.cutoff /\ Scan'.before = Scan.before
      /\ Scan'.todo = Scan.todo \ {p} /\ Scan'.disturbed = Scan.disturbed
      /\ Scan'.seen = Scan.seen \cup {known.id} /\ Scan'.claimed = Scan.claimed
      /\ (Scan'.failed <=> Scan.failed) /\ Scan'.lost = Scan.lost
      /\ Scan'.seen \cup Scan'.claimed \subseteq 1..ids
  <2>1. {known.id} \in SUBSET (1..ids) /\ {} \in SUBSET (1..ids) /\ FALSE \in BOOLEAN
    BY <1>2
  <2> HIDE DEF known
  <2>2. /\ Scan' \in FileScanRecords /\ scan' \in [{"scan"} -> FileScanRecords]
        /\ Scan'.phase = Scan.phase /\ Scan'.cutoff = Scan.cutoff /\ Scan'.before = Scan.before
        /\ Scan'.todo = Scan.todo \ {p} /\ Scan'.disturbed = Scan.disturbed
        /\ Scan'.seen = Scan.seen \cup {known.id} /\ Scan'.claimed = Scan.claimed \cup {}
        /\ (Scan'.failed <=> Scan.failed \/ FALSE) /\ Scan'.lost = Scan.lost
        /\ Scan'.seen \cup Scan'.claimed \subseteq 1..ids
    BY <1>1, <2>1, ScanVisits, Zenon
  <2> QED
    BY <2>2
<1>4. Accounted(p)'
  BY <1>1, <1>3, FilesFound DEF AsFound, Accounted, Stamped
<1>5. \A old, new \in AudioPaths : Moved(old, new) /\ Scan.disturbed = {} /\ ~Scan.failed =>
          p # new /\ (new \in Scan.todo => known.id # Scan.before[old].id)
  <2> SUFFICES ASSUME NEW old \in AudioPaths, NEW new \in AudioPaths, Moved(old, new)
               PROVE  p # new /\ known.id # Scan.before[old].id
    OBVIOUS
  <2>1. p # new /\ p # old
    BY <1>1 DEF Moved
  <2> QED
    BY <1>1, <2>1, FilesFound DEF OneRow
<1> QED
  BY <1>1, <1>3, <1>4, <1>5, FilesFound, FilesVisited

\* The row i, which no moved file waits for, goes to p.
LEMMA RowGoes ==
    ASSUME FilesInv, NEW p \in AudioPaths, Scan.phase = "walk", p \in Scan.todo, onDisk[p] # Absent,
           UNCHANGED <<onDisk, changes, clock, failures>>, ids' \in Nat, ids <= ids',
           NEW i \in 1..ids', NEW claims \in SUBSET {i}, claims \subseteq 1..ids,
           Files!MovesRow(i, p, Files!Row(i, onDisk[p], "scan")),
           Files!Visited("scan", p, {}, claims, FALSE),
           Scan.disturbed = {} /\ ~Scan.failed =>
               \A old, new \in AudioPaths : Moved(old, new) =>
                   IF p = new THEN i = Scan.before[old].id
                   ELSE /\ sources[new].id # i
                        /\ new \in Scan.todo => sources[old].id # i
    PROVE  FilesInv'
<1>1. /\ Scan' \in FileScanRecords /\ scan' \in [{"scan"} -> FileScanRecords]
      /\ Scan'.phase = Scan.phase /\ Scan'.cutoff = Scan.cutoff /\ Scan'.before = Scan.before
      /\ Scan'.todo = Scan.todo \ {p} /\ Scan'.disturbed = Scan.disturbed
      /\ Scan'.seen = Scan.seen /\ Scan'.claimed = Scan.claimed \cup claims
      /\ (Scan'.failed <=> Scan.failed) /\ Scan'.lost = Scan.lost
      /\ Scan'.seen \cup Scan'.claimed \subseteq 1..ids
  <2>1. claims \in SUBSET (1..ids) /\ {} \in SUBSET (1..ids) /\ FALSE \in BOOLEAN
    OBVIOUS
  <2>2. /\ Scan' \in FileScanRecords /\ scan' \in [{"scan"} -> FileScanRecords]
        /\ Scan'.phase = Scan.phase /\ Scan'.cutoff = Scan.cutoff /\ Scan'.before = Scan.before
        /\ Scan'.todo = Scan.todo \ {p} /\ Scan'.disturbed = Scan.disturbed
        /\ Scan'.seen = Scan.seen \cup {} /\ Scan'.claimed = Scan.claimed \cup claims
        /\ (Scan'.failed <=> Scan.failed \/ FALSE) /\ Scan'.lost = Scan.lost
        /\ Scan'.seen \cup Scan'.claimed \subseteq 1..ids
    BY <2>1, ScanVisits, Zenon
  <2> QED
    BY <2>2
<1>2. /\ sources' \in FileRows /\ OneRow(sources)'
      /\ \A q \in AudioPaths \ {p} :
            /\ sources'[q] = sources[q] \/ sources'[q] = Files!NoRow
            /\ sources[q].id # i => sources'[q] = sources[q]
      /\ sources'[p].id = i /\ RowFits(sources[p])' /\ Stamped(sources[p])'
  BY <1>1, RowMoves
<1>3. Accounted(p)'
  BY <1>2 DEF Accounted
<1>4. Scan.disturbed = {} /\ ~Scan'.failed =>
          \A old, new \in AudioPaths : Moved(old, new) =>
              IF p = new THEN sources'[new].id = Scan.before[old].id /\ Stamped(sources[new])'
              ELSE /\ UNCHANGED sources[new]
                   /\ new \in Scan.todo =>
                         /\ UNCHANGED sources[old]
                         /\ Scan.before[old].id \notin Scan'.seen \ Scan.seen
                         /\ Scan.before[old].id \notin Scan'.claimed \ Scan.claimed
  <2> SUFFICES ASSUME Scan.disturbed = {}, ~Scan.failed,
                      NEW old \in AudioPaths, NEW new \in AudioPaths, Moved(old, new)
               PROVE  IF p = new THEN sources'[new].id = Scan.before[old].id /\ Stamped(sources[new])'
                      ELSE /\ UNCHANGED sources[new]
                           /\ new \in Scan.todo =>
                                 /\ UNCHANGED sources[old]
                                 /\ Scan.before[old].id \notin Scan'.seen \ Scan.seen
                                 /\ Scan.before[old].id \notin Scan'.claimed \ Scan.claimed
    BY <1>1
  <2>1. CASE p = new
    BY <1>2, <2>1
  <2>2. CASE p # new
    <3>1. UNCHANGED sources[new]
      BY <1>2, <2>2
    <3>2. ASSUME new \in Scan.todo
          PROVE  /\ UNCHANGED sources[old]
                 /\ Scan.before[old].id \notin Scan'.seen \ Scan.seen
                 /\ Scan.before[old].id \notin Scan'.claimed \ Scan.claimed
      <4>1. p # old
        BY DEF Moved
      <4>2. sources[old].id # i
        BY <2>2, <3>2
      <4>3. Follows(old, new)
        BY DEF FilesInv
      <4>4. sources[old] = Scan.before[old]
        BY <3>2, <4>3 DEF Follows
      <4> QED
        BY <1>1, <1>2, <4>1, <4>2, <4>4
    <3> QED
      BY <2>2, <3>1, <3>2
  <2> QED
    BY <2>1, <2>2
<1> QED
  BY <1>1, <1>2, <1>3, <1>4, FilesFound, FilesVisited

LEMMA FilesStoresKnown ==
    ASSUME FilesInv, NEW p \in AudioPaths, Files!StoresKnown("scan", p)
    PROVE  FilesInv'
<1> DEFINE i == Scan.before[p].id
<1>1. /\ Scan.phase = "walk" /\ p \in Scan.todo /\ onDisk[p] # Absent /\ i # 0
      /\ Files!MovesRow(i, p, Files!Row(i, onDisk[p], "scan"))
      /\ Files!Visited("scan", p, {}, {}, FALSE)
      /\ UNCHANGED <<onDisk, changes, clock, ids, failures>>
  BY DEF Files!StoresKnown, Files!Visiting, Files!OnDisk, Files!Exists, Files!UnchangedDisk, Scan
<1>2. i \in 1..ids /\ ids' \in Nat /\ ids <= ids' /\ i \in 1..ids'
  BY <1>1, FilesFound
<1>3. Scan.disturbed = {} /\ ~Scan.failed =>
          \A old, new \in AudioPaths : Moved(old, new) =>
              IF p = new THEN i = Scan.before[old].id
              ELSE sources[new].id # i /\ (new \in Scan.todo => sources[old].id # i)
  <2> SUFFICES ASSUME Scan.disturbed = {}, ~Scan.failed,
                      NEW old \in AudioPaths, NEW new \in AudioPaths, Moved(old, new)
               PROVE  p # new /\ sources[new].id # i /\ (new \in Scan.todo => sources[old].id # i)
    OBVIOUS
  <2>1. p # new /\ p # old
    BY <1>1 DEF Moved
  <2>2. Follows(old, new)
    BY <1>1 DEF FilesInv
  <2>3. Scan.before[old].id # i
    BY <1>1, <2>1, FilesFound DEF OneRow
  <2> QED
    BY <1>1, <2>1, <2>2, <2>3 DEF Follows
<1>4. {} \in SUBSET {i} /\ {} \subseteq 1..ids
  OBVIOUS
<1> HIDE DEF i
<1> QED
  BY <1>1, <1>2, <1>3, <1>4, RowGoes

LEMMA FilesRenames ==
    ASSUME FilesInv, NEW p \in AudioPaths, Files!Renames("scan", p)
    PROVE  FilesInv'
<1>1. /\ Scan.phase = "walk" /\ p \in Scan.todo /\ onDisk[p] # Absent
      /\ Scan.before[p].id = 0
      /\ UNCHANGED <<onDisk, changes, clock, ids, failures>>
  BY DEF Files!Renames, Files!IsRename, Files!Visiting, Files!OnDisk, Files!Exists, Files!UnchangedDisk, Scan
<1>2. PICK i \in Files!Candidates("scan", p) :
          /\ Files!Candidates("scan", p) = {i}
          /\ Files!MovesRow(i, p, Files!Row(i, onDisk[p], "scan"))
          /\ Files!Visited("scan", p, {}, {i}, FALSE)
  BY DEF Files!Renames, Files!IsRename
<1>3. PICK r \in AudioPaths : i = Scan.before[r].id /\ Scan.before[r].ready /\ Scan.before[r].content = onDisk[p]
  BY DEF Files!Candidates, Scan
<1>4. i \in 1..ids /\ ids' \in Nat /\ ids <= ids' /\ i \in 1..ids'
  BY <1>1, <1>3, FilesFound
<1>5. Scan.disturbed = {} /\ ~Scan.failed =>
          \A old, new \in AudioPaths : Moved(old, new) =>
              IF p = new THEN i = Scan.before[old].id
              ELSE sources[new].id # i /\ (new \in Scan.todo => sources[old].id # i)
  <2> SUFFICES ASSUME Scan.disturbed = {}, ~Scan.failed,
                      NEW old \in AudioPaths, NEW new \in AudioPaths, Moved(old, new)
               PROVE  IF p = new THEN i = Scan.before[old].id
                      ELSE sources[new].id # i /\ (new \in Scan.todo => sources[old].id # i)
    OBVIOUS
  <2>1. Follows(old, new)
    BY <1>1 DEF FilesInv
  <2>2. CASE p = new
    <3>1. r = old
      BY <1>3, <2>2 DEF Moved
    <3> QED
      BY <1>3, <2>2, <3>1
  <2>3. CASE p # new
    <3>1. onDisk[p] # onDisk[new]
      BY <2>3 DEF Moved
    <3>2. r # old
      BY <1>3, <3>1 DEF Moved
    <3>3. Scan.before[old].id # i
      BY <1>3, <1>4, <3>2, FilesFound DEF OneRow
    <3> QED
      BY <1>4, <2>1, <2>3, <3>3 DEF Follows
  <2> QED
    BY <2>2, <2>3
<1>6. {i} \in SUBSET {i} /\ {i} \subseteq 1..ids
  BY <1>4
<1> QED
  BY <1>1, <1>2, <1>4, <1>5, <1>6, RowGoes

\* A file without a row in the snapshot that is no rename takes the row its
\* path has by now, or a new one.
LEMMA FilesStoresNew ==
    ASSUME FilesInv, NEW p \in AudioPaths, Files!StoresNew("scan", p)
    PROVE  FilesInv'
<1> DEFINE i == IF sources[p].id # 0 THEN sources[p].id ELSE ids + 1
<1>1. /\ Scan.phase = "walk" /\ p \in Scan.todo /\ onDisk[p] # Absent
      /\ ~Files!IsRename("scan", p)
      /\ Files!Visited("scan", p, {}, {}, FALSE)
      /\ UNCHANGED <<onDisk, changes, clock, failures>>
  BY DEF Files!StoresNew, Files!Visiting, Files!OnDisk, Files!UnchangedDisk, Scan
<1>2. Files!MovesRow(i, p, Files!Row(i, onDisk[p], "scan"))
  BY DEF Files!StoresNew, Files!Exists
<1>3. (sources[p].id # 0 /\ ids' = ids) \/ (sources[p].id = 0 /\ ids' = ids + 1)
  BY DEF Files!StoresNew, Files!Exists
<1>4. i \in 1..ids' /\ ids' \in Nat /\ ids <= ids'
  BY <1>3, FilesFound
<1>5. \A q \in AudioPaths \ {p} : sources[q].id # i
  <2> SUFFICES ASSUME NEW q \in AudioPaths, q # p PROVE sources[q].id # i
    OBVIOUS
  <2>1. sources[q].id \in 0..ids /\ ids \in Nat
    BY FilesFound
  <2>2. sources[p].id # 0 => sources[q].id # sources[p].id
    BY FilesFound DEF OneRow
  <2> QED
    BY <2>1, <2>2
<1> HIDE DEF i
<1>6. Scan.disturbed = {} /\ ~Scan.failed =>
          \A old, new \in AudioPaths : Moved(old, new) =>
              IF p = new THEN i = Scan.before[old].id
              ELSE sources[new].id # i /\ (new \in Scan.todo => sources[old].id # i)
  <2> SUFFICES ASSUME Scan.disturbed = {}, ~Scan.failed,
                      NEW old \in AudioPaths, NEW new \in AudioPaths, Moved(old, new)
               PROVE  p # new /\ sources[new].id # i /\ (new \in Scan.todo => sources[old].id # i)
    OBVIOUS
  <2>1. Follows(old, new) /\ p # old
    BY <1>1 DEF FilesInv, Moved
  <2>2. p # new
    BY <1>1, <2>1, MovedIsCandidate
  <2> QED
    BY <1>5, <2>1, <2>2
<1>7. {} \in SUBSET {i} /\ {} \subseteq 1..ids
  OBVIOUS
<1> QED
  BY <1>1, <1>2, <1>4, <1>6, <1>7, RowGoes

\* A file that failed fails the scan.
LEMMA FilesFails ==
    ASSUME FilesInv, NEW p \in AudioPaths, Files!FailsOnConflict("scan", p) \/ Files!FileFails("scan", p)
    PROVE  FilesInv'
<1>1. /\ Scan.phase = "walk" /\ p \in Scan.todo
      /\ Files!RecordsFailure("scan", p) /\ Files!Visited("scan", p, {}, {}, TRUE)
      /\ UNCHANGED <<onDisk, changes, clock>> /\ failures' \in Nat
  <2>1. failures \in Nat
    BY FilesFound
  <2>2. CASE Files!FailsOnConflict("scan", p)
    <3>1. /\ Files!Visiting("scan", p) /\ Files!RecordsFailure("scan", p)
          /\ Files!Visited("scan", p, {}, {}, TRUE)
          /\ Files!UnchangedDisk /\ UNCHANGED <<clock, failures>>
      BY <2>2, Zenon DEF Files!FailsOnConflict
    <3>2. Scan.phase = "walk" /\ p \in Scan.todo
      BY <3>1, Zenon DEF Files!Visiting, Scan
    <3>3. UNCHANGED <<onDisk, changes, clock>> /\ failures' = failures
      BY <3>1 DEF Files!UnchangedDisk
    <3> QED
      BY <2>1, <3>1, <3>2, <3>3
  <2>3. CASE Files!FileFails("scan", p)
    <3>1. /\ Files!Visiting("scan", p) /\ Files!RecordsFailure("scan", p)
          /\ Files!Visited("scan", p, {}, {}, TRUE)
          /\ Files!UnchangedDisk /\ clock' = clock /\ failures' = failures + 1
      BY <2>3, Zenon DEF Files!FileFails, Files!Fails
    <3>2. Scan.phase = "walk" /\ p \in Scan.todo
      BY <3>1, Zenon DEF Files!Visiting, Scan
    <3>3. UNCHANGED <<onDisk, changes, clock>>
      BY <3>1 DEF Files!UnchangedDisk
    <3>4. failures' \in Nat
      BY <2>1, <3>1
    <3> QED
      BY <3>1, <3>2, <3>3, <3>4
  <2> QED
    BY <2>2, <2>3
<1>2. /\ Scan' \in FileScanRecords /\ scan' \in [{"scan"} -> FileScanRecords]
      /\ Scan'.phase = Scan.phase /\ Scan'.cutoff = Scan.cutoff /\ Scan'.before = Scan.before
      /\ Scan'.todo = Scan.todo \ {p} /\ Scan'.disturbed = Scan.disturbed
      /\ Scan'.seen = Scan.seen \cup {} /\ Scan'.claimed = Scan.claimed \cup {}
      /\ (Scan'.failed <=> Scan.failed \/ TRUE) /\ Scan'.lost = Scan.lost
      /\ Scan'.seen \cup Scan'.claimed \subseteq 1..ids
  <2>1. {} \in SUBSET (1..ids) /\ TRUE \in BOOLEAN
    OBVIOUS
  <2> QED
    BY <1>1, <2>1, ScanVisits, Zenon
<1>3. /\ ids' \in Nat /\ ids <= ids'
      /\ sources' \in FileRows /\ OneRow(sources)'
      /\ \A q \in AudioPaths \ {p} : sources'[q] = sources[q]
      /\ RowFits(sources[p])' /\ Stamped(sources[p])'
  BY <1>1, <1>2, RowFails
<1>4. Accounted(p)' /\ Scan'.failed /\ Scan.seen \subseteq Scan'.seen
  BY <1>2, <1>3 DEF Accounted
<1> QED
  BY <1>1, <1>2, <1>3, <1>4, FilesVisited

LEMMA FilesFailureIsLost ==
    ASSUME FilesInv, NEW p \in AudioPaths, Files!FailureIsLost("scan", p)
    PROVE  FilesInv'
<1>1. /\ Scan.phase = "walk" /\ p \in Scan.todo
      /\ scan' = [scan EXCEPT !["scan"].todo = @ \ {p}, !["scan"].failed = TRUE, !["scan"].lost = @ \cup {p}]
      /\ UNCHANGED <<onDisk, changes, clock, sources, ids>> /\ failures' \in Nat
  <2>1. failures \in Nat
    BY FilesFound
  <2> QED
    BY <2>1 DEF Files!FailureIsLost, Files!Fails, Files!Visiting, Files!UnchangedDisk, Scan
<1>2. scan \in [{"scan"} -> FileScanRecords] /\ Scan \in FileScanRecords
  BY FilesFound
<1>3. Scan' = [Scan EXCEPT !.todo = @ \ {p}, !.failed = TRUE, !.lost = @ \cup {p}]
  BY <1>1, <1>2 DEF Scan
<1>4. /\ Scan' \in FileScanRecords
      /\ Scan'.phase = Scan.phase /\ Scan'.cutoff = Scan.cutoff /\ Scan'.before = Scan.before
      /\ Scan'.todo = Scan.todo \ {p} /\ Scan'.disturbed = Scan.disturbed
      /\ Scan'.seen = Scan.seen /\ Scan'.claimed = Scan.claimed
      /\ Scan'.failed /\ Scan'.lost = Scan.lost \cup {p}
  BY <1>2, <1>3 DEF FileScanRecords
<1>5. scan' \in [{"scan"} -> FileScanRecords]
  <2>1. scan' = [s \in {"scan"} |-> scan'[s]]
    BY <1>1, <1>2
  <2> QED
    BY <1>4, <2>1 DEF Scan
<1>6. Accounted(p)'
  BY <1>4 DEF Accounted
<1>7. Scan'.seen \cup Scan'.claimed \subseteq 1..ids
  BY <1>4 DEF FilesInv
<1> QED
  BY <1>1, <1>4, <1>5, <1>6, <1>7, FilesFound, FilesVisited

LEMMA FilesSkips ==
    ASSUME FilesInv, NEW p \in AudioPaths, Files!Skips("scan", p)
    PROVE  FilesInv'
<1>1. /\ Scan.phase = "walk" /\ p \in Scan.todo /\ (onDisk[p] = Absent \/ p \in Scan.disturbed)
      /\ Files!Visited("scan", p, {}, {}, FALSE)
      /\ UNCHANGED <<onDisk, changes, sources, clock, ids, failures>>
  BY DEF Files!Skips, Files!Visiting, Files!OnDisk, Files!UnchangedDisk, Scan
<1>2. /\ Scan' \in FileScanRecords /\ scan' \in [{"scan"} -> FileScanRecords]
      /\ Scan'.phase = Scan.phase /\ Scan'.cutoff = Scan.cutoff /\ Scan'.before = Scan.before
      /\ Scan'.todo = Scan.todo \ {p} /\ Scan'.disturbed = Scan.disturbed
      /\ Scan'.seen = Scan.seen \cup {} /\ Scan'.claimed = Scan.claimed \cup {}
      /\ (Scan'.failed <=> Scan.failed \/ FALSE) /\ Scan'.lost = Scan.lost
      /\ Scan'.seen \cup Scan'.claimed \subseteq 1..ids
  <2>1. {} \in SUBSET (1..ids) /\ FALSE \in BOOLEAN
    OBVIOUS
  <2> QED
    BY <1>1, <2>1, ScanVisits, Zenon
<1>3. Scan'.seen = Scan.seen /\ Scan'.claimed = Scan.claimed /\ Accounted(p)'
  BY <1>1, <1>2 DEF Accounted
<1>4. \A old, new \in AudioPaths : Moved(old, new) /\ Scan.disturbed = {} => p # new
  BY <1>1 DEF Moved
<1> QED
  BY <1>1, <1>2, <1>3, <1>4, FilesFound, FilesVisited

-----------------------------------------------------------------------------
(* The steps of a scan between its visits.                                   *)

LEMMA FilesStartScan ==
    ASSUME FilesInv, Files!StartScan("scan")
    PROVE  FilesInv'
<1>1. FilesTypes
  BY DEF FilesInv
<1>2. /\ scan' = [scan EXCEPT !["scan"] =
             [Files!IdleScan EXCEPT !.phase = "walk", !.cutoff = clock + 1, !.before = sources,
                                    !.todo = AudioPaths]]
      /\ clock' = clock + 1 /\ UNCHANGED <<onDisk, changes, sources, ids, failures>>
  BY DEF Files!StartScan, Files!UnchangedDisk
<1>3. /\ Scan' = [Files!IdleScan EXCEPT !.phase = "walk", !.cutoff = clock + 1, !.before = sources,
                                        !.todo = AudioPaths]
      /\ scan' = [s \in {"scan"} |-> scan'[s]]
  BY <1>1, <1>2 DEF Scan, FilesTypes
<1>4. /\ Scan' \in FileScanRecords /\ Scan'.phase = "walk" /\ Scan'.cutoff = clock + 1
      /\ Scan'.before = sources /\ Scan'.todo = AudioPaths /\ Scan'.seen = {} /\ Scan'.claimed = {}
      /\ clock + 1 \in Nat
  <2> DEFINE began == clock + 1
  <2>1. began \in Nat /\ sources \in FileRows
    BY <1>1 DEF FilesTypes
  <2>2. Scan' = [Files!IdleScan EXCEPT !.phase = "walk", !.cutoff = began, !.before = sources,
                                      !.todo = AudioPaths]
    BY <1>3
  <2> HIDE DEF began
  <2>3. /\ Scan' \in FileScanRecords /\ Scan'.phase = "walk" /\ Scan'.cutoff = began
        /\ Scan'.before = sources /\ Scan'.todo = AudioPaths
        /\ Scan'.seen = Files!IdleScan.seen /\ Scan'.claimed = Files!IdleScan.claimed
    BY <2>1, <2>2, IdleScanTyped DEF FileScanRecords
  <2> QED
    BY <2>1, <2>3, IdleScanTyped DEF began
<1>5. scan' \in [{"scan"} -> FileScanRecords]
  BY <1>3, <1>4 DEF Scan
<1>6. FilesTypes'
  BY <1>1, <1>2, <1>4, <1>5 DEF FilesTypes
<1>7. \A p \in AudioPaths : RowFits(sources[p])' /\ RowFits(Scan.before[p])' /\ sources[p].seen <= clock
                            /\ sources[p].seen \in Nat
  <2> SUFFICES ASSUME NEW p \in AudioPaths
               PROVE  RowFits(sources[p])' /\ RowFits(Scan.before[p])' /\ sources[p].seen <= clock
                      /\ sources[p].seen \in Nat
    OBVIOUS
  <2>1. RowFits(sources[p]) /\ sources[p] \in FileRowRecords
    BY <1>1 DEF FilesInv, FilesTypes, FileRows
  <2>2. sources[p].seen \in Nat /\ clock \in Nat
    BY <1>1, <2>1 DEF FileRowRecords, FilesTypes
  <2> QED
    BY <1>2, <1>4, <2>1, <2>2 DEF RowFits
<1>8. OneRow(sources)' /\ OneRow(Scan.before)'
  BY <1>2, <1>4 DEF FilesInv, OneRow
<1>9. \A p \in AudioPaths : Scan'.before[p].seen < Scan'.cutoff
  BY <1>1, <1>4, <1>7 DEF FilesTypes
<1>10. \A p \in AudioPaths : AsFound(p)'
  BY <1>2, <1>4 DEF AsFound
<1>11. \A old, new \in AudioPaths : Moved(old, new)' => Follows(old, new)'
  BY <1>2, <1>4 DEF Moved, Follows
<1> QED
  BY <1>2, <1>4, <1>6, <1>7, <1>8, <1>9, <1>10, <1>11 DEF FilesInv

\* What was remembered in memory is stamped: nothing is left to remember.
LEMMA FilesFlushScan ==
    ASSUME FilesInv, Files!FlushScan("scan")
    PROVE  FilesInv'
<1>1. FilesTypes /\ Scan \in FileScanRecords
  BY DEF FilesInv, FilesTypes, Scan
<1>2. /\ Scan.phase = "walk" /\ Scan.todo = {}
      /\ sources' = [p \in AudioPaths |->
             IF sources[p].id \in Scan.seen /\ sources[p].seen < Scan.cutoff
             THEN [sources[p] EXCEPT !.seen = Scan.cutoff] ELSE sources[p]]
      /\ scan' = [scan EXCEPT !["scan"].phase = "delete"]
      /\ UNCHANGED <<onDisk, changes, clock, ids, failures>>
  BY DEF Files!FlushScan, Files!UnchangedDisk, Scan
<1>3. Scan' = [Scan EXCEPT !.phase = "delete"] /\ scan' = [s \in {"scan"} |-> scan'[s]]
  BY <1>1, <1>2 DEF Scan, FilesTypes
<1>4. /\ Scan' \in FileScanRecords /\ Scan'.phase = "delete" /\ Scan'.cutoff = Scan.cutoff
      /\ Scan'.before = Scan.before /\ Scan'.todo = Scan.todo /\ Scan'.seen = Scan.seen
      /\ Scan'.claimed = Scan.claimed /\ Scan'.disturbed = Scan.disturbed
      /\ Scan'.failed = Scan.failed /\ Scan'.lost = Scan.lost
  BY <1>1, <1>3 DEF FileScanRecords
<1>5. scan' \in [{"scan"} -> FileScanRecords]
  BY <1>3, <1>4 DEF Scan
<1>6. Scan.cutoff \in Nat /\ clock \in Nat /\ Scan.cutoff <= clock
  BY <1>1 DEF FilesInv, FilesTypes, FileScanRecords
<1>7. \A p \in AudioPaths :
          /\ sources[p] \in FileRowRecords /\ sources[p].seen \in Nat /\ RowFits(sources[p])
          /\ sources'[p] \in FileRowRecords /\ sources'[p].id = sources[p].id
          /\ RowFits(sources[p])'
          /\ Stamped(sources[p]) => Stamped(sources[p])'
          /\ sources[p].id \in Scan.seen => Scan.cutoff <= sources'[p].seen
          /\ sources[p].seen <= Scan.cutoff /\ sources[p].id \in Scan.seen => Stamped(sources[p])'
  <2> SUFFICES ASSUME NEW p \in AudioPaths
               PROVE  /\ sources[p] \in FileRowRecords /\ sources[p].seen \in Nat /\ RowFits(sources[p])
                      /\ sources'[p] \in FileRowRecords /\ sources'[p].id = sources[p].id
                      /\ RowFits(sources[p])'
                      /\ Stamped(sources[p]) => Stamped(sources[p])'
                      /\ sources[p].id \in Scan.seen => Scan.cutoff <= sources'[p].seen
                      /\ sources[p].seen <= Scan.cutoff /\ sources[p].id \in Scan.seen
                            => Stamped(sources[p])'
    OBVIOUS
  <2> DEFINE row == [sources[p] EXCEPT !.seen = Scan.cutoff]
  <2>1. sources[p] \in FileRowRecords /\ RowFits(sources[p])
    BY <1>1 DEF FilesInv, FilesTypes, FileRows
  <2>2. sources[p].seen \in Nat
    BY <2>1 DEF FileRowRecords
  <2>3. row \in FileRowRecords /\ row.id = sources[p].id /\ row.seen = Scan.cutoff
        /\ row.ready = sources[p].ready
    BY <1>6, <2>1 DEF FileRowRecords
  <2>4. sources'[p] = IF sources[p].id \in Scan.seen /\ sources[p].seen < Scan.cutoff
                      THEN row ELSE sources[p]
    BY <1>2
  <2>5. sources[p].id \in Scan.seen => sources[p].id # 0
    BY <1>1 DEF FilesInv, FilesTypes
  <2> HIDE DEF row
  <2>6. RowFits(sources[p])'
    BY <1>2, <1>6, <2>1, <2>3, <2>4, <2>5 DEF RowFits
  <2> QED
    BY <1>4, <1>6, <2>1, <2>2, <2>3, <2>4, <2>6 DEF Stamped
<1>8. FilesTypes'
  <2>1. sources' \in FileRows
    BY <1>2, <1>7 DEF FileRows
  <2> QED
    BY <1>1, <1>2, <1>5, <2>1 DEF FilesTypes
<1>9. \A p \in AudioPaths : RowFits(Scan.before[p])'
  BY <1>2, <1>4 DEF FilesInv, RowFits
<1>10. OneRow(sources)' /\ OneRow(Scan.before)'
  BY <1>4, <1>7 DEF FilesInv, OneRow
<1>11. \A p \in AudioPaths : Accounted(p)'
  <2> SUFFICES ASSUME NEW p \in AudioPaths PROVE Accounted(p)'
    OBVIOUS
  <2>1. Accounted(p) /\ AsFound(p)
    BY <1>2 DEF FilesInv
  <2>2. sources[p].id = 0 \/ sources[p].seen <= Scan.cutoff
    BY <1>2, <1>6, <2>1, FilesFound DEF AsFound, Stamped
  <2>3. sources[p].id = 0 => sources'[p].id = 0
    BY <1>7
  <2> QED
    BY <1>2, <1>4, <1>7, <2>1, <2>2, <2>3 DEF Accounted
<1>12. Scan'.disturbed = {} /\ ~Scan'.failed =>
          \A old, new \in AudioPaths : Moved(old, new)' => Follows(old, new)'
  <2> SUFFICES ASSUME Scan.disturbed = {}, ~Scan.failed,
                      NEW old \in AudioPaths, NEW new \in AudioPaths, Moved(old, new)
               PROVE  Follows(old, new)'
    BY <1>2, <1>4 DEF Moved
  <2>1. Follows(old, new)
    BY <1>2 DEF FilesInv
  <2> QED
    BY <1>2, <1>4, <1>7, <2>1 DEF Follows
<1> QED
  BY <1>2, <1>4, <1>6, <1>7, <1>8, <1>9, <1>10, <1>11, <1>12 DEF FilesInv

\* A scan that ends, with or without its deletions.
LEMMA FilesEnds ==
    ASSUME FilesInv, scan' = [scan EXCEPT !["scan"] = Files!IdleScan],
           UNCHANGED <<onDisk, changes, clock, ids, failures>>,
           NEW gone \in SUBSET AudioPaths,
           sources' = [p \in AudioPaths |-> IF p \in gone THEN Files!NoRow ELSE sources[p]]
    PROVE  FilesInv'
<1>1. FilesTypes
  BY DEF FilesInv
<1>2. Scan' = Files!IdleScan /\ scan' = [s \in {"scan"} |-> scan'[s]]
  BY <1>1 DEF Scan, FilesTypes
<1>3. scan' \in [{"scan"} -> FileScanRecords]
  BY <1>2, IdleScanTyped DEF Scan
<1>4. sources' \in FileRows
  BY <1>1, NoRowTyped DEF FilesTypes, FileRows
<1>5. FilesTypes'
  BY <1>1, <1>3, <1>4 DEF FilesTypes
<1>6. \A p \in AudioPaths : sources'[p] = Files!NoRow \/ sources'[p] = sources[p]
  OBVIOUS
<1>7. \A p \in AudioPaths : RowFits(sources[p])'
  BY <1>1, <1>6, NoRowTyped DEF FilesInv, FilesTypes, RowFits
<1>8. OneRow(sources)'
  BY <1>6, NoRowTyped DEF FilesInv, OneRow
<1> QED
  BY <1>2, <1>5, <1>7, <1>8, FilesIdle

LEMMA FilesDeleteMissing ==
    ASSUME FilesInv, Files!DeleteMissing("scan")
    PROVE  FilesInv'
<1>1. PICK locked \in SUBSET Files!Unseen("scan") :
          sources' = [p \in AudioPaths |-> IF p \in Files!Unseen("scan") \ locked
                                           THEN Files!NoRow ELSE sources[p]]
  BY DEF Files!DeleteMissing
<1>2. Files!Unseen("scan") \ locked \in SUBSET AudioPaths
  BY DEF Files!Unseen
<1> QED
  BY <1>1, <1>2, FilesEnds DEF Files!DeleteMissing, Files!UnchangedDisk

LEMMA FilesAbandon ==
    ASSUME FilesInv, Files!Abandon("scan")
    PROVE  FilesInv'
<1>1. sources' = [p \in AudioPaths |-> IF p \in {} THEN Files!NoRow ELSE sources[p]]
  BY DEF FilesInv, FilesTypes, FileRows, Files!Abandon
<1>2. {} \in SUBSET AudioPaths
  OBVIOUS
<1> QED
  BY <1>1, <1>2, FilesEnds DEF Files!Abandon, Files!UnchangedDisk

LEMMA FilesNext ==
    ASSUME FilesInv, Files!Next
    PROVE  FilesInv'
<1>1. ASSUME NEW p \in AudioPaths, Files!Visit("scan", p) PROVE FilesInv'
  BY <1>1, FilesMarksSeen, FilesStoresKnown, FilesRenames, FilesStoresNew, FilesFails,
     FilesFailureIsLost, FilesSkips, Zenon DEF Files!Visit
<1> QED
  BY <1>1, FilesWritten, FilesStartScan, FilesFlushScan, FilesDeleteMissing, FilesAbandon
  DEF Files!Next

LEMMA FilesStays == FilesInv /\ UNCHANGED filesVars => FilesInv'
BY DEF filesVars, FilesInv, FilesTypes, RowFits, OneRow, Accounted, AsFound, Stamped, Moved,
       Follows, Scan

LEMMA FilesInvariant == FilesInv /\ [MCNext]_<<view, vars, filesVars>> => FilesInv'
BY FilesNext, FilesStays, Zenon DEF MCNext

-----------------------------------------------------------------------------
(* What the deletions of a scan leave.                                       *)

\* The row of a file that lay still was stamped: it is not deleted.
LEMMA SeenIsKept ==
    ASSUME FilesInv, Files!DeleteMissing("scan"), NEW p \in AudioPaths,
           onDisk[p] # Absent, p \notin Scan.disturbed \cup Scan.lost, sources[p].id # 0
    PROVE  sources'[p] = sources[p]
<1>1. Scan.phase = "delete" /\ Scan.todo = {}
  BY DEF Files!DeleteMissing, Scan, FilesInv
<1>2. Accounted(p)
  BY <1>1 DEF FilesInv
<1>3. sources[p].seen = Scan.cutoff
  BY <1>1, <1>2 DEF Accounted, Stamped
<1>4. p \notin Files!Unseen("scan")
  <2>1. Scan.cutoff \in Nat
    BY FilesFound, <1>1
  <2> QED
    BY <1>3, <2>1 DEF Files!Unseen, Scan
<1> QED
  BY <1>4 DEF Files!DeleteMissing

\* The row of a moved file is at its new path when the scan ends.
LEMMA MovedIsKept ==
    ASSUME FilesInv, Files!DeleteMissing("scan"), Scan.disturbed = {}, ~Scan.failed,
           NEW old \in AudioPaths, NEW new \in AudioPaths, Moved(old, new)
    PROVE  sources'[new].id = Scan.before[old].id
<1>1. Scan.phase = "delete" /\ Scan.todo = {}
  BY DEF Files!DeleteMissing, Scan, FilesInv
<1>2. Follows(old, new)
  BY <1>1 DEF FilesInv
<1>3. sources[new].id = Scan.before[old].id /\ sources[new].seen = Scan.cutoff
  BY <1>1, <1>2 DEF Follows, Stamped
<1>4. new \notin Files!Unseen("scan")
  <2>1. Scan.cutoff \in Nat
    BY FilesFound, <1>1
  <2> QED
    BY <1>3, <2>1 DEF Files!Unseen, Scan
<1> QED
  BY <1>3, <1>4 DEF Files!DeleteMissing

(* DeleteMissing removes the rows of files that were not seen                *)
(* (scanner.go, repository.go): a file that lay untouched in the directory   *)
(* during the whole scan keeps its row, and so its track, unless recording   *)
(* its failure failed.                                                       *)
THEOREM ScansKeepWhatTheySaw == MCSpec => SeenSourcesKept
<1>1. MCInit => FilesInv
  BY FilesInit DEF MCInit
<1>2. FilesInv /\ [MCNext]_<<view, vars, filesVars>> =>
          [\A s \in {"scan"} : Files!DeleteMissing(s) =>
              \A p \in AudioPaths :
                  Files!OnDisk(p) /\ p \notin scan[s].disturbed \cup scan[s].lost
                  /\ Files!Exists(sources[p])
                  => sources'[p] = sources[p]]_filesVars
  <2> SUFFICES ASSUME FilesInv, Files!DeleteMissing("scan"), NEW p \in AudioPaths, Files!OnDisk(p),
                      p \notin scan["scan"].disturbed \cup scan["scan"].lost,
                      Files!Exists(sources[p])
               PROVE  sources'[p] = sources[p]
    OBVIOUS
  <2> QED
    BY SeenIsKept DEF Files!OnDisk, Files!Exists, Scan
<1> QED
  BY <1>1, <1>2, FilesInvariant, PTL
  DEF MCSpec, SeenSourcesKept, Files!SeenSourcesKept, Files!vars, filesVars

(* A file moved before the scan keeps its track (findRenameCandidates,       *)
(* claimRenameCandidate): the one row with its content, alone in the         *)
(* snapshot and on disk, is at its new path when the scan ends, in whatever  *)
(* order the files were visited.                                             *)
THEOREM ScansFollowMovedFiles == MCSpec => MovedFileKeepsTrack
<1>1. MCInit => FilesInv
  BY FilesInit DEF MCInit
<1>2. FilesInv /\ [MCNext]_<<view, vars, filesVars>> =>
          [\A s \in {"scan"} :
              Files!DeleteMissing(s) /\ Files!Untouched(s) /\ ~scan[s].failed =>
              \A old, new \in AudioPaths :
                  /\ ~Files!OnDisk(old) /\ Files!OnDisk(new)
                  /\ scan[s].before[old].ready /\ scan[s].before[old].content = onDisk[new]
                  /\ ~Files!Exists(scan[s].before[new])
                  /\ \A p \in AudioPaths \ {new} : onDisk[p] # onDisk[new]
                  /\ \A p \in AudioPaths \ {old} : scan[s].before[p].content # onDisk[new]
                  => sources'[new].id = scan[s].before[old].id]_filesVars
  <2> SUFFICES ASSUME FilesInv, Files!DeleteMissing("scan"), Files!Untouched("scan"), ~Scan.failed,
                      NEW old \in AudioPaths, NEW new \in AudioPaths,
                      ~Files!OnDisk(old) /\ Files!OnDisk(new),
                      Scan.before[old].ready /\ Scan.before[old].content = onDisk[new],
                      ~Files!Exists(Scan.before[new]),
                      \A p \in AudioPaths \ {new} : onDisk[p] # onDisk[new],
                      \A p \in AudioPaths \ {old} : Scan.before[p].content # onDisk[new]
               PROVE  sources'[new].id = Scan.before[old].id
    BY DEF Scan
  <2>1. Moved(old, new)
    BY DEF Moved, Files!OnDisk, Files!Exists
  <2> QED
    BY <2>1, MovedIsKept DEF Files!Untouched, Scan
<1> QED
  BY <1>1, <1>2, FilesInvariant, PTL
  DEF MCSpec, MovedFileKeepsTrack, Files!MovedFileKeepsTrack, Files!vars, filesVars

-----------------------------------------------------------------------------
LEMMA FilesTyped == FilesInv => Files!TypeOK
<1> SUFFICES ASSUME FilesInv PROVE Files!TypeOK
  OBVIOUS
<1>1. FilesTypes /\ Scan \in FileScanRecords /\ ids \in Nat /\ clock \in Nat
  BY DEF FilesInv, FilesTypes, Scan
<1>2. ASSUME NEW f \in FileRows, \A p \in AudioPaths : RowFits(f[p])
      PROVE  f \in [AudioPaths -> Files!Rows]
  <2> SUFFICES ASSUME NEW p \in AudioPaths PROVE f[p] \in Files!Rows
    BY DEF FileRows
  <2>1. f[p] \in FileRowRecords /\ RowFits(f[p])
    BY <1>2 DEF FileRows
  <2>2. f[p].id \in 0..ids /\ f[p].seen \in 0..clock
    BY <1>1, <2>1 DEF FileRowRecords, RowFits
  <2> QED
    BY <2>1, <2>2 DEF FileRowRecords, Files!Rows
<1>3. sources \in [AudioPaths -> Files!Rows]
  BY <1>1, <1>2 DEF FilesInv, FilesTypes
<1>4. Scan.before \in [AudioPaths -> Files!Rows]
  <2>1. Scan.before \in FileRows
    BY <1>1 DEF FileScanRecords
  <2>2. \A p \in AudioPaths : RowFits(Scan.before[p])
    BY DEF FilesInv
  <2> QED
    BY <1>2, <2>1, <2>2
<1>5. Scan.cutoff \in 0..clock /\ Scan.seen \subseteq 1..ids /\ Scan.claimed \subseteq 1..ids
  BY <1>1 DEF FilesInv, FileScanRecords
<1>6. Scan \in [phase : {"idle", "walk", "delete"}, cutoff : 0..clock,
                before : [AudioPaths -> Files!Rows],
                todo : SUBSET AudioPaths, seen : SUBSET (1..ids), claimed : SUBSET (1..ids),
                disturbed : SUBSET AudioPaths, failed : BOOLEAN, lost : SUBSET AudioPaths]
  BY <1>1, <1>4, <1>5 DEF FileScanRecords
<1>7. scan = [s \in {"scan"} |-> scan[s]]
  BY <1>1 DEF FilesTypes
<1>8. scan \in [{"scan"} ->
                [phase : {"idle", "walk", "delete"}, cutoff : 0..clock,
                 before : [AudioPaths -> Files!Rows],
                 todo : SUBSET AudioPaths, seen : SUBSET (1..ids), claimed : SUBSET (1..ids),
                 disturbed : SUBSET AudioPaths, failed : BOOLEAN, lost : SUBSET AudioPaths]]
  BY <1>6, <1>7 DEF Scan
<1> QED
  BY <1>1, <1>3, <1>8 DEF Files!TypeOK, FilesTypes

(* Every variable of both views keeps its range: no connection of the pool   *)
(* is lost or given back twice (pgxpool), a row remembered, claimed or       *)
(* stamped by a scan exists, and no stamp is later than the last scan.       *)
THEOREM ScansTypeCorrect == MCSpec => []TypesOK
<1>1. MCInit => Types /\ ConnectionsCounted /\ FilesInv
  BY InitTypes, InitConnections, FilesInit DEF MCInit
<1>2. [MCNext]_<<view, vars, filesVars>> => [Next]_vars
  BY Zenon DEF MCNext
<1>3. Types /\ ConnectionsCounted /\ FilesInv => TypesOK
  BY CommitTypes, FilesTyped, Zenon DEF TypesOK
<1> QED
  BY <1>1, <1>2, <1>3, NextTypes, NextConnections, FilesInvariant, PTL DEF MCSpec
=============================================================================
