----------------------------- MODULE MCBatches -----------------------------
(* The three kinds of batch one server runs: tag scraping, pictures of        *)
(* artists, permanent deletion.  They share no rows; a behaviour chooses one  *)
(* of them at its start.  Tag batches are explored with two attempts and      *)
(* without stopping processes, and with one attempt and processes that stop.  *)
EXTENDS TagBatches, TLC

CONSTANTS Admins, MaxMishaps, Gone, Tracks, Sources, TracksOf,
          DeleteJobs, DeleteItems, BatchOf, TrackOf, MaxVersion,
          t1, t2, s1, s2

\* A library has finitely many tracks and files; no batch is empty.
ASSUME DeletionAssumption ==
    /\ IsFiniteSet(Tracks) /\ IsFiniteSet(Sources) /\ IsFiniteSet(DeleteItems)
    /\ DeleteJobs \subseteq Nat /\ DeleteItems \subseteq Nat
    /\ TracksOf \in [Sources -> SUBSET Tracks]
    /\ BatchOf \in [DeleteItems -> DeleteJobs] /\ TrackOf \in [DeleteItems -> Tracks]
    /\ \A j \in DeleteJobs : \E i \in DeleteItems : BatchOf[i] = j
    /\ None \notin Admins \union Workers \union Tracks \union DeleteItems
    /\ Gone \notin Workers /\ MaxVersion \in Nat \ {0} /\ MaxMishaps \in Nat

VARIABLES kind,
          artJob, artItem, picture, artClaim, artFinish, artUp, artStops,
          row, writeback, scanning, file, lock, call, dJob, dItem, mishaps

artVars == <<artJob, artItem, picture, artClaim, artFinish, artUp, artStops>>
deletionVars == <<row, writeback, scanning, file, lock, call, dJob, dItem, mishaps>>

Stopped == INSTANCE TagBatches WITH MaxAttempts <- 1
Art == INSTANCE ArtworkBatches

Deletion == INSTANCE TrackDeletion WITH track <- row

MCInit ==
    /\ kind \in {"tags retried", "tags stopped", "pictures", "deletion"}
    /\ Init /\ Art!Init /\ Deletion!Init
    /\ kind # "deletion" => writeback = [t \in Tracks |-> "none"]

MCNext ==
    \/ kind = "tags retried" /\ Next /\ stops' = stops /\ UNCHANGED <<kind, artVars, deletionVars>>
    \/ kind = "tags stopped" /\ Stopped!Next /\ UNCHANGED <<kind, artVars, deletionVars>>
    \/ kind = "pictures" /\ Art!Next /\ UNCHANGED <<kind, tagVars, deletionVars>>
    \/ kind = "deletion" /\ Deletion!Next /\ UNCHANGED <<kind, tagVars, artVars>>

MCSpec == MCInit /\ [][MCNext]_<<kind, tagVars, artVars, deletionVars>>

TypesOK == TypeOK /\ Art!TypeOK /\ Deletion!TypeOK

(* What administrators read of a batch is what became of its items,          *)
(* whichever statement of whichever attempt moved them last.                 *)
BatchCountersAgree == CountersAgree /\ Art!CountersAgree /\ Deletion!DeleteCountersAgree

PictureIffSucceeded == Art!PictureIffSucceeded

(* A deletion removes, hides and reports together: no file is removed while  *)
(* a track needs it, a deletion that fails without a crash puts its files    *)
(* back, and an item reported as deleted is of a track that is gone.         *)
DeletionIsWhole ==
    Deletion!FilesGoWithTheirTracks /\ Deletion!NothingStaysHidden /\ Deletion!ReportedIsDeleted

OneJob == 1 :> 1 @@ 2 :> 1
\* s2 is a file that two tracks are cut from.
SharedFile == s1 :> {t1} @@ s2 :> {t1, t2}
BothTracks == 1 :> t1 @@ 2 :> t2
Alike == Permutations(Workers)
============================================================================
