---------------------------- MODULE BatchQueue ----------------------------
(* What the two background batches of the administrator, tag scraping and    *)
(* artist artwork, have in common: jobs of items, leased to worker processes *)
(* that may stop.  Jobs and items are numbered in the order of created_at    *)
(* and of position.                                                          *)
EXTENDS Integers, FiniteSets, FiniteSetsExt

CONSTANTS Jobs,         \* numbers of the jobs
          Items,        \* numbers of the items
          JobOf,        \* the job of each item
          Workers,      \* processes that run the batch service
          Dead,         \* owner of an item whose process is gone
          None,
          ClaimWindow,  \* items claimed at once
          Parallel,     \* items one process executes at a time
          MaxAttempts,  \* max_attempts
          MaxClaims,    \* bound: claims held by all processes together
          MaxStops      \* bound: crashes and shut-downs of processes

ASSUME QueueAssumption ==
    /\ Jobs \subseteq Nat /\ Items \subseteq Nat
    /\ IsFiniteSet(Items)
    /\ JobOf \in [Items -> Jobs]
    /\ None \notin Workers /\ Dead \notin Workers /\ None # Dead
    /\ ClaimWindow \in Nat \ {0} /\ Parallel \in 1..ClaimWindow
    /\ MaxAttempts \in Nat \ {0} /\ MaxClaims \in Nat /\ MaxStops \in Nat

Outcomes == {"SUCCEEDED", "FAILED", "SKIPPED"}
ItemStatuses == {"ABSENT", "PENDING", "RUNNING"} \union Outcomes
EndStatuses == {"COMPLETED", "FAILED", "CANCELLED"}
JobStatuses == {"ABSENT", "PENDING", "RUNNING"} \union EndStatuses

ItemsOf(j) == {i \in Items : JobOf[i] = j}

\* The items a claim takes: the first ones by position, at most a window.
Earliest(S) == {i \in S : Cardinality({k \in S : k < i}) < ClaimWindow}

\* What a process holds of an item between its claim and its completion: a
\* phase of the execution, then its outcome, RETRY when it failed for a reason
\* that may pass and RELEASE when the process is stopping.  The attempt
\* identifier is the pair of process and claim: a process claims again only
\* when its window is done, so `owner = w` says w's attempt is the current one.
\* "doubted" is a match found although another source failed for a reason that
\* may pass; the hint outlives the write of the tags ("kept").
Executing == {"found", "doubted", "applied", "kept"}
Decisions == Outcomes \union {"RETRY", "RELEASE"}
Claims == {"none", "queued"} \union Executing \union Decisions
Outstanding(claim) ==
    Cardinality({wi \in Workers \X Items : claim[wi[1]][wi[2]] # "none"})
NoClaims == [i \in Items |-> "none"]

NewJob == [status |-> "ABSENT", cancel |-> FALSE,
           processed |-> 0, succeeded |-> 0, failed |-> 0]
JobRecords == [status : JobStatuses, cancel : BOOLEAN,
               processed : Nat, succeeded : Nat, failed : Nat]
NewItem == [status |-> "ABSENT", attempts |-> 0, due |-> TRUE,
            owner |-> None, live |-> FALSE]
ItemRecords == [status : ItemStatuses, attempts : 0..MaxAttempts, due : BOOLEAN,
                owner : Workers \union {None, Dead}, live : BOOLEAN]

Active(record) == record.status \in {"PENDING", "RUNNING"}
Ended(record, status) ==
    [record EXCEPT !.status = status, !.owner = None, !.live = FALSE]
Requeued(record) == [Ended(record, "PENDING") EXCEPT !.due = TRUE]

CountOf(items, j, statuses) ==
    Cardinality({i \in ItemsOf(j) : items[i].status \in statuses})
===========================================================================
