--------------------------- MODULE BatchesProofs ---------------------------
(***************************************************************************)
(* What holds of the administrator's batches for any number of jobs, items  *)
(* and processes.                                                           *)
(***************************************************************************)
EXTENDS MCBatches, FiniteSetTheorems, TLAPS

-----------------------------------------------------------------------------
(* Counting *)

(* The least element of a set of numbers is one of them.                    *)
LEMMA LeastIsIn ==
    ASSUME NEW S, S \subseteq Nat, S # {}
    PROVE  Min(S) \in S /\ \A n \in S : Min(S) <= n
<1>1. \A n, m \in Nat : n < m => <<n, m>> \in OpToRel(<, Nat)
  BY DEF OpToRel
<1>2. PICK R : IsWellFoundedOn(R, Nat) /\ \A n, m \in Nat : n < m => <<n, m>> \in R
  BY <1>1, NatLessThanWellFounded, Zenon
<1>3. PICK m \in S : \A n \in S : ~(<<n, m>> \in R)
  <2>1. IsWellFoundedOn(R, Nat)
    BY <1>2
  <2>2. \A T : T \subseteq Nat /\ T # {} => \E x \in T : \A y \in T : ~(<<y, x>> \in R)
    BY ONLY <2>1, WFMin
  <2> QED
    BY ONLY <2>2, S \subseteq Nat, S # {}
<1>4. ASSUME NEW n \in S PROVE m <= n
  <2>1. m \in Nat /\ n \in Nat
    OBVIOUS
  <2>2. ~(n < m)
    BY <1>2, <1>3, <2>1, Zenon
  <2> QED
    BY <2>1, <2>2
<1> QED
  BY <1>4, Zenon DEF Min

(* Items are finite, so the number of those in given states is a number.    *)
LEMMA CountIsNat ==
    ASSUME NEW items, NEW j, NEW S PROVE CountOf(items, j, S) \in Nat
BY QueueAssumption, FS_Subset, FS_CardinalityType DEF CountOf, ItemsOf

(* A step that keeps the states of the items of a job keeps its counts.     *)
LEMMA SameCounts ==
    ASSUME NEW before, NEW after, NEW j,
           \A i \in ItemsOf(j) : after[i].status = before[i].status
    PROVE  \A S : CountOf(after, j, S) = CountOf(before, j, S)
<1> TAKE S
<1>1. {i \in ItemsOf(j) : after[i].status \in S} = {i \in ItemsOf(j) : before[i].status \in S}
  OBVIOUS
<1> QED
  BY <1>1 DEF CountOf

(* So does one that keeps apart what is counted and what is not.            *)
LEMMA SameMembers ==
    ASSUME NEW before, NEW after, NEW j, NEW S,
           \A i \in ItemsOf(j) : after[i].status \in S <=> before[i].status \in S
    PROVE  CountOf(after, j, S) = CountOf(before, j, S)
<1>1. {i \in ItemsOf(j) : after[i].status \in S} = {i \in ItemsOf(j) : before[i].status \in S}
  OBVIOUS
<1> QED
  BY <1>1 DEF CountOf

(* Items that end one by one, or together, are counted once each.           *)
LEMMA EndedAreCounted ==
    ASSUME NEW before, NEW after, NEW j, NEW S, NEW new \in SUBSET ItemsOf(j),
           \A i \in new : before[i].status \notin S,
           \A i \in ItemsOf(j) : after[i].status \in S <=> before[i].status \in S \/ i \in new
    PROVE  CountOf(after, j, S) = CountOf(before, j, S) + Cardinality(new)
<1> DEFINE old == {i \in ItemsOf(j) : before[i].status \in S}
<1>1. IsFiniteSet(old) /\ IsFiniteSet(new)
  BY QueueAssumption, FS_Subset DEF ItemsOf
<1>2. {i \in ItemsOf(j) : after[i].status \in S} = old \union new
  OBVIOUS
<1>3. old \intersect new = {}
  OBVIOUS
<1>4. Cardinality(old \union new) = Cardinality(old) + Cardinality(new) - Cardinality(old \intersect new)
  BY <1>1, FS_Union
<1>5. Cardinality(old) \in Nat /\ Cardinality(new) \in Nat
  BY <1>1, FS_CardinalityType
<1>6. CountOf(after, j, S) = Cardinality(old \union new)
  BY <1>2 DEF CountOf
<1>7. CountOf(before, j, S) = Cardinality(old)
  BY DEF CountOf
<1> HIDE DEF old
<1>8. Cardinality(old \intersect new) = 0
  BY <1>3, FS_EmptySet
<1> QED
  BY <1>4, <1>5, <1>6, <1>7, <1>8

-----------------------------------------------------------------------------
(* Batches of tags *)

(* The counters of a job are those of its items.                            *)
Counted(record, items, j) ==
    /\ record.processed = CountOf(items, j, Outcomes)
    /\ record.succeeded = CountOf(items, j, {"SUCCEEDED"})
    /\ record.failed = CountOf(items, j, {"FAILED"})

(* A row of an item: who owns it runs it, and has used an attempt for it.   *)
ItemFits(record) ==
    /\ record \in ItemRecords
    /\ record.status # "RUNNING" => record.owner = None
    /\ record.status = "RUNNING" => record.attempts > 0

(* A row of a job against its items: it is active while one of them is, it  *)
(* exists when one of them does.                                            *)
JobSpans(record, items, j) ==
    /\ record \in JobRecords
    /\ \A i \in ItemsOf(j) : /\ Active(items[i]) => Active(record)
                             /\ record.status = "ABSENT" => items[i].status = "ABSENT"

(* The counters of a job that is being cancelled are counted when it ends.  *)
JobFits(record, items, j) ==
    /\ JobSpans(record, items, j)
    /\ ~(record.cancel /\ Active(record)) => Counted(record, items, j)

QueueFits(jobs, items) ==
    /\ jobs = [j \in Jobs |-> jobs[j]] /\ items = [i \in Items |-> items[i]]
    /\ \A j \in Jobs : JobFits(jobs[j], items, j)
    /\ \A i \in Items : ItemFits(items[i])

(* The inductive invariant of the batches of tags.                          *)
TagInv == TypeOK /\ QueueFits(job, item)

(* What ends and what is put back into the queue.                           *)
LEMMA EndedFits ==
    ASSUME NEW record \in ItemRecords, NEW status \in ItemStatuses
    PROVE  /\ Ended(record, status) \in ItemRecords
           /\ Ended(record, status).status = status
           /\ Ended(record, status).owner = None
           /\ Ended(record, status).attempts = record.attempts
           /\ status # "RUNNING" => ItemFits(Ended(record, status))
BY QueueAssumption DEF Ended, ItemRecords, ItemFits

LEMMA RequeuedFits ==
    ASSUME NEW record \in ItemRecords
    PROVE  /\ Requeued(record) \in ItemRecords
           /\ Requeued(record).status = "PENDING"
           /\ Requeued(record).owner = None
           /\ Requeued(record).attempts = record.attempts
           /\ ItemFits(Requeued(record))
BY EndedFits DEF Requeued, Ended, ItemRecords, ItemFits, ItemStatuses

(* Counting a job again changes its counters, to those of its items.        *)
LEMMA RecountFits ==
    ASSUME NEW record \in JobRecords, NEW items, NEW j
    PROVE  /\ recountBatch(record, items, j) \in JobRecords
           /\ recountBatch(record, items, j).status = record.status
           /\ recountBatch(record, items, j).cancel = record.cancel
           /\ Counted(recountBatch(record, items, j), items, j)
           /\ record = recountBatch(record, items, j) <=> Counted(record, items, j)
<1>1. CountOf(items, j, Outcomes) \in Nat /\ CountOf(items, j, {"SUCCEEDED"}) \in Nat
      /\ CountOf(items, j, {"FAILED"}) \in Nat
  BY CountIsNat
<1> QED
  BY <1>1 DEF recountBatch, Processed, JobRecords, Counted

(* A job none of whose items changes its state fits as before.              *)
LEMMA SameItemsFit ==
    ASSUME NEW record, NEW before, NEW after, NEW j,
           \A i \in ItemsOf(j) : after[i].status = before[i].status
    PROVE  /\ Counted(record, before, j) <=> Counted(record, after, j)
           /\ JobSpans(record, before, j) <=> JobSpans(record, after, j)
           /\ JobFits(record, before, j) <=> JobFits(record, after, j)
<1>1. Counted(record, before, j) <=> Counted(record, after, j)
  <2>1. \A S : CountOf(after, j, S) = CountOf(before, j, S)
    BY SameCounts
  <2> QED
    BY <2>1 DEF Counted
<1>2. JobSpans(record, before, j) <=> JobSpans(record, after, j)
  BY DEF JobSpans, Active
<1> QED
  BY <1>1, <1>2 DEF JobFits

(* Neither does one whose items move between waiting and running.           *)
LEMMA ActiveItemsFit ==
    ASSUME NEW record, NEW before, NEW after, NEW j,
           \A i \in ItemsOf(j) : \/ after[i].status = before[i].status
                                 \/ Active(before[i]) /\ Active(after[i])
    PROVE  /\ Counted(record, before, j) => Counted(record, after, j)
           /\ JobSpans(record, before, j) => JobSpans(record, after, j)
           /\ JobFits(record, before, j) => JobFits(record, after, j)
<1>1. \A S \in SUBSET Outcomes : CountOf(after, j, S) = CountOf(before, j, S)
  <2> TAKE S \in SUBSET Outcomes
  <2>1. \A i \in ItemsOf(j) : after[i].status \in S <=> before[i].status \in S
    BY DEF Active, Outcomes
  <2> QED
    BY <2>1, SameMembers
<1>2. Counted(record, before, j) => Counted(record, after, j)
  BY <1>1 DEF Counted, Outcomes
<1>3. JobSpans(record, before, j) => JobSpans(record, after, j)
  BY DEF JobSpans, Active
<1> QED
  BY <1>2, <1>3 DEF JobFits

(* What a recovery makes of the items: an item of a job in progress that is *)
(* waiting or running may be ended or put back, other items stay.           *)
Recovers(rec, jobs) ==
    /\ rec = [i \in Items |-> rec[i]]
    /\ \A i \in Items :
          \/ rec[i] = item[i]
          \/ /\ JobOf[i] \in jobs /\ Active(job[JobOf[i]]) /\ Active(item[i])
             /\ \/ rec[i] = Ended(item[i], "SKIPPED") \/ rec[i] = Ended(item[i], "FAILED")
                \/ rec[i] = Requeued(item[i])

LEMMA RecoveryShape ==
    ASSUME NEW jobs
    PROVE  /\ Recovers(recoverExpiredBatchItems(item, jobs), jobs)
           /\ Recovers(Stopped!recoverExpiredBatchItems(item, jobs), jobs)
BY Zenon DEF Recovers, recoverExpiredBatchItems, Expired, Active, Exhausted, Ended, Requeued,
       Stopped!recoverExpiredBatchItems, Stopped!Expired, Stopped!Active, Stopped!Exhausted,
       Stopped!Ended, Stopped!Requeued

LEMMA RecoveryFits ==
    ASSUME QueueFits(job, item), NEW jobs, NEW rec, Recovers(rec, jobs)
    PROVE  /\ \A i \in Items : ItemFits(rec[i])
           /\ \A i \in Items : Active(rec[i]) => Active(item[i])
           /\ \A i \in Items : item[i].status = "ABSENT" => rec[i] = item[i]
           /\ \A i \in Items : JobOf[i] \notin jobs => rec[i] = item[i]
           /\ \A i \in Items : rec[i] # item[i] => Active(job[JobOf[i]])
<1>1. \A i \in Items : ItemFits(item[i]) /\ item[i] \in ItemRecords
  BY DEF QueueFits, ItemFits
<1>2. \A i \in Items : /\ ItemFits(Ended(item[i], "SKIPPED")) /\ ~Active(Ended(item[i], "SKIPPED"))
                       /\ ItemFits(Ended(item[i], "FAILED")) /\ ~Active(Ended(item[i], "FAILED"))
                       /\ ItemFits(Requeued(item[i]))
  BY <1>1, EndedFits, RequeuedFits DEF ItemStatuses, Outcomes, Active
<1> QED
  BY <1>1, <1>2 DEF Recovers, Active

(* Items that go back to the queue, run no longer or are put off, without   *)
(* being counted.                                                           *)
LEMMA UncountedMoves ==
    ASSUME QueueFits(job, item), job' = job,
           item' = [i \in Items |-> item'[i]],
           \A i \in Items : /\ ItemFits(item'[i])
                            /\ \/ item'[i].status = item[i].status
                               \/ Active(item[i]) /\ Active(item'[i])
    PROVE  QueueFits(job, item)'
<1>1. ASSUME NEW j \in Jobs PROVE JobFits(job[j], item', j)
  <2>1. \A i \in ItemsOf(j) : \/ item'[i].status = item[i].status
                              \/ Active(item[i]) /\ Active(item'[i])
    BY DEF ItemsOf
  <2>2. JobFits(job[j], item, j)
    BY DEF QueueFits
  <2> QED
    BY <2>1, <2>2, ActiveItemsFit
<1> QED
  BY <1>1 DEF QueueFits

(* One job changes with its items; the other jobs and their items stay.     *)
LEMMA OneJobMoves ==
    ASSUME QueueFits(job, item), NEW j \in Jobs, NEW record,
           job' = [job EXCEPT ![j] = record],
           item' = [i \in Items |-> item'[i]],
           \A i \in Items : ItemFits(item'[i]),
           \A i \in Items \ ItemsOf(j) : item'[i].status = item[i].status,
           JobFits(record, item', j)
    PROVE  QueueFits(job, item)'
<1>1. ASSUME NEW k \in Jobs PROVE JobFits(job'[k], item', k)
  <2>1. CASE k = j
    BY <2>1 DEF QueueFits
  <2>2. CASE k # j
    <3>1. \A i \in ItemsOf(k) : item'[i].status = item[i].status
      BY <2>2 DEF ItemsOf
    <3>2. JobFits(job[k], item, k) /\ job'[k] = job[k]
      BY <2>2 DEF QueueFits
    <3> QED
      BY <3>1, <3>2, SameItemsFit
  <2> QED
    BY <2>1, <2>2
<1> QED
  BY <1>1 DEF QueueFits

LEMMA CreateMoves ==
    ASSUME QueueFits(job, item), NEW j \in Jobs, NEW chosen \in SUBSET ItemsOf(j),
           Create(j, chosen)
    PROVE  QueueFits(job, item)'
<1> DEFINE record == [job[j] EXCEPT !.status = "PENDING"]
<1>1. JobFits(job[j], item, j) /\ job[j].status = "ABSENT" /\ job[j] \in JobRecords
  BY DEF Create, QueueFits, JobFits, JobSpans
<1>2. \A i \in ItemsOf(j) : item[i].status = "ABSENT"
  BY <1>1 DEF JobFits, JobSpans
<1>3. job' = [job EXCEPT ![j] = record]
  BY DEF Create, CreateBatch
<1>4. item' = [i \in Items |->
                 IF i \in chosen THEN [item[i] EXCEPT !.status = "PENDING"] ELSE item[i]]
  BY DEF Create, CreateBatch
<1>5. \A i \in Items : ItemFits(item[i])
  BY DEF QueueFits
<1>6. \A i \in Items : ItemFits(item'[i])
  <2> TAKE i \in Items
  <2>1. CASE i \in chosen
    <3>1. item[i].status = "ABSENT"
      BY <1>2, <2>1
    <3> QED
      BY <1>4, <1>5, <2>1, <3>1 DEF ItemFits, ItemRecords, ItemStatuses
  <2> QED
    BY <1>4, <1>5, <2>1
<1>7. \A i \in Items \ ItemsOf(j) : item'[i].status = item[i].status
  BY <1>4
<1>8. JobFits(record, item', j)
  <2>1. \A i \in ItemsOf(j) : item'[i].status \in {"ABSENT", "PENDING"}
    BY <1>2, <1>4, <1>5 DEF ItemsOf, ItemFits, ItemRecords
  <2>2. \A S \in SUBSET Outcomes : CountOf(item', j, S) = CountOf(item, j, S)
    <3> TAKE S \in SUBSET Outcomes
    <3>1. \A i \in ItemsOf(j) : item'[i].status \in S <=> item[i].status \in S
      BY <1>2, <2>1 DEF Outcomes
    <3> QED
      BY <3>1, SameMembers
  <2>3. Counted(job[j], item, j)
    BY <1>1 DEF JobFits, Active
  <2>4. Counted(record, item', j)
    BY <1>1, <2>2, <2>3 DEF Counted, Outcomes, JobRecords
  <2>5. record \in JobRecords /\ record.status = "PENDING"
    BY <1>1 DEF JobRecords, JobStatuses
  <2> HIDE DEF record
  <2> QED
    BY <2>4, <2>5 DEF JobFits, JobSpans, Active
<1> HIDE DEF record
<1> QED
  BY <1>3, <1>4, <1>6, <1>7, <1>8, OneJobMoves

LEMMA CancelMoves ==
    ASSUME QueueFits(job, item), NEW j \in Jobs, RequestBatchCancel(j)
    PROVE  QueueFits(job, item)'
<1> DEFINE record == [job[j] EXCEPT !.cancel = TRUE]
<1>1. JobSpans(job[j], item, j) /\ Active(job[j])
  BY DEF RequestBatchCancel, QueueFits, JobFits
<1>2. job' = [job EXCEPT ![j] = record] /\ item' = item
  BY DEF RequestBatchCancel
<1>3. record \in JobRecords /\ record.status = job[j].status /\ record.cancel
  BY <1>1 DEF JobSpans, JobRecords
<1> HIDE DEF record
<1>4. JobFits(record, item', j)
  BY <1>1, <1>2, <1>3 DEF JobFits, JobSpans, Active
<1> QED
  BY <1>2, <1>4, OneJobMoves DEF QueueFits

LEMMA RetryMoves ==
    ASSUME QueueFits(job, item), NEW j \in Jobs, RetryBatch(j)
    PROVE  QueueFits(job, item)'
<1> DEFINE reset == [i \in Items |->
             IF JobOf[i] = j /\ item[i].status = "FAILED"
             THEN [Requeued(item[i]) EXCEPT !.attempts = 0] ELSE item[i]]
           counted == recountBatch(job[j], reset, j)
           record == [counted EXCEPT !.status = "PENDING", !.cancel = FALSE]
<1>1. item' = reset /\ job' = [job EXCEPT ![j] = record]
  BY DEF RetryBatch
<1>2. job[j].status \in {"FAILED", "COMPLETED"} /\ JobSpans(job[j], item, j)
  BY DEF RetryBatch, QueueFits, JobFits
<1>3. \A i \in Items : ItemFits(reset[i])
  <2> TAKE i \in Items
  <2>1. ItemFits(item[i]) /\ item[i] \in ItemRecords
    BY DEF QueueFits, ItemFits
  <2>2. ItemFits([Requeued(item[i]) EXCEPT !.attempts = 0])
    BY <2>1, RequeuedFits, QueueAssumption DEF ItemFits, ItemRecords
  <2> QED
    BY <2>1, <2>2
<1>4. counted \in JobRecords /\ Counted(counted, reset, j)
  BY <1>2, RecountFits DEF JobSpans
<1> HIDE DEF reset, counted
<1>6. /\ record \in JobRecords /\ record.status = "PENDING"
      /\ Counted(record, reset, j)
  BY <1>4 DEF JobRecords, JobStatuses, Counted
<1>7. JobFits(record, reset, j)
  BY <1>6 DEF JobFits, JobSpans, Active
<1>8. \A i \in Items \ ItemsOf(j) : reset[i].status = item[i].status
  BY DEF reset, ItemsOf
<1>9. reset = [i \in Items |-> reset[i]]
  BY DEF reset
<1> HIDE DEF record
<1> QED
  BY <1>1, <1>3, <1>7, <1>8, <1>9, OneJobMoves

(* A claim that finds nothing to take recovers what lapsed; of a job that   *)
(* is being cancelled it skips what waits.                                  *)
LEMMA EmptyClaimMoves ==
    ASSUME QueueFits(job, item), NEW j \in Jobs, Active(job[j]), NEW rec, Recovers(rec, {j}),
           job' = [job EXCEPT ![j] = IF rec = item THEN job[j] ELSE recountBatch(job[j], rec, j)],
           item' = rec \/ (job[j].cancel /\ item' = skipCancelledItems(rec, j))
    PROVE  QueueFits(job, item)'
<1> DEFINE record == IF rec = item THEN job[j] ELSE recountBatch(job[j], rec, j)
<1>1. JobFits(job[j], item, j) /\ job[j] \in JobRecords
  BY DEF QueueFits, JobFits, JobSpans
<1>2. /\ record \in JobRecords /\ record.status = job[j].status /\ record.cancel = job[j].cancel
      /\ ~job[j].cancel => Counted(record, rec, j)
  BY <1>1, RecountFits DEF JobFits
<1>3. \A i \in Items : /\ ItemFits(rec[i]) /\ rec[i] \in ItemRecords
                       /\ JobOf[i] # j => rec[i] = item[i]
  BY RecoveryFits DEF ItemFits
<1>4. item' = [i \in Items |-> item'[i]]
  BY DEF Recovers, skipCancelledItems
<1>5. \A i \in Items : /\ ItemFits(item'[i])
                       /\ JobOf[i] # j => item'[i] = item[i]
  <2> TAKE i \in Items
  <2>1. ItemFits(Ended(rec[i], "SKIPPED"))
    BY <1>3, EndedFits DEF ItemStatuses, Outcomes
  <2> QED
    BY <1>3, <2>1 DEF skipCancelledItems
<1> HIDE DEF record
<1>6. JobFits(record, item', j)
  BY <1>2 DEF JobFits, JobSpans, Active
     , ItemsOf
<1>7. \A i \in Items \ ItemsOf(j) : item'[i].status = item[i].status
  BY <1>5 DEF ItemsOf
<1>8. job' = [job EXCEPT ![j] = record]
  BY DEF record
<1> QED
  BY <1>4, <1>5, <1>6, <1>7, <1>8, OneJobMoves

(* A claim that takes items that have an attempt left.                      *)
LEMMA ClaimMoves ==
    ASSUME QueueFits(job, item), NEW j \in Jobs, Active(job[j]), ~job[j].cancel,
           NEW rec, Recovers(rec, {j}), NEW w \in Workers, NEW taken \in SUBSET ItemsOf(j),
           \A i \in taken : rec[i].status = "PENDING" /\ rec[i].attempts < MaxAttempts,
           job' = [job EXCEPT ![j] = [(IF rec = item THEN job[j] ELSE recountBatch(job[j], rec, j))
                                        EXCEPT !.status = "RUNNING"]],
           item' = [i \in Items |->
                      IF i \in taken
                      THEN [rec[i] EXCEPT !.status = "RUNNING", !.attempts = @ + 1,
                                          !.owner = w, !.live = TRUE]
                      ELSE rec[i]]
    PROVE  QueueFits(job, item)'
<1> DEFINE counted == IF rec = item THEN job[j] ELSE recountBatch(job[j], rec, j)
           record == [counted EXCEPT !.status = "RUNNING"]
<1>1. JobFits(job[j], item, j) /\ job[j] \in JobRecords
  BY DEF QueueFits, JobFits, JobSpans
<1>2. counted \in JobRecords /\ Counted(counted, rec, j) /\ ~counted.cancel
  <2>1. Counted(job[j], item, j)
    BY <1>1 DEF JobFits
  <2>2. LET again == recountBatch(job[j], rec, j)
        IN  again \in JobRecords /\ Counted(again, rec, j) /\ again.cancel = job[j].cancel
    BY ONLY <1>1, RecountFits
  <2> QED
    BY ONLY <1>1, <2>1, <2>2, ~job[j].cancel
<1>3. \A i \in Items : /\ ItemFits(rec[i]) /\ rec[i] \in ItemRecords
                       /\ JobOf[i] # j => rec[i] = item[i]
  <2>1. \A i \in Items : ItemFits(rec[i]) /\ (JobOf[i] \notin {j} => rec[i] = item[i])
    BY ONLY QueueFits(job, item), Recovers(rec, {j}), RecoveryFits
  <2> QED
    BY ONLY <2>1 DEF ItemFits
<1> HIDE DEF counted
<1>4. /\ record \in JobRecords /\ record.status = "RUNNING" /\ Counted(record, rec, j)
  BY <1>2 DEF JobRecords, JobStatuses, Counted
<1>5. \A i \in Items : /\ ItemFits(item'[i])
                       /\ i \notin taken => item'[i] = rec[i]
                       /\ i \in taken => item'[i].status = "RUNNING" /\ rec[i].status = "PENDING"
  <2> TAKE i \in Items
  <2>1. CASE i \in taken
    <3>1. rec[i] \in ItemRecords /\ rec[i].status = "PENDING" /\ rec[i].attempts < MaxAttempts
      BY <1>3, <2>1
    <3>2. item'[i] = [rec[i] EXCEPT !.status = "RUNNING", !.attempts = @ + 1,
                                    !.owner = w, !.live = TRUE]
      BY <2>1
    <3>3. item'[i] = [status |-> "RUNNING", attempts |-> rec[i].attempts + 1, due |-> rec[i].due,
                      owner |-> w, live |-> TRUE]
      BY ONLY <3>1, <3>2 DEF ItemRecords
    <3>4. rec[i].attempts + 1 \in 1..MaxAttempts /\ rec[i].due \in BOOLEAN
      BY ONLY <3>1, QueueAssumption DEF ItemRecords
    <3>5. item'[i] \in ItemRecords /\ item'[i].attempts > 0 /\ item'[i].status = "RUNNING"
      BY ONLY <3>3, <3>4, w \in Workers DEF ItemRecords, ItemStatuses
    <3> QED
      BY <2>1, <3>1, <3>5 DEF ItemFits
  <2> QED
    BY <1>3, <2>1
<1> HIDE DEF record
<1>6. Counted(record, item', j)
  <2>1. \A i \in ItemsOf(j) : \/ item'[i].status = rec[i].status
                              \/ Active(rec[i]) /\ Active(item'[i])
    BY <1>5 DEF ItemsOf, Active
  <2> QED
    BY <1>4, <2>1, ActiveItemsFit
<1>7. JobFits(record, item', j)
  BY <1>4, <1>6 DEF JobFits, JobSpans, Active
<1>8. \A i \in Items \ ItemsOf(j) : item'[i].status = item[i].status
  BY <1>3, <1>5 DEF ItemsOf
<1>9. job' = [job EXCEPT ![j] = record]
  BY DEF record, counted
<1> QED
  BY <1>5, <1>7, <1>8, <1>9, OneJobMoves

(* A job ends when none of its items is waiting or running.                 *)
LEMMA FinishMoves ==
    ASSUME QueueFits(job, item), TypeOK, NEW w \in Workers, FinishBatch(w)
    PROVE  QueueFits(job, item)'
<1> DEFINE j == finish[w]
           counted == recountBatch(job[j], item, j)
           status == IF job[j].cancel THEN "CANCELLED"
                     ELSE IF CountOf(item, j, {"FAILED"}) > 0 THEN "FAILED" ELSE "COMPLETED"
           record == [counted EXCEPT !.status = status]
<1>1. j \in Jobs /\ item' = item
  BY DEF FinishBatch, TypeOK
<1>2. CASE job' = job
  BY <1>1, <1>2 DEF QueueFits
<1>3. ASSUME job' = [job EXCEPT ![j] = record], \A i \in ItemsOf(j) : ~Active(item[i])
      PROVE  QueueFits(job, item)'
  <2>1. JobSpans(job[j], item, j) /\ job[j] \in JobRecords
    BY <1>1 DEF QueueFits, JobFits, JobSpans
  <2>2. counted \in JobRecords /\ Counted(counted, item, j)
    BY <2>1, RecountFits
  <2>3. status \in EndStatuses
    BY DEF EndStatuses
  <2> HIDE DEF counted, status
  <2>4. record \in JobRecords /\ record.status = status /\ Counted(record, item, j)
    BY <2>2, <2>3 DEF JobRecords, JobStatuses, Counted
  <2> HIDE DEF record
  <2>5. JobFits(record, item', j)
    BY <1>1, <1>3, <2>3, <2>4 DEF JobFits, JobSpans, EndStatuses
  <2>6. item' = [i \in Items |-> item'[i]] /\ \A i \in Items : ItemFits(item'[i])
    BY <1>1 DEF QueueFits
  <2> HIDE DEF j
  <2> QED
    BY <1>1, <1>3, <2>5, <2>6, OneJobMoves
<1> QED
  BY <1>2, <1>3 DEF FinishBatch

(* Outcomes are counted for the items whose attempt is still current.       *)
LEMMA CompleteMoves ==
    ASSUME QueueFits(job, item), NEW w \in Workers, NEW j \in Jobs,
           NEW done \in SUBSET ItemsOf(j), \A i \in done : claim[w][i] \in Decisions \ {"RELEASE"},
           Complete(w, j, done)
    PROVE  QueueFits(job, item)'
<1> DEFINE kept == {i \in done : FenceHolds(w, i)}
           Reached(result) == Cardinality({i \in kept : Outcome(w, i) = result})
<1>1. item' = [i \in Items |-> IF i \in kept THEN Ended(item[i], Outcome(w, i)) ELSE item[i]]
  BY DEF Complete
<1>2. JobFits(job[j], item, j) /\ job[j] \in JobRecords
  BY DEF QueueFits, JobFits, JobSpans
<1> DEFINE all == Cardinality(kept)
           good == Reached("SUCCEEDED")
           bad == Reached("FAILED")
           record == [job[j] EXCEPT !.processed = @ + all, !.succeeded = @ + good,
                                    !.failed = @ + bad]
<1>3. job' = [job EXCEPT ![j] = record]
  BY Zenon DEF Complete
<1>4. \A i \in kept : /\ Outcome(w, i) \in Outcomes /\ i \in ItemsOf(j) /\ i \in Items
                      /\ item[i].status = "RUNNING" /\ Active(job[j])
  BY DEF Outcome, Decisions, Outcomes, FenceHolds, Owned, ItemsOf
<1>5. \A i \in Items : /\ ItemFits(item[i]) /\ item[i] \in ItemRecords
  BY DEF QueueFits, ItemFits
<1>6. \A i \in Items : /\ ItemFits(item'[i])
                       /\ i \in kept => item'[i].status = Outcome(w, i)
                       /\ i \notin kept => item'[i] = item[i]
  BY <1>1, <1>4, <1>5, EndedFits DEF ItemStatuses, Outcomes
<1> HIDE DEF kept
<1>7. kept \in SUBSET ItemsOf(j) /\ IsFiniteSet(kept)
  BY QueueAssumption, FS_Subset DEF ItemsOf, kept
<1>8. /\ CountOf(item', j, Outcomes) = CountOf(item, j, Outcomes) + all
      /\ CountOf(item', j, {"SUCCEEDED"}) = CountOf(item, j, {"SUCCEEDED"}) + good
      /\ CountOf(item', j, {"FAILED"}) = CountOf(item, j, {"FAILED"}) + bad
  <2>1. \A S \in SUBSET Outcomes : \A new \in SUBSET kept :
            (\A i \in kept : i \in new <=> item'[i].status \in S)
            => CountOf(item', j, S) = CountOf(item, j, S) + Cardinality(new)
    <3> SUFFICES ASSUME NEW S \in SUBSET Outcomes, NEW new \in SUBSET kept,
                        \A i \in kept : i \in new <=> item'[i].status \in S
                 PROVE  CountOf(item', j, S) = CountOf(item, j, S) + Cardinality(new)
      OBVIOUS
    <3>1. new \in SUBSET ItemsOf(j) /\ \A i \in new : item[i].status \notin S
      BY <1>4, <1>7 DEF Outcomes
    <3>2. \A i \in ItemsOf(j) : item'[i].status \in S <=> item[i].status \in S \/ i \in new
      BY <1>4, <1>6 DEF ItemsOf, Outcomes
    <3> QED
      BY ONLY <3>1, <3>2, EndedAreCounted
  <2>2. \A i \in kept : item'[i].status \in Outcomes
    BY <1>4, <1>6
  <2>3. \A result \in Outcomes : CountOf(item', j, {result}) = CountOf(item, j, {result}) + Reached(result)
    <3> TAKE result \in Outcomes
    <3> DEFINE new == {i \in kept : Outcome(w, i) = result}
    <3>1. new \in SUBSET kept /\ \A i \in kept : i \in new <=> item'[i].status \in {result}
      BY <1>4, <1>6
    <3> HIDE DEF new
    <3>2. CountOf(item', j, {result}) = CountOf(item, j, {result}) + Cardinality(new)
      BY <2>1, <3>1
    <3> QED
      BY <3>2 DEF new
  <2> QED
    BY <2>1, <2>2, <2>3 DEF Outcomes
<1>9. all \in Nat /\ good \in Nat /\ bad \in Nat
  BY <1>7, FS_Subset, FS_CardinalityType
<1> HIDE DEF Reached, all, good, bad
<1>10. /\ record \in JobRecords /\ record.status = job[j].status /\ record.cancel = job[j].cancel
       /\ Counted(job[j], item, j) => Counted(record, item', j)
  <2>1. /\ record \in JobRecords /\ record.status = job[j].status /\ record.cancel = job[j].cancel
        /\ record.processed = job[j].processed + all
        /\ record.succeeded = job[j].succeeded + good /\ record.failed = job[j].failed + bad
    <3> DEFINE a == job[j].processed + all
               b == job[j].succeeded + good
               c == job[j].failed + bad
    <3>1. job[j] \in JobRecords /\ a \in Nat /\ b \in Nat /\ c \in Nat
      BY <1>2, <1>9 DEF JobRecords
    <3>2. record = [job[j] EXCEPT !.processed = a, !.succeeded = b, !.failed = c]
      OBVIOUS
    <3> HIDE DEF a, b, c, record
    <3>3. /\ record \in JobRecords /\ record.status = job[j].status /\ record.cancel = job[j].cancel
          /\ record.processed = a /\ record.succeeded = b /\ record.failed = c
      BY ONLY <3>1, <3>2 DEF JobRecords
    <3> QED
      BY ONLY <3>3 DEF a, b, c
  <2> HIDE DEF record
  <2> QED
    BY ONLY <1>8, <2>1 DEF Counted
<1> HIDE DEF record
<1>11. JobFits(record, item', j)
  <2>1. \A i \in ItemsOf(j) : /\ Active(item'[i]) => Active(item[i])
                              /\ item[i].status = "ABSENT" => item'[i].status = "ABSENT"
    BY <1>4, <1>6 DEF Active, Outcomes, ItemsOf
  <2> QED
    BY <1>2, <1>4, <1>6, <1>10, <2>1 DEF JobFits, JobSpans, Active
<1>12. item' = [i \in Items |-> item'[i]]
  BY <1>1
<1>13. \A i \in Items \ ItemsOf(j) : item'[i].status = item[i].status
  BY <1>6, <1>7
<1> QED
  BY ONLY QueueFits(job, item), j \in Jobs, <1>3, <1>6, <1>11, <1>12, <1>13, OneJobMoves

(* A process that starts recovers what lapsed in every job.                 *)
LEMMA StartMoves ==
    ASSUME QueueFits(job, item), NEW w \in Workers, NEW rec, Recovers(rec, Jobs),
           item' = [i \in Items |-> IF rec[i].owner = w
                                    THEN [rec[i] EXCEPT !.owner = Dead] ELSE rec[i]],
           job' = [j \in Jobs |-> IF \E i \in ItemsOf(j) : rec[i] # item[i]
                                  THEN recountBatch(job[j], rec, j) ELSE job[j]]
    PROVE  QueueFits(job, item)'
<1>1. \A i \in Items : ItemFits(rec[i]) /\ (Active(rec[i]) => Active(item[i]))
                       /\ (item[i].status = "ABSENT" => rec[i] = item[i])
  BY ONLY QueueFits(job, item), Recovers(rec, Jobs), RecoveryFits
<1>2. \A i \in Items : ItemFits(item'[i]) /\ item'[i].status = rec[i].status
  <2> TAKE i \in Items
  <2>1. ItemFits(rec[i]) /\ rec[i] \in ItemRecords
    BY <1>1 DEF ItemFits
  <2>2. CASE rec[i].owner = w
    <3>1. rec[i].owner # None
      BY <2>2, QueueAssumption
    <3>2. [rec[i] EXCEPT !.owner = Dead] \in ItemRecords
      BY <2>1 DEF ItemRecords
    <3>3. item'[i] = [rec[i] EXCEPT !.owner = Dead]
      BY <2>2
    <3> QED
      BY ONLY <2>1, <3>1, <3>2, <3>3 DEF ItemFits, ItemRecords
  <2>3. CASE rec[i].owner # w
    BY <2>1, <2>3
  <2> QED
    BY <2>2, <2>3
<1>3. ASSUME NEW j \in Jobs PROVE JobFits(job'[j], item', j)
  <2>1. JobFits(job[j], item, j) /\ job[j] \in JobRecords
    BY DEF QueueFits, JobFits, JobSpans
  <2>2. \A i \in ItemsOf(j) : item'[i].status = rec[i].status
    BY <1>2 DEF ItemsOf
  <2>3. CASE \A i \in ItemsOf(j) : rec[i] = item[i]
    <3>1. job'[j] = job[j] /\ \A i \in ItemsOf(j) : item'[i].status = item[i].status
      BY <2>2, <2>3
    <3> QED
      BY ONLY <2>1, <3>1, SameItemsFit
  <2>4. CASE \E i \in ItemsOf(j) : rec[i] # item[i]
    <3>1. job'[j] = recountBatch(job[j], rec, j)
      BY <2>4
    <3>2. /\ job'[j] \in JobRecords /\ job'[j].status = job[j].status
          /\ job'[j].cancel = job[j].cancel /\ Counted(job'[j], rec, j)
      BY ONLY <2>1, <3>1, RecountFits
    <3>3. \A i \in ItemsOf(j) : /\ Active(rec[i]) => Active(item[i])
                                /\ item[i].status = "ABSENT" => rec[i].status = "ABSENT"
      BY <1>1 DEF ItemsOf
    <3>4. JobFits(job'[j], rec, j)
      BY ONLY <2>1, <3>2, <3>3 DEF JobFits, JobSpans, Active
    <3> QED
      BY ONLY <2>2, <3>4, SameItemsFit
  <2> QED
    BY <2>3, <2>4
<1> QED
  BY <1>2, <1>3 DEF QueueFits

(* What is typed besides the rows.                                          *)
RestTyped ==
    /\ track \in [Items -> {"expected", "scraped", "edited"}]
    /\ claim \in [Workers -> [Items -> Claims]]
    /\ finish \in [Workers -> Jobs \union {None}]
    /\ up \in [Workers -> BOOLEAN]
    /\ stops \in 0..MaxStops

LEMMA TagInvParts == TagInv <=> QueueFits(job, item) /\ RestTyped
<1>1. ASSUME QueueFits(job, item) PROVE job \in [Jobs -> JobRecords] /\ item \in [Items -> ItemRecords]
  BY <1>1 DEF QueueFits, JobFits, JobSpans, ItemFits
<1> QED
  BY <1>1 DEF TagInv, TypeOK, RestTyped

LEMMA TagInvPartsAfter == TagInv' <=> QueueFits(job, item)' /\ RestTyped'
BY TagInvParts, PTL

(* The counts do not depend on the number of attempts.                      *)
LEMMA StoppedCounts ==
    /\ \A S : Stopped!Cardinality(S) = Cardinality(S)
    /\ \A items, j, S : Stopped!CountOf(items, j, S) = CountOf(items, j, S)
    /\ \A record, items, j : Stopped!recountBatch(record, items, j) = recountBatch(record, items, j)
<1> USE DEF Stopped!ItemsOf, ItemsOf
<1>1. \A S : Stopped!Cardinality(S) = Cardinality(S)
  BY Zenon DEF Stopped!Cardinality, Cardinality
<1>2. \A items, j, S : Stopped!CountOf(items, j, S) = CountOf(items, j, S)
  BY <1>1, Zenon DEF Stopped!CountOf, CountOf
<1>3. \A record, items, j : Stopped!recountBatch(record, items, j) = recountBatch(record, items, j)
  BY <1>2, Zenon DEF Stopped!recountBatch, recountBatch,
               Stopped!Processed, Processed, Stopped!Outcomes, Outcomes
<1> QED
  BY <1>1, <1>2, <1>3

(* One attempt instead of several changes what a claim, a start, a retry    *)
(* and a completion look at, and no other action.                           *)
LEMMA StoppedIsTags ==
    /\ \A j \in Jobs : /\ \A chosen : Stopped!Create(j, chosen) => Create(j, chosen)
                       /\ Stopped!RequestBatchCancel(j) => RequestBatchCancel(j)
                       /\ Stopped!RetryBatch(j) => RetryBatch(j)
    /\ \A i \in Items : /\ Stopped!EditTrack(i) => EditTrack(i)
                        /\ Stopped!LeaseLapses(i) => LeaseLapses(i)
                        /\ Stopped!RetryIsDue(i) => RetryIsDue(i)
    /\ \A w \in Workers : /\ Stopped!FinishBatch(w) => FinishBatch(w)
                          /\ Stopped!Close(w) => Close(w)
                          /\ Stopped!Crash(w) => Crash(w)
<1> USE DEF Stopped!ItemsOf, ItemsOf, Stopped!Active, Active
<1>0. \A record : Stopped!Requeued(record) = Requeued(record)
  BY Zenon DEF Stopped!Ended, Ended, Stopped!Requeued, Requeued
<1>1. \A j \in Jobs : \A chosen : Stopped!Create(j, chosen) => Create(j, chosen)
  BY Zenon DEF Stopped!Create, Create, Stopped!CreateBatch, CreateBatch, Stopped!ValidVersions, ValidVersions
<1>2. \A j \in Jobs : Stopped!RequestBatchCancel(j) => RequestBatchCancel(j)
  BY Zenon DEF Stopped!RequestBatchCancel, RequestBatchCancel
<1>3. \A j \in Jobs : Stopped!RetryBatch(j) => RetryBatch(j)
  <2> SUFFICES ASSUME NEW j \in Jobs, Stopped!RetryBatch(j) PROVE RetryBatch(j)
    OBVIOUS
  <2>1. [i \in Items |-> IF JobOf[i] = j /\ item[i].status = "FAILED"
                          THEN [Stopped!Requeued(item[i]) EXCEPT !.attempts = 0] ELSE item[i]]
        = [i \in Items |-> IF JobOf[i] = j /\ item[i].status = "FAILED"
                          THEN [Requeued(item[i]) EXCEPT !.attempts = 0] ELSE item[i]]
    BY <1>0
  <2> QED
    BY StoppedCounts, <2>1, Zenon DEF Stopped!RetryBatch, RetryBatch
<1>4. \A i \in Items : Stopped!EditTrack(i) => EditTrack(i)
  BY Zenon DEF Stopped!EditTrack, EditTrack
<1>5. \A i \in Items : Stopped!LeaseLapses(i) => LeaseLapses(i)
  BY Zenon DEF Stopped!LeaseLapses, LeaseLapses
<1>6. \A i \in Items : Stopped!RetryIsDue(i) => RetryIsDue(i)
  BY Zenon DEF Stopped!RetryIsDue, RetryIsDue
<1>7. \A w \in Workers : Stopped!FinishBatch(w) => FinishBatch(w)
  BY StoppedCounts, Zenon DEF Stopped!FinishBatch, FinishBatch
<1>8. \A w \in Workers : Stopped!Close(w) => Close(w)
  BY Zenon DEF Stopped!Close, Close
<1>9. \A w \in Workers : Stopped!Crash(w) => Crash(w)
  BY Zenon DEF Stopped!Crash, Crash, Stopped!NoClaims, NoClaims
<1> QED
  BY <1>1, <1>2, <1>3, <1>4, <1>5, <1>6, <1>7, <1>8, <1>9

LEMMA StoppedExecutesTags ==
    \A w \in Workers, i \in Items :
        /\ Stopped!SearchSources(w, i) => SearchSources(w, i)
        /\ Stopped!FetchLyricsAndCover(w, i) => FetchLyricsAndCover(w, i)
        /\ Stopped!UpdateMetadata(w, i) => UpdateMetadata(w, i)
        /\ Stopped!NothingToChange(w, i) => NothingToChange(w, i)
        /\ Stopped!EnqueueWriteback(w, i) => EnqueueWriteback(w, i)
        /\ Stopped!StopItem(w, i) => StopItem(w, i)
        /\ Stopped!ReleaseBatchItem(w, i) => ReleaseBatchItem(w, i)
        /\ Stopped!Heartbeat(w, i) => Heartbeat(w, i)
        /\ Stopped!OutcomeLost(w, i) => OutcomeLost(w, i)
<1> TAKE w \in Workers, i \in Items
<1> USE DEF Stopped!Now, Now, Stopped!Executing, Executing, Stopped!Fails, Fails,
            Stopped!FenceHolds, FenceHolds, Stopped!Owned, Owned, Stopped!Active, Active
<1>1. \A S : Stopped!Cardinality(S) = Cardinality(S)
  BY Zenon DEF Stopped!Cardinality, Cardinality
<1>2. Stopped!SearchSources(w, i) => SearchSources(w, i)
  BY <1>1, Zenon DEF Stopped!SearchSources, SearchSources
<1>3. Stopped!FetchLyricsAndCover(w, i) => FetchLyricsAndCover(w, i)
  BY Zenon DEF Stopped!FetchLyricsAndCover, FetchLyricsAndCover
<1>4. Stopped!UpdateMetadata(w, i) => UpdateMetadata(w, i)
  BY Zenon DEF Stopped!UpdateMetadata, UpdateMetadata, Stopped!Lock, Lock, Stopped!Written, Written
<1>5. Stopped!NothingToChange(w, i) => NothingToChange(w, i)
  BY Zenon DEF Stopped!NothingToChange, NothingToChange, Stopped!Written, Written
<1>6. Stopped!EnqueueWriteback(w, i) => EnqueueWriteback(w, i)
  BY Zenon DEF Stopped!EnqueueWriteback, EnqueueWriteback
<1>7. Stopped!StopItem(w, i) => StopItem(w, i)
  BY Zenon DEF Stopped!StopItem, StopItem
<1>8. Stopped!WindowDone(w) <=> WindowDone(w)
  BY Zenon DEF Stopped!WindowDone, WindowDone, Stopped!Held, Held, Stopped!Decisions, Decisions,
               Stopped!Outcomes, Outcomes
<1>9. Stopped!ReleaseBatchItem(w, i) => ReleaseBatchItem(w, i)
  BY <1>8, Zenon DEF Stopped!ReleaseBatchItem, ReleaseBatchItem, Stopped!Requeued, Requeued,
                     Stopped!Ended, Ended
<1>10. Stopped!Heartbeat(w, i) => Heartbeat(w, i)
  BY Zenon DEF Stopped!Heartbeat, Heartbeat, Stopped!RenewBatchItemLease, RenewBatchItemLease
<1>11. Stopped!OutcomeLost(w, i) => OutcomeLost(w, i)
  BY <1>8, Zenon DEF Stopped!OutcomeLost, OutcomeLost, Stopped!Held, Held
<1> QED
  BY <1>2, <1>3, <1>4, <1>5, <1>6, <1>7, <1>9, <1>10, <1>11

(* What a process holds of an item changes, the rows do not.                *)
HoldsAnother(w, i) ==
    /\ \E value \in Claims : Now(w, i, value)
    /\ track' \in [Items -> {"expected", "scraped", "edited"}]
    /\ UNCHANGED <<job, item, finish, up, stops>>

LEMMA ExecutionMoves ==
    ASSUME TagInv, NEW w \in Workers, NEW i \in Items,
           \/ SearchSources(w, i) \/ FetchLyricsAndCover(w, i) \/ UpdateMetadata(w, i)
           \/ NothingToChange(w, i) \/ EnqueueWriteback(w, i) \/ StopItem(w, i)
           \/ Heartbeat(w, i) \/ OutcomeLost(w, i)
    PROVE  TagInv'
<1> USE DEF Claims, Executing, Decisions, Outcomes
<1>1. claim[w][i] \in Claims /\ RestTyped /\ QueueFits(job, item)
  BY TagInvParts DEF RestTyped
<1>2. HoldsAnother(w, i)
  <2>1. CASE SearchSources(w, i)
    BY <1>1, <2>1 DEF HoldsAnother, SearchSources, RestTyped
  <2>2. CASE FetchLyricsAndCover(w, i)
    BY <1>1, <2>2 DEF HoldsAnother, FetchLyricsAndCover, RestTyped
  <2>3. CASE UpdateMetadata(w, i)
    BY <1>1, <2>3 DEF HoldsAnother, UpdateMetadata, RestTyped, Fails, Written
  <2>4. CASE NothingToChange(w, i)
    BY <1>1, <2>4 DEF HoldsAnother, NothingToChange, RestTyped, Written
  <2>5. CASE EnqueueWriteback(w, i)
    BY <1>1, <2>5 DEF HoldsAnother, EnqueueWriteback, RestTyped, Fails
  <2>6. CASE StopItem(w, i)
    BY <1>1, <2>6 DEF HoldsAnother, StopItem, RestTyped
  <2>7. CASE Heartbeat(w, i)
    BY <1>1, <2>7 DEF HoldsAnother, Heartbeat, RestTyped
  <2>8. CASE OutcomeLost(w, i)
    BY <1>1, <2>8 DEF HoldsAnother, OutcomeLost, RestTyped
  <2> QED
    BY <2>1, <2>2, <2>3, <2>4, <2>5, <2>6, <2>7, <2>8
<1>3. claim' \in [Workers -> [Items -> Claims]]
  BY <1>1, <1>2 DEF HoldsAnother, Now, RestTyped
<1>4. RestTyped' /\ job' = job /\ item' = item
  BY <1>1, <1>2, <1>3 DEF HoldsAnother, RestTyped
<1>5. QueueFits(job, item)'
  BY <1>1, <1>4
<1> QED
  BY <1>4, <1>5, TagInvPartsAfter

(* The clock, the edits and the processes that go away.                     *)
LEMMA SurroundingMoves ==
    ASSUME TagInv,
           \/ \E i \in Items : EditTrack(i) \/ LeaseLapses(i) \/ RetryIsDue(i)
           \/ \E w \in Workers : Close(w) \/ Crash(w)
    PROVE  TagInv'
<1>1. RestTyped /\ QueueFits(job, item)
  BY TagInvParts
<1>2. \A i \in Items : ItemFits(item[i]) /\ item[i] \in ItemRecords
  BY <1>1 DEF QueueFits, ItemFits
<1>3. ASSUME NEW i \in Items, EditTrack(i) PROVE TagInv'
  <2>1. RestTyped' /\ job' = job /\ item' = item
    BY <1>1, <1>3 DEF EditTrack, RestTyped
  <2> QED
    BY <1>1, <2>1, TagInvPartsAfter
<1>4. ASSUME NEW i \in Items, LeaseLapses(i) \/ RetryIsDue(i) PROVE TagInv'
  <2>1. RestTyped' /\ job' = job
    BY <1>1, <1>4 DEF LeaseLapses, RetryIsDue, RestTyped
  <2>2. PICK record : /\ record \in {[item[i] EXCEPT !.live = FALSE], [item[i] EXCEPT !.due = TRUE]}
                      /\ item' = [item EXCEPT ![i] = record]
    BY <1>4, Zenon DEF LeaseLapses, RetryIsDue
  <2>3. ItemFits(record) /\ record.status = item[i].status
    BY <1>2, <2>2 DEF ItemFits, ItemRecords
  <2>4. item' = [k \in Items |-> item'[k]]
    BY <1>1, <2>2 DEF QueueFits
  <2>5. \A k \in Items : ItemFits(item'[k]) /\ item'[k].status = item[k].status
    BY <1>1, <1>2, <2>2, <2>3 DEF QueueFits
  <2>6. QueueFits(job, item)'
    BY ONLY <1>1, <2>1, <2>4, <2>5, UncountedMoves
  <2> QED
    BY <2>1, <2>6, TagInvPartsAfter
<1>5. ASSUME NEW w \in Workers, Close(w) PROVE TagInv'
  <2>1. RestTyped' /\ job' = job /\ item' = item
    BY <1>1, <1>5, QueueAssumption DEF Close, RestTyped
  <2> QED
    BY <1>1, <2>1, TagInvPartsAfter
<1>6. ASSUME NEW w \in Workers, Crash(w) PROVE TagInv'
  <2>1. RestTyped' /\ job' = job
    BY <1>1, <1>6, QueueAssumption DEF Crash, RestTyped, NoClaims, Claims
  <2>2. item' = [i \in Items |-> IF item[i].owner = w THEN [item[i] EXCEPT !.owner = Dead] ELSE item[i]]
    BY <1>6 DEF Crash
  <2>3. \A i \in Items : ItemFits(item'[i]) /\ item'[i].status = item[i].status
    <3> TAKE i \in Items
    <3>1. w # None
      BY QueueAssumption
    <3> QED
      BY <1>2, <2>2, <3>1 DEF ItemFits, ItemRecords
  <2>4. QueueFits(job, item)'
    BY ONLY <1>1, <2>1, <2>2, <2>3, UncountedMoves
  <2> QED
    BY <2>1, <2>4, TagInvPartsAfter
<1> QED
  BY <1>3, <1>4, <1>5, <1>6

(* Items that are released or put off run no longer; nothing is counted.    *)
LEMMA PutBackMoves ==
    ASSUME TagInv, NEW w \in Workers, NEW i \in Items,
           \E value \in {"none", "SKIPPED"} : Now(w, i, value),
           UNCHANGED <<job, track, finish, up, stops>>,
           \/ item' = item
           \/ /\ item[i].status = "RUNNING"
              /\ \/ item' = [item EXCEPT ![i] = [Requeued(item[i]) EXCEPT !.attempts = @ - 1]]
                 \/ item' = [item EXCEPT ![i] = [Ended(item[i], "PENDING") EXCEPT !.due = FALSE]]
    PROVE  TagInv'
<1>1. RestTyped /\ QueueFits(job, item)
  BY TagInvParts
<1>2. RestTyped' /\ job' = job
  BY <1>1 DEF RestTyped, Now, Claims, Decisions, Outcomes
<1>3. CASE item' = item
  BY <1>1, <1>2, <1>3, TagInvPartsAfter
<1>4. CASE item' # item
  <2>1. ItemFits(item[i]) /\ item[i] \in ItemRecords /\ item[i].status = "RUNNING" /\ item[i].attempts > 0
    BY <1>1, <1>4 DEF QueueFits, ItemFits
  <2>2. ItemFits([Requeued(item[i]) EXCEPT !.attempts = @ - 1])
        /\ Active([Requeued(item[i]) EXCEPT !.attempts = @ - 1])
    <3>1. Requeued(item[i]) \in ItemRecords /\ Requeued(item[i]).status = "PENDING"
          /\ Requeued(item[i]).owner = None /\ Requeued(item[i]).attempts = item[i].attempts
      BY <2>1, RequeuedFits
    <3> DEFINE used == Requeued(item[i]).attempts - 1
    <3>2. used \in 0..MaxAttempts
      BY <2>1, <3>1, QueueAssumption DEF ItemRecords
    <3> HIDE DEF used
    <3>3. [Requeued(item[i]) EXCEPT !.attempts = used] \in ItemRecords
      BY ONLY <3>1, <3>2 DEF ItemRecords
    <3>4. [Requeued(item[i]) EXCEPT !.attempts = used].status = "PENDING"
          /\ [Requeued(item[i]) EXCEPT !.attempts = used].owner = None
      BY ONLY <3>1 DEF ItemRecords
    <3> QED
      BY <3>3, <3>4, Zenon DEF used, ItemFits, Active
  <2>3. ItemFits([Ended(item[i], "PENDING") EXCEPT !.due = FALSE])
        /\ Active([Ended(item[i], "PENDING") EXCEPT !.due = FALSE])
    <3>1. Ended(item[i], "PENDING") \in ItemRecords /\ Ended(item[i], "PENDING").status = "PENDING"
          /\ Ended(item[i], "PENDING").owner = None
      BY <2>1, EndedFits DEF ItemStatuses
    <3> QED
      BY ONLY <3>1 DEF ItemFits, ItemRecords, Active
  <2>4. PICK record : ItemFits(record) /\ Active(record) /\ item' = [item EXCEPT ![i] = record]
    BY <1>4, <2>2, <2>3, Zenon
  <2>5. item' = [k \in Items |-> item'[k]] /\ Active(item[i])
    BY <1>1, <2>1, <2>4 DEF QueueFits, Active
  <2>6. \A k \in Items : /\ ItemFits(item'[k])
                         /\ \/ item'[k].status = item[k].status
                            \/ Active(item[k]) /\ Active(item'[k])
    BY <1>1, <2>4, <2>5 DEF QueueFits
  <2>7. QueueFits(job, item)'
    BY ONLY <1>1, <1>2, <2>5, <2>6, UncountedMoves
  <2> QED
    BY <1>2, <2>7, TagInvPartsAfter
<1> QED
  BY <1>3, <1>4

(* The claim of a process with any number of attempts up to the bound: the  *)
(* oldest job with something to do, what it recovered and what it takes.    *)
ClaimTakes(w, j, rec, taken) ==
    /\ Active(job[j]) /\ Recovers(rec, {j})
    /\ \A i \in taken : rec[i].status = "PENDING" /\ rec[i].attempts < MaxAttempts
    /\ LET counted == IF rec = item THEN job[j] ELSE recountBatch(job[j], rec, j)
       IN  \/ /\ finish' = [finish EXCEPT ![w] = j] /\ claim' = claim
              /\ job' = [job EXCEPT ![j] = counted]
              /\ item' = rec \/ (job[j].cancel /\ item' = skipCancelledItems(rec, j))
           \/ /\ finish' = finish /\ ~job[j].cancel
              /\ claim' = [claim EXCEPT ![w] =
                     [i \in Items |-> IF i \in taken THEN "queued" ELSE "none"]]
              /\ job' = [job EXCEPT ![j] = [counted EXCEPT !.status = "RUNNING"]]
              /\ item' = [i \in Items |->
                     IF i \in taken
                     THEN [rec[i] EXCEPT !.status = "RUNNING", !.attempts = @ + 1,
                                         !.owner = w, !.live = TRUE]
                     ELSE rec[i]]

ClaimShape(w) ==
    \E j \in Jobs : \E rec : \E taken \in SUBSET ItemsOf(j) : ClaimTakes(w, j, rec, taken)

LEMMA ClaimShapeMoves ==
    ASSUME TagInv, NEW w \in Workers, ClaimShape(w), UNCHANGED <<track, up, stops>>
    PROVE  TagInv'
<1>1. RestTyped /\ QueueFits(job, item)
  BY TagInvParts
<1>2. PICK j \in Jobs : \E rec : \E taken \in SUBSET ItemsOf(j) : ClaimTakes(w, j, rec, taken)
  BY DEF ClaimShape
<1>3. PICK rec : \E taken \in SUBSET ItemsOf(j) : ClaimTakes(w, j, rec, taken)
  BY <1>2
<1>4. PICK taken \in SUBSET ItemsOf(j) : ClaimTakes(w, j, rec, taken)
  BY <1>3
<1> DEFINE counted == IF rec = item THEN job[j] ELSE recountBatch(job[j], rec, j)
<1>5. RestTyped'
  <2>1. claim' \in [Workers -> [Items -> Claims]]
    <3>1. [i \in Items |-> IF i \in taken THEN "queued" ELSE "none"] \in [Items -> Claims]
      BY DEF Claims
    <3> HIDE DEF counted
    <3>2. \/ claim' = claim
          \/ claim' = [claim EXCEPT ![w] = [i \in Items |-> IF i \in taken THEN "queued" ELSE "none"]]
      BY <1>4, Zenon DEF ClaimTakes
    <3> QED
      BY <1>1, <3>1, <3>2 DEF RestTyped
  <2>2. finish' = finish \/ finish' = [finish EXCEPT ![w] = j]
    BY <1>4, Zenon DEF ClaimTakes
  <2> QED
    BY <1>1, <2>1, <2>2 DEF RestTyped
<1>6. CASE /\ job' = [job EXCEPT ![j] = counted]
           /\ item' = rec \/ (job[j].cancel /\ item' = skipCancelledItems(rec, j))
  <2>1. QueueFits(job, item)'
    BY <1>1, <1>4, <1>6, EmptyClaimMoves, Zenon DEF ClaimTakes
  <2> QED
    BY <1>5, <2>1, TagInvPartsAfter
<1>7. CASE /\ ~job[j].cancel /\ job' = [job EXCEPT ![j] = [counted EXCEPT !.status = "RUNNING"]]
           /\ item' = [i \in Items |->
                         IF i \in taken
                         THEN [rec[i] EXCEPT !.status = "RUNNING", !.attempts = @ + 1,
                                             !.owner = w, !.live = TRUE]
                         ELSE rec[i]]
  <2>1. QueueFits(job, item)'
    BY <1>1, <1>4, <1>7, ClaimMoves, Zenon DEF ClaimTakes
  <2> QED
    BY <1>5, <2>1, TagInvPartsAfter
<1> QED
  BY <1>4, <1>6, <1>7, Zenon DEF ClaimTakes

(* A claim takes a part of what it may take.                                *)
LEMMA ClaimIsShaped ==
    ASSUME TagInv, NEW w \in Workers, ClaimBatchItems(w)
    PROVE  ClaimShape(w)
<1> DEFINE j == Min(ClaimableJobs)
           rec == recoverExpiredBatchItems(item, {j})
           free == {i \in ItemsOf(j) : Claimable(rec[i])}
           taken == IF job[j].cancel THEN {} ELSE Earliest(free)
<1>1. j \in Jobs /\ Active(job[j])
  <2>1. ClaimableJobs \subseteq Nat /\ ClaimableJobs # {}
    BY QueueAssumption DEF ClaimBatchItems, ClaimableJobs
  <2>2. j \in ClaimableJobs
    BY <2>1, LeastIsIn
  <2> QED
    BY <2>2 DEF ClaimableJobs
<1> HIDE DEF j
<1>2. Recovers(rec, {j})
  BY RecoveryShape
<1>3. rec \in [Items -> ItemRecords]
  <2>1. QueueFits(job, item)
    BY DEF TagInv
  <2>2. \A i \in Items : rec[i] \in ItemRecords
    BY <1>2, <2>1, RecoveryFits DEF ItemFits
  <2> QED
    BY <1>2, <2>2 DEF Recovers
<1>4. taken \subseteq free
  BY DEF Earliest
<1>5. taken \in SUBSET ItemsOf(j) /\ \A i \in taken : Claimable(rec[i])
  BY <1>4
<1> HIDE DEF rec, taken, free
<1>6. \A i \in taken : rec[i].status = "PENDING" /\ rec[i].attempts < MaxAttempts
  <2> TAKE i \in taken
  <2>1. i \in Items /\ Claimable(rec[i])
    BY <1>5 DEF ItemsOf
  <2>2. rec[i].attempts \in Int /\ MaxAttempts \in Int
    BY <1>3, <2>1, QueueAssumption DEF ItemRecords
  <2> QED
    BY <2>1, <2>2 DEF Claimable, Exhausted
<1>7. LET counted == IF rec = item THEN job[j] ELSE recountBatch(job[j], rec, j)
      IN  IF taken = {}
          THEN /\ finish' = [finish EXCEPT ![w] = j]
               /\ item' = IF job[j].cancel THEN skipCancelledItems(rec, j) ELSE rec
               /\ job' = [job EXCEPT ![j] = counted]
               /\ UNCHANGED claim
          ELSE /\ item' = [i \in Items |->
                    IF i \in taken
                    THEN [rec[i] EXCEPT !.status = "RUNNING", !.attempts = @ + 1,
                                        !.owner = w, !.live = TRUE]
                    ELSE rec[i]]
               /\ job' = [job EXCEPT ![j] = [counted EXCEPT !.status = "RUNNING"]]
               /\ claim' = [claim EXCEPT ![w] =
                    [i \in Items |-> IF i \in taken THEN "queued" ELSE "none"]]
               /\ UNCHANGED finish
  BY Zenon DEF ClaimBatchItems, j, rec, taken, free
<1>8. taken # {} => ~job[j].cancel
  BY DEF taken
<1>9. ClaimTakes(w, j, rec, taken)
  BY <1>1, <1>2, <1>6, <1>7, <1>8, Zenon DEF ClaimTakes
<1> QED
  BY <1>1, <1>5, <1>9, Zenon DEF ClaimShape

LEMMA StoppedClaimIsShaped ==
    ASSUME TagInv, NEW w \in Workers, Stopped!ClaimBatchItems(w)
    PROVE  ClaimShape(w)
<1> DEFINE j == Stopped!Min(Stopped!ClaimableJobs)
           rec == Stopped!recoverExpiredBatchItems(item, {j})
           free == {i \in Stopped!ItemsOf(j) : Stopped!Claimable(rec[i])}
           taken == IF job[j].cancel THEN {} ELSE Stopped!Earliest(free)
<1>1. j \in Jobs /\ Active(job[j])
  <2>1. Stopped!ClaimableJobs \subseteq Nat /\ Stopped!ClaimableJobs # {}
    BY QueueAssumption DEF Stopped!ClaimBatchItems, Stopped!ClaimableJobs
  <2>2. j = Min(Stopped!ClaimableJobs)
    BY Zenon DEF Stopped!Min, Min
  <2>3. j \in Stopped!ClaimableJobs
    BY <2>1, <2>2, LeastIsIn
  <2> QED
    BY <2>3 DEF Stopped!ClaimableJobs, Stopped!Active, Active
<1> HIDE DEF j
<1>2. Recovers(rec, {j})
  BY RecoveryShape
<1>3. rec \in [Items -> ItemRecords]
  <2>1. QueueFits(job, item)
    BY DEF TagInv
  <2>2. \A i \in Items : rec[i] \in ItemRecords
    BY <1>2, <2>1, RecoveryFits DEF ItemFits
  <2> QED
    BY <1>2, <2>2 DEF Recovers
<1>4. taken \subseteq free
  BY DEF Stopped!Earliest
<1>5. taken \in SUBSET ItemsOf(j) /\ \A i \in taken : Stopped!Claimable(rec[i])
  BY <1>4 DEF Stopped!ItemsOf, ItemsOf
<1> HIDE DEF rec, taken, free
<1>6. \A i \in taken : rec[i].status = "PENDING" /\ rec[i].attempts < MaxAttempts
  <2> TAKE i \in taken
  <2>1. i \in Items /\ Stopped!Claimable(rec[i])
    BY <1>5 DEF ItemsOf
  <2>2. rec[i].attempts \in Int /\ MaxAttempts \in Nat \ {0}
    BY <1>3, <2>1, QueueAssumption DEF ItemRecords
  <2> QED
    BY <2>1, <2>2 DEF Stopped!Claimable, Stopped!Exhausted
<1>7. LET counted == IF rec = item THEN job[j] ELSE Stopped!recountBatch(job[j], rec, j)
      IN  IF taken = {}
          THEN /\ finish' = [finish EXCEPT ![w] = j]
               /\ item' = IF job[j].cancel THEN Stopped!skipCancelledItems(rec, j) ELSE rec
               /\ job' = [job EXCEPT ![j] = counted]
               /\ UNCHANGED claim
          ELSE /\ item' = [i \in Items |->
                    IF i \in taken
                    THEN [rec[i] EXCEPT !.status = "RUNNING", !.attempts = @ + 1,
                                        !.owner = w, !.live = TRUE]
                    ELSE rec[i]]
               /\ job' = [job EXCEPT ![j] = [counted EXCEPT !.status = "RUNNING"]]
               /\ claim' = [claim EXCEPT ![w] =
                    [i \in Items |-> IF i \in taken THEN "queued" ELSE "none"]]
               /\ UNCHANGED finish
  BY Zenon DEF Stopped!ClaimBatchItems, j, rec, taken, free
<1>8. taken # {} => ~job[j].cancel
  BY DEF taken
<1>9. Stopped!recountBatch(job[j], rec, j) = recountBatch(job[j], rec, j)
  BY StoppedCounts
<1>10. Stopped!skipCancelledItems(rec, j) = skipCancelledItems(rec, j)
  BY Zenon DEF Stopped!skipCancelledItems, skipCancelledItems, Stopped!Expired, Expired,
               Stopped!Ended, Ended
<1>11. ClaimTakes(w, j, rec, taken)
  <2>1. CASE taken = {}
    <3>1. finish' = [finish EXCEPT ![w] = j] /\ claim' = claim
          /\ job' = [job EXCEPT ![j] = IF rec = item THEN job[j] ELSE recountBatch(job[j], rec, j)]
          /\ item' = IF job[j].cancel THEN skipCancelledItems(rec, j) ELSE rec
      BY <1>7, <1>9, <1>10, <2>1
    <3> QED
      BY <1>1, <1>2, <1>6, <3>1, Zenon DEF ClaimTakes
  <2>2. CASE taken # {}
    <3>1. /\ finish' = finish
          /\ job' = [job EXCEPT ![j] = [(IF rec = item THEN job[j] ELSE recountBatch(job[j], rec, j))
                                           EXCEPT !.status = "RUNNING"]]
      BY <1>7, <1>9, <2>2
    <3>2. /\ item' = [i \in Items |->
                    IF i \in taken
                    THEN [rec[i] EXCEPT !.status = "RUNNING", !.attempts = @ + 1,
                                        !.owner = w, !.live = TRUE]
                    ELSE rec[i]]
          /\ claim' = [claim EXCEPT ![w] =
                    [i \in Items |-> IF i \in taken THEN "queued" ELSE "none"]]
      BY <1>7, <2>2, Zenon
    <3> QED
      BY <1>1, <1>2, <1>6, <1>8, <2>2, <3>1, <3>2, Zenon DEF ClaimTakes
  <2> QED
    BY <2>1, <2>2
<1> QED
  BY <1>1, <1>5, <1>11, Zenon DEF ClaimShape

LEMMA StartFits ==
    ASSUME TagInv, NEW w \in Workers, Start(w) \/ Stopped!Start(w)
    PROVE  TagInv'
<1>1. RestTyped /\ QueueFits(job, item)
  BY TagInvParts
<1>2. up' = [up EXCEPT ![w] = TRUE] /\ UNCHANGED <<track, claim, finish, stops>>
  BY DEF Start, Stopped!Start
<1>3. RestTyped'
  BY <1>1, <1>2 DEF RestTyped
<1>4. CASE Start(w)
  <2> DEFINE rec == recoverExpiredBatchItems(item, Jobs)
  <2>1. Recovers(rec, Jobs)
    BY RecoveryShape
  <2>2. item' = [i \in Items |-> IF rec[i].owner = w
                                 THEN [rec[i] EXCEPT !.owner = Dead] ELSE rec[i]]
    BY <1>4, Zenon DEF Start
  <2>3. job' = [j \in Jobs |-> IF \E i \in ItemsOf(j) : rec[i] # item[i]
                               THEN recountBatch(job[j], rec, j) ELSE job[j]]
    BY <1>4, Zenon DEF Start
  <2> HIDE DEF rec
  <2>4. QueueFits(job, item)'
    BY <1>1, <2>1, <2>2, <2>3, StartMoves, Zenon
  <2> QED
    BY <1>3, <2>4, TagInvPartsAfter
<1>5. CASE Stopped!Start(w)
  <2> DEFINE rec == Stopped!recoverExpiredBatchItems(item, Jobs)
  <2>1. Recovers(rec, Jobs)
    BY RecoveryShape
  <2>2. item' = [i \in Items |-> IF rec[i].owner = w
                                 THEN [rec[i] EXCEPT !.owner = Dead] ELSE rec[i]]
    BY <1>5, Zenon DEF Stopped!Start
  <2>3. job' = [j \in Jobs |-> IF \E i \in ItemsOf(j) : rec[i] # item[i]
                               THEN Stopped!recountBatch(job[j], rec, j) ELSE job[j]]
    BY <1>5, Zenon DEF Stopped!Start, Stopped!ItemsOf, ItemsOf
  <2> HIDE DEF rec
  <2>4. job' = [j \in Jobs |-> IF \E i \in ItemsOf(j) : rec[i] # item[i]
                               THEN recountBatch(job[j], rec, j) ELSE job[j]]
    BY <2>3, StoppedCounts
  <2>5. QueueFits(job, item)'
    BY <1>1, <2>1, <2>2, <2>4, StartMoves, Zenon
  <2> QED
    BY <1>3, <2>5, TagInvPartsAfter
<1> QED
  BY <1>4, <1>5

(* The items that are released or put off at the end of a window.           *)
LEMMA PutBackFits ==
    ASSUME TagInv, NEW w \in Workers, NEW i \in Items,
           ReleaseBatchItem(w, i) \/ RetryBatchItem(w, i) \/ Stopped!RetryBatchItem(w, i)
    PROVE  TagInv'
<1>1. CASE ReleaseBatchItem(w, i)
  <2>1. UNCHANGED <<job, track, finish, up, stops>> /\ Now(w, i, "none")
    BY <1>1 DEF ReleaseBatchItem
  <2>2. \/ item' = item
        \/ /\ item[i].status = "RUNNING"
           /\ item' = [item EXCEPT ![i] = [Requeued(item[i]) EXCEPT !.attempts = @ - 1]]
    BY <1>1, Zenon DEF ReleaseBatchItem
  <2> QED
    BY <2>1, <2>2, PutBackMoves, Zenon
<1>2. CASE RetryBatchItem(w, i)
  <2>1. UNCHANGED <<job, track, finish, up, stops>> /\ \E value \in {"none", "SKIPPED"} : Now(w, i, value)
    BY <1>2 DEF RetryBatchItem
  <2>2. \/ item' = item
        \/ /\ item[i].status = "RUNNING"
           /\ item' = [item EXCEPT ![i] = [Ended(item[i], "PENDING") EXCEPT !.due = FALSE]]
    BY <1>2, Zenon DEF RetryBatchItem, FenceHolds, Owned
  <2> QED
    BY <2>1, <2>2, PutBackMoves, Zenon
<1>3. CASE Stopped!RetryBatchItem(w, i)
  <2>1. UNCHANGED <<job, track, finish, up, stops>> /\ \E value \in {"none", "SKIPPED"} : Now(w, i, value)
    BY <1>3 DEF Stopped!RetryBatchItem, Stopped!Now, Now
  <2>2. \/ item' = item
        \/ /\ item[i].status = "RUNNING"
           /\ item' = [item EXCEPT ![i] = [Ended(item[i], "PENDING") EXCEPT !.due = FALSE]]
    BY <1>3, Zenon DEF Stopped!RetryBatchItem, Stopped!FenceHolds, Stopped!Owned, Stopped!Ended, Ended
  <2> QED
    BY <2>1, <2>2, PutBackMoves, Zenon
<1> QED
  BY <1>1, <1>2, <1>3

(* The items of a window are completed together, or one by one.             *)
LEMMA CompleteFits ==
    ASSUME TagInv, NEW w \in Workers, NEW j \in Jobs, NEW done \in SUBSET ItemsOf(j),
           \A i \in done : claim[w][i] \in Decisions \ {"RELEASE"},
           Complete(w, j, done), UNCHANGED <<track, finish, up, stops>>
    PROVE  TagInv'
<1>1. RestTyped /\ QueueFits(job, item)
  BY TagInvParts
<1>2. claim' = [claim EXCEPT ![w] = [i \in Items |-> IF i \in done THEN "none" ELSE @[i]]]
  BY Zenon DEF Complete
<1>3. [i \in Items |-> IF i \in done THEN "none" ELSE claim[w][i]] \in [Items -> Claims]
  BY <1>1 DEF RestTyped, Claims
<1>4. RestTyped'
  BY <1>1, <1>2, <1>3 DEF RestTyped
<1>5. QueueFits(job, item)'
  BY <1>1, CompleteMoves
<1> QED
  BY <1>4, <1>5, TagInvPartsAfter

LEMMA StoppedCompletes ==
    ASSUME NEW w, NEW j, NEW done, Stopped!Complete(w, j, done)
    PROVE  Complete(w, j, done)
<1>1. \A i \in done : Stopped!FenceHolds(w, i) <=> FenceHolds(w, i)
  BY Zenon DEF Stopped!FenceHolds, FenceHolds, Stopped!Owned, Owned, Stopped!Active, Active
<1>2. \A i : Stopped!Outcome(w, i) = Outcome(w, i)
  BY Zenon DEF Stopped!Outcome, Outcome
<1>3. \A record, status : Stopped!Ended(record, status) = Ended(record, status)
  BY Zenon DEF Stopped!Ended, Ended
<1>4. {i \in done : Stopped!FenceHolds(w, i)} = {i \in done : FenceHolds(w, i)}
  BY <1>1
<1> DEFINE kept == {i \in done : FenceHolds(w, i)}
           Outs(result) == {i \in kept : Stopped!Outcome(w, i) = result}
<1>5. \A result : Outs(result) = {i \in kept : Outcome(w, i) = result}
  BY <1>2
<1>6. item' = [i \in Items |-> IF i \in kept THEN Ended(item[i], Outcome(w, i)) ELSE item[i]]
  <2>1. item' = [i \in Items |-> IF i \in {k \in done : Stopped!FenceHolds(w, k)}
                                THEN Stopped!Ended(item[i], Stopped!Outcome(w, i)) ELSE item[i]]
    BY Zenon DEF Stopped!Complete
  <2>2. item' = [i \in Items |-> IF i \in kept
                                THEN Stopped!Ended(item[i], Stopped!Outcome(w, i)) ELSE item[i]]
    BY <1>4, <2>1, Zenon
  <2> HIDE DEF kept
  <2> QED
    BY ONLY <1>2, <1>3, <2>2
<1>7. job' = [job EXCEPT ![j].processed = @ + Cardinality(kept),
                         ![j].succeeded = @ + Cardinality({i \in kept : Outcome(w, i) = "SUCCEEDED"}),
                         ![j].failed = @ + Cardinality({i \in kept : Outcome(w, i) = "FAILED"})]
  <2>1. job' = [job EXCEPT ![j].processed = @ + Stopped!Cardinality(kept),
                           ![j].succeeded = @ + Stopped!Cardinality(Outs("SUCCEEDED")),
                           ![j].failed = @ + Stopped!Cardinality(Outs("FAILED"))]
    BY <1>4, Zenon DEF Stopped!Complete
  <2> HIDE DEF Outs, kept
  <2> QED
    BY <1>5, <2>1, StoppedCounts, Zenon
<1>8. claim' = [claim EXCEPT ![w] = [i \in Items |-> IF i \in done THEN "none" ELSE @[i]]]
  BY Zenon DEF Stopped!Complete
<1> QED
  BY <1>6, <1>7, <1>8, Zenon DEF Complete

LEMMA CompletionsFit ==
    ASSUME TagInv, NEW w \in Workers,
           \/ CompleteBatchItems(w) \/ Stopped!CompleteBatchItems(w)
           \/ \E i \in Items : CompleteBatchItem(w, i) \/ Stopped!CompleteBatchItem(w, i)
    PROVE  TagInv'
<1> USE DEF Stopped!ItemsOf, ItemsOf, Stopped!Held, Held, Stopped!WindowDone, WindowDone,
            Stopped!Decisions, Decisions, Stopped!Outcomes, Outcomes
<1>1. ReadyToComplete(w) \/ Stopped!ReadyToComplete(w)
  BY DEF CompleteBatchItems, Stopped!CompleteBatchItems, CompleteBatchItem, Stopped!CompleteBatchItem
<1>2. \A i \in Held(w) : claim[w][i] \in Decisions \ {"RELEASE"}
  BY <1>1 DEF ReadyToComplete, Stopped!ReadyToComplete
<1>3. CASE CompleteBatchItems(w)
  <2>1. PICK j \in Jobs : Held(w) \subseteq ItemsOf(j) /\ Complete(w, j, Held(w))
    BY <1>3, Zenon DEF CompleteBatchItems
  <2>2. UNCHANGED <<track, finish, up, stops>>
    BY <1>3, Zenon DEF CompleteBatchItems
  <2> QED
    BY ONLY TagInv, w \in Workers, <1>2, <2>1, <2>2, CompleteFits
<1>4. CASE Stopped!CompleteBatchItems(w)
  <2>1. PICK j \in Jobs : Held(w) \subseteq ItemsOf(j) /\ Stopped!Complete(w, j, Held(w))
    BY <1>4, Zenon DEF Stopped!CompleteBatchItems
  <2>2. UNCHANGED <<track, finish, up, stops>>
    BY <1>4, Zenon DEF Stopped!CompleteBatchItems
  <2>3. Complete(w, j, Held(w))
    BY <2>1, StoppedCompletes
  <2> QED
    BY ONLY TagInv, w \in Workers, <1>2, <2>1, <2>2, <2>3, CompleteFits
<1>5. ASSUME NEW i \in Items, CompleteBatchItem(w, i) \/ Stopped!CompleteBatchItem(w, i)
      PROVE  TagInv'
  <2>1. i \in Held(w) /\ UNCHANGED <<track, finish, up, stops>>
    BY <1>5, Zenon DEF CompleteBatchItem, Stopped!CompleteBatchItem
  <2>2. Complete(w, JobOf[i], {i})
    BY <1>5, StoppedCompletes, Zenon DEF CompleteBatchItem, Stopped!CompleteBatchItem
  <2>3. JobOf[i] \in Jobs /\ {i} \in SUBSET ItemsOf(JobOf[i])
    BY QueueAssumption
  <2>4. \A k \in {i} : claim[w][k] \in Decisions \ {"RELEASE"}
    BY <1>2, <2>1
  <2> QED
    BY ONLY TagInv, w \in Workers, <2>1, <2>2, <2>3, <2>4, CompleteFits
<1> QED
  BY <1>3, <1>4, <1>5

(* Administrators, and a process that finishes a job.                       *)
LEMMA JobMovesFit ==
    ASSUME TagInv,
           \/ \E j \in Jobs : \/ \E chosen \in SUBSET ItemsOf(j) : Create(j, chosen)
                              \/ RequestBatchCancel(j) \/ RetryBatch(j)
           \/ \E w \in Workers : FinishBatch(w)
    PROVE  TagInv'
<1>1. RestTyped /\ QueueFits(job, item) /\ TypeOK
  BY TagInvParts DEF TagInv
<1>2. ASSUME NEW j \in Jobs, NEW chosen \in SUBSET ItemsOf(j), Create(j, chosen) PROVE TagInv'
  <2>1. QueueFits(job, item)'
    BY <1>1, <1>2, CreateMoves
  <2>2. RestTyped'
    BY <1>1, <1>2 DEF Create, RestTyped
  <2> QED
    BY <2>1, <2>2, TagInvPartsAfter
<1>3. ASSUME NEW j \in Jobs, RequestBatchCancel(j) PROVE TagInv'
  <2>1. QueueFits(job, item)'
    BY <1>1, <1>3, CancelMoves
  <2>2. RestTyped'
    BY <1>1, <1>3 DEF RequestBatchCancel, RestTyped
  <2> QED
    BY <2>1, <2>2, TagInvPartsAfter
<1>4. ASSUME NEW j \in Jobs, RetryBatch(j) PROVE TagInv'
  <2>1. QueueFits(job, item)'
    BY <1>1, <1>4, RetryMoves
  <2>2. RestTyped'
    BY <1>1, <1>4 DEF RetryBatch, RestTyped
  <2> QED
    BY <2>1, <2>2, TagInvPartsAfter
<1>5. ASSUME NEW w \in Workers, FinishBatch(w) PROVE TagInv'
  <2>1. QueueFits(job, item)'
    BY <1>1, <1>5, FinishMoves
  <2>2. UNCHANGED <<track, claim, up, stops>> /\ finish' = [finish EXCEPT ![w] = None]
    BY <1>5 DEF FinishBatch
  <2>3. RestTyped'
    BY <1>1, <2>2 DEF RestTyped
  <2> QED
    BY <2>1, <2>3, TagInvPartsAfter
<1> QED
  BY <1>2, <1>3, <1>4, <1>5

-----------------------------------------------------------------------------
(* Every step keeps the invariant of the batches of tags                     *)

LEMMA TagInit ==
    ASSUME Init PROVE TagInv
<1> USE QueueAssumption
<1>1. \A j \in Jobs : job[j] = NewJob /\ NewJob \in JobRecords
  BY DEF Init, NewJob, JobRecords, JobStatuses
<1>2. \A i \in Items : item[i] = NewItem /\ NewItem \in ItemRecords
  BY DEF Init, NewItem, ItemRecords, ItemStatuses
<1>3. job = [j \in Jobs |-> job[j]] /\ item = [i \in Items |-> item[i]]
  BY DEF Init
<1>4. RestTyped
  BY DEF Init, RestTyped, NoClaims, Claims
<1>5. \A j \in Jobs : JobFits(job[j], item, j)
  <2> TAKE j \in Jobs
  <2>1. \A i \in ItemsOf(j) : item[i].status = "ABSENT"
    BY <1>2 DEF ItemsOf, NewItem
  <2>2. \A S \in SUBSET Outcomes : CountOf(item, j, S) = 0
    <3> TAKE S \in SUBSET Outcomes
    <3>1. {i \in ItemsOf(j) : item[i].status \in S} = {}
      BY <2>1 DEF Outcomes
    <3> QED
      BY <3>1, FS_EmptySet DEF CountOf
  <2>3. Counted(NewJob, item, j)
    BY <2>2 DEF Counted, NewJob, Outcomes
  <2> QED
    BY <1>1, <2>1, <2>3 DEF JobFits, JobSpans, Active
<1>6. \A i \in Items : ItemFits(item[i])
  BY <1>2 DEF ItemFits, NewItem
<1> QED
  BY <1>3, <1>4, <1>5, <1>6, TagInvParts DEF QueueFits

LEMMA TagStep ==
    ASSUME TagInv, [Next]_tagVars PROVE TagInv'
<1>1. CASE UNCHANGED tagVars
  BY <1>1, TagInvParts, TagInvPartsAfter DEF tagVars, RestTyped, QueueFits
<1>2. CASE \E j \in Jobs : \/ \E chosen \in SUBSET ItemsOf(j) : Create(j, chosen)
                           \/ RequestBatchCancel(j) \/ RetryBatch(j)
  BY <1>2, JobMovesFit
<1>3. CASE \E i \in Items : EditTrack(i) \/ LeaseLapses(i) \/ RetryIsDue(i)
  BY <1>3, SurroundingMoves
<1>4. ASSUME NEW w \in Workers, Work(w) \/ Close(w) \/ Crash(w) PROVE TagInv'
  <2>1. CASE ClaimBatchItems(w)
    <3>1. ClaimShape(w)
      BY <2>1, ClaimIsShaped
    <3>2. UNCHANGED <<track, up, stops>>
      BY <2>1, Zenon DEF ClaimBatchItems
    <3> QED
      BY <3>1, <3>2, ClaimShapeMoves
  <2> QED
    BY <1>4, <2>1, JobMovesFit, CompletionsFit, StartFits, SurroundingMoves DEF Work
<1>5. ASSUME NEW w \in Workers, NEW i \in Items,
             \/ Execute(w, i) \/ Heartbeat(w, i) \/ CompleteBatchItem(w, i) \/ OutcomeLost(w, i)
      PROVE  TagInv'
  <2>1. CASE ReleaseBatchItem(w, i) \/ RetryBatchItem(w, i)
    BY <2>1, PutBackFits
  <2>2. CASE CompleteBatchItem(w, i)
    BY <2>2, CompletionsFit
  <2> QED
    BY <1>5, <2>1, <2>2, ExecutionMoves DEF Execute
<1> QED
  BY <1>1, <1>2, <1>3, <1>4, <1>5 DEF Next

(* With one attempt the same steps are taken, but for the ones that look at *)
(* the number of attempts.                                                  *)
LEMMA StoppedStep ==
    ASSUME TagInv, Stopped!Next PROVE TagInv'
<1>1. CASE \E j \in Jobs : \/ \E chosen \in SUBSET ItemsOf(j) : Stopped!Create(j, chosen)
                           \/ Stopped!RequestBatchCancel(j) \/ Stopped!RetryBatch(j)
  BY <1>1, StoppedIsTags, JobMovesFit
<1>2. CASE \E i \in Items : Stopped!EditTrack(i) \/ Stopped!LeaseLapses(i) \/ Stopped!RetryIsDue(i)
  BY <1>2, StoppedIsTags, SurroundingMoves
<1>3. ASSUME NEW w \in Workers, Stopped!Work(w) \/ Stopped!Close(w) \/ Stopped!Crash(w)
      PROVE  TagInv'
  <2>1. CASE Stopped!ClaimBatchItems(w)
    <3>1. ClaimShape(w)
      BY <2>1, StoppedClaimIsShaped
    <3>2. UNCHANGED <<track, up, stops>>
      BY <2>1, Zenon DEF Stopped!ClaimBatchItems
    <3> QED
      BY <3>1, <3>2, ClaimShapeMoves
  <2>2. CASE Stopped!FinishBatch(w)
    BY <2>2, StoppedIsTags, JobMovesFit
  <2>3. CASE Stopped!CompleteBatchItems(w)
    BY <2>3, CompletionsFit
  <2>4. CASE Stopped!Start(w)
    BY <2>4, StartFits
  <2>5. CASE Stopped!Close(w) \/ Stopped!Crash(w)
    BY <2>5, StoppedIsTags, SurroundingMoves
  <2> QED
    BY <1>3, <2>1, <2>2, <2>3, <2>4, <2>5, Zenon DEF Stopped!Work
<1>4. ASSUME NEW w \in Workers, NEW i \in Items,
             \/ Stopped!Execute(w, i) \/ Stopped!Heartbeat(w, i)
             \/ Stopped!CompleteBatchItem(w, i) \/ Stopped!OutcomeLost(w, i)
      PROVE  TagInv'
  <2>1. CASE Stopped!ReleaseBatchItem(w, i) \/ Stopped!RetryBatchItem(w, i)
    BY <2>1, StoppedExecutesTags, PutBackFits
  <2>2. CASE Stopped!CompleteBatchItem(w, i)
    BY <2>2, CompletionsFit
  <2>3. CASE \/ SearchSources(w, i) \/ FetchLyricsAndCover(w, i) \/ UpdateMetadata(w, i)
             \/ NothingToChange(w, i) \/ EnqueueWriteback(w, i) \/ StopItem(w, i)
             \/ Heartbeat(w, i) \/ OutcomeLost(w, i)
    BY <2>3, ExecutionMoves
  <2> QED
    BY <1>4, <2>1, <2>2, <2>3, StoppedExecutesTags, Zenon DEF Stopped!Execute
<1> QED
  BY <1>1, <1>2, <1>3, <1>4, Zenon DEF Stopped!Next, Stopped!ItemsOf, ItemsOf

(* What the invariant says to an administrator.                             *)
LEMMA TagInvShows ==
    ASSUME TagInv PROVE TypeOK /\ CountersAgree /\ EndedBatchIsQuiet
<1>1. \A j \in Jobs : JobFits(job[j], item, j) /\ job[j] \in JobRecords
  BY DEF TagInv, QueueFits, JobFits, JobSpans
<1>2. CountersAgree
  BY <1>1, RecountFits DEF CountersAgree, JobFits
<1>3. EndedBatchIsQuiet
  <2> SUFFICES ASSUME NEW j \in Jobs, job[j].status \in EndStatuses, NEW i \in ItemsOf(j)
               PROVE  ~Active(item[i]) /\ item[i].owner = None
    BY DEF EndedBatchIsQuiet
  <2>1. ~Active(item[i])
    BY <1>1 DEF JobFits, JobSpans, Active, EndStatuses
  <2>2. ItemFits(item[i])
    BY DEF TagInv, QueueFits, ItemsOf
  <2> QED
    BY <2>1, <2>2 DEF ItemFits, Active
<1> QED
  BY <1>2, <1>3 DEF TagInv

(* A transaction that writes tags reads the job under its lock: none after  *)
(* the cancellation is committed.                                           *)
LEMMA TagsWrittenUnderLock ==
    ASSUME TagInv, Next \/ Stopped!Next, NEW i \in Items,
           track'[i] = "scraped", track[i] # "scraped"
    PROVE  ~job[JobOf[i]].cancel
<1> USE DEF TagInv, TypeOK
<1>1. \/ \E k \in Items : EditTrack(k)
      \/ \E w \in Workers, k \in Items : UpdateMetadata(w, k)
      \/ track' = track
  <2>1. CASE Next
    <3>1. \A w \in Workers : ClaimBatchItems(w) => track' = track
      BY Zenon DEF ClaimBatchItems
    <3>2. \A w \in Workers : Work(w) \/ Close(w) \/ Crash(w) => track' = track
      BY ONLY <3>1 DEF Work, FinishBatch, CompleteBatchItems, Start, Close, Crash
    <3>3. \A w \in Workers, k \in Items :
             \/ Execute(w, k) \/ Heartbeat(w, k) \/ CompleteBatchItem(w, k) \/ OutcomeLost(w, k)
             => track' = track \/ UpdateMetadata(w, k)
      BY ONLY DEF Execute, SearchSources, FetchLyricsAndCover, NothingToChange, EnqueueWriteback,
         StopItem, ReleaseBatchItem, RetryBatchItem, Heartbeat, CompleteBatchItem, OutcomeLost
    <3>4. \A j \in Jobs : /\ RequestBatchCancel(j) \/ RetryBatch(j) => track' = track
                          /\ \A chosen : Create(j, chosen) => track' = track
      BY ONLY DEF RequestBatchCancel, RetryBatch, Create
    <3>5. \A k \in Items : LeaseLapses(k) \/ RetryIsDue(k) => track' = track
      BY ONLY DEF LeaseLapses, RetryIsDue
    <3> QED
      BY ONLY <2>1, <3>2, <3>3, <3>4, <3>5, Zenon DEF Next
  <2>2. CASE Stopped!Next
    <3>1. \A w \in Workers : Stopped!ClaimBatchItems(w) => track' = track
      BY Zenon DEF Stopped!ClaimBatchItems
    <3>2. \A w \in Workers : Stopped!Work(w) \/ Stopped!Close(w) \/ Stopped!Crash(w) => track' = track
      BY ONLY <3>1, Zenon DEF Stopped!Work, Stopped!FinishBatch, Stopped!CompleteBatchItems,
                              Stopped!Start, Stopped!Close, Stopped!Crash
    <3>3. \A w \in Workers, k \in Items :
             \/ Stopped!Execute(w, k) \/ Stopped!Heartbeat(w, k)
             \/ Stopped!CompleteBatchItem(w, k) \/ Stopped!OutcomeLost(w, k)
             => track' = track \/ Stopped!UpdateMetadata(w, k)
      <4> TAKE w \in Workers, k \in Items
      <4>1. Stopped!Heartbeat(w, k) \/ Stopped!CompleteBatchItem(w, k) \/ Stopped!OutcomeLost(w, k)
            => track' = track
        BY ONLY Zenon DEF Stopped!Heartbeat, Stopped!CompleteBatchItem, Stopped!OutcomeLost
      <4>2. \/ Stopped!SearchSources(w, k) \/ Stopped!FetchLyricsAndCover(w, k)
            \/ Stopped!NothingToChange(w, k)
            => track' = track
        BY ONLY Zenon DEF Stopped!SearchSources, Stopped!FetchLyricsAndCover, Stopped!NothingToChange
      <4>3. \/ Stopped!EnqueueWriteback(w, k) \/ Stopped!StopItem(w, k)
            \/ Stopped!ReleaseBatchItem(w, k) \/ Stopped!RetryBatchItem(w, k)
            => track' = track
        BY ONLY Zenon DEF Stopped!EnqueueWriteback, Stopped!StopItem, Stopped!ReleaseBatchItem,
                          Stopped!RetryBatchItem
      <4> QED
        BY ONLY <4>1, <4>2, <4>3, Zenon DEF Stopped!Execute
    <3>4. \A j \in Jobs : /\ Stopped!RequestBatchCancel(j) \/ Stopped!RetryBatch(j) => track' = track
                          /\ \A chosen : Stopped!Create(j, chosen) => track' = track
      BY ONLY Zenon DEF Stopped!RequestBatchCancel, Stopped!RetryBatch, Stopped!Create
    <3>5. \A k \in Items : Stopped!LeaseLapses(k) \/ Stopped!RetryIsDue(k) => track' = track
      BY ONLY Zenon DEF Stopped!LeaseLapses, Stopped!RetryIsDue
    <3>6. \/ \E k \in Items : Stopped!EditTrack(k)
          \/ \E w \in Workers, k \in Items : Stopped!UpdateMetadata(w, k)
          \/ track' = track
      BY ONLY <2>2, <3>2, <3>3, <3>4, <3>5, Zenon DEF Stopped!Next
    <3> QED
      BY ONLY <3>6, StoppedIsTags, StoppedExecutesTags, Zenon
  <2> QED
    BY <2>1, <2>2
<1>2. CASE \E k \in Items : EditTrack(k)
  BY <1>2 DEF EditTrack
<1>3. ASSUME NEW w \in Workers, NEW k \in Items, UpdateMetadata(w, k)
      PROVE  ~job[JobOf[i]].cancel
  BY <1>3 DEF UpdateMetadata, Lock
<1> QED
  BY <1>1, <1>2, <1>3

(* Every batch of tags is typed, an administrator reads of it what became   *)
(* of its items, and nothing runs of a batch that ended, for every number   *)
(* of jobs, items, processes and attempts.                                  *)
THEOREM TagBatchesAgree == Spec => [](TypeOK /\ CountersAgree /\ EndedBatchIsQuiet)
<1>1. Spec => []TagInv
  BY TagInit, TagStep, PTL DEF Spec
<1> QED
  BY <1>1, TagInvShows, PTL

(* No step of a batch of tags writes the tags of a track once the           *)
(* cancellation of its job is committed.                                    *)
THEOREM CancelledTagBatchWritesNothing == Spec => CancelledBatchWritesNothing
<1>1. Spec => []TagInv
  BY TagInit, TagStep, PTL DEF Spec
<1>2. TagInv /\ [Next]_tagVars
      => [\A i \in Items : track'[i] = "scraped" /\ track[i] # "scraped"
                              => ~job[JobOf[i]].cancel]_tagVars
  BY TagsWrittenUnderLock
<1> QED
  BY <1>1, <1>2, PTL DEF Spec, CancelledBatchWritesNothing

-----------------------------------------------------------------------------
(* Batches of pictures                                                       *)

(* The queue of the pictures is that of the tags under other names.         *)
LEMMA ArtNames ==
    /\ \A S : Art!Cardinality(S) = Cardinality(S) /\ Art!Min(S) = Min(S)
    /\ \A j : Art!ItemsOf(j) = ItemsOf(j)
    /\ \A record : Art!Active(record) <=> Active(record)
    /\ \A record : Art!Requeued(record) = Requeued(record)
    /\ \A record, status : Art!Ended(record, status) = Ended(record, status)
    /\ \A items, j, S : Art!CountOf(items, j, S) = CountOf(items, j, S)
    /\ \A record, items, j : Art!recount(record, items, j) = recountBatch(record, items, j)
    /\ Art!NoClaims = NoClaims /\ Art!Claims = Claims /\ Art!Executing = Executing
    /\ Art!JobRecords = JobRecords /\ Art!ItemRecords = ItemRecords
    /\ Art!NewJob = NewJob /\ Art!NewItem = NewItem /\ Art!Outcomes = Outcomes
<1>1. \A S : Art!Cardinality(S) = Cardinality(S) /\ Art!Min(S) = Min(S)
  BY Zenon DEF Art!Cardinality, Cardinality, Art!Min, Min
<1>2. \A j : Art!ItemsOf(j) = ItemsOf(j)
  BY Zenon DEF Art!ItemsOf, ItemsOf
<1>3. \A items, j, S : Art!CountOf(items, j, S) = CountOf(items, j, S)
  BY <1>1, <1>2, Zenon DEF Art!CountOf, CountOf
<1>4. \A record, items, j : Art!recount(record, items, j) = recountBatch(record, items, j)
  BY <1>3, Zenon DEF Art!recount, recountBatch, Processed, Art!Outcomes, Outcomes
<1>5. /\ \A record : Art!Active(record) <=> Active(record)
      /\ \A record : Art!Requeued(record) = Requeued(record)
      /\ \A record, status : Art!Ended(record, status) = Ended(record, status)
  BY Zenon DEF Art!Active, Active, Art!Requeued, Requeued, Art!Ended, Ended
<1>6. /\ Art!NoClaims = NoClaims /\ Art!Claims = Claims /\ Art!Executing = Executing
      /\ Art!Outcomes = Outcomes
  BY Zenon DEF Art!NoClaims, NoClaims, Art!Claims, Claims, Art!Executing, Executing,
               Art!Decisions, Decisions, Art!Outcomes, Outcomes
<1>7. /\ Art!JobRecords = JobRecords /\ Art!ItemRecords = ItemRecords
      /\ Art!NewJob = NewJob /\ Art!NewItem = NewItem
  BY Zenon DEF Art!JobRecords, JobRecords, Art!JobStatuses, JobStatuses, Art!EndStatuses, EndStatuses,
               Art!ItemRecords, ItemRecords, Art!ItemStatuses, ItemStatuses, Art!Outcomes, Outcomes,
               Art!NewJob, NewJob, Art!NewItem, NewItem
<1> QED
  BY <1>1, <1>2, <1>3, <1>4, <1>5, <1>6, <1>7

(* The rows of the pictures: their counters are always those of the items.  *)
ArtFits(jobs, items) ==
    /\ jobs = [j \in Jobs |-> jobs[j]] /\ items = [i \in Items |-> items[i]]
    /\ \A j \in Jobs : JobSpans(jobs[j], items, j) /\ Counted(jobs[j], items, j)
    /\ \A i \in Items : ItemFits(items[i])

\* What has a picture of the batch stays so.
SucceededStay(before, after) ==
    \A i \in Items : before[i].status = "SUCCEEDED" <=> after[i].status = "SUCCEEDED"

ArtRest ==
    /\ picture \in [Items -> {"missing", "scraped", "changed"}]
    /\ artClaim \in [Workers -> [Items -> Claims]]
    /\ artFinish \in [Workers -> Jobs \union {None}]
    /\ artUp \in [Workers -> BOOLEAN]
    /\ artStops \in 0..MaxStops

\* A process that remembers a success remembers one of the rows.
SuccessIsCommitted ==
    \A w \in Workers, i \in Items :
        artClaim[w][i] = "SUCCEEDED" => artItem[i].status = "SUCCEEDED"

(* The inductive invariant of the batches of pictures.                      *)
ArtInv == /\ ArtFits(artJob, artItem) /\ ArtRest
          /\ Art!PictureIffSucceeded /\ SuccessIsCommitted

(* Items that move between waiting and running change nothing of a job.     *)
LEMMA UncountedArtMoves ==
    ASSUME NEW jobs, NEW items, ArtFits(jobs, items), NEW after,
           after = [i \in Items |-> after[i]],
           \A i \in Items : /\ ItemFits(after[i])
                            /\ \/ after[i].status = items[i].status
                               \/ Active(items[i]) /\ Active(after[i])
    PROVE  ArtFits(jobs, after) /\ SucceededStay(items, after)
<1>1. ASSUME NEW j \in Jobs PROVE JobSpans(jobs[j], after, j) /\ Counted(jobs[j], after, j)
  <2>1. \A i \in ItemsOf(j) : \/ after[i].status = items[i].status
                              \/ Active(items[i]) /\ Active(after[i])
    BY DEF ItemsOf
  <2>2. JobSpans(jobs[j], items, j) /\ Counted(jobs[j], items, j)
    BY DEF ArtFits
  <2> QED
    BY <2>1, <2>2, ActiveItemsFit
<1>2. SucceededStay(items, after)
  BY DEF SucceededStay, Active
<1> QED
  BY <1>1, <1>2 DEF ArtFits

(* One job changes with its items.                                          *)
LEMMA OneArtJobMoves ==
    ASSUME NEW jobs, NEW items, ArtFits(jobs, items), NEW j \in Jobs, NEW record, NEW after,
           after = [i \in Items |-> after[i]],
           \A i \in Items : ItemFits(after[i]),
           \A i \in Items \ ItemsOf(j) : after[i].status = items[i].status,
           JobSpans(record, after, j), Counted(record, after, j)
    PROVE  ArtFits([jobs EXCEPT ![j] = record], after)
<1> DEFINE moved == [jobs EXCEPT ![j] = record]
<1>1. ASSUME NEW k \in Jobs PROVE JobSpans(moved[k], after, k) /\ Counted(moved[k], after, k)
  <2>1. CASE k = j
    BY <2>1 DEF ArtFits
  <2>2. CASE k # j
    <3>1. \A i \in ItemsOf(k) : after[i].status = items[i].status
      BY <2>2 DEF ItemsOf
    <3>2. JobSpans(jobs[k], items, k) /\ Counted(jobs[k], items, k) /\ moved[k] = jobs[k]
      BY <2>2 DEF ArtFits
    <3> QED
      BY <3>1, <3>2, SameItemsFit
  <2> QED
    BY <2>1, <2>2
<1>2. moved = [k \in Jobs |-> moved[k]]
  BY DEF ArtFits
<1> HIDE DEF moved
<1> QED
  BY <1>1, <1>2 DEF ArtFits, moved

(* Every claim and every start first recover what lapsed in any job.        *)
LEMMA ArtRecoveryFits ==
    ASSUME ArtFits(artJob, artItem), NEW items, NEW jobs,
           items = Art!recoverExpired, jobs = Art!recountAffected(items)
    PROVE  /\ ArtFits(jobs, items) /\ SucceededStay(artItem, items)
           /\ \A j \in Jobs : /\ jobs[j].status = artJob[j].status
                              /\ jobs[j].cancel = artJob[j].cancel
<1>1. items = [i \in Items |->
         IF ~(artItem[i].status = "RUNNING" /\ ~artItem[i].live) THEN artItem[i]
         ELSE IF artItem[i].attempts < MaxAttempts THEN Requeued(artItem[i])
         ELSE Ended(artItem[i], IF artJob[JobOf[i]].cancel THEN "SKIPPED" ELSE "FAILED")]
  BY ArtNames DEF Art!recoverExpired
<1>2. jobs = [j \in Jobs |-> IF \E i \in ItemsOf(j) : Active(artItem[i]) /\ ~Active(items[i])
                             THEN recountBatch(artJob[j], items, j) ELSE artJob[j]]
  BY ArtNames DEF Art!recountAffected
<1>3. \A i \in Items : ItemFits(artItem[i]) /\ artItem[i] \in ItemRecords
  BY DEF ArtFits, ItemFits
<1>4. \A i \in Items : /\ ItemFits(Requeued(artItem[i])) /\ Requeued(artItem[i]).status = "PENDING"
                       /\ \A result \in {"SKIPPED", "FAILED"} :
                             /\ ItemFits(Ended(artItem[i], result))
                             /\ Ended(artItem[i], result).status = result
  BY <1>3, EndedFits, RequeuedFits DEF ItemStatuses, Outcomes
<1>5. \A i \in Items : /\ ItemFits(items[i])
                       /\ \/ items[i].status = artItem[i].status
                          \/ Active(artItem[i]) /\ items[i].status \in {"PENDING", "SKIPPED", "FAILED"}
  <2> TAKE i \in Items
  <2>1. \/ items[i] = artItem[i]
        \/ artItem[i].status = "RUNNING"
           /\ items[i] \in {Requeued(artItem[i]), Ended(artItem[i], "SKIPPED"), Ended(artItem[i], "FAILED")}
    BY <1>1
  <2> QED
    BY <1>3, <1>4, <2>1 DEF Active
<1>6. SucceededStay(artItem, items)
  BY <1>5 DEF SucceededStay, Active
<1>7. ASSUME NEW j \in Jobs
      PROVE  /\ JobSpans(jobs[j], items, j) /\ Counted(jobs[j], items, j)
             /\ jobs[j].status = artJob[j].status /\ jobs[j].cancel = artJob[j].cancel
  <2>1. JobSpans(artJob[j], artItem, j) /\ Counted(artJob[j], artItem, j) /\ artJob[j] \in JobRecords
    BY DEF ArtFits, JobSpans
  <2>2. CASE \E i \in ItemsOf(j) : Active(artItem[i]) /\ ~Active(items[i])
    <3>1. jobs[j] = recountBatch(artJob[j], items, j)
      BY <1>2, <2>2
    <3>2. /\ jobs[j] \in JobRecords /\ Counted(jobs[j], items, j)
          /\ jobs[j].status = artJob[j].status /\ jobs[j].cancel = artJob[j].cancel
      BY ONLY <2>1, <3>1, RecountFits
    <3>3. \A i \in ItemsOf(j) : /\ Active(items[i]) => Active(artItem[i])
                                /\ artItem[i].status = "ABSENT" => items[i].status = "ABSENT"
      BY <1>5 DEF ItemsOf, Active
    <3> QED
      BY ONLY <2>1, <3>2, <3>3 DEF JobSpans, Active
  <2>3. CASE \A i \in ItemsOf(j) : Active(artItem[i]) => Active(items[i])
    <3>1. jobs[j] = artJob[j]
      BY <1>2, <2>3
    <3>2. \A i \in ItemsOf(j) : \/ items[i].status = artItem[i].status
                                \/ Active(artItem[i]) /\ Active(items[i])
      BY <1>5, <2>3 DEF ItemsOf
    <3> QED
      BY ONLY <2>1, <3>1, <3>2, ActiveItemsFit
  <2> QED
    BY <2>2, <2>3
<1> QED
  BY <1>1, <1>2, <1>5, <1>6, <1>7 DEF ArtFits

(* The rest of the state holds, with pictures that did not change.          *)
LEMMA SamePictures ==
    ASSUME ArtInv, picture' = picture, SucceededStay(artItem, artItem')
    PROVE  /\ Art!PictureIffSucceeded'
           /\ (\A w \in Workers, i \in Items :
                  artClaim'[w][i] = "SUCCEEDED" => artClaim[w][i] = "SUCCEEDED")
              => SuccessIsCommitted'
BY DEF ArtInv, Art!PictureIffSucceeded, SuccessIsCommitted, SucceededStay

\* Waiting items of a job that is cancelled are skipped at once.
LEMMA SkipFits ==
    ASSUME NEW jobs, NEW items, ArtFits(jobs, items), NEW j \in Jobs, NEW record \in JobRecords,
           record.status = jobs[j].status, NEW after, after = Art!SkipPending(items, j),
           NEW final, final \in JobRecords, final.status = record.status,
           Counted(final, after, j)
    PROVE  ArtFits([jobs EXCEPT ![j] = final], after) /\ SucceededStay(items, after)
<1>1. after = [i \in Items |-> IF JobOf[i] = j /\ items[i].status = "PENDING"
                              THEN Ended(items[i], "SKIPPED") ELSE items[i]]
  BY ArtNames DEF Art!SkipPending
<1>2. \A i \in Items : ItemFits(items[i]) /\ items[i] \in ItemRecords
  BY DEF ArtFits, ItemFits
<1>3. \A i \in Items : /\ ItemFits(Ended(items[i], "SKIPPED"))
                       /\ Ended(items[i], "SKIPPED").status = "SKIPPED"
  BY <1>2, EndedFits DEF ItemStatuses, Outcomes
<1>4. \A i \in Items : /\ ItemFits(after[i])
                       /\ \/ after[i] = items[i]
                          \/ JobOf[i] = j /\ items[i].status = "PENDING" /\ after[i].status = "SKIPPED"
  BY <1>1, <1>2, <1>3
<1>5. JobSpans(final, after, j)
  <2>1. JobSpans(jobs[j], items, j)
    BY DEF ArtFits
  <2>2. \A i \in ItemsOf(j) : /\ Active(after[i]) => Active(items[i])
                              /\ items[i].status = "ABSENT" => after[i].status = "ABSENT"
    BY <1>4 DEF ItemsOf, Active
  <2> QED
    BY <2>1, <2>2 DEF JobSpans, Active
<1>6. \A i \in Items \ ItemsOf(j) : after[i].status = items[i].status
  BY <1>4 DEF ItemsOf
<1>7. after = [i \in Items |-> after[i]]
  BY <1>1
<1>8. SucceededStay(items, after)
  BY <1>4 DEF SucceededStay
<1> QED
  BY <1>4, <1>5, <1>6, <1>7, <1>8, OneArtJobMoves

(* What a claim does to the rows: nothing is free, a cancelled job is       *)
(* skipped, the job is to be finished, or items are taken.                  *)
LEMMA ArtClaimFits ==
    ASSUME ArtInv, NEW w \in Workers, Art!ClaimItems(w)
    PROVE  ArtInv'
<1> DEFINE items == Art!recoverExpired
           jobs == Art!recountAffected(items)
           j == Art!Min(Art!JobsToClaim(items))
           free == {i \in Art!ItemsOf(j) : Art!Claimable(items[i])}
           taken == Art!Earliest(free)
<1>1. ArtFits(jobs, items) /\ SucceededStay(artItem, items)
      /\ \A k \in Jobs : jobs[k].status = artJob[k].status /\ jobs[k].cancel = artJob[k].cancel
  BY ArtRecoveryFits DEF ArtInv
<1>2. Art!JobsToClaim(items) # {} => j \in Jobs /\ Active(artJob[j])
  <2>1. Art!JobsToClaim(items) \subseteq Nat
    BY QueueAssumption DEF Art!JobsToClaim
  <2>2. Art!JobsToClaim(items) # {} => j \in Art!JobsToClaim(items)
    BY <2>1, LeastIsIn, ArtNames
  <2> QED
    BY <2>2, ArtNames DEF Art!JobsToClaim
<1>3. taken \in SUBSET ItemsOf(j) /\ \A i \in taken : Art!Claimable(items[i])
  <2>1. taken \subseteq free
    BY DEF Art!Earliest
  <2> QED
    BY <2>1, ArtNames
<1>4. \/ artItem' = items /\ artJob' = jobs /\ UNCHANGED <<artClaim, artFinish>>
      \/ /\ j \in Jobs /\ artItem' = Art!SkipPending(items, j)
         /\ artJob' = [jobs EXCEPT ![j] = recountBatch(artJob[j], artItem', j)]
         /\ artFinish' = [artFinish EXCEPT ![w] = j] /\ UNCHANGED artClaim
      \/ /\ j \in Jobs /\ artItem' = items /\ artJob' = jobs
         /\ artFinish' = [artFinish EXCEPT ![w] = j] /\ UNCHANGED artClaim
      \/ /\ j \in Jobs /\ Active(artJob[j])
         /\ artItem' = Art!Take(items, taken, w)
         /\ artJob' = [jobs EXCEPT ![j].status = "RUNNING"]
         /\ artClaim' = [artClaim EXCEPT ![w] =
                [i \in Items |-> IF i \in taken THEN "queued" ELSE "none"]]
         /\ UNCHANGED artFinish
  <2>1. \A k : Art!recount(artJob[k], artItem', k) = recountBatch(artJob[k], artItem', k)
    BY ArtNames
  <2> HIDE DEF items, jobs, j
  <2>2. \/ artItem' = items /\ artJob' = jobs /\ UNCHANGED <<artClaim, artFinish>>
        \/ /\ Art!JobsToClaim(items) # {}
           /\ \/ /\ artItem' = Art!SkipPending(items, j)
                 /\ artJob' = [jobs EXCEPT ![j] = Art!recount(artJob[j], artItem', j)]
                 /\ artFinish' = [artFinish EXCEPT ![w] = j] /\ UNCHANGED artClaim
              \/ /\ artItem' = items /\ artJob' = jobs
                 /\ artFinish' = [artFinish EXCEPT ![w] = j] /\ UNCHANGED artClaim
              \/ /\ artItem' = Art!Take(items, taken, w)
                 /\ artJob' = [jobs EXCEPT ![j].status = "RUNNING"]
                 /\ artClaim' = [artClaim EXCEPT ![w] =
                        [i \in Items |-> IF i \in taken THEN "queued" ELSE "none"]]
                 /\ UNCHANGED artFinish
    BY Zenon DEF Art!ClaimItems, items, jobs, j, taken, free
  <2> QED
    BY <1>2, <2>1, <2>2, Zenon
<1>5. UNCHANGED <<picture, artUp, artStops>>
  BY Zenon DEF Art!ClaimItems
<1> HIDE DEF items, jobs, j, taken
<1>6. [i \in Items |-> IF i \in taken THEN "queued" ELSE "none"] \in [Items -> Claims \ {"SUCCEEDED"}]
  BY DEF Claims
<1>7. ArtRest' /\ \A v \in Workers, i \in Items :
                     artClaim'[v][i] = "SUCCEEDED" => artClaim[v][i] = "SUCCEEDED"
  <2>1. \/ artClaim' = artClaim
        \/ artClaim' = [artClaim EXCEPT ![w] =
                [i \in Items |-> IF i \in taken THEN "queued" ELSE "none"]]
    BY <1>4, Zenon
  <2>2. artFinish' = artFinish \/ (j \in Jobs /\ artFinish' = [artFinish EXCEPT ![w] = j])
    BY <1>4, Zenon
  <2> DEFINE mine == [i \in Items |-> IF i \in taken THEN "queued" ELSE "none"]
  <2>3. mine \in [Items -> Claims] /\ \A i \in Items : mine[i] # "SUCCEEDED"
    BY <1>6
  <2> HIDE DEF mine
  <2>4. /\ artClaim' \in [Workers -> [Items -> Claims]]
        /\ \A v \in Workers, i \in Items : artClaim'[v][i] = "SUCCEEDED" => artClaim[v][i] = "SUCCEEDED"
    BY <2>1, <2>3 DEF ArtInv, ArtRest, mine
  <2>5. artFinish' \in [Workers -> Jobs \union {None}]
    BY <2>2 DEF ArtInv, ArtRest
  <2> QED
    BY <1>5, <2>4, <2>5 DEF ArtInv, ArtRest
<1>8. ArtFits(artJob', artItem') /\ SucceededStay(items, artItem')
  <2>1. CASE artItem' = items /\ artJob' = jobs
    BY <1>1, <2>1 DEF SucceededStay
  <2>2. CASE /\ j \in Jobs /\ artItem' = Art!SkipPending(items, j)
             /\ artJob' = [jobs EXCEPT ![j] = recountBatch(artJob[j], artItem', j)]
    <3>1. artJob[j] \in JobRecords
      BY <2>2 DEF ArtInv, ArtFits, JobSpans
    <3> DEFINE final == recountBatch(artJob[j], artItem', j)
    <3>2. final \in JobRecords /\ final.status = artJob[j].status /\ Counted(final, artItem', j)
      BY <3>1, RecountFits
    <3> HIDE DEF final
    <3> QED
      BY <1>1, <2>2, <3>1, <3>2, SkipFits DEF final
  <2>3. CASE /\ j \in Jobs /\ Active(artJob[j]) /\ artItem' = Art!Take(items, taken, w)
             /\ artJob' = [jobs EXCEPT ![j].status = "RUNNING"]
    <3> DEFINE record == [jobs[j] EXCEPT !.status = "RUNNING"]
    <3>1. artItem' = [i \in Items |-> IF i \in taken
                     THEN [items[i] EXCEPT !.status = "RUNNING", !.attempts = @ + 1,
                                           !.owner = w, !.live = TRUE]
                     ELSE items[i]]
      BY <2>3 DEF Art!Take
    <3>2. \A i \in Items : /\ ItemFits(artItem'[i])
                           /\ i \notin taken => artItem'[i] = items[i]
                           /\ i \in taken => artItem'[i].status = "RUNNING" /\ items[i].status = "PENDING"
      <4> TAKE i \in Items
      <4>1. ItemFits(items[i]) /\ items[i] \in ItemRecords
        BY <1>1 DEF ArtFits, ItemFits
      <4>2. CASE i \in taken
        <5>1. items[i].status = "PENDING" /\ items[i].attempts < MaxAttempts
          BY <1>3, <4>2 DEF Art!Claimable
        <5>2. artItem'[i] = [items[i] EXCEPT !.status = "RUNNING", !.attempts = @ + 1,
                                             !.owner = w, !.live = TRUE]
          BY <3>1, <4>2
        <5>3. artItem'[i] = [status |-> "RUNNING", attempts |-> items[i].attempts + 1,
                             due |-> items[i].due, owner |-> w, live |-> TRUE]
          BY ONLY <4>1, <5>2 DEF ItemRecords
        <5>4. items[i].attempts + 1 \in 1..MaxAttempts /\ items[i].due \in BOOLEAN
          BY ONLY <4>1, <5>1, QueueAssumption DEF ItemRecords
        <5>5. artItem'[i] \in ItemRecords /\ artItem'[i].attempts > 0 /\ artItem'[i].status = "RUNNING"
          BY ONLY <5>3, <5>4, w \in Workers DEF ItemRecords, ItemStatuses
        <5> QED
          BY <4>2, <5>1, <5>5 DEF ItemFits
      <4> QED
        BY <3>1, <4>1, <4>2
    <3>3. jobs[j] \in JobRecords /\ Counted(jobs[j], items, j)
      BY <1>1, <2>3 DEF ArtFits, JobSpans
    <3>4. record \in JobRecords /\ record.status = "RUNNING" /\ Counted(record, items, j)
      BY <3>3 DEF JobRecords, JobStatuses, Counted
    <3> HIDE DEF record
    <3>5. Counted(record, artItem', j)
      <4>1. \A i \in ItemsOf(j) : \/ artItem'[i].status = items[i].status
                                  \/ Active(items[i]) /\ Active(artItem'[i])
        BY <3>2 DEF ItemsOf, Active
      <4> QED
        BY <3>4, <4>1, ActiveItemsFit
    <3>6. JobSpans(record, artItem', j)
      BY <3>4 DEF JobSpans, Active
    <3>7. \A i \in Items \ ItemsOf(j) : artItem'[i].status = items[i].status
      BY <1>3, <3>2
    <3>8. artItem' = [i \in Items |-> artItem'[i]]
      BY <3>1
    <3>9. artJob' = [jobs EXCEPT ![j] = record]
      BY <2>3 DEF record
    <3>10. SucceededStay(items, artItem')
      BY <3>2 DEF SucceededStay
    <3>11. j \in Jobs /\ ArtFits(jobs, items)
      BY <1>1, <2>3
    <3>12. ArtFits([jobs EXCEPT ![j] = record], artItem')
      <4> DEFINE after == artItem'
      <4>1. /\ \A i \in Items : ItemFits(after[i])
            /\ \A i \in Items \ ItemsOf(j) : after[i].status = items[i].status
            /\ after = [i \in Items |-> after[i]]
            /\ JobSpans(record, after, j) /\ Counted(record, after, j)
        BY <3>2, <3>5, <3>6, <3>7, <3>8
      <4> HIDE DEF after
      <4>2. ArtFits([jobs EXCEPT ![j] = record], after)
        BY ONLY <3>11, <4>1, OneArtJobMoves
      <4> QED
        BY <4>2 DEF after
    <3> QED
      BY <3>9, <3>10, <3>12
  <2> QED
    BY <1>4, <2>1, <2>2, <2>3, Zenon
<1>9. SucceededStay(artItem, artItem')
  BY <1>1, <1>8 DEF SucceededStay
<1> QED
  BY <1>5, <1>7, <1>8, <1>9, SamePictures DEF ArtInv

(* The actions of administrators.                                           *)
LEMMA ArtCreateFits ==
    ASSUME ArtInv, NEW j \in Jobs, NEW chosen, Art!Create(j, chosen)
    PROVE  ArtInv'
<1> DEFINE record == [artJob[j] EXCEPT !.status = "PENDING"]
<1>1. /\ artJob[j].status = "ABSENT" /\ chosen \subseteq ItemsOf(j)
      /\ artJob' = [artJob EXCEPT ![j] = record]
      /\ artItem' = [i \in Items |->
            IF i \in chosen THEN [artItem[i] EXCEPT !.status = "PENDING"] ELSE artItem[i]]
      /\ UNCHANGED <<picture, artClaim, artFinish, artUp, artStops>>
  BY ArtNames DEF Art!Create
<1>2. /\ JobSpans(artJob[j], artItem, j) /\ Counted(artJob[j], artItem, j)
      /\ artJob[j] \in JobRecords /\ ArtFits(artJob, artItem)
  BY DEF ArtInv, ArtFits, JobSpans
<1>3. \A i \in ItemsOf(j) : artItem[i].status = "ABSENT"
  BY <1>1, <1>2 DEF JobSpans
<1>4. \A i \in Items : /\ ItemFits(artItem'[i])
                       /\ i \notin chosen => artItem'[i] = artItem[i]
                       /\ i \in chosen => artItem'[i].status = "PENDING"
  <2> TAKE i \in Items
  <2>1. ItemFits(artItem[i]) /\ artItem[i] \in ItemRecords
    BY <1>2 DEF ArtFits, ItemFits
  <2>2. CASE i \in chosen
    <3>1. artItem[i].status = "ABSENT" /\ artItem'[i] = [artItem[i] EXCEPT !.status = "PENDING"]
      BY <1>1, <1>3, <2>2
    <3> QED
      BY <2>1, <2>2, <3>1 DEF ItemFits, ItemRecords, ItemStatuses
  <2> QED
    BY <1>1, <2>1, <2>2
<1>5. record \in JobRecords /\ record.status = "PENDING" /\ Counted(record, artItem, j)
  BY <1>2 DEF JobRecords, JobStatuses, Counted
<1> HIDE DEF record
<1>6. Counted(record, artItem', j)
  <2>1. \A S \in SUBSET Outcomes : CountOf(artItem', j, S) = CountOf(artItem, j, S)
    <3> TAKE S \in SUBSET Outcomes
    <3>1. \A i \in ItemsOf(j) : artItem'[i].status \in S <=> artItem[i].status \in S
      BY <1>3, <1>4 DEF Outcomes, ItemsOf
    <3> QED
      BY <3>1, SameMembers
  <2> QED
    BY <1>5, <2>1 DEF Counted, Outcomes
<1>7. JobSpans(record, artItem', j)
  BY <1>5 DEF JobSpans, Active
<1>8. ArtFits(artJob', artItem')
  <2> DEFINE after == artItem'
  <2>1. /\ \A i \in Items : ItemFits(after[i])
        /\ \A i \in Items \ ItemsOf(j) : after[i].status = artItem[i].status
        /\ after = [i \in Items |-> after[i]]
        /\ JobSpans(record, after, j) /\ Counted(record, after, j)
    BY <1>1, <1>4, <1>6, <1>7
  <2> HIDE DEF after
  <2>2. ArtFits([artJob EXCEPT ![j] = record], after)
    BY ONLY j \in Jobs, <1>2, <2>1, OneArtJobMoves
  <2> QED
    BY <1>1, <2>2 DEF after
<1>9. SucceededStay(artItem, artItem')
  BY <1>1, <1>3, <1>4 DEF SucceededStay, ItemsOf
<1> QED
  BY <1>1, <1>8, <1>9, SamePictures DEF ArtInv, ArtRest

LEMMA ArtCancelFits ==
    ASSUME ArtInv, NEW j \in Jobs, Art!RequestCancel(j)
    PROVE  ArtInv'
<1> DEFINE counted == recountBatch(artJob[j], artItem', j)
           final == [counted EXCEPT !.cancel = TRUE]
<1>1. /\ artItem' = Art!SkipPending(artItem, j) /\ artJob' = [artJob EXCEPT ![j] = final]
      /\ UNCHANGED <<picture, artClaim, artFinish, artUp, artStops>>
  BY ArtNames DEF Art!RequestCancel
<1>2. artJob[j] \in JobRecords /\ ArtFits(artJob, artItem)
  BY DEF ArtInv, ArtFits, JobSpans
<1>3. counted \in JobRecords /\ counted.status = artJob[j].status /\ Counted(counted, artItem', j)
  BY <1>2, RecountFits
<1> HIDE DEF counted
<1>4. final \in JobRecords /\ final.status = artJob[j].status /\ Counted(final, artItem', j)
  BY <1>3 DEF JobRecords, Counted
<1> HIDE DEF final
<1>5. ArtFits(artJob', artItem') /\ SucceededStay(artItem, artItem')
  BY <1>1, <1>2, <1>4, SkipFits
<1> QED
  BY <1>1, <1>5, SamePictures DEF ArtInv, ArtRest

LEMMA ArtRetryFits ==
    ASSUME ArtInv, NEW j \in Jobs, Art!RetryBatch(j)
    PROVE  ArtInv'
<1> DEFINE reset == [i \in Items |->
             IF JobOf[i] = j /\ artItem[i].status = "FAILED"
             THEN [Requeued(artItem[i]) EXCEPT !.attempts = 0] ELSE artItem[i]]
           counted == recountBatch(artJob[j], reset, j)
           record == [counted EXCEPT !.status = "PENDING", !.cancel = FALSE]
<1>1. /\ artItem' = reset /\ artJob' = [artJob EXCEPT ![j] = record]
      /\ UNCHANGED <<picture, artClaim, artFinish, artUp, artStops>>
  <2>1. [i \in Items |-> IF JobOf[i] = j /\ artItem[i].status = "FAILED"
                          THEN [Art!Requeued(artItem[i]) EXCEPT !.attempts = 0] ELSE artItem[i]]
        = reset
    BY ArtNames
  <2>2. Art!recount(artJob[j], reset, j) = counted
    BY ArtNames
  <2> HIDE DEF reset, counted
  <2> QED
    BY <2>1, <2>2, Zenon DEF Art!RetryBatch
<1>2. artJob[j] \in JobRecords /\ ArtFits(artJob, artItem)
  BY DEF ArtInv, ArtFits, JobSpans
<1>3. \A i \in Items : /\ ItemFits(reset[i])
                       /\ \/ reset[i] = artItem[i]
                          \/ i \in ItemsOf(j) /\ artItem[i].status = "FAILED"
                             /\ reset[i].status = "PENDING"
  <2> TAKE i \in Items
  <2>1. ItemFits(artItem[i]) /\ artItem[i] \in ItemRecords
    BY <1>2 DEF ArtFits, ItemFits
  <2>2. /\ ItemFits([Requeued(artItem[i]) EXCEPT !.attempts = 0])
        /\ [Requeued(artItem[i]) EXCEPT !.attempts = 0].status = "PENDING"
    BY <2>1, RequeuedFits, QueueAssumption DEF ItemFits, ItemRecords
  <2> QED
    BY <2>1, <2>2 DEF ItemsOf
<1>4. counted \in JobRecords /\ Counted(counted, reset, j)
  BY <1>2, RecountFits
<1>5. reset = [i \in Items |-> reset[i]]
  OBVIOUS
<1> HIDE DEF reset, counted
<1>6. record \in JobRecords /\ record.status = "PENDING" /\ Counted(record, reset, j)
  BY <1>4 DEF JobRecords, JobStatuses, Counted
<1> HIDE DEF record
<1>7. JobSpans(record, reset, j)
  BY <1>6 DEF JobSpans, Active
<1>8. \A i \in Items : ItemFits(reset[i])
  BY <1>3
<1>9. \A i \in Items \ ItemsOf(j) : reset[i].status = artItem[i].status
  BY <1>3
<1>10. ArtFits([artJob EXCEPT ![j] = record], reset)
  BY ONLY j \in Jobs, <1>2, <1>5, <1>6, <1>7, <1>8, <1>9, OneArtJobMoves
<1>11. SucceededStay(artItem, artItem')
  BY <1>1, <1>3 DEF SucceededStay
<1> QED
  BY <1>1, <1>10, <1>11, SamePictures DEF ArtInv, ArtRest

LEMMA ArtFinishFits ==
    ASSUME ArtInv, NEW w \in Workers, Art!FinishBatch(w)
    PROVE  ArtInv'
<1> DEFINE j == artFinish[w]
           counted == recountBatch(artJob[j], artItem, j)
           status == IF artJob[j].cancel THEN "CANCELLED"
                     ELSE IF CountOf(artItem, j, {"FAILED"}) > 0 THEN "FAILED" ELSE "COMPLETED"
           record == [counted EXCEPT !.status = status]
<1>1. j \in Jobs /\ UNCHANGED <<artItem, picture, artClaim, artUp, artStops>>
      /\ artFinish' = [artFinish EXCEPT ![w] = None]
  BY DEF Art!FinishBatch, ArtInv, ArtRest
<1>2. \/ artJob' = artJob
      \/ artJob' = [artJob EXCEPT ![j] = record] /\ \A i \in ItemsOf(j) : ~Active(artItem[i])
  BY ArtNames DEF Art!FinishBatch
<1>3. JobSpans(artJob[j], artItem, j) /\ artJob[j] \in JobRecords /\ ArtFits(artJob, artItem)
  BY <1>1 DEF ArtInv, ArtFits, JobSpans
<1>4. counted \in JobRecords /\ Counted(counted, artItem, j)
  BY <1>3, RecountFits
<1>5. status \in EndStatuses
  BY DEF EndStatuses
<1> HIDE DEF counted, status
<1>6. record \in JobRecords /\ record.status = status /\ Counted(record, artItem, j)
  BY <1>4, <1>5 DEF JobRecords, JobStatuses, Counted
<1> HIDE DEF record
<1>7. ArtFits(artJob', artItem)
  <2>1. CASE artJob' = artJob
    BY <1>3, <2>1
  <2>2. CASE artJob' = [artJob EXCEPT ![j] = record] /\ \A i \in ItemsOf(j) : ~Active(artItem[i])
    <3>1. JobSpans(record, artItem, j)
      BY <1>5, <1>6, <2>2 DEF JobSpans, EndStatuses
    <3>2. artItem = [i \in Items |-> artItem[i]] /\ \A i \in Items : ItemFits(artItem[i])
      BY <1>3 DEF ArtFits
    <3> HIDE DEF j
    <3>3. ArtFits([artJob EXCEPT ![j] = record], artItem)
      BY ONLY <1>1, <1>3, <1>6, <3>1, <3>2, OneArtJobMoves
    <3> QED
      BY <2>2, <3>3
  <2> QED
    BY <1>2, <2>1, <2>2
<1>8. ArtRest' /\ artClaim' = artClaim
  BY <1>1 DEF ArtInv, ArtRest
<1>9. SucceededStay(artItem, artItem')
  BY <1>1 DEF SucceededStay
<1> QED
  BY <1>1, <1>7, <1>8, <1>9, SamePictures DEF ArtInv

(* Outcomes are counted for the items whose attempt is still current; what  *)
(* succeeded was counted when its picture was attached.                     *)
LEMMA ArtCompleteFits ==
    ASSUME ArtInv, NEW w \in Workers, NEW j \in Jobs, NEW done \in SUBSET ItemsOf(j),
           \A i \in done : artClaim[w][i] \in Outcomes,
           Art!Complete(w, j, done), UNCHANGED <<picture, artFinish, artUp, artStops>>
    PROVE  ArtInv'
<1> DEFINE kept == {i \in done : Art!Active(artJob[j]) /\ Art!ItemOwned(w, i)}
           result == [i \in kept |-> Art!Outcome(w, i)]
           all == Cardinality(kept)
           good == Cardinality({i \in kept : result[i] = "SUCCEEDED"})
           bad == Cardinality({i \in kept : result[i] = "FAILED"})
           record == [artJob[j] EXCEPT !.processed = @ + all, !.succeeded = @ + good,
                                       !.failed = @ + bad]
<1>1. ArtFits(artJob, artItem) /\ JobSpans(artJob[j], artItem, j) /\ Counted(artJob[j], artItem, j)
      /\ artJob[j] \in JobRecords
  BY DEF ArtInv, ArtFits, JobSpans
<1>2. \A i \in kept : /\ Art!Outcome(w, i) \in {"FAILED", "SKIPPED"} /\ i \in ItemsOf(j) /\ i \in Items
                      /\ artItem[i].status = "RUNNING"
  BY DEF Art!Outcome, Outcomes, Art!ItemOwned, ArtInv, SuccessIsCommitted, ItemsOf
<1>3. artItem' = [i \in Items |-> IF i \in kept THEN Ended(artItem[i], Art!Outcome(w, i)) ELSE artItem[i]]
  <2>1. artItem' = [i \in Items |-> IF i \in kept THEN Art!Ended(artItem[i], Art!Outcome(w, i)) ELSE artItem[i]]
    BY Zenon DEF Art!Complete
  <2> HIDE DEF kept
  <2> QED
    BY <2>1, ArtNames
<1>4. artJob' = [artJob EXCEPT ![j] = record]
  <2>1. artJob' = [artJob EXCEPT ![j] =
           [artJob[j] EXCEPT !.processed = @ + Art!Cardinality(kept),
             !.succeeded = @ + Art!Cardinality({i \in kept : Art!Outcome(w, i) = "SUCCEEDED"}),
             !.failed = @ + Art!Cardinality({i \in kept : Art!Outcome(w, i) = "FAILED"})]]
    BY Zenon DEF Art!Complete
  <2>2. /\ {i \in kept : Art!Outcome(w, i) = "SUCCEEDED"} = {i \in kept : result[i] = "SUCCEEDED"}
        /\ {i \in kept : Art!Outcome(w, i) = "FAILED"} = {i \in kept : result[i] = "FAILED"}
    OBVIOUS
  <2> HIDE DEF kept, result
  <2> QED
    BY <2>1, <2>2, ArtNames, Zenon
<1>5. artClaim' = [artClaim EXCEPT ![w] = [i \in Items |-> IF i \in done THEN "none" ELSE @[i]]]
  BY Zenon DEF Art!Complete
<1>6. \A i \in Items : /\ ItemFits(artItem'[i])
                       /\ i \in kept => artItem'[i].status = result[i]
                       /\ i \notin kept => artItem'[i] = artItem[i]
  <2> TAKE i \in Items
  <2>1. ItemFits(artItem[i]) /\ artItem[i] \in ItemRecords
    BY <1>1 DEF ArtFits, ItemFits
  <2>2. CASE i \in kept
    <3>1. result[i] \in {"FAILED", "SKIPPED"} /\ artItem'[i] = Ended(artItem[i], result[i])
      BY <1>2, <1>3, <2>2
    <3> HIDE DEF result, kept
    <3>2. ItemFits(Ended(artItem[i], result[i])) /\ Ended(artItem[i], result[i]).status = result[i]
      BY <2>1, <3>1, EndedFits DEF ItemStatuses, Outcomes
    <3> QED
      BY <2>2, <3>1, <3>2
  <2> QED
    BY <1>3, <2>1, <2>2
<1>7. kept \in SUBSET ItemsOf(j) /\ kept \subseteq Items
  BY DEF ItemsOf
<1>8. \A i \in kept : /\ artItem[i].status \notin Outcomes /\ result[i] \in {"FAILED", "SKIPPED"}
                      /\ result[i] \in Outcomes /\ artItem'[i].status = result[i]
  BY <1>2, <1>6 DEF Outcomes
<1>9. artItem' = [i \in Items |-> artItem'[i]]
  BY <1>3
<1> HIDE DEF kept, result
<1>10. /\ CountOf(artItem', j, Outcomes) = CountOf(artItem, j, Outcomes) + all
       /\ CountOf(artItem', j, {"SUCCEEDED"}) = CountOf(artItem, j, {"SUCCEEDED"}) + good
       /\ CountOf(artItem', j, {"FAILED"}) = CountOf(artItem, j, {"FAILED"}) + bad
  <2>1. \A i \in ItemsOf(j) \ kept : artItem'[i].status = artItem[i].status
    BY <1>6 DEF ItemsOf
  <2> DEFINE after == artItem'
  <2>2. /\ \A i \in kept : artItem[i].status \notin Outcomes /\ result[i] \in Outcomes
                           /\ after[i].status = result[i]
        /\ \A i \in ItemsOf(j) \ kept : after[i].status = artItem[i].status
    BY <1>8, <2>1
  <2> HIDE DEF after
  <2> DEFINE new(r) == {i \in kept : result[i] = r}
  <2>3. \A r : new(r) \in SUBSET kept /\ \A i \in kept : i \in new(r) <=> result[i] = r
    OBVIOUS
  <2> HIDE DEF new
  <2>4. CountOf(after, j, Outcomes) = CountOf(artItem, j, Outcomes) + Cardinality(kept)
    <3>1. /\ \A i \in kept : artItem[i].status \notin Outcomes
          /\ \A i \in ItemsOf(j) : after[i].status \in Outcomes
                                    <=> artItem[i].status \in Outcomes \/ i \in kept
      BY ONLY <1>7, <2>2
    <3> QED
      BY ONLY <1>7, <3>1, EndedAreCounted
  <2>5. ASSUME NEW r \in Outcomes, NEW some \in SUBSET kept, \A i \in kept : i \in some <=> result[i] = r
        PROVE  CountOf(after, j, {r}) = CountOf(artItem, j, {r}) + Cardinality(some)
    <3>1. /\ \A i \in some : artItem[i].status \notin {r}
          /\ \A i \in ItemsOf(j) : after[i].status \in {r} <=> artItem[i].status \in {r} \/ i \in some
      BY ONLY <1>7, <2>2, <2>5
    <3>2. some \in SUBSET ItemsOf(j)
      BY ONLY <1>7, <2>5
    <3> QED
      BY ONLY <3>1, <3>2, EndedAreCounted
  <2>6. \A r \in Outcomes : CountOf(after, j, {r}) = CountOf(artItem, j, {r}) + Cardinality(new(r))
    BY ONLY <2>3, <2>5
  <2> QED
    BY <2>4, <2>6 DEF after, new, Outcomes
<1>11. all \in Nat /\ good \in Nat /\ bad \in Nat
  <2>1. IsFiniteSet(kept)
    BY <1>7, QueueAssumption, FS_Subset
  <2> QED
    BY <2>1, FS_Subset, FS_CardinalityType
<1> HIDE DEF all, good, bad
<1>12. /\ record \in JobRecords /\ record.status = artJob[j].status
       /\ Counted(record, artItem', j)
  <2>1. /\ record \in JobRecords /\ record.status = artJob[j].status
        /\ record.processed = artJob[j].processed + all
        /\ record.succeeded = artJob[j].succeeded + good /\ record.failed = artJob[j].failed + bad
    <3> DEFINE p == artJob[j].processed + all
               s == artJob[j].succeeded + good
               f == artJob[j].failed + bad
    <3>1. p \in Nat /\ s \in Nat /\ f \in Nat
      BY <1>1, <1>11 DEF JobRecords
    <3>2. record = [artJob[j] EXCEPT !.processed = p, !.succeeded = s, !.failed = f]
      OBVIOUS
    <3> HIDE DEF p, s, f, record
    <3>3. /\ record \in JobRecords /\ record.status = artJob[j].status
          /\ record.processed = p /\ record.succeeded = s /\ record.failed = f
      BY ONLY <1>1, <3>1, <3>2 DEF JobRecords
    <3> QED
      BY ONLY <3>3 DEF p, s, f
  <2> HIDE DEF record
  <2> QED
    BY ONLY <1>1, <1>10, <2>1 DEF Counted
<1> HIDE DEF record
<1>13. JobSpans(record, artItem', j)
  <2>1. \A i \in ItemsOf(j) : /\ Active(artItem'[i]) => Active(artItem[i])
                              /\ artItem[i].status = "ABSENT" => artItem'[i].status = "ABSENT"
    BY <1>2, <1>6, <1>8 DEF Active, Outcomes, ItemsOf
  <2> QED
    BY <1>1, <1>12, <2>1 DEF JobSpans, Active
<1>14. ArtFits(artJob', artItem')
  <2> DEFINE after == artItem'
  <2>1. /\ \A i \in Items : ItemFits(after[i])
        /\ \A i \in Items \ ItemsOf(j) : after[i].status = artItem[i].status
        /\ after = [i \in Items |-> after[i]]
        /\ JobSpans(record, after, j) /\ Counted(record, after, j)
    BY <1>6, <1>7, <1>9, <1>12, <1>13
  <2> HIDE DEF after
  <2>2. ArtFits([artJob EXCEPT ![j] = record], after)
    BY ONLY j \in Jobs, <1>1, <2>1, OneArtJobMoves
  <2> QED
    BY <1>4, <2>2 DEF after
<1>15. SucceededStay(artItem, artItem')
  BY <1>6, <1>8 DEF SucceededStay, Outcomes
<1>16. /\ artClaim' \in [Workers -> [Items -> Claims]]
       /\ \A v \in Workers, i \in Items : artClaim'[v][i] = "SUCCEEDED" => artClaim[v][i] = "SUCCEEDED"
  <2> DEFINE mine == [i \in Items |-> IF i \in done THEN "none" ELSE artClaim[w][i]]
  <2>1. artClaim \in [Workers -> [Items -> Claims]] /\ artClaim' = [artClaim EXCEPT ![w] = mine]
    BY <1>5 DEF ArtInv, ArtRest
  <2>2. mine \in [Items -> Claims] /\ \A i \in Items : mine[i] = "SUCCEEDED" => artClaim[w][i] = "SUCCEEDED"
    BY <2>1 DEF Claims
  <2> HIDE DEF mine
  <2> QED
    BY ONLY <2>1, <2>2
<1>17. ArtRest'
  BY <1>16 DEF ArtInv, ArtRest
<1> QED
  BY <1>14, <1>15, <1>16, <1>17, SamePictures DEF ArtInv

LEMMA ArtCompletionsFit ==
    ASSUME ArtInv, NEW w \in Workers,
           Art!CompleteItems(w) \/ \E i \in Items : Art!CompleteItem(w, i)
    PROVE  ArtInv'
<1>1. Art!WindowDone(w)
  BY DEF Art!CompleteItems, Art!CompleteItem
<1>2. \A i \in Art!Held(w) : artClaim[w][i] \in Outcomes
  BY <1>1, ArtNames DEF Art!WindowDone
<1>3. CASE Art!CompleteItems(w)
  <2>1. PICK j \in Jobs : Art!Held(w) \subseteq Art!ItemsOf(j) /\ Art!Complete(w, j, Art!Held(w))
    BY <1>3, Zenon DEF Art!CompleteItems
  <2>2. UNCHANGED <<picture, artFinish, artUp, artStops>>
    BY <1>3, Zenon DEF Art!CompleteItems
  <2>3. Art!Held(w) \in SUBSET ItemsOf(j)
    BY <2>1, ArtNames
  <2> QED
    BY ONLY ArtInv, w \in Workers, <1>2, <2>1, <2>2, <2>3, ArtCompleteFits
<1>4. ASSUME NEW i \in Items, Art!CompleteItem(w, i) PROVE ArtInv'
  <2>1. i \in Art!Held(w) /\ Art!Complete(w, JobOf[i], {i}) /\ UNCHANGED <<picture, artFinish, artUp, artStops>>
    BY <1>4, Zenon DEF Art!CompleteItem
  <2>2. JobOf[i] \in Jobs /\ {i} \in SUBSET ItemsOf(JobOf[i])
    BY QueueAssumption DEF ItemsOf
  <2>3. \A k \in {i} : artClaim[w][k] \in Outcomes
    BY <1>2, <2>1
  <2> QED
    BY ONLY ArtInv, w \in Workers, <2>1, <2>2, <2>3, ArtCompleteFits
<1> QED
  BY <1>3, <1>4

(* The picture and the outcome of its item are one commit.                  *)
LEMMA ArtApplyFits ==
    ASSUME ArtInv, NEW w \in Workers, NEW i \in Items, Art!ApplyArtistArtwork(w, i)
    PROVE  ArtInv'
<1> DEFINE j == JobOf[i]
           record == [artJob[j] EXCEPT !.processed = @ + 1, !.succeeded = @ + 1]
<1>1. ArtFits(artJob, artItem) /\ ArtRest /\ j \in Jobs
  BY QueueAssumption DEF ArtInv
<1>2. UNCHANGED <<artFinish, artUp, artStops>>
  BY DEF Art!ApplyArtistArtwork
<1>3. CASE Art!Lock(w, i) /\ picture[i] = "missing"
  <2>1. /\ artItem' = [artItem EXCEPT ![i] = Ended(artItem[i], "SUCCEEDED")]
        /\ artJob' = [artJob EXCEPT ![j] = record]
        /\ picture' = [picture EXCEPT ![i] = "scraped"]
        /\ artClaim' = [artClaim EXCEPT ![w][i] = "SUCCEEDED"] \/ artClaim' = [artClaim EXCEPT ![w][i] = "RETRY"]
    BY <1>3, ArtNames DEF Art!ApplyArtistArtwork, Art!CommitSuccess, Art!Now
  <2>2. artItem[i].status = "RUNNING" /\ ItemFits(artItem[i]) /\ artItem[i] \in ItemRecords
    BY <1>1, <1>3 DEF Art!Lock, Art!ItemOwned, ArtFits, ItemFits
  <2>3. JobSpans(artJob[j], artItem, j) /\ Counted(artJob[j], artItem, j) /\ artJob[j] \in JobRecords
    BY <1>1 DEF ArtFits, JobSpans
  <2>4. /\ ItemFits(Ended(artItem[i], "SUCCEEDED"))
        /\ Ended(artItem[i], "SUCCEEDED").status = "SUCCEEDED"
    BY <2>2, EndedFits DEF ItemStatuses, Outcomes
  <2>5. /\ artItem' = [k \in Items |-> artItem'[k]] /\ artItem'[i] = Ended(artItem[i], "SUCCEEDED")
        /\ \A k \in Items : k # i => artItem'[k] = artItem[k]
    BY <1>1, <2>1 DEF ArtFits
  <2>6. \A k \in Items : ItemFits(artItem'[k])
    BY <1>1, <2>4, <2>5 DEF ArtFits
  <2>7. /\ CountOf(artItem', j, Outcomes) = CountOf(artItem, j, Outcomes) + 1
        /\ CountOf(artItem', j, {"SUCCEEDED"}) = CountOf(artItem, j, {"SUCCEEDED"}) + 1
        /\ CountOf(artItem', j, {"FAILED"}) = CountOf(artItem, j, {"FAILED"})
    <3> DEFINE after == artItem'
    <3>1. Cardinality({i}) = 1 /\ {i} \in SUBSET ItemsOf(j)
      BY FS_Singleton DEF ItemsOf
    <3>2. \A S \in {Outcomes, {"SUCCEEDED"}} :
             /\ \A k \in {i} : artItem[k].status \notin S
             /\ \A k \in ItemsOf(j) : after[k].status \in S <=> artItem[k].status \in S \/ k \in {i}
      BY <2>2, <2>4, <2>5 DEF Outcomes, ItemsOf
    <3>3. \A k \in ItemsOf(j) : after[k].status \in {"FAILED"} <=> artItem[k].status \in {"FAILED"}
      BY <2>2, <2>4, <2>5 DEF ItemsOf
    <3> HIDE DEF after, j
    <3>4. \A S \in {Outcomes, {"SUCCEEDED"}} : CountOf(after, j, S) = CountOf(artItem, j, S) + Cardinality({i})
      <4> TAKE S \in {Outcomes, {"SUCCEEDED"}}
      <4> QED
        BY ONLY <3>1, <3>2, EndedAreCounted
    <3>5. CountOf(after, j, {"FAILED"}) = CountOf(artItem, j, {"FAILED"})
      BY ONLY <3>3, SameMembers
    <3> QED
      BY <3>1, <3>4, <3>5 DEF after
  <2>8. /\ record \in JobRecords /\ record.status = artJob[j].status
        /\ record.processed = artJob[j].processed + 1
        /\ record.succeeded = artJob[j].succeeded + 1 /\ record.failed = artJob[j].failed
    <3> DEFINE p == artJob[j].processed + 1
               s == artJob[j].succeeded + 1
    <3>1. p \in Nat /\ s \in Nat /\ record = [artJob[j] EXCEPT !.processed = p, !.succeeded = s]
      BY <2>3 DEF JobRecords
    <3> HIDE DEF p, s, record
    <3>2. /\ record \in JobRecords /\ record.status = artJob[j].status
          /\ record.processed = p /\ record.succeeded = s /\ record.failed = artJob[j].failed
      BY ONLY <2>3, <3>1 DEF JobRecords
    <3> QED
      BY <3>2 DEF p, s
  <2> HIDE DEF record
  <2>9. Counted(record, artItem', j)
    BY ONLY <2>3, <2>7, <2>8 DEF Counted
  <2>10. JobSpans(record, artItem', j)
    BY <2>2, <2>3, <2>4, <2>5, <2>8 DEF JobSpans, Active, ItemsOf
  <2>11. ArtFits(artJob', artItem')
    <3> DEFINE after == artItem'
    <3>1. /\ \A k \in Items : ItemFits(after[k])
          /\ \A k \in Items \ ItemsOf(j) : after[k].status = artItem[k].status
          /\ after = [k \in Items |-> after[k]]
          /\ JobSpans(record, after, j) /\ Counted(record, after, j)
      BY <2>5, <2>6, <2>9, <2>10 DEF ItemsOf
    <3> HIDE DEF after, j
    <3>2. ArtFits([artJob EXCEPT ![j] = record], after)
      BY ONLY <1>1, <3>1, OneArtJobMoves
    <3> QED
      BY <2>1, <3>2 DEF after
  <2>12. ArtRest'
    <3>1. {"SUCCEEDED", "RETRY"} \subseteq Claims
      BY DEF Claims, Decisions, Outcomes
    <3>2. artClaim' \in [Workers -> [Items -> Claims]]
      BY ONLY <1>1, <2>1, <3>1 DEF ArtRest
    <3>3. picture' \in [Items -> {"missing", "scraped", "changed"}]
      BY ONLY <1>1, <2>1 DEF ArtRest
    <3> QED
      BY ONLY <1>1, <1>2, <3>2, <3>3 DEF ArtRest
  <2>13. Art!PictureIffSucceeded'
    BY <1>1, <2>1, <2>4, <2>5 DEF ArtInv, Art!PictureIffSucceeded, ArtRest
  <2>14. SuccessIsCommitted'
    BY <1>1, <2>1, <2>4, <2>5 DEF ArtInv, SuccessIsCommitted, ArtRest
  <2> QED
    BY <2>11, <2>12, <2>13, <2>14 DEF ArtInv
<1>4. CASE ~(Art!Lock(w, i) /\ picture[i] = "missing")
  <2>1. UNCHANGED <<artJob, artItem, picture>>
        /\ (artClaim' = [artClaim EXCEPT ![w][i] = "SKIPPED"] \/ artClaim' = [artClaim EXCEPT ![w][i] = "none"])
    BY <1>4 DEF Art!ApplyArtistArtwork, Art!Now
  <2>2. ArtRest' /\ SucceededStay(artItem, artItem')
        /\ \A v \in Workers, k \in Items : artClaim'[v][k] = "SUCCEEDED" => artClaim[v][k] = "SUCCEEDED"
    BY <1>1, <1>2, <2>1 DEF ArtRest, Claims, Decisions, Outcomes, SucceededStay
  <2>3. ArtFits(artJob', artItem')
    BY <1>1, <2>1
  <2> QED
    BY <2>1, <2>2, <2>3, SamePictures DEF ArtInv
<1> QED
  BY <1>3, <1>4

\* What a process holds of one item of a picture changes.
ArtHolds(w, i) ==
    /\ \E value \in Claims \ {"SUCCEEDED"} : artClaim' = [artClaim EXCEPT ![w][i] = value]
    /\ UNCHANGED <<artJob, picture, artFinish, artUp, artStops>>

(* Steps that change no row but what a process holds; an item that goes     *)
(* back to the queue runs no longer.                                        *)
LEMMA ArtHoldsFits ==
    ASSUME ArtInv, NEW w \in Workers, NEW i \in Items, ArtHolds(w, i),
           \/ artItem' = artItem
           \/ /\ artItem[i].status = "RUNNING"
              /\ \/ artItem' = [artItem EXCEPT ![i] = [Requeued(artItem[i]) EXCEPT !.attempts = @ - 1]]
                 \/ artItem' = [artItem EXCEPT ![i] = [Ended(artItem[i], "PENDING") EXCEPT !.due = FALSE]]
    PROVE  ArtInv'
<1>1. ArtRest /\ ArtFits(artJob, artItem)
  BY DEF ArtInv
<1>2. ArtRest' /\ \A v \in Workers, k \in Items : artClaim'[v][k] = "SUCCEEDED" => artClaim[v][k] = "SUCCEEDED"
  <2>1. PICK value \in Claims \ {"SUCCEEDED"} : artClaim' = [artClaim EXCEPT ![w][i] = value]
    BY DEF ArtHolds
  <2> QED
    BY <1>1, <2>1 DEF ArtHolds, ArtRest
<1>3. ArtFits(artJob, artItem') /\ SucceededStay(artItem, artItem')
  <2>1. CASE artItem' = artItem
    BY <1>1, <2>1 DEF SucceededStay
  <2>2. CASE artItem' # artItem
    <3>1. ItemFits(artItem[i]) /\ artItem[i] \in ItemRecords
          /\ artItem[i].status = "RUNNING" /\ artItem[i].attempts > 0
      BY <1>1, <2>2 DEF ArtFits, ItemFits
    <3>2. ItemFits([Requeued(artItem[i]) EXCEPT !.attempts = @ - 1])
          /\ Active([Requeued(artItem[i]) EXCEPT !.attempts = @ - 1])
      <4>1. Requeued(artItem[i]) \in ItemRecords /\ Requeued(artItem[i]).status = "PENDING"
            /\ Requeued(artItem[i]).owner = None /\ Requeued(artItem[i]).attempts = artItem[i].attempts
        BY <3>1, RequeuedFits
      <4> DEFINE used == Requeued(artItem[i]).attempts - 1
      <4>2. used \in 0..MaxAttempts
        BY <3>1, <4>1, QueueAssumption DEF ItemRecords
      <4> HIDE DEF used
      <4>3. [Requeued(artItem[i]) EXCEPT !.attempts = used] \in ItemRecords
        BY ONLY <4>1, <4>2 DEF ItemRecords
      <4>4. [Requeued(artItem[i]) EXCEPT !.attempts = used].status = "PENDING"
            /\ [Requeued(artItem[i]) EXCEPT !.attempts = used].owner = None
        BY ONLY <4>1 DEF ItemRecords
      <4> QED
        BY <4>3, <4>4, Zenon DEF used, ItemFits, Active
    <3>3. ItemFits([Ended(artItem[i], "PENDING") EXCEPT !.due = FALSE])
          /\ Active([Ended(artItem[i], "PENDING") EXCEPT !.due = FALSE])
      <4>1. Ended(artItem[i], "PENDING") \in ItemRecords /\ Ended(artItem[i], "PENDING").status = "PENDING"
            /\ Ended(artItem[i], "PENDING").owner = None
        BY <3>1, EndedFits DEF ItemStatuses
      <4> QED
        BY ONLY <4>1 DEF ItemFits, ItemRecords, Active
    <3>4. PICK record : ItemFits(record) /\ Active(record) /\ artItem' = [artItem EXCEPT ![i] = record]
      BY <2>2, <3>2, <3>3, Zenon
    <3>5. artItem' = [k \in Items |-> artItem'[k]] /\ Active(artItem[i])
      BY <1>1, <3>1, <3>4 DEF ArtFits, Active
    <3>6. \A k \in Items : /\ ItemFits(artItem'[k])
                           /\ \/ artItem'[k].status = artItem[k].status
                              \/ Active(artItem[k]) /\ Active(artItem'[k])
      BY <1>1, <3>4, <3>5 DEF ArtFits
    <3> QED
      BY ONLY <1>1, <3>5, <3>6, UncountedArtMoves
  <2> QED
    BY <2>1, <2>2
<1>4. artJob' = artJob /\ picture' = picture
  BY DEF ArtHolds
<1> QED
  BY <1>2, <1>3, <1>4, SamePictures DEF ArtInv

LEMMA ArtExecutionFits ==
    ASSUME ArtInv, NEW w \in Workers, NEW i \in Items,
           \/ Art!SearchArtists(w, i) \/ Art!DownloadFails(w, i) \/ Art!ReleaseItem(w, i)
           \/ Art!RetryItem(w, i) \/ Art!RenewItemLease(w, i) \/ Art!OutcomeLost(w, i)
    PROVE  ArtInv'
<1> USE DEF Art!Now
<1>1. {"SKIPPED", "FAILED", "RETRY", "found", "none"} \subseteq Claims \ {"SUCCEEDED"}
  BY DEF Claims, Executing, Decisions, Outcomes
<1>2. CASE Art!SearchArtists(w, i) \/ Art!DownloadFails(w, i)
  <2>1. artItem' = artItem /\ UNCHANGED <<artJob, picture, artFinish, artUp, artStops>>
    BY <1>2 DEF Art!SearchArtists, Art!DownloadFails
  <2>2. \E value \in Claims \ {"SUCCEEDED"} : artClaim' = [artClaim EXCEPT ![w][i] = value]
    BY <1>1, <1>2, Zenon DEF Art!SearchArtists, Art!DownloadFails
  <2> QED
    BY <2>1, <2>2, ArtHoldsFits DEF ArtHolds
<1>3. CASE Art!RenewItemLease(w, i) \/ Art!OutcomeLost(w, i)
  <2>1. artItem' = artItem /\ UNCHANGED <<artJob, picture, artFinish, artUp, artStops>>
    BY <1>3 DEF Art!RenewItemLease, Art!OutcomeLost
  <2>2. \E value \in Claims \ {"SUCCEEDED"} : artClaim' = [artClaim EXCEPT ![w][i] = value]
    BY <1>1, <1>3, Zenon DEF Art!RenewItemLease, Art!OutcomeLost
  <2> QED
    BY <2>1, <2>2, ArtHoldsFits DEF ArtHolds
<1>4. CASE Art!ReleaseItem(w, i)
  <2>1. artClaim' = [artClaim EXCEPT ![w][i] = "none"]
        /\ UNCHANGED <<artJob, picture, artFinish, artUp, artStops>>
    BY <1>4 DEF Art!ReleaseItem
  <2>2. ArtHolds(w, i)
    BY <1>1, <2>1 DEF ArtHolds
  <2>3. \/ artItem' = artItem
        \/ /\ artItem[i].status = "RUNNING"
           /\ artItem' = [artItem EXCEPT ![i] = [Art!Requeued(artItem[i]) EXCEPT !.attempts = @ - 1]]
    BY <1>4, Zenon DEF Art!ReleaseItem
  <2>4. Art!Requeued(artItem[i]) = Requeued(artItem[i])
    BY ArtNames
  <2> QED
    BY <2>2, <2>3, <2>4, ArtHoldsFits, Zenon
<1>5. CASE Art!RetryItem(w, i)
  <2>1. UNCHANGED <<artJob, picture, artFinish, artUp, artStops>>
    BY <1>5 DEF Art!RetryItem
  <2>2. \E value \in Claims \ {"SUCCEEDED"} : artClaim' = [artClaim EXCEPT ![w][i] = value]
    BY <1>1, <1>5, Zenon DEF Art!RetryItem
  <2>3. \/ artItem' = artItem
        \/ /\ artItem[i].status = "RUNNING"
           /\ artItem' = [artItem EXCEPT ![i] = [Art!Ended(artItem[i], "PENDING") EXCEPT !.due = FALSE]]
    BY <1>5, Zenon DEF Art!RetryItem, Art!ItemOwned
  <2>4. Art!Ended(artItem[i], "PENDING") = Ended(artItem[i], "PENDING")
    BY ArtNames
  <2>5. ArtHolds(w, i)
    BY <2>1, <2>2 DEF ArtHolds
  <2> QED
    BY <2>3, <2>4, <2>5, ArtHoldsFits, Zenon
<1> QED
  BY <1>2, <1>3, <1>4, <1>5

(* The clock, the edits, the processes that go away and come back.          *)
LEMMA ArtSurroundingFits ==
    ASSUME ArtInv,
           \/ \E i \in Items : Art!EditArtist(i) \/ Art!LeaseLapses(i) \/ Art!RetryIsDue(i)
           \/ \E w \in Workers : Art!Close(w) \/ Art!Crash(w) \/ Art!Start(w)
    PROVE  ArtInv'
<1>1. ArtRest /\ ArtFits(artJob, artItem)
  BY DEF ArtInv
<1>2. \A i \in Items : ItemFits(artItem[i]) /\ artItem[i] \in ItemRecords
  BY <1>1 DEF ArtFits, ItemFits
<1>3. ASSUME NEW i \in Items, Art!EditArtist(i) PROVE ArtInv'
  <2>1. /\ picture[i] = "missing" /\ picture' = [picture EXCEPT ![i] = "changed"]
        /\ UNCHANGED <<artJob, artItem, artClaim, artFinish, artUp, artStops>>
    BY <1>3 DEF Art!EditArtist
  <2>2. ArtRest'
    BY <1>1, <2>1 DEF ArtRest
  <2>3. Art!PictureIffSucceeded' /\ SuccessIsCommitted'
    BY <1>1, <2>1 DEF ArtInv, Art!PictureIffSucceeded, SuccessIsCommitted, ArtRest
  <2> QED
    BY <1>1, <2>1, <2>2, <2>3 DEF ArtInv
<1>4. ASSUME NEW after, artItem' = after, after = [k \in Items |-> after[k]],
             \A k \in Items : ItemFits(after[k]) /\ after[k].status = artItem[k].status,
             artJob' = artJob, picture' = picture, ArtRest',
             \A v \in Workers, k \in Items :
                artClaim'[v][k] = "SUCCEEDED" => artClaim[v][k] = "SUCCEEDED"
      PROVE  ArtInv'
  <2>1. ArtFits(artJob, after) /\ SucceededStay(artItem, after)
    BY ONLY <1>1, <1>4, UncountedArtMoves
  <2> QED
    BY <1>4, <2>1, SamePictures DEF ArtInv
<1>5. ASSUME NEW i \in Items, Art!LeaseLapses(i) \/ Art!RetryIsDue(i) PROVE ArtInv'
  <2>1. ArtRest' /\ UNCHANGED <<artJob, picture, artClaim>>
    BY <1>1, <1>5 DEF Art!LeaseLapses, Art!RetryIsDue, ArtRest
  <2>2. PICK record : /\ record \in {[artItem[i] EXCEPT !.live = FALSE], [artItem[i] EXCEPT !.due = TRUE]}
                      /\ artItem' = [artItem EXCEPT ![i] = record]
    BY <1>5, Zenon DEF Art!LeaseLapses, Art!RetryIsDue
  <2>3. ItemFits(record) /\ record.status = artItem[i].status
    BY <1>2, <2>2 DEF ItemFits, ItemRecords
  <2>4. artItem' = [k \in Items |-> artItem'[k]]
    BY <1>1, <2>2 DEF ArtFits
  <2>5. \A k \in Items : ItemFits(artItem'[k]) /\ artItem'[k].status = artItem[k].status
    BY <1>1, <1>2, <2>2, <2>3 DEF ArtFits
  <2> QED
    BY <1>4, <2>1, <2>4, <2>5
<1>6. ASSUME NEW w \in Workers, Art!Close(w) PROVE ArtInv'
  <2>1. ArtRest' /\ UNCHANGED <<artJob, artItem, picture, artClaim>>
    BY <1>1, <1>6, QueueAssumption DEF Art!Close, ArtRest
  <2>2. artItem' = [k \in Items |-> artItem'[k]] /\ \A k \in Items : ItemFits(artItem'[k])
    BY <1>1, <1>2, <2>1 DEF ArtFits
  <2> QED
    BY <1>4, <2>1, <2>2
<1>7. ASSUME NEW w \in Workers, Art!Crash(w) PROVE ArtInv'
  <2>1. UNCHANGED <<artJob, picture>> /\ artClaim' = [artClaim EXCEPT ![w] = NoClaims]
    BY <1>7, ArtNames DEF Art!Crash
  <2>2. ArtRest' /\ \A v \in Workers, k \in Items :
                       artClaim'[v][k] = "SUCCEEDED" => artClaim[v][k] = "SUCCEEDED"
    BY <1>1, <1>7, <2>1, QueueAssumption DEF Art!Crash, ArtRest, NoClaims, Claims
  <2>3. artItem' = [i \in Items |-> IF artItem[i].owner = w
                                    THEN [artItem[i] EXCEPT !.owner = Dead] ELSE artItem[i]]
    BY <1>7 DEF Art!Crash
  <2>4. \A i \in Items : ItemFits(artItem'[i]) /\ artItem'[i].status = artItem[i].status
    <3> TAKE i \in Items
    <3>1. w # None
      BY QueueAssumption
    <3> QED
      BY <1>2, <2>3, <3>1 DEF ItemFits, ItemRecords
  <2>5. artItem' = [k \in Items |-> artItem'[k]]
    BY <2>3
  <2> QED
    BY <1>4, <2>1, <2>2, <2>4, <2>5
<1>8. ASSUME NEW w \in Workers, Art!Start(w) PROVE ArtInv'
  <2> DEFINE items == Art!recoverExpired
             jobs == Art!recountAffected(items)
  <2>1. /\ artUp' = [artUp EXCEPT ![w] = TRUE] /\ artJob' = jobs
        /\ artItem' = [i \in Items |-> IF items[i].owner = w
                                       THEN [items[i] EXCEPT !.owner = Dead] ELSE items[i]]
        /\ UNCHANGED <<picture, artClaim, artFinish, artStops>>
    BY <1>8, Zenon DEF Art!Start
  <2>2. ArtFits(jobs, items) /\ SucceededStay(artItem, items)
    BY <1>1, ArtRecoveryFits
  <2> HIDE DEF items, jobs
  <2>3. \A i \in Items : ItemFits(artItem'[i]) /\ artItem'[i].status = items[i].status
    <3> TAKE i \in Items
    <3>1. w # None /\ ItemFits(items[i]) /\ items[i] \in ItemRecords
      BY <2>2, QueueAssumption DEF ArtFits, ItemFits
    <3> QED
      BY <2>1, <3>1 DEF ItemFits, ItemRecords
  <2>4. ArtFits(artJob', artItem') /\ SucceededStay(items, artItem')
    <3> DEFINE after == artItem'
    <3>1. after = [k \in Items |-> after[k]]
          /\ \A k \in Items : ItemFits(after[k]) /\ after[k].status = items[k].status
      BY <2>1, <2>3
    <3> HIDE DEF after
    <3>2. ArtFits(jobs, after) /\ SucceededStay(items, after)
      BY ONLY <2>2, <3>1, UncountedArtMoves
    <3> QED
      BY <2>1, <3>2 DEF after
  <2>5. SucceededStay(artItem, artItem')
    BY <2>2, <2>4 DEF SucceededStay
  <2>6. ArtRest'
    BY <1>1, <2>1 DEF ArtRest
  <2> QED
    BY <2>1, <2>4, <2>5, <2>6, SamePictures DEF ArtInv
<1> QED
  BY <1>3, <1>5, <1>6, <1>7, <1>8

LEMMA ArtInit ==
    ASSUME Art!Init PROVE ArtInv
<1> USE QueueAssumption
<1>1. \A j \in Jobs : artJob[j] = NewJob /\ NewJob \in JobRecords
  BY ArtNames DEF Art!Init, NewJob, JobRecords, JobStatuses
<1>2. \A i \in Items : artItem[i] = NewItem /\ NewItem \in ItemRecords /\ picture[i] = "missing"
  BY ArtNames DEF Art!Init, NewItem, ItemRecords, ItemStatuses
<1>3. artJob = [j \in Jobs |-> artJob[j]] /\ artItem = [i \in Items |-> artItem[i]]
  BY DEF Art!Init
<1>4. artClaim = [w \in Workers |-> NoClaims]
  BY ArtNames DEF Art!Init
<1>5. ArtRest
  BY <1>4 DEF Art!Init, ArtRest, NoClaims, Claims
<1>6. \A j \in Jobs : JobSpans(artJob[j], artItem, j) /\ Counted(artJob[j], artItem, j)
  <2> TAKE j \in Jobs
  <2>1. \A i \in ItemsOf(j) : artItem[i].status = "ABSENT"
    <3> TAKE i \in ItemsOf(j)
    <3>1. i \in Items
      BY DEF ItemsOf
    <3> QED
      BY <1>2, <3>1 DEF NewItem
  <2>2. \A S \in SUBSET Outcomes : CountOf(artItem, j, S) = 0
    <3> TAKE S \in SUBSET Outcomes
    <3>1. {i \in ItemsOf(j) : artItem[i].status \in S} = {}
      BY <2>1 DEF Outcomes
    <3> QED
      BY <3>1, FS_EmptySet DEF CountOf
  <2>3. Counted(NewJob, artItem, j)
    BY <2>2 DEF Counted, NewJob, Outcomes
  <2> QED
    BY <1>1, <2>1, <2>3 DEF JobSpans, Active
<1>7. \A i \in Items : ItemFits(artItem[i])
  BY <1>2 DEF ItemFits, NewItem
<1>8. Art!PictureIffSucceeded /\ SuccessIsCommitted
  BY <1>2, <1>4 DEF Art!PictureIffSucceeded, SuccessIsCommitted, NewItem, NoClaims
<1> QED
  BY <1>3, <1>5, <1>6, <1>7, <1>8 DEF ArtInv, ArtFits

LEMMA ArtStep ==
    ASSUME ArtInv, Art!Next PROVE ArtInv'
<1>1. \A j : \A chosen : chosen \in SUBSET Art!ItemsOf(j) => chosen \in SUBSET ItemsOf(j)
  BY ArtNames
<1>2. CASE \E j \in Jobs : \/ \E chosen \in SUBSET Art!ItemsOf(j) : Art!Create(j, chosen)
                           \/ Art!RequestCancel(j) \/ Art!RetryBatch(j)
  BY <1>2, ArtCreateFits, ArtCancelFits, ArtRetryFits
<1>3. CASE \E i \in Items : Art!EditArtist(i) \/ Art!LeaseLapses(i) \/ Art!RetryIsDue(i)
  BY <1>3, ArtSurroundingFits
<1>4. ASSUME NEW w \in Workers, Art!Work(w) \/ Art!Close(w) \/ Art!Crash(w) PROVE ArtInv'
  BY <1>4, ArtClaimFits, ArtFinishFits, ArtCompletionsFit, ArtSurroundingFits, Zenon DEF Art!Work
<1>5. ASSUME NEW w \in Workers, NEW i \in Items,
             \/ Art!Execute(w, i) \/ Art!RenewItemLease(w, i)
             \/ Art!CompleteItem(w, i) \/ Art!OutcomeLost(w, i)
      PROVE  ArtInv'
  BY <1>5, ArtExecutionFits, ArtApplyFits, ArtCompletionsFit, Zenon DEF Art!Execute
<1> QED
  BY <1>2, <1>3, <1>4, <1>5, Zenon DEF Art!Next

(* What the invariant says to an administrator.                             *)
LEMMA ArtInvShows ==
    ASSUME ArtInv PROVE Art!TypeOK /\ Art!CountersAgree /\ Art!PictureIffSucceeded
<1>1. \A j \in Jobs : artJob[j] \in JobRecords /\ Counted(artJob[j], artItem, j)
  BY DEF ArtInv, ArtFits, JobSpans
<1>2. \A i \in Items : artItem[i] \in ItemRecords
  BY DEF ArtInv, ArtFits, ItemFits
<1>3. artJob \in [Jobs -> JobRecords] /\ artItem \in [Items -> ItemRecords]
  BY <1>1, <1>2 DEF ArtInv, ArtFits
<1>4. Art!TypeOK
  BY <1>3, ArtNames DEF Art!TypeOK, ArtInv, ArtRest
<1>5. \A j \in Jobs : artJob[j] = recountBatch(artJob[j], artItem, j)
  BY <1>1, RecountFits
<1>6. Art!CountersAgree
  BY <1>5, ArtNames, Zenon DEF Art!CountersAgree
<1> QED
  BY <1>4, <1>6 DEF ArtInv

-----------------------------------------------------------------------------
(* Permanent deletion                                                        *)

CallRecords ==
    [phase : Deletion!Phases \union Deletion!Answers, track : Tracks \union {None},
     version : 0..MaxVersion, item : DeleteItems \union {None},
     files : SUBSET Sources, hidden : SUBSET Sources]
DeleteItemRecords ==
    [status : {"ABSENT", "PENDING", "RUNNING", "SUCCEEDED", "FAILED"},
     expected : 0..MaxVersion, due : BOOLEAN, owner : Workers \union {None, Gone}, live : BOOLEAN]
DeleteJobRecords ==
    [status : {"ABSENT", "PENDING", "RUNNING", "COMPLETED", "FAILED"}, processed : Nat, failed : Nat]

DeletionTyped ==
    /\ row \in [Tracks -> [status : {"READY", "ARCHIVED", "GONE"}, version : 1..MaxVersion]]
    /\ writeback \in [Tracks -> {"none", "queued", "running", "cancelling"}]
    /\ scanning \in BOOLEAN
    /\ file \in [Sources -> {"there", "hidden", "removed"}]
    /\ lock \in [Tracks -> Deletion!Callers \union {None}]
    /\ call \in [Deletion!Callers -> CallRecords]
    /\ mishaps \in 0..MaxMishaps

\* A row that is gone never comes back.
GoneStays(before, after) ==
    \A t \in Tracks : before[t].status = "GONE" => after[t].status = "GONE"

(* What a deletion carries through its steps: its files are those of its    *)
(* track and of tracks that are gone, it hides files only while it can put  *)
(* them back or remove them, and it answers what became of its track.       *)
CallFits(record, rows) ==
    /\ record.phase # "idle" => record.track \in Tracks
    /\ record.item # None => record.track = TrackOf[record.item]
    /\ record.hidden # {} => record.phase \in {"hiding", "deleting", "restoring", "committed"}
    /\ \A s \in record.files \union record.hidden : \A t \in TracksOf[s] :
          t = record.track \/ rows[t].status = "GONE"
    /\ record.phase \in {"committed", "done", "missing"} => rows[record.track].status = "GONE"

EndedOf(items, j) == {i \in DeleteItems : BatchOf[i] = j /\ items[i].status \in {"SUCCEEDED", "FAILED"}}
FailedOf(items, j) == {i \in DeleteItems : BatchOf[i] = j /\ items[i].status = "FAILED"}
AllOf(j) == {i \in DeleteItems : BatchOf[i] = j}

\* A batch against its items.
DeleteJobFits(record, items, j) ==
    /\ record \in DeleteJobRecords
    /\ record.processed = Cardinality(EndedOf(items, j))
    /\ record.failed = Cardinality(FailedOf(items, j))
    /\ record.status \in {"COMPLETED", "FAILED"} <=> EndedOf(items, j) = AllOf(j)
    /\ record.status = "ABSENT" => \A i \in AllOf(j) : items[i].status = "ABSENT"

DeleteQueueFits(jobs, items, rows) ==
    /\ jobs \in [DeleteJobs -> DeleteJobRecords] /\ items \in [DeleteItems -> DeleteItemRecords]
    /\ \A j \in DeleteJobs : DeleteJobFits(jobs[j], items, j)
    /\ \A i \in DeleteItems : items[i].status = "SUCCEEDED" => rows[TrackOf[i]].status = "GONE"

(* The inductive invariant of the deletions.                                *)
DeletionInv ==
    /\ DeletionTyped
    /\ DeleteQueueFits(dJob, dItem, row)
    /\ \A c \in Deletion!Callers : CallFits(call[c], row)
    /\ Deletion!FilesGoWithTheirTracks
    /\ Deletion!NothingStaysHidden

LEMMA CallsOutliveRows ==
    ASSUME NEW record \in CallRecords, NEW before, NEW after, GoneStays(before, after),
           CallFits(record, before)
    PROVE  CallFits(record, after)
<1>1. \A s \in record.files \union record.hidden : \A t \in TracksOf[s] : t \in Tracks
  BY DeletionAssumption DEF CallRecords
<1>2. record.phase \in {"committed", "done", "missing"} => record.track \in Tracks
  BY DEF CallFits
<1> QED
  BY <1>1, <1>2 DEF CallFits, GoneStays

LEMMA QueueOutlivesRows ==
    ASSUME NEW jobs, NEW items, NEW before, NEW after, GoneStays(before, after),
           DeleteQueueFits(jobs, items, before)
    PROVE  DeleteQueueFits(jobs, items, after)
<1>1. \A i \in DeleteItems : TrackOf[i] \in Tracks
  BY DeletionAssumption
<1> QED
  BY <1>1 DEF DeleteQueueFits, GoneStays

\* A file goes once no track needs it, and is out of sight only on a list.
FilesFollow(c, record, rows) ==
    \A s \in Sources :
       /\ file'[s] = "removed" =>
             file[s] = "removed" \/ \A t \in TracksOf[s] : rows[t].status = "GONE"
       /\ file'[s] = "hidden" /\ mishaps' = 0 =>
             \/ s \in record.hidden
             \/ file[s] = "hidden" /\ s \notin call[c].hidden
             \/ \A t \in TracksOf[s] : rows[t].status = "GONE"

(* A step of one deletion: it keeps the files out of sight that it does not *)
(* put back or remove, unless something failed.                             *)
LEMMA OneCallMoves ==
    ASSUME DeletionInv, NEW c \in Deletion!Callers, NEW record \in CallRecords,
           call' = [call EXCEPT ![c] = record],
           DeletionTyped', GoneStays(row, row'), CallFits(record, row'),
           DeleteQueueFits(dJob', dItem', row'),
           mishaps' = 0 => mishaps = 0, FilesFollow(c, record, row')
    PROVE  DeletionInv'
<1>1. \A d \in Deletion!Callers : CallFits(call'[d], row')
  <2> TAKE d \in Deletion!Callers
  <2>1. CASE d = c
    BY <2>1 DEF DeletionInv, DeletionTyped
  <2>2. CASE d # c
    <3>1. call'[d] = call[d] /\ call[d] \in CallRecords /\ CallFits(call[d], row)
      BY <2>2 DEF DeletionInv, DeletionTyped
    <3> QED
      BY <3>1, CallsOutliveRows
  <2> QED
    BY <2>1, <2>2
<1>2. \A s \in Sources : \A t \in TracksOf[s] : t \in Tracks
  BY DeletionAssumption
<1>3. Deletion!FilesGoWithTheirTracks'
  BY <1>2 DEF DeletionInv, Deletion!FilesGoWithTheirTracks, GoneStays, FilesFollow
<1>4. Deletion!NothingStaysHidden'
  <2> SUFFICES ASSUME NEW s \in Sources, file'[s] = "hidden", mishaps' = 0,
                      ~(\A t \in TracksOf[s] : row'[t].status = "GONE")
               PROVE  \E d \in Deletion!Callers : s \in call'[d].hidden
    BY DEF Deletion!NothingStaysHidden, Deletion!Callers
  <2>1. CASE s \in record.hidden
    BY <2>1 DEF DeletionInv, DeletionTyped
  <2>2. CASE file[s] = "hidden" /\ s \notin call[c].hidden
    <3>1. ~(\A t \in TracksOf[s] : row[t].status = "GONE")
      BY <1>2 DEF GoneStays
    <3>2. PICK d \in Deletion!Callers : s \in call[d].hidden
      BY <2>2, <3>1 DEF DeletionInv, Deletion!NothingStaysHidden, Deletion!Callers
    <3>3. call'[d] = call[d]
      BY <2>2, <3>2 DEF DeletionInv, DeletionTyped
    <3> QED
      BY <3>2, <3>3
  <2> QED
    BY <2>1, <2>2 DEF FilesFollow
<1> QED
  BY <1>1, <1>3, <1>4 DEF DeletionInv

(* A step of nobody's deletion.                                             *)
LEMMA NoCallMoves ==
    ASSUME DeletionInv, call' = call, file' = file, mishaps' = 0 => mishaps = 0,
           DeletionTyped', GoneStays(row, row'), DeleteQueueFits(dJob', dItem', row')
    PROVE  DeletionInv'
<1>1. \A d \in Deletion!Callers : CallFits(call'[d], row')
  <2> TAKE d \in Deletion!Callers
  <2>1. call'[d] = call[d] /\ call[d] \in CallRecords /\ CallFits(call[d], row)
    BY DEF DeletionInv, DeletionTyped
  <2> QED
    BY <2>1, CallsOutliveRows
<1>2. \A s \in Sources : \A t \in TracksOf[s] : t \in Tracks
  BY DeletionAssumption
<1>3. Deletion!FilesGoWithTheirTracks'
  BY <1>2 DEF DeletionInv, Deletion!FilesGoWithTheirTracks, GoneStays
<1>4. Deletion!NothingStaysHidden'
  BY <1>2 DEF DeletionInv, Deletion!NothingStaysHidden, GoneStays
<1> QED
  BY <1>1, <1>3, <1>4 DEF DeletionInv

LEMMA DeletionNames ==
    /\ \A S : Deletion!Cardinality(S) = Cardinality(S) /\ Deletion!Min(S) = Min(S)
    /\ \A j : Deletion!ItemsOfBatch(j) = AllOf(j)
    /\ Deletion!Callers = Admins \union Workers
BY Zenon DEF Deletion!Cardinality, Cardinality, Deletion!Min, Min, Deletion!ItemsOfBatch, AllOf,
             Deletion!Callers

(* Items that move between waiting and running change no counter.           *)
LEMMA WaitingItemsMove ==
    ASSUME NEW jobs, NEW items, NEW rows, DeleteQueueFits(jobs, items, rows),
           NEW after \in [DeleteItems -> DeleteItemRecords],
           \A i \in DeleteItems : \/ after[i].status = items[i].status
                                  \/ {items[i].status, after[i].status} \subseteq {"PENDING", "RUNNING"}
    PROVE  DeleteQueueFits(jobs, after, rows)
<1>1. ASSUME NEW j \in DeleteJobs PROVE DeleteJobFits(jobs[j], after, j)
  <2>1. EndedOf(after, j) = EndedOf(items, j) /\ FailedOf(after, j) = FailedOf(items, j)
    BY DEF EndedOf, FailedOf
  <2>2. DeleteJobFits(jobs[j], items, j)
    BY DEF DeleteQueueFits
  <2>3. \A i \in AllOf(j) : items[i].status = "ABSENT" => after[i].status = "ABSENT"
    BY DEF AllOf
  <2> QED
    BY <2>1, <2>2, <2>3 DEF DeleteJobFits
<1> QED
  BY <1>1 DEF DeleteQueueFits

(* One batch changes with its items.                                        *)
LEMMA OneBatchMoves ==
    ASSUME NEW jobs, NEW items, NEW rows, DeleteQueueFits(jobs, items, rows),
           NEW j \in DeleteJobs, NEW record, NEW after \in [DeleteItems -> DeleteItemRecords],
           \A i \in DeleteItems \ AllOf(j) : after[i].status = items[i].status,
           \A i \in AllOf(j) : after[i].status = "SUCCEEDED" => rows[TrackOf[i]].status = "GONE",
           DeleteJobFits(record, after, j)
    PROVE  DeleteQueueFits([jobs EXCEPT ![j] = record], after, rows)
<1> DEFINE moved == [jobs EXCEPT ![j] = record]
<1>1. ASSUME NEW k \in DeleteJobs PROVE DeleteJobFits(moved[k], after, k)
  <2>1. CASE k = j
    BY <2>1 DEF DeleteQueueFits
  <2>2. CASE k # j
    <3>1. \A i \in AllOf(k) : i \in DeleteItems /\ after[i].status = items[i].status
      BY <2>2 DEF AllOf
    <3>2. EndedOf(after, k) = EndedOf(items, k) /\ FailedOf(after, k) = FailedOf(items, k)
      BY <3>1 DEF EndedOf, FailedOf, AllOf
    <3>3. DeleteJobFits(jobs[k], items, k) /\ moved[k] = jobs[k]
      BY <2>2 DEF DeleteQueueFits
    <3> QED
      BY <3>1, <3>2, <3>3 DEF DeleteJobFits
  <2> QED
    BY <2>1, <2>2
<1>2. \A i \in DeleteItems : after[i].status = "SUCCEEDED" => rows[TrackOf[i]].status = "GONE"
  BY DEF DeleteQueueFits
<1>3. moved \in [DeleteJobs -> DeleteJobRecords]
  BY DEF DeleteQueueFits, DeleteJobFits
<1> QED
  BY <1>1, <1>2, <1>3 DEF DeleteQueueFits

LEMMA CreateBatchFits ==
    ASSUME DeletionInv, NEW j \in DeleteJobs, Deletion!CreatePermanentDeleteBatch(j)
    PROVE  DeleteQueueFits(dJob', dItem', row)
<1> DEFINE record == [dJob[j] EXCEPT !.status = "PENDING"]
<1>1. /\ dJob[j].status = "ABSENT" /\ dJob' = [dJob EXCEPT ![j] = record]
      /\ dItem' = [i \in DeleteItems |->
            IF BatchOf[i] = j
            THEN [dItem[i] EXCEPT !.status = "PENDING", !.expected = row[TrackOf[i]].version]
            ELSE dItem[i]]
  BY DEF Deletion!CreatePermanentDeleteBatch
<1>2. DeleteQueueFits(dJob, dItem, row) /\ DeleteJobFits(dJob[j], dItem, j) /\ dJob[j] \in DeleteJobRecords
  BY DEF DeletionInv, DeleteQueueFits, DeleteJobFits
<1>3. dItem' \in [DeleteItems -> DeleteItemRecords]
  <2>1. \A i \in DeleteItems : dItem[i] \in DeleteItemRecords /\ row[TrackOf[i]].version \in 0..MaxVersion
    BY <1>2, DeletionAssumption DEF DeletionInv, DeletionTyped, DeleteQueueFits
  <2> QED
    BY <1>1, <2>1 DEF DeleteItemRecords
<1>4. \A i \in AllOf(j) : dItem[i].status = "ABSENT" /\ dItem'[i].status = "PENDING"
  <2> TAKE i \in AllOf(j)
  <2>1. i \in DeleteItems /\ BatchOf[i] = j /\ dItem[i] \in DeleteItemRecords
    BY <1>2 DEF AllOf, DeleteQueueFits
  <2> QED
    BY <1>1, <1>2, <2>1 DEF DeleteJobFits, DeleteItemRecords
<1>5. \A i \in DeleteItems \ AllOf(j) : dItem'[i].status = dItem[i].status
  BY <1>1 DEF AllOf
<1>6. DeleteJobFits(record, dItem', j)
  <2>1. EndedOf(dItem', j) = {} /\ EndedOf(dItem, j) = {} /\ FailedOf(dItem', j) = {} /\ FailedOf(dItem, j) = {}
    BY <1>4 DEF EndedOf, FailedOf, AllOf
  <2>2. AllOf(j) # {}
    BY DeletionAssumption DEF AllOf
  <2>3. record \in DeleteJobRecords /\ record.status = "PENDING"
        /\ record.processed = dJob[j].processed /\ record.failed = dJob[j].failed
    BY <1>2 DEF DeleteJobRecords
  <2> HIDE DEF record
  <2> QED
    BY <1>2, <2>1, <2>2, <2>3 DEF DeleteJobFits
<1> HIDE DEF record
<1>7. \A i \in AllOf(j) : dItem'[i].status # "SUCCEEDED"
  BY <1>4
<1> DEFINE after == dItem'
<1>8. after \in [DeleteItems -> DeleteItemRecords] /\ DeleteJobFits(record, after, j)
      /\ (\A i \in DeleteItems \ AllOf(j) : after[i].status = dItem[i].status)
      /\ (\A i \in AllOf(j) : after[i].status = "SUCCEEDED" => row[TrackOf[i]].status = "GONE")
  BY <1>3, <1>5, <1>6, <1>7
<1> HIDE DEF after
<1>9. DeleteQueueFits([dJob EXCEPT ![j] = record], after, row)
  BY ONLY <1>2, <1>8, j \in DeleteJobs, OneBatchMoves
<1> QED
  BY <1>1, <1>9 DEF after

(* A claim first puts back every item whose lease lapsed.                   *)
LEMMA DeletionRecovers ==
    ASSUME DeletionInv
    PROVE  /\ DeleteQueueFits(dJob, Deletion!Recovered(dItem), row)
           /\ Deletion!Recovered(dItem) \in [DeleteItems -> DeleteItemRecords]
<1> DEFINE after == Deletion!Recovered(dItem)
<1>1. DeleteQueueFits(dJob, dItem, row) /\ dItem \in [DeleteItems -> DeleteItemRecords]
  BY DEF DeletionInv, DeleteQueueFits
<1>2. after = [i \in DeleteItems |->
          IF dItem[i].status = "RUNNING" /\ ~dItem[i].live
          THEN [[dItem[i] EXCEPT !.status = "PENDING", !.owner = None, !.live = FALSE] EXCEPT !.due = TRUE]
          ELSE dItem[i]]
  BY DEF Deletion!Recovered, Deletion!Lapsed, Deletion!Requeued
<1>3. \A i \in DeleteItems : /\ after[i] \in DeleteItemRecords
                             /\ \/ after[i].status = dItem[i].status
                                \/ {dItem[i].status, after[i].status} \subseteq {"PENDING", "RUNNING"}
  BY <1>1, <1>2 DEF DeleteItemRecords
<1>4. after \in [DeleteItems -> DeleteItemRecords]
  BY <1>2, <1>3
<1> HIDE DEF after
<1>5. DeleteQueueFits(dJob, after, row)
  BY ONLY <1>1, <1>3, <1>4, WaitingItemsMove
<1> QED
  BY <1>4, <1>5 DEF after

(* The item a claim takes is one that waits, of a batch in progress.        *)
LEMMA DeletionClaimFits ==
    ASSUME DeletionInv, NEW w \in Workers, Deletion!ClaimPermanentDeleteBatchItem(w)
    PROVE  \E i \in DeleteItems : \E record \in CallRecords :
              /\ DeleteQueueFits(dJob', dItem', row)
              /\ call' = [call EXCEPT ![w] = record]
              /\ record.phase = "claimed" /\ record.track = TrackOf[i] /\ record.item = i
              /\ record.files = {} /\ record.hidden = {}
              /\ UNCHANGED <<row, writeback, file, lock, scanning, mishaps>>
<1> DEFINE items == Deletion!Recovered(dItem)
           j == Deletion!Min(Deletion!ClaimableBatches(items))
           i == Deletion!FirstPending(items, j)
<1>1. DeleteQueueFits(dJob, items, row) /\ items \in [DeleteItems -> DeleteItemRecords]
  BY DeletionRecovers
<1>2. /\ Deletion!ClaimableBatches(items) # {}
      /\ dItem' = [items EXCEPT ![i].status = "RUNNING", ![i].owner = w, ![i].live = TRUE]
      /\ dJob' = [dJob EXCEPT ![j].status = "RUNNING"]
      /\ call' = [call EXCEPT ![w] = [Deletion!NoCall EXCEPT !.phase = "claimed", !.item = i,
                      !.track = TrackOf[i], !.version = items[i].expected]]
      /\ UNCHANGED <<Deletion!rowVars, scanning, mishaps>>
  BY Zenon DEF Deletion!ClaimPermanentDeleteBatchItem
<1> HIDE DEF items
<1>3. j \in DeleteJobs /\ Deletion!ActiveBatch(j) /\ \E k \in AllOf(j) : items[k].status = "PENDING"
  <2>1. Deletion!ClaimableBatches(items) \subseteq Nat
    BY DeletionAssumption DEF Deletion!ClaimableBatches
  <2>2. j \in Deletion!ClaimableBatches(items)
    BY <1>2, <2>1, LeastIsIn, DeletionNames
  <2> HIDE DEF j
  <2> QED
    BY <2>2, DeletionNames DEF Deletion!ClaimableBatches
<1> HIDE DEF j
<1>4. i \in AllOf(j) /\ items[i].status = "PENDING" /\ i \in DeleteItems
  <2> DEFINE waiting == {k \in AllOf(j) : items[k].status = "PENDING"}
  <2>1. i = Min(waiting)
    BY DeletionNames DEF Deletion!FirstPending
  <2>2. waiting \subseteq Nat /\ waiting # {}
    BY <1>3, DeletionAssumption DEF AllOf
  <2>3. Min(waiting) \in waiting
    BY <2>2, LeastIsIn
  <2> HIDE DEF i
  <2> QED
    BY <2>1, <2>3 DEF AllOf
<1> HIDE DEF i
<1> DEFINE record == [dJob[j] EXCEPT !.status = "RUNNING"]
           mine == [items[i] EXCEPT !.status = "RUNNING", !.owner = w, !.live = TRUE]
           after == [items EXCEPT ![i] = mine]
<1>5. dItem' = after /\ dJob' = [dJob EXCEPT ![j] = record]
  BY <1>1, <1>2
<1>6. items[i] \in DeleteItemRecords /\ mine \in DeleteItemRecords /\ mine.status = "RUNNING"
  BY <1>1, <1>4 DEF DeleteItemRecords
<1> HIDE DEF mine
<1>7. after \in [DeleteItems -> DeleteItemRecords]
      /\ \A k \in DeleteItems : \/ after[k].status = items[k].status
                                \/ {items[k].status, after[k].status} \subseteq {"PENDING", "RUNNING"}
  BY <1>1, <1>4, <1>6
<1> HIDE DEF after
<1>8. DeleteQueueFits(dJob, after, row)
  BY ONLY <1>1, <1>7, WaitingItemsMove
<1>9. DeleteJobFits(dJob[j], after, j) /\ dJob[j] \in DeleteJobRecords /\ dJob[j].status \in {"PENDING", "RUNNING"}
  BY <1>3, <1>8 DEF DeleteQueueFits, Deletion!ActiveBatch
<1>10. DeleteJobFits(record, after, j)
  <2>1. record \in DeleteJobRecords /\ record.status = "RUNNING"
        /\ record.processed = dJob[j].processed /\ record.failed = dJob[j].failed
    BY <1>9 DEF DeleteJobRecords
  <2> HIDE DEF record
  <2> QED
    BY <1>9, <2>1 DEF DeleteJobFits
<1> HIDE DEF record
<1>11. \A k \in AllOf(j) : after[k].status = "SUCCEEDED" => row[TrackOf[k]].status = "GONE"
  BY <1>8 DEF DeleteQueueFits, AllOf
<1>12. DeleteQueueFits([dJob EXCEPT ![j] = record], after, row)
  BY ONLY <1>3, <1>7, <1>8, <1>10, <1>11, OneBatchMoves
<1>13. items[i].expected \in 0..MaxVersion
  BY <1>6 DEF DeleteItemRecords
<1> DEFINE started == [Deletion!NoCall EXCEPT !.phase = "claimed", !.item = i, !.track = TrackOf[i],
                                       !.version = items[i].expected]
<1>14. started \in CallRecords /\ started.phase = "claimed" /\ started.track = TrackOf[i]
       /\ started.item = i /\ started.files = {} /\ started.hidden = {}
  <2>1. TrackOf[i] \in Tracks
    BY <1>4, DeletionAssumption
  <2> QED
    BY <1>4, <1>13, <2>1 DEF CallRecords, Deletion!NoCall, Deletion!Phases
<1>15. call' = [call EXCEPT ![w] = started]
  BY <1>2
<1> HIDE DEF started
<1>16. UNCHANGED <<row, writeback, file, lock, scanning, mishaps>>
  BY <1>2 DEF Deletion!rowVars
<1> QED
  BY <1>4, <1>5, <1>12, <1>14, <1>15, <1>16

(* An outcome is counted once, and ends the batch with its last item.       *)
LEMMA OutcomeFits ==
    ASSUME DeletionInv, NEW i \in DeleteItems, dItem[i].status = "RUNNING",
           NEW outcome \in {"SUCCEEDED", "FAILED"},
           outcome = "SUCCEEDED" => row[TrackOf[i]].status = "GONE",
           Deletion!CompletePermanentDeleteBatchItem(i, outcome)
    PROVE  DeleteQueueFits(dJob', dItem', row)
<1> DEFINE j == BatchOf[i]
           failed == dJob[j].failed + (IF outcome = "FAILED" THEN 1 ELSE 0)
           record == [status |-> IF dJob[j].processed + 1 # Cardinality(AllOf(j)) THEN "RUNNING"
                                 ELSE IF failed > 0 THEN "FAILED" ELSE "COMPLETED",
                      processed |-> dJob[j].processed + 1, failed |-> failed]
           mine == [[dItem[i] EXCEPT !.status = "PENDING", !.owner = None, !.live = FALSE]
                       EXCEPT !.status = outcome]
           after == [dItem EXCEPT ![i] = mine]
<1>1. dItem' = after /\ dJob' = [dJob EXCEPT ![j] = record]
  BY DeletionNames DEF Deletion!CompletePermanentDeleteBatchItem, Deletion!Requeued
<1>2. /\ j \in DeleteJobs /\ i \in AllOf(j)
      /\ DeleteQueueFits(dJob, dItem, row) /\ DeleteJobFits(dJob[j], dItem, j)
      /\ dJob[j] \in DeleteJobRecords /\ dItem \in [DeleteItems -> DeleteItemRecords]
  BY DeletionAssumption DEF DeletionInv, DeleteQueueFits, DeleteJobFits, AllOf
<1>3. mine \in DeleteItemRecords /\ mine.status = outcome
  BY <1>2 DEF DeleteItemRecords
<1> HIDE DEF mine
<1>4. after \in [DeleteItems -> DeleteItemRecords] /\ after[i].status = outcome
      /\ \A k \in DeleteItems : k # i => after[k] = dItem[k]
  BY <1>2, <1>3
<1> HIDE DEF after
<1>5. /\ EndedOf(after, j) = EndedOf(dItem, j) \union {i} /\ i \notin EndedOf(dItem, j)
      /\ FailedOf(after, j) = FailedOf(dItem, j) \union (IF outcome = "FAILED" THEN {i} ELSE {})
      /\ i \notin FailedOf(dItem, j)
  BY <1>4 DEF EndedOf, FailedOf
<1>6. /\ EndedOf(dItem, j) \in SUBSET AllOf(j) /\ FailedOf(dItem, j) \in SUBSET AllOf(j)
      /\ EndedOf(after, j) \in SUBSET AllOf(j) /\ IsFiniteSet(AllOf(j))
  <2>1. AllOf(j) \in SUBSET DeleteItems
    BY DEF AllOf
  <2>2. IsFiniteSet(AllOf(j))
    BY <2>1, DeletionAssumption, FS_Subset
  <2> QED
    BY <2>2 DEF EndedOf, FailedOf, AllOf
<1>7. IsFiniteSet(EndedOf(dItem, j)) /\ IsFiniteSet(FailedOf(dItem, j))
  BY <1>6, FS_Subset
<1>8. Cardinality(EndedOf(after, j)) = dJob[j].processed + 1
  <2>1. Cardinality(EndedOf(dItem, j) \union {i}) = Cardinality(EndedOf(dItem, j)) + 1
    BY <1>5, <1>7, FS_AddElement
  <2> QED
    BY <1>2, <1>5, <2>1 DEF DeleteJobFits
<1>9. Cardinality(FailedOf(after, j)) = failed
  <2>1. Cardinality(FailedOf(dItem, j) \union {i}) = Cardinality(FailedOf(dItem, j)) + 1
    BY <1>5, <1>7, FS_AddElement
  <2>2. dJob[j].failed = Cardinality(FailedOf(dItem, j)) /\ dJob[j].failed \in Nat
    BY <1>2 DEF DeleteJobFits, DeleteJobRecords
  <2>3. CASE outcome = "FAILED"
    BY <1>5, <2>1, <2>2, <2>3
  <2>4. CASE outcome # "FAILED"
    <3>1. FailedOf(after, j) = FailedOf(dItem, j)
      BY <1>5, <2>4
    <3> QED
      BY <2>2, <2>4, <3>1
  <2> QED
    BY <2>3, <2>4
<1>10. dJob[j].processed + 1 = Cardinality(AllOf(j)) <=> EndedOf(after, j) = AllOf(j)
  BY <1>6, <1>8, FS_Subset
<1>11. dJob[j].processed + 1 \in Nat /\ failed \in Nat
  BY <1>2 DEF DeleteJobRecords
<1>12. DeleteJobFits(record, after, j)
  <2> HIDE DEF j, failed
  <2>1. record \in DeleteJobRecords
    BY <1>11 DEF DeleteJobRecords
  <2>2. record.status \in {"COMPLETED", "FAILED"} <=> EndedOf(after, j) = AllOf(j)
    BY <1>10
  <2>3. record.status # "ABSENT"
    OBVIOUS
  <2> QED
    BY <1>8, <1>9, <2>1, <2>2, <2>3 DEF DeleteJobFits
<1> HIDE DEF record, j
<1>13. /\ \A k \in DeleteItems \ AllOf(j) : after[k].status = dItem[k].status
       /\ \A k \in AllOf(j) : after[k].status = "SUCCEEDED" => row[TrackOf[k]].status = "GONE"
  BY <1>2, <1>4 DEF DeleteQueueFits, AllOf
<1>14. DeleteQueueFits([dJob EXCEPT ![j] = record], after, row)
  BY ONLY <1>2, <1>4, <1>12, <1>13, OneBatchMoves
<1> QED
  BY <1>1, <1>14

(* The answer a caller notes.                                               *)
LEMMA OneAnswers ==
    ASSUME DeletionTyped, NEW c \in Deletion!Callers,
           NEW answer \in Deletion!Phases \union Deletion!Answers, Deletion!Answered(c, answer)
    PROVE  \E record \in CallRecords :
              /\ call' = [call EXCEPT ![c] = record]
              /\ record.phase = answer /\ record.track = call[c].track
              /\ record.version = call[c].version /\ record.item = call[c].item
              /\ record.files = call[c].files /\ record.hidden = call[c].hidden
<1> DEFINE record == [call[c] EXCEPT !.phase = answer]
<1>1. call[c] \in CallRecords /\ call' = [call EXCEPT ![c] = record]
  BY DEF DeletionTyped, Deletion!Answered
<1>2. /\ record \in CallRecords
      /\ record.phase = answer /\ record.track = call[c].track
      /\ record.version = call[c].version /\ record.item = call[c].item
      /\ record.files = call[c].files /\ record.hidden = call[c].hidden
  BY <1>1 DEF CallRecords
<1> HIDE DEF record
<1> QED
  BY <1>1, <1>2

(* A step of one deletion that leaves the rows and the batches alone.       *)
LEMMA OneCallAlone ==
    ASSUME DeletionInv, NEW c \in Deletion!Callers, NEW record \in CallRecords,
           call' = [call EXCEPT ![c] = record], CallFits(record, row),
           UNCHANGED <<row, scanning, dJob, dItem>>,
           writeback' \in [Tracks -> {"none", "queued", "running", "cancelling"}],
           lock' \in [Tracks -> Deletion!Callers \union {None}],
           file' \in [Sources -> {"there", "hidden", "removed"}],
           mishaps' \in 0..MaxMishaps, mishaps' = 0 => mishaps = 0, FilesFollow(c, record, row)
    PROVE  DeletionInv'
<1>1. DeletionTyped'
  BY DEF DeletionInv, DeletionTyped
<1>2. GoneStays(row, row') /\ CallFits(record, row')
  BY DEF GoneStays
<1>3. DeleteQueueFits(dJob', dItem', row')
  BY DEF DeletionInv
<1>4. FilesFollow(c, record, row')
  BY DEF FilesFollow
<1> QED
  BY <1>1, <1>2, <1>3, <1>4, OneCallMoves

(* ... and the files too.                                                   *)
LEMMA OneCallOnly ==
    ASSUME DeletionInv, NEW c \in Deletion!Callers, NEW record \in CallRecords,
           call' = [call EXCEPT ![c] = record], CallFits(record, row),
           call[c].hidden \subseteq record.hidden,
           UNCHANGED <<row, scanning, dJob, dItem, file, mishaps>>,
           writeback' \in [Tracks -> {"none", "queued", "running", "cancelling"}],
           lock' \in [Tracks -> Deletion!Callers \union {None}]
    PROVE  DeletionInv'
<1>1. DeletionTyped
  BY DEF DeletionInv
<1>2. /\ file' \in [Sources -> {"there", "hidden", "removed"}]
      /\ mishaps' \in 0..MaxMishaps /\ (mishaps' = 0 => mishaps = 0)
  BY <1>1 DEF DeletionTyped
<1>3. FilesFollow(c, record, row)
  BY DEF FilesFollow
<1> QED
  BY <1>2, <1>3, OneCallAlone

LEMMA RequestStep ==
    ASSUME DeletionInv, NEW a \in Admins, NEW t \in Tracks, Deletion!Request(a, t)
    PROVE  DeletionInv'
<1> DEFINE record == [Deletion!NoCall EXCEPT !.phase = "claimed", !.track = t, !.version = row[t].version]
<1>1. DeletionTyped /\ CallFits(call[a], row) /\ a \in Deletion!Callers /\ call[a].phase = "idle"
  BY DEF DeletionInv, Deletion!Callers, Deletion!Request
<1>2. call' = [call EXCEPT ![a] = record]
  BY DEF Deletion!Request
<1>3. record \in CallRecords /\ record.phase = "claimed" /\ record.track = t /\ record.item = None
      /\ record.files = {} /\ record.hidden = {}
  <2>1. row[t].version \in 0..MaxVersion
    BY <1>1 DEF DeletionTyped
  <2> QED
    BY <2>1 DEF CallRecords, Deletion!NoCall, Deletion!Phases
<1> HIDE DEF record
<1>4. CallFits(record, row)
  BY <1>3 DEF CallFits
<1>5. call[a].hidden \subseteq record.hidden
  BY <1>1 DEF CallFits
<1>6. UNCHANGED <<row, scanning, dJob, dItem, file, mishaps, writeback, lock>>
  BY DEF Deletion!Request, Deletion!rowVars, Deletion!queueVars
<1>7. /\ writeback' \in [Tracks -> {"none", "queued", "running", "cancelling"}]
      /\ lock' \in [Tracks -> Deletion!Callers \union {None}]
  BY <1>1, <1>6 DEF DeletionTyped
<1> QED
  BY <1>1, <1>2, <1>3, <1>4, <1>5, <1>6, <1>7, OneCallOnly

LEMMA ReplyStep ==
    ASSUME DeletionInv, NEW c \in Deletion!Callers, Deletion!Reply(c)
    PROVE  DeletionInv'
<1>1. DeletionTyped /\ CallFits(call[c], row) /\ call[c].phase \in Deletion!Answers
  BY DEF DeletionInv, Deletion!Reply
<1>2. call' = [call EXCEPT ![c] = Deletion!NoCall]
  BY DEF Deletion!Reply
<1>3. Deletion!NoCall \in CallRecords /\ CallFits(Deletion!NoCall, row)
  BY DeletionAssumption DEF CallRecords, Deletion!Phases, Deletion!NoCall, CallFits
<1>4. call[c].hidden \subseteq Deletion!NoCall.hidden
  BY <1>1 DEF CallFits, Deletion!Answers
<1>5. UNCHANGED <<row, scanning, dJob, dItem, file, mishaps, writeback, lock>>
  BY DEF Deletion!Reply, Deletion!rowVars, Deletion!queueVars
<1>6. /\ writeback' \in [Tracks -> {"none", "queued", "running", "cancelling"}]
      /\ lock' \in [Tracks -> Deletion!Callers \union {None}]
  BY <1>1, <1>5 DEF DeletionTyped
<1> QED
  BY <1>2, <1>3, <1>4, <1>5, <1>6, OneCallOnly

(* The files a deletion takes on are of no track but its own.               *)
LEMMA ReadStep ==
    ASSUME DeletionInv, NEW c \in Deletion!Callers, Deletion!Read(c)
    PROVE  DeletionInv'
<1> DEFINE t == call[c].track
<1>1. /\ DeletionTyped /\ CallFits(call[c], row) /\ call[c].phase = "claimed" /\ t \in Tracks
      /\ call[c] \in CallRecords /\ call[c].hidden = {}
  BY DEF DeletionInv, DeletionTyped, CallFits, Deletion!Read
<1>2. UNCHANGED <<row, scanning, dJob, dItem, file, mishaps, writeback, lock>>
  BY DEF Deletion!Read, Deletion!rowVars, Deletion!queueVars
<1>3. /\ writeback' \in [Tracks -> {"none", "queued", "running", "cancelling"}]
      /\ lock' \in [Tracks -> Deletion!Callers \union {None}]
  BY <1>1, <1>2 DEF DeletionTyped
<1>4. ASSUME NEW answer \in {"missing", "failed"}, Deletion!Answered(c, answer),
             answer = "missing" => row[t].status = "GONE"
      PROVE  DeletionInv'
  <2>1. answer \in Deletion!Phases \union Deletion!Answers
    BY DEF Deletion!Answers
  <2>2. PICK record \in CallRecords :
              /\ call' = [call EXCEPT ![c] = record]
              /\ record.phase = answer /\ record.track = call[c].track
              /\ record.version = call[c].version /\ record.item = call[c].item
              /\ record.files = call[c].files /\ record.hidden = call[c].hidden
    BY <1>1, <1>4, <2>1, OneAnswers
  <2>3. CallFits(record, row)
    BY <1>1, <1>4, <2>2 DEF CallFits
  <2> QED
    BY <1>2, <1>3, <2>2, <2>3, OneCallOnly
<1>5. ASSUME row[t].status = "ARCHIVED",
             call' = [call EXCEPT ![c].phase = "read", ![c].files = Deletion!OwnSources(t)]
      PROVE  DeletionInv'
  <2> DEFINE files == Deletion!OwnSources(t)
             record == [call[c] EXCEPT !.phase = "read", !.files = files]
  <2>1. call' = [call EXCEPT ![c] = record]
    BY <1>1, <1>5 DEF DeletionTyped
  <2>2. files \subseteq Sources
    BY DEF Deletion!OwnSources, Deletion!SourcesOf
  <2>3. ASSUME NEW s \in files, NEW u \in TracksOf[s]
        PROVE  u = t \/ row[u].status = "GONE"
    <3> DEFINE left == {v \in TracksOf[s] : row[v].status # "GONE"}
    <3>1. s \in Sources /\ t \in TracksOf[s] /\ Cardinality(left) <= 1
      BY <2>3, DeletionNames DEF Deletion!OwnSources, Deletion!SourcesOf, Deletion!TrackCount
    <3>2. IsFiniteSet(left)
      <4>1. left \in SUBSET Tracks
        BY <3>1, DeletionAssumption
      <4> QED
        BY <4>1, DeletionAssumption, FS_Subset
    <3>3. t \in left
      BY <1>5, <3>1
    <3>4. SUFFICES ASSUME u \in left, u # t PROVE FALSE
      BY <2>3
    <3> HIDE DEF left
    <3>5. {t, u} \subseteq left
      BY <3>3, <3>4
    <3>6. Cardinality({t, u}) <= Cardinality(left)
      BY <3>2, <3>5, FS_Subset
    <3>7. Cardinality({t, u}) = 2
      <4>1. IsFiniteSet({t}) /\ Cardinality({t}) = 1
        BY FS_Singleton
      <4>2. Cardinality({t} \union {u}) = Cardinality({t}) + 1
        BY <3>4, <4>1, FS_AddElement
      <4>3. {t} \union {u} = {t, u}
        OBVIOUS
      <4> QED
        BY <4>1, <4>2, <4>3
    <3>8. Cardinality(left) \in Nat
      BY <3>2, FS_CardinalityType
    <3> QED
      BY <3>1, <3>6, <3>7, <3>8
  <2> HIDE DEF files
  <2>4. record \in CallRecords /\ record.phase = "read" /\ record.track = t /\ record.files = files
        /\ record.item = call[c].item /\ record.hidden = {}
    BY <1>1, <2>2 DEF CallRecords, Deletion!Phases
  <2> HIDE DEF record
  <2>5. CallFits(record, row)
    BY <1>1, <2>3, <2>4 DEF CallFits
  <2>6. call[c].hidden \subseteq record.hidden
    BY <1>1
  <2> QED
    BY <1>2, <1>3, <2>1, <2>4, <2>5, <2>6, OneCallOnly
<1> QED
  BY <1>4, <1>5 DEF Deletion!Read, Deletion!Deletable, Deletion!CanDeleteTrackPermanently

LEMMA LockStep ==
    ASSUME DeletionInv, NEW c \in Deletion!Callers, Deletion!Lock(c)
    PROVE  DeletionInv'
<1> DEFINE t == call[c].track
<1>1. /\ DeletionTyped /\ CallFits(call[c], row) /\ call[c].phase = "read" /\ t \in Tracks
      /\ call[c] \in CallRecords /\ call[c].hidden = {}
  BY DEF DeletionInv, DeletionTyped, CallFits, Deletion!Lock
<1>2. UNCHANGED <<row, scanning, dJob, dItem, file, mishaps>>
  BY DEF Deletion!Lock, Deletion!queueVars
<1>3. writeback' \in [Tracks -> {"none", "queued", "running", "cancelling"}]
  BY <1>1 DEF Deletion!Lock, Deletion!CancelledForDeletion, DeletionTyped
<1>4. lock' \in [Tracks -> Deletion!Callers \union {None}]
  BY <1>1 DEF Deletion!Lock, DeletionTyped
<1>5. PICK answer \in {"missing", "failed", "conflict", "hiding"} :
          Deletion!Answered(c, answer) /\ (answer = "missing" => row[t].status = "GONE")
  BY DEF Deletion!Lock, Deletion!versionFailure
<1>6. answer \in Deletion!Phases \union Deletion!Answers
  BY DEF Deletion!Answers, Deletion!Phases
<1>7. PICK record \in CallRecords :
              /\ call' = [call EXCEPT ![c] = record]
              /\ record.phase = answer /\ record.track = call[c].track
              /\ record.version = call[c].version /\ record.item = call[c].item
              /\ record.files = call[c].files /\ record.hidden = call[c].hidden
  BY <1>1, <1>5, <1>6, OneAnswers
<1>8. CallFits(record, row)
  BY <1>1, <1>5, <1>7 DEF CallFits
<1> QED
  BY <1>2, <1>3, <1>4, <1>7, <1>8, OneCallOnly

LEMMA HiddenStep ==
    ASSUME DeletionInv, NEW c \in Deletion!Callers, Deletion!Hidden(c)
    PROVE  DeletionInv'
<1>1. DeletionTyped /\ CallFits(call[c], row) /\ call[c].phase = "hiding"
  BY DEF DeletionInv, Deletion!Hidden
<1>2. UNCHANGED <<row, scanning, dJob, dItem, file, mishaps, writeback, lock>>
  BY DEF Deletion!Hidden, Deletion!rowVars, Deletion!queueVars
<1>3. /\ writeback' \in [Tracks -> {"none", "queued", "running", "cancelling"}]
      /\ lock' \in [Tracks -> Deletion!Callers \union {None}]
  BY <1>1, <1>2 DEF DeletionTyped
<1>4. "deleting" \in Deletion!Phases \union Deletion!Answers /\ Deletion!Answered(c, "deleting")
  BY DEF Deletion!Phases, Deletion!Hidden
<1>5. PICK record \in CallRecords :
              /\ call' = [call EXCEPT ![c] = record]
              /\ record.phase = "deleting" /\ record.track = call[c].track
              /\ record.version = call[c].version /\ record.item = call[c].item
              /\ record.files = call[c].files /\ record.hidden = call[c].hidden
  BY <1>1, <1>4, OneAnswers
<1>6. CallFits(record, row)
  BY <1>1, <1>5 DEF CallFits
<1> QED
  BY <1>2, <1>3, <1>5, <1>6, OneCallOnly

(* A file goes out of sight and onto the list of those to put back at once. *)
LEMMA HideStep ==
    ASSUME DeletionInv, NEW c \in Deletion!Callers, NEW s \in Sources, Deletion!Hide(c, s)
    PROVE  DeletionInv'
<1>1. /\ DeletionTyped /\ CallFits(call[c], row) /\ call[c].phase = "hiding"
      /\ call[c] \in CallRecords /\ s \in call[c].files
  BY DEF DeletionInv, DeletionTyped, Deletion!Hide
<1>2. UNCHANGED <<row, scanning, dJob, dItem, mishaps, writeback, lock>>
  BY DEF Deletion!Hide, Deletion!queueVars
<1>3. /\ writeback' \in [Tracks -> {"none", "queued", "running", "cancelling"}]
      /\ lock' \in [Tracks -> Deletion!Callers \union {None}]
      /\ mishaps' \in 0..MaxMishaps /\ (mishaps' = 0 => mishaps = 0)
  BY <1>1, <1>2 DEF DeletionTyped
<1>4. CASE file[s] = "there"
  <2> DEFINE files == call[c].files \ {s}
             hidden == call[c].hidden \union {s}
             record == [call[c] EXCEPT !.files = files, !.hidden = hidden]
  <2>1. call' = [call EXCEPT ![c] = record] /\ file' = [file EXCEPT ![s] = "hidden"]
    BY <1>1, <1>4 DEF Deletion!Hide, DeletionTyped
  <2>2. files \subseteq call[c].files /\ hidden \subseteq call[c].files \union call[c].hidden
        /\ files \subseteq Sources /\ hidden \subseteq Sources
        /\ s \in hidden /\ call[c].hidden \subseteq hidden
    BY <1>1 DEF CallRecords
  <2> HIDE DEF files, hidden
  <2>3. record \in CallRecords /\ record.phase = "hiding" /\ record.track = call[c].track
        /\ record.item = call[c].item /\ record.files = files /\ record.hidden = hidden
    BY <1>1, <2>2 DEF CallRecords
  <2> HIDE DEF record
  <2>4. CallFits(record, row)
    BY <1>1, <2>2, <2>3 DEF CallFits
  <2>5. /\ file' \in [Sources -> {"there", "hidden", "removed"}]
        /\ \A u \in Sources : u # s => file'[u] = file[u]
        /\ file'[s] = "hidden"
    BY <1>1, <2>1 DEF DeletionTyped
  <2>6. FilesFollow(c, record, row)
    BY <2>2, <2>3, <2>5 DEF FilesFollow
  <2> QED
    BY <1>2, <1>3, <2>1, <2>3, <2>4, <2>5, <2>6, OneCallAlone
<1>5. CASE file[s] # "there"
  <2> DEFINE files == call[c].files \ {s}
             record == [call[c] EXCEPT !.files = files]
  <2>1. call' = [call EXCEPT ![c] = record] /\ file' = file
    BY <1>1, <1>5 DEF Deletion!Hide, DeletionTyped
  <2>2. files \subseteq call[c].files /\ files \subseteq Sources
    BY <1>1 DEF CallRecords
  <2> HIDE DEF files
  <2>3. record \in CallRecords /\ record.phase = "hiding" /\ record.track = call[c].track
        /\ record.item = call[c].item /\ record.files = files /\ record.hidden = call[c].hidden
    BY <1>1, <2>2 DEF CallRecords
  <2> HIDE DEF record
  <2>4. CallFits(record, row)
    BY <1>1, <2>2, <2>3 DEF CallFits
  <2> QED
    BY <1>2, <1>3, <2>1, <2>3, <2>4, OneCallOnly
<1> QED
  BY <1>4, <1>5

(* Files go back; one that does not is a mishap.                            *)
LEMMA RestoredFits ==
    ASSUME DeletionInv, NEW c \in Deletion!Callers, NEW kept,
           Deletion!RestoreStagedSourceFiles(c, kept),
           UNCHANGED <<row, writeback, scanning, dJob, dItem>>,
           lock' \in [Tracks -> Deletion!Callers \union {None}],
           call[c].phase # "idle"
    PROVE  DeletionInv'
<1> DEFINE record == [call[c] EXCEPT !.phase = "failed", !.files = {}, !.hidden = {}]
<1>1. DeletionTyped /\ CallFits(call[c], row) /\ call[c] \in CallRecords
  BY DEF DeletionInv, DeletionTyped
<1>2. /\ call' = [call EXCEPT ![c] = record] /\ kept \subseteq call[c].hidden
      /\ file' = [s \in Sources |-> IF s \in call[c].hidden \ kept THEN "there" ELSE file[s]]
      /\ mishaps + Cardinality(kept) <= MaxMishaps /\ mishaps' = mishaps + Cardinality(kept)
  BY <1>1, DeletionNames DEF Deletion!RestoreStagedSourceFiles, DeletionTyped
<1>3. /\ record \in CallRecords /\ record.phase = "failed" /\ record.track = call[c].track
      /\ record.item = call[c].item /\ record.files = {} /\ record.hidden = {}
  BY <1>1 DEF CallRecords, Deletion!Answers
<1> HIDE DEF record
<1>4. CallFits(record, row)
  BY <1>1, <1>3 DEF CallFits
<1>5. Cardinality(kept) \in Nat /\ (Cardinality(kept) = 0 => kept = {})
  <2>1. kept \in SUBSET Sources
    BY <1>1, <1>2 DEF CallRecords
  <2>2. IsFiniteSet(kept)
    BY <2>1, DeletionAssumption, FS_Subset
  <2> QED
    BY <2>2, FS_CardinalityType, FS_EmptySet
<1>6. mishaps \in Nat /\ mishaps' \in 0..MaxMishaps /\ (mishaps' = 0 => mishaps = 0 /\ kept = {})
  BY <1>1, <1>2, <1>5, DeletionAssumption DEF DeletionTyped
<1>7. writeback' \in [Tracks -> {"none", "queued", "running", "cancelling"}]
      /\ file' \in [Sources -> {"there", "hidden", "removed"}]
  BY <1>1, <1>2 DEF DeletionTyped
<1>8. FilesFollow(c, record, row)
  BY <1>2, <1>6 DEF FilesFollow
<1> QED
  BY <1>2, <1>3, <1>4, <1>6, <1>7, <1>8, OneCallAlone

LEMMA HideFailsStep ==
    ASSUME DeletionInv, NEW c \in Deletion!Callers, NEW kept, Deletion!HideFails(c, kept)
    PROVE  DeletionInv'
<1>1. lock' \in [Tracks -> Deletion!Callers \union {None}]
  BY DEF DeletionInv, DeletionTyped, Deletion!HideFails
<1>2. UNCHANGED <<row, writeback, scanning, dJob, dItem>> /\ call[c].phase # "idle"
  BY DEF Deletion!HideFails, Deletion!queueVars
<1>3. Deletion!RestoreStagedSourceFiles(c, kept)
  BY DEF Deletion!HideFails
<1> QED
  BY <1>1, <1>2, <1>3, RestoredFits

LEMMA RestoreStep ==
    ASSUME DeletionInv, NEW c \in Deletion!Callers, NEW kept, Deletion!Restore(c, kept)
    PROVE  DeletionInv'
<1>1. lock' \in [Tracks -> Deletion!Callers \union {None}]
  BY DEF DeletionInv, DeletionTyped, Deletion!Restore
<1>2. UNCHANGED <<row, writeback, scanning, dJob, dItem>> /\ call[c].phase # "idle"
  BY DEF Deletion!Restore, Deletion!queueVars
<1>3. Deletion!RestoreStagedSourceFiles(c, kept)
  BY DEF Deletion!Restore
<1> QED
  BY <1>1, <1>2, <1>3, RestoredFits

(* The rows of a track go.                                                  *)
LEMMA RowGoes ==
    ASSUME DeletionTyped, NEW t \in Tracks, row' = [row EXCEPT ![t].status = "GONE"]
    PROVE  /\ row' \in [Tracks -> [status : {"READY", "ARCHIVED", "GONE"}, version : 1..MaxVersion]]
           /\ row'[t].status = "GONE" /\ GoneStays(row, row')
BY DEF DeletionTyped, GoneStays

LEMMA DeleteRowsStep ==
    ASSUME DeletionInv, NEW c \in Deletion!Callers, Deletion!DeleteRows(c)
    PROVE  DeletionInv'
<1> DEFINE t == call[c].track
<1>1. /\ DeletionTyped /\ CallFits(call[c], row) /\ call[c].phase = "deleting" /\ t \in Tracks
      /\ call[c] \in CallRecords
  BY DEF DeletionInv, DeletionTyped, CallFits, Deletion!DeleteRows
<1>2. /\ row' = [row EXCEPT ![t].status = "GONE"] /\ writeback' = [writeback EXCEPT ![t] = "none"]
      /\ lock' = [lock EXCEPT ![t] = None] /\ Deletion!Answered(c, "committed")
      /\ UNCHANGED <<file, scanning, dJob, dItem, mishaps>>
  BY DEF Deletion!DeleteRows, Deletion!queueVars
<1>3. "committed" \in Deletion!Phases \union Deletion!Answers
  BY DEF Deletion!Phases
<1>4. PICK record \in CallRecords :
              /\ call' = [call EXCEPT ![c] = record]
              /\ record.phase = "committed" /\ record.track = call[c].track
              /\ record.version = call[c].version /\ record.item = call[c].item
              /\ record.files = call[c].files /\ record.hidden = call[c].hidden
  BY <1>1, <1>2, <1>3, OneAnswers
<1>5. /\ row' \in [Tracks -> [status : {"READY", "ARCHIVED", "GONE"}, version : 1..MaxVersion]]
      /\ row'[t].status = "GONE" /\ GoneStays(row, row')
  BY <1>1, <1>2, RowGoes
<1>6. DeletionTyped'
  BY <1>1, <1>2, <1>4, <1>5 DEF DeletionTyped
<1>7. CallFits(record, row')
  <2>1. CallFits(call[c], row')
    BY <1>1, <1>5, CallsOutliveRows
  <2> QED
    BY <1>1, <1>4, <1>5, <2>1 DEF CallFits
<1>8. DeleteQueueFits(dJob', dItem', row')
  <2>1. DeleteQueueFits(dJob, dItem, row')
    BY <1>5, QueueOutlivesRows DEF DeletionInv
  <2> QED
    BY <1>2, <2>1
<1>9. FilesFollow(c, record, row')
  BY <1>2, <1>4 DEF FilesFollow
<1> QED
  BY <1>2, <1>4, <1>5, <1>6, <1>7, <1>8, <1>9, OneCallMoves

LEMMA DeleteFailsStep ==
    ASSUME DeletionInv, NEW c \in Deletion!Callers, Deletion!DeleteFails(c)
    PROVE  DeletionInv'
<1> DEFINE t == call[c].track
<1>1. /\ DeletionTyped /\ CallFits(call[c], row) /\ call[c].phase = "deleting" /\ t \in Tracks
      /\ call[c] \in CallRecords
  BY DEF DeletionInv, DeletionTyped, CallFits, Deletion!DeleteFails
<1>2. /\ lock' = [lock EXCEPT ![t] = None] /\ Deletion!Answered(c, "restoring")
      /\ UNCHANGED <<file, scanning, dJob, dItem>>
      /\ \/ UNCHANGED <<row, writeback, mishaps>>
         \/ /\ mishaps < MaxMishaps /\ mishaps' = mishaps + 1
            /\ row' = [row EXCEPT ![t].status = "GONE"] /\ writeback' = [writeback EXCEPT ![t] = "none"]
  BY DEF Deletion!DeleteFails, Deletion!queueVars
<1>3. "restoring" \in Deletion!Phases \union Deletion!Answers
  BY DEF Deletion!Phases
<1>4. PICK record \in CallRecords :
              /\ call' = [call EXCEPT ![c] = record]
              /\ record.phase = "restoring" /\ record.track = call[c].track
              /\ record.version = call[c].version /\ record.item = call[c].item
              /\ record.files = call[c].files /\ record.hidden = call[c].hidden
  BY <1>1, <1>2, <1>3, OneAnswers
<1>5. /\ row' \in [Tracks -> [status : {"READY", "ARCHIVED", "GONE"}, version : 1..MaxVersion]]
      /\ GoneStays(row, row')
  <2>1. CASE row' = row
    BY <1>1, <2>1 DEF DeletionTyped, GoneStays
  <2>2. CASE row' = [row EXCEPT ![t].status = "GONE"]
    BY <1>1, <2>2, RowGoes
  <2> QED
    BY <1>2, <2>1, <2>2
<1>6. /\ writeback' \in [Tracks -> {"none", "queued", "running", "cancelling"}]
      /\ mishaps' \in 0..MaxMishaps /\ (mishaps' = 0 => mishaps = 0)
  <2>1. /\ writeback \in [Tracks -> {"none", "queued", "running", "cancelling"}]
        /\ mishaps \in 0..MaxMishaps
    BY <1>1 DEF DeletionTyped
  <2>2. writeback' \in [Tracks -> {"none", "queued", "running", "cancelling"}]
    BY <1>2, <2>1
  <2>3. mishaps' = mishaps \/ (mishaps < MaxMishaps /\ mishaps' = mishaps + 1)
    BY <1>2
  <2>4. mishaps' \in 0..MaxMishaps /\ (mishaps' = 0 => mishaps = 0)
    BY <2>1, <2>3, DeletionAssumption
  <2> QED
    BY <2>2, <2>4
<1>7. DeletionTyped'
  BY <1>1, <1>2, <1>4, <1>5, <1>6 DEF DeletionTyped
<1>8. CallFits(record, row')
  <2>1. CallFits(call[c], row')
    BY <1>1, <1>5, CallsOutliveRows
  <2> QED
    BY <1>1, <1>4, <1>5, <2>1 DEF CallFits
<1>9. DeleteQueueFits(dJob', dItem', row')
  <2>1. DeleteQueueFits(dJob, dItem, row')
    BY <1>5, QueueOutlivesRows DEF DeletionInv
  <2> QED
    BY <1>2, <2>1
<1>10. FilesFollow(c, record, row')
  BY <1>2, <1>4 DEF FilesFollow
<1> QED
  BY <1>2, <1>4, <1>5, <1>6, <1>7, <1>8, <1>9, <1>10, OneCallMoves

(* What is removed was of tracks that are gone.                             *)
LEMMA FinalizeStep ==
    ASSUME DeletionInv, NEW c \in Deletion!Callers, NEW quarantined, Deletion!Finalize(c, quarantined)
    PROVE  DeletionInv'
<1> DEFINE record == [call[c] EXCEPT !.phase = "done", !.hidden = {}]
<1>1. /\ DeletionTyped /\ CallFits(call[c], row) /\ call[c] \in CallRecords
      /\ call[c].phase = "committed"
  BY DEF DeletionInv, DeletionTyped, Deletion!Finalize
<1>2. /\ call' = [call EXCEPT ![c] = record]
      /\ file' = [s \in Sources |-> IF s \in call[c].hidden \ quarantined THEN "removed" ELSE file[s]]
      /\ UNCHANGED <<row, writeback, lock, scanning, dJob, dItem, mishaps>>
  BY <1>1 DEF Deletion!Finalize, DeletionTyped, Deletion!queueVars
<1>3. /\ record \in CallRecords /\ record.phase = "done" /\ record.track = call[c].track
      /\ record.item = call[c].item /\ record.files = call[c].files /\ record.hidden = {}
  BY <1>1 DEF CallRecords, Deletion!Answers
<1> HIDE DEF record
<1>4. CallFits(record, row)
  BY <1>1, <1>3 DEF CallFits
<1>5. /\ writeback' \in [Tracks -> {"none", "queued", "running", "cancelling"}]
      /\ lock' \in [Tracks -> Deletion!Callers \union {None}]
      /\ file' \in [Sources -> {"there", "hidden", "removed"}]
      /\ mishaps' \in 0..MaxMishaps /\ (mishaps' = 0 => mishaps = 0)
  BY <1>1, <1>2 DEF DeletionTyped
<1>6. \A s \in call[c].hidden : \A t \in TracksOf[s] : row[t].status = "GONE"
  BY <1>1 DEF CallFits
<1>7. FilesFollow(c, record, row)
  BY <1>2, <1>6 DEF FilesFollow
<1> QED
  BY <1>2, <1>3, <1>4, <1>5, <1>7, OneCallAlone

(* A call that ends, by itself or with its process, while its batch moves.  *)
LEMMA CallEnds ==
    ASSUME DeletionInv, NEW c \in Deletion!Callers, call' = [call EXCEPT ![c] = Deletion!NoCall],
           UNCHANGED <<row, writeback, file, scanning>>,
           lock' \in [Tracks -> Deletion!Callers \union {None}],
           mishaps' \in 0..MaxMishaps, mishaps' = 0 => mishaps = 0 /\ call[c].hidden = {},
           DeleteQueueFits(dJob', dItem', row)
    PROVE  DeletionInv'
<1>1. DeletionTyped
  BY DEF DeletionInv
<1>2. Deletion!NoCall \in CallRecords /\ CallFits(Deletion!NoCall, row')
  BY DeletionAssumption DEF CallRecords, Deletion!Phases, Deletion!NoCall, CallFits
<1>3. DeletionTyped'
  BY <1>1, <1>2 DEF DeletionTyped
<1>4. GoneStays(row, row') /\ DeleteQueueFits(dJob', dItem', row')
  BY DEF GoneStays
<1>5. FilesFollow(c, Deletion!NoCall, row')
  BY DEF FilesFollow
<1> QED
  BY <1>2, <1>3, <1>4, <1>5, OneCallMoves

LEMMA OwnedIsRunning ==
    ASSUME DeletionInv, NEW c \in Deletion!Callers, Deletion!Owned(c)
    PROVE  /\ call[c].item \in DeleteItems /\ dItem[call[c].item].status = "RUNNING"
           /\ call[c].track = TrackOf[call[c].item]
<1>1. call[c] \in CallRecords /\ CallFits(call[c], row) /\ call[c].item # None
  BY DEF DeletionInv, DeletionTyped, Deletion!Owned
<1>2. call[c].item \in DeleteItems
  BY <1>1 DEF CallRecords
<1>3. call[c].track = TrackOf[call[c].item]
  BY <1>1 DEF CallFits
<1> QED
  BY <1>2, <1>3 DEF Deletion!Owned

(* A running item changes and keeps waiting or running.                     *)
LEMMA OneItemMoves ==
    ASSUME DeletionInv, NEW i \in DeleteItems, dItem[i].status \in {"PENDING", "RUNNING"},
           NEW record \in DeleteItemRecords, record.status \in {"PENDING", "RUNNING"}
    PROVE  DeleteQueueFits(dJob, [dItem EXCEPT ![i] = record], row)
<1> DEFINE after == [dItem EXCEPT ![i] = record]
<1>1. DeleteQueueFits(dJob, dItem, row) /\ dItem \in [DeleteItems -> DeleteItemRecords]
  BY DEF DeletionInv, DeleteQueueFits
<1>2. after \in [DeleteItems -> DeleteItemRecords]
      /\ \A k \in DeleteItems : \/ after[k].status = dItem[k].status
                                \/ {dItem[k].status, after[k].status} \subseteq {"PENDING", "RUNNING"}
  BY <1>1
<1> HIDE DEF after
<1>3. DeleteQueueFits(dJob, after, row)
  BY ONLY <1>1, <1>2, WaitingItemsMove
<1> QED
  BY <1>3 DEF after

LEMMA CompleteStep ==
    ASSUME DeletionInv, NEW w \in Deletion!Callers, Deletion!Complete(w)
    PROVE  DeletionInv'
<1>1. /\ DeletionTyped /\ CallFits(call[w], row) /\ call[w].phase \in Deletion!Answers
      /\ DeleteQueueFits(dJob, dItem, row)
  BY DEF DeletionInv, Deletion!Complete
<1>2. /\ call' = [call EXCEPT ![w] = Deletion!NoCall]
      /\ UNCHANGED <<row, writeback, file, lock, scanning, mishaps>>
  BY DEF Deletion!Complete, Deletion!rowVars
<1>3. /\ lock' \in [Tracks -> Deletion!Callers \union {None}]
      /\ mishaps' \in 0..MaxMishaps /\ (mishaps' = 0 => mishaps = 0 /\ call[w].hidden = {})
  BY <1>1, <1>2 DEF DeletionTyped, CallFits, Deletion!Answers
<1> DEFINE i == call[w].item
<1>4. CASE UNCHANGED <<dJob, dItem>>
  BY <1>1, <1>2, <1>3, <1>4, CallEnds
<1>5. CASE Deletion!Owned(w) /\ dItem' = Deletion!Postponed(i) /\ UNCHANGED dJob
  <2> DEFINE record == [[dItem[i] EXCEPT !.status = "PENDING", !.owner = None, !.live = FALSE] EXCEPT !.due = FALSE]
  <2>1. i \in DeleteItems /\ dItem[i].status = "RUNNING" /\ dItem[i] \in DeleteItemRecords
    BY <1>1, <1>5, OwnedIsRunning DEF DeleteQueueFits
  <2>2. dItem' = [dItem EXCEPT ![i] = record]
    BY <1>5 DEF Deletion!Postponed, Deletion!Requeued
  <2>3. record \in DeleteItemRecords /\ record.status = "PENDING"
    BY <2>1 DEF DeleteItemRecords
  <2> HIDE DEF record, i
  <2>4. DeleteQueueFits(dJob, [dItem EXCEPT ![i] = record], row)
    BY <2>1, <2>3, OneItemMoves
  <2>5. DeleteQueueFits(dJob', dItem', row)
    BY <1>5, <2>2, <2>4
  <2> QED
    BY <1>2, <1>3, <2>5, CallEnds
<1>6. CASE /\ Deletion!Owned(w) /\ call[w].phase # "conflict"
           /\ Deletion!CompletePermanentDeleteBatchItem(i, Deletion!ItemOutcome(call[w].phase))
  <2> DEFINE outcome == Deletion!ItemOutcome(call[w].phase)
  <2>1. i \in DeleteItems /\ dItem[i].status = "RUNNING" /\ call[w].track = TrackOf[i]
    BY <1>6, OwnedIsRunning
  <2>2. outcome \in {"SUCCEEDED", "FAILED"} /\ (outcome = "SUCCEEDED" => call[w].phase \in {"done", "missing"})
    BY DEF Deletion!ItemOutcome
  <2>3. outcome = "SUCCEEDED" => row[TrackOf[i]].status = "GONE"
    BY <1>1, <2>1, <2>2 DEF CallFits
  <2>4. Deletion!CompletePermanentDeleteBatchItem(i, outcome)
    BY <1>6
  <2> HIDE DEF outcome, i
  <2>5. DeleteQueueFits(dJob', dItem', row)
    BY <2>1, <2>2, <2>3, <2>4, OutcomeFits
  <2> QED
    BY <1>2, <1>3, <2>5, CallEnds
<1> QED
  BY <1>4, <1>5, <1>6 DEF Deletion!Complete, Deletion!queueVars

LEMMA DeletionClaimStep ==
    ASSUME DeletionInv, NEW w \in Workers, Deletion!ClaimPermanentDeleteBatchItem(w)
    PROVE  DeletionInv'
<1>1. w \in Deletion!Callers /\ DeletionTyped /\ CallFits(call[w], row) /\ call[w].phase = "idle"
  BY DEF DeletionInv, Deletion!Callers, Deletion!ClaimPermanentDeleteBatchItem
<1>2. PICK i \in DeleteItems : \E record \in CallRecords :
              /\ DeleteQueueFits(dJob', dItem', row)
              /\ call' = [call EXCEPT ![w] = record]
              /\ record.phase = "claimed" /\ record.track = TrackOf[i] /\ record.item = i
              /\ record.files = {} /\ record.hidden = {}
              /\ UNCHANGED <<row, writeback, file, lock, scanning, mishaps>>
  BY DeletionClaimFits
<1>3. PICK record \in CallRecords :
              /\ DeleteQueueFits(dJob', dItem', row)
              /\ call' = [call EXCEPT ![w] = record]
              /\ record.phase = "claimed" /\ record.track = TrackOf[i] /\ record.item = i
              /\ record.files = {} /\ record.hidden = {}
              /\ UNCHANGED <<row, writeback, file, lock, scanning, mishaps>>
  BY <1>2
<1>4. DeletionTyped' /\ GoneStays(row, row') /\ (mishaps' = 0 => mishaps = 0)
  BY <1>1, <1>3 DEF DeletionTyped, GoneStays
<1>5. CallFits(record, row')
  <2>1. TrackOf[i] \in Tracks
    BY DeletionAssumption
  <2> QED
    BY <1>3, <2>1 DEF CallFits
<1>6. DeleteQueueFits(dJob', dItem', row')
  BY <1>3
<1>7. FilesFollow(w, record, row')
  <2>1. call[w].hidden = {}
    BY <1>1 DEF CallFits
  <2> QED
    BY <1>3, <2>1 DEF FilesFollow
<1> QED
  BY <1>1, <1>3, <1>4, <1>5, <1>6, <1>7, OneCallMoves

LEMMA ReleaseStep ==
    ASSUME DeletionInv, NEW w \in Workers, Deletion!ReleasePermanentDeleteBatchItem(w)
    PROVE  DeletionInv'
<1> DEFINE i == call[w].item
           record == [[dItem[i] EXCEPT !.status = "PENDING", !.owner = None, !.live = FALSE] EXCEPT !.due = TRUE]
<1>1. /\ w \in Deletion!Callers /\ DeletionTyped /\ DeleteQueueFits(dJob, dItem, row)
      /\ mishaps \in 0..MaxMishaps
  BY DEF DeletionInv, DeletionTyped, Deletion!Callers
<1>2. /\ call' = [call EXCEPT ![w] = Deletion!NoCall] /\ mishaps < MaxMishaps /\ mishaps' = mishaps + 1
      /\ UNCHANGED <<row, writeback, file, lock, scanning, dJob>>
      /\ dItem' = IF Deletion!Owned(w) THEN [dItem EXCEPT ![i] = record] ELSE dItem
  BY DEF Deletion!ReleasePermanentDeleteBatchItem, Deletion!rowVars, Deletion!Requeued
<1>3. /\ lock' \in [Tracks -> Deletion!Callers \union {None}]
      /\ mishaps' \in 0..MaxMishaps /\ mishaps' # 0
  BY <1>1, <1>2, DeletionAssumption DEF DeletionTyped
<1>4. DeleteQueueFits(dJob', dItem', row)
  <2>1. CASE ~Deletion!Owned(w)
    BY <1>1, <1>2, <2>1
  <2>2. CASE Deletion!Owned(w)
    <3>1. i \in DeleteItems /\ dItem[i].status = "RUNNING" /\ dItem[i] \in DeleteItemRecords
      BY <1>1, <2>2, OwnedIsRunning DEF DeleteQueueFits
    <3>2. record \in DeleteItemRecords /\ record.status = "PENDING"
      BY <3>1 DEF DeleteItemRecords
    <3> HIDE DEF record, i
    <3>3. DeleteQueueFits(dJob, [dItem EXCEPT ![i] = record], row)
      BY <3>1, <3>2, OneItemMoves
    <3> QED
      BY <1>2, <2>2, <3>3
  <2> QED
    BY <2>1, <2>2
<1> QED
  BY <1>1, <1>2, <1>3, <1>4, CallEnds

LEMMA CrashStep ==
    ASSUME DeletionInv, NEW c \in Deletion!Callers, Deletion!Crash(c)
    PROVE  DeletionInv'
<1> DEFINE i == call[c].item
           record == [dItem[i] EXCEPT !.owner = Gone, !.live = FALSE]
<1>1. DeletionTyped /\ DeleteQueueFits(dJob, dItem, row) /\ mishaps \in 0..MaxMishaps
  BY DEF DeletionInv, DeletionTyped
<1>2. /\ call' = [call EXCEPT ![c] = Deletion!NoCall] /\ mishaps < MaxMishaps /\ mishaps' = mishaps + 1
      /\ lock' = [t \in Tracks |-> IF lock[t] = c THEN None ELSE lock[t]]
      /\ UNCHANGED <<row, writeback, file, scanning, dJob>>
      /\ dItem' = IF Deletion!Owned(c)
                  THEN [dItem EXCEPT ![i].owner = Gone, ![i].live = FALSE] ELSE dItem
  BY DEF Deletion!Crash
<1>3. /\ lock' \in [Tracks -> Deletion!Callers \union {None}]
      /\ mishaps' \in 0..MaxMishaps /\ mishaps' # 0
  BY <1>1, <1>2, DeletionAssumption DEF DeletionTyped
<1>4. DeleteQueueFits(dJob', dItem', row)
  <2>1. CASE ~Deletion!Owned(c)
    BY <1>1, <1>2, <2>1
  <2>2. CASE Deletion!Owned(c)
    <3>1. /\ i \in DeleteItems /\ dItem[i].status = "RUNNING" /\ dItem[i] \in DeleteItemRecords
          /\ dItem \in [DeleteItems -> DeleteItemRecords]
      BY <1>1, <2>2, OwnedIsRunning DEF DeleteQueueFits
    <3>2. record \in DeleteItemRecords /\ record.status = "RUNNING"
      BY <3>1 DEF DeleteItemRecords
    <3>3. dItem' = [dItem EXCEPT ![i] = record]
      BY <1>2, <2>2, <3>1
    <3> HIDE DEF record, i
    <3>4. DeleteQueueFits(dJob, [dItem EXCEPT ![i] = record], row)
      BY <3>1, <3>2, OneItemMoves
    <3> QED
      BY <1>2, <3>3, <3>4
  <2> QED
    BY <2>1, <2>2
<1> QED
  BY <1>2, <1>3, <1>4, CallEnds

(* A lease lapses and is renewed, a delay passes.                           *)
LEMMA LeaseStep ==
    ASSUME DeletionInv, NEW w \in Workers,
           Deletion!RenewPermanentDeleteBatchItem(w) \/ Deletion!LeaseLapses(w)
    PROVE  DeletionInv'
<1> DEFINE i == call[w].item
<1>1. /\ w \in Deletion!Callers /\ DeletionTyped /\ DeleteQueueFits(dJob, dItem, row)
      /\ mishaps \in 0..MaxMishaps
  BY DEF DeletionInv, DeletionTyped, Deletion!Callers
<1>2. PICK live \in BOOLEAN : dItem' = [dItem EXCEPT ![i].live = live]
  BY DEF Deletion!RenewPermanentDeleteBatchItem, Deletion!LeaseLapses
<1>3. /\ UNCHANGED <<row, writeback, file, lock, scanning, dJob, call>>
      /\ mishaps' = mishaps \/ (mishaps < MaxMishaps /\ mishaps' = mishaps + 1)
      /\ Deletion!Owned(w)
  BY DEF Deletion!RenewPermanentDeleteBatchItem, Deletion!LeaseLapses, Deletion!rowVars
<1> DEFINE record == [dItem[i] EXCEPT !.live = live]
<1>4. /\ i \in DeleteItems /\ dItem[i].status = "RUNNING" /\ dItem[i] \in DeleteItemRecords
      /\ dItem \in [DeleteItems -> DeleteItemRecords]
  BY <1>1, <1>3, OwnedIsRunning DEF DeleteQueueFits
<1>5. record \in DeleteItemRecords /\ record.status = "RUNNING"
  BY <1>4 DEF DeleteItemRecords
<1>6. dItem' = [dItem EXCEPT ![i] = record]
  BY <1>2, <1>4
<1> HIDE DEF record
<1>7. DeleteQueueFits(dJob, [dItem EXCEPT ![i] = record], row)
  <2> HIDE DEF i
  <2> QED
    BY <1>4, <1>5, OneItemMoves
<1>8. DeleteQueueFits(dJob', dItem', row')
  BY <1>3, <1>6, <1>7
<1>9. mishaps' \in 0..MaxMishaps /\ (mishaps' = 0 => mishaps = 0)
  BY <1>1, <1>3, DeletionAssumption
<1>10. DeletionTyped' /\ GoneStays(row, row')
  BY <1>1, <1>3, <1>9 DEF DeletionTyped, GoneStays
<1> QED
  BY <1>3, <1>8, <1>9, <1>10, NoCallMoves

(* Steps of the batches that no caller takes.                               *)
LEMMA QueueStep ==
    ASSUME DeletionInv, DeleteQueueFits(dJob', dItem', row),
           UNCHANGED <<row, writeback, file, lock, scanning, call, mishaps>>
    PROVE  DeletionInv'
<1>1. DeletionTyped' /\ GoneStays(row, row') /\ (mishaps' = 0 => mishaps = 0)
  BY DEF DeletionInv, DeletionTyped, GoneStays
<1>2. DeleteQueueFits(dJob', dItem', row')
  OBVIOUS
<1> QED
  BY <1>1, <1>2, NoCallMoves

LEMMA DueFits ==
    ASSUME DeletionInv, NEW i \in DeleteItems, dItem' = [dItem EXCEPT ![i].due = TRUE]
    PROVE  DeleteQueueFits(dJob, dItem', row)
<1> DEFINE after == dItem'
<1>1. DeleteQueueFits(dJob, dItem, row) /\ dItem \in [DeleteItems -> DeleteItemRecords]
  BY DEF DeletionInv, DeleteQueueFits
<1>2. [dItem[i] EXCEPT !.due = TRUE] \in DeleteItemRecords
      /\ [dItem[i] EXCEPT !.due = TRUE].status = dItem[i].status
  BY <1>1 DEF DeleteItemRecords
<1>3. after \in [DeleteItems -> DeleteItemRecords]
      /\ \A k \in DeleteItems : \/ after[k].status = dItem[k].status
                                \/ {dItem[k].status, after[k].status} \subseteq {"PENDING", "RUNNING"}
  BY <1>1, <1>2
<1> HIDE DEF after
<1>4. DeleteQueueFits(dJob, after, row)
  BY ONLY <1>1, <1>3, WaitingItemsMove
<1> QED
  BY <1>4 DEF after

LEMMA QueueSteps ==
    ASSUME DeletionInv,
           \/ \E j \in DeleteJobs : Deletion!CreatePermanentDeleteBatch(j)
           \/ \E i \in DeleteItems : Deletion!Due(i)
           \/ Deletion!InitializePermanentDeleteBatches
    PROVE  DeletionInv'
<1>1. ASSUME NEW j \in DeleteJobs, Deletion!CreatePermanentDeleteBatch(j) PROVE DeletionInv'
  <2>1. UNCHANGED <<row, writeback, file, lock, scanning, call, mishaps>>
    BY <1>1 DEF Deletion!CreatePermanentDeleteBatch, Deletion!rowVars
  <2>2. DeleteQueueFits(dJob', dItem', row)
    BY <1>1, CreateBatchFits
  <2> QED
    BY <2>1, <2>2, QueueStep
<1>2. ASSUME NEW i \in DeleteItems, Deletion!Due(i) PROVE DeletionInv'
  <2>1. /\ UNCHANGED <<row, writeback, file, lock, scanning, call, mishaps, dJob>>
        /\ dItem' = [dItem EXCEPT ![i].due = TRUE]
    BY <1>2 DEF Deletion!Due, Deletion!rowVars
  <2>2. DeleteQueueFits(dJob', dItem', row)
    BY <2>1, DueFits
  <2> QED
    BY <2>1, <2>2, QueueStep
<1>3. ASSUME Deletion!InitializePermanentDeleteBatches PROVE DeletionInv'
  <2>1. /\ UNCHANGED <<row, writeback, file, lock, scanning, call, mishaps, dJob>>
        /\ dItem' = Deletion!Recovered(dItem)
    BY <1>3 DEF Deletion!InitializePermanentDeleteBatches, Deletion!rowVars
  <2>2. DeleteQueueFits(dJob', dItem', row)
    BY <2>1, DeletionRecovers
  <2> QED
    BY <2>1, <2>2, QueueStep
<1> QED
  BY <1>1, <1>2, <1>3

(* Around the deletions: tracks archived and brought back, writebacks, scans. *)
LEMMA AroundSteps ==
    ASSUME DeletionInv,
           \/ \E t \in Tracks : \/ Deletion!ArchiveTrack(t) \/ Deletion!RestoreTrack(t)
                                \/ Deletion!WritebackRuns(t) \/ Deletion!WritebackEnds(t)
           \/ Deletion!ScanStartsOrEnds
    PROVE  DeletionInv'
<1>1. DeletionTyped
  BY DEF DeletionInv
<1>2. UNCHANGED <<file, lock, call, mishaps, dJob, dItem>>
  BY DEF Deletion!ArchiveTrack, Deletion!RestoreTrack, Deletion!WritebackRuns, Deletion!WritebackEnds,
         Deletion!ScanStartsOrEnds, Deletion!rowVars, Deletion!queueVars
<1>3. /\ row' \in [Tracks -> [status : {"READY", "ARCHIVED", "GONE"}, version : 1..MaxVersion]]
      /\ GoneStays(row, row')
  <2>1. ASSUME NEW t \in Tracks, NEW status \in {"READY", "ARCHIVED"}, row[t].status # "GONE",
               row[t].version < MaxVersion,
               row' = [row EXCEPT ![t] = [status |-> status, version |-> @.version + 1]]
        PROVE  /\ row' \in [Tracks -> [status : {"READY", "ARCHIVED", "GONE"}, version : 1..MaxVersion]]
               /\ GoneStays(row, row')
    <3> DEFINE next == row[t].version + 1
    <3>1. row[t].version \in 1..MaxVersion
      BY <1>1 DEF DeletionTyped
    <3>2. next \in 1..MaxVersion
      BY <2>1, <3>1, DeletionAssumption
    <3>3. row' = [row EXCEPT ![t] = [status |-> status, version |-> next]]
      BY <2>1
    <3> HIDE DEF next
    <3> QED
      BY <1>1, <2>1, <3>2, <3>3 DEF DeletionTyped, GoneStays
  <2>2. CASE row' = row
    BY <1>1, <2>2 DEF DeletionTyped, GoneStays
  <2> QED
    BY <2>1, <2>2 DEF Deletion!ArchiveTrack, Deletion!RestoreTrack, Deletion!WritebackRuns,
                      Deletion!WritebackEnds, Deletion!ScanStartsOrEnds, Deletion!rowVars
<1>4. writeback' \in [Tracks -> {"none", "queued", "running", "cancelling"}]
  BY <1>1 DEF DeletionTyped, Deletion!ArchiveTrack, Deletion!RestoreTrack, Deletion!WritebackRuns,
              Deletion!WritebackEnds, Deletion!ScanStartsOrEnds, Deletion!rowVars
<1>5. scanning' \in BOOLEAN
  BY <1>1 DEF DeletionTyped, Deletion!ArchiveTrack, Deletion!RestoreTrack, Deletion!WritebackRuns,
              Deletion!WritebackEnds, Deletion!ScanStartsOrEnds
<1>6. DeletionTyped'
  BY <1>1, <1>2, <1>3, <1>4, <1>5 DEF DeletionTyped
<1>7. DeleteQueueFits(dJob', dItem', row')
  <2>1. DeleteQueueFits(dJob, dItem, row')
    BY <1>3, QueueOutlivesRows DEF DeletionInv
  <2> QED
    BY <1>2, <2>1
<1> QED
  BY <1>2, <1>3, <1>6, <1>7, NoCallMoves

(* Every step of a deletion, of a batch of them and of what goes on around. *)
LEMMA DeletionStep ==
    ASSUME DeletionInv, Deletion!Next
    PROVE  DeletionInv'
<1>1. ASSUME NEW c \in Deletion!Callers, Deletion!Step(c) PROVE DeletionInv'
  <2>1. CASE Deletion!Read(c) \/ Deletion!Lock(c) \/ Deletion!Hidden(c)
    BY <2>1, ReadStep, LockStep, HiddenStep
  <2>2. CASE Deletion!DeleteRows(c) \/ Deletion!DeleteFails(c)
    BY <2>2, DeleteRowsStep, DeleteFailsStep
  <2>3. CASE \E s \in Sources : Deletion!Hide(c, s)
    BY <2>3, HideStep
  <2>4. CASE \E kept \in SUBSET Sources :
                Deletion!HideFails(c, kept) \/ Deletion!Restore(c, kept) \/ Deletion!Finalize(c, kept)
    BY <2>4, HideFailsStep, RestoreStep, FinalizeStep
  <2>5. CASE Deletion!Reply(c) \/ Deletion!Complete(c)
    BY <2>5, ReplyStep, CompleteStep
  <2> QED
    BY <1>1, <2>1, <2>2, <2>3, <2>4, <2>5 DEF Deletion!Step
<1>2. ASSUME NEW c \in Deletion!Callers, Deletion!Crash(c) PROVE DeletionInv'
  BY <1>2, CrashStep
<1>3. ASSUME NEW a \in Admins, NEW t \in Tracks, Deletion!Request(a, t) PROVE DeletionInv'
  BY <1>3, RequestStep
<1>4. ASSUME NEW w \in Workers,
             \/ Deletion!ClaimPermanentDeleteBatchItem(w) \/ Deletion!RenewPermanentDeleteBatchItem(w)
             \/ Deletion!ReleasePermanentDeleteBatchItem(w) \/ Deletion!LeaseLapses(w)
      PROVE  DeletionInv'
  BY <1>4, DeletionClaimStep, LeaseStep, ReleaseStep
<1> QED
  BY <1>1, <1>2, <1>3, <1>4, QueueSteps, AroundSteps DEF Deletion!Next

LEMMA DeletionInit ==
    ASSUME Deletion!Init
    PROVE  DeletionInv
<1>1. DeletionTyped
  <2>1. /\ row \in [Tracks -> [status : {"READY", "ARCHIVED", "GONE"}, version : 1..MaxVersion]]
        /\ mishaps \in 0..MaxMishaps
    BY DeletionAssumption DEF Deletion!Init
  <2>2. /\ writeback \in [Tracks -> {"none", "queued", "running", "cancelling"}]
        /\ scanning \in BOOLEAN
        /\ file \in [Sources -> {"there", "hidden", "removed"}]
        /\ lock \in [Tracks -> Deletion!Callers \union {None}]
    BY DEF Deletion!Init
  <2>3. Deletion!NoCall \in CallRecords
    BY DeletionAssumption DEF CallRecords, Deletion!NoCall, Deletion!Phases
  <2>4. call \in [Deletion!Callers -> CallRecords]
    BY <2>3 DEF Deletion!Init
  <2> QED
    BY <2>1, <2>2, <2>4 DEF DeletionTyped
<1>2. \A c \in Deletion!Callers : CallFits(call[c], row)
  BY DEF Deletion!Init, Deletion!NoCall, CallFits
<1>3. Deletion!FilesGoWithTheirTracks /\ Deletion!NothingStaysHidden
  BY DEF Deletion!Init, Deletion!FilesGoWithTheirTracks, Deletion!NothingStaysHidden
<1>4. dJob \in [DeleteJobs -> DeleteJobRecords] /\ dItem \in [DeleteItems -> DeleteItemRecords]
  BY DeletionAssumption DEF Deletion!Init, Deletion!NewDeleteJob, Deletion!NewDeleteItem,
                            DeleteJobRecords, DeleteItemRecords
<1>5. ASSUME NEW j \in DeleteJobs PROVE DeleteJobFits(dJob[j], dItem, j)
  <2>1. \A i \in DeleteItems : dItem[i].status = "ABSENT"
    BY DEF Deletion!Init, Deletion!NewDeleteItem
  <2>2. EndedOf(dItem, j) = {} /\ FailedOf(dItem, j) = {}
    BY <2>1 DEF EndedOf, FailedOf
  <2>3. AllOf(j) # {}
    BY DeletionAssumption DEF AllOf
  <2>4. dJob[j].status = "ABSENT" /\ dJob[j].processed = 0 /\ dJob[j].failed = 0
    BY DEF Deletion!Init, Deletion!NewDeleteJob
  <2>5. Cardinality({}) = 0
    BY FS_EmptySet
  <2> QED
    BY <1>4, <2>1, <2>2, <2>3, <2>4, <2>5 DEF DeleteJobFits, AllOf
<1>6. \A i \in DeleteItems : dItem[i].status # "SUCCEEDED"
  BY DEF Deletion!Init, Deletion!NewDeleteItem
<1>7. DeleteQueueFits(dJob, dItem, row)
  BY <1>4, <1>5, <1>6 DEF DeleteQueueFits
<1> QED
  BY <1>1, <1>2, <1>3, <1>7 DEF DeletionInv

LEMMA DeletionInvShows ==
    ASSUME DeletionInv
    PROVE  /\ Deletion!TypeOK /\ Deletion!DeleteCountersAgree
           /\ Deletion!FilesGoWithTheirTracks /\ Deletion!NothingStaysHidden
           /\ Deletion!ReportedIsDeleted
<1>1. DeletionTyped /\ DeleteQueueFits(dJob, dItem, row)
  BY DEF DeletionInv
<1>2. Deletion!TypeOK
  BY <1>1 DEF DeletionTyped, DeleteQueueFits, Deletion!TypeOK, CallRecords, DeleteItemRecords,
              DeleteJobRecords
<1>3. Deletion!ReportedIsDeleted
  BY <1>1 DEF DeleteQueueFits, Deletion!ReportedIsDeleted
<1>4. ASSUME NEW j \in DeleteJobs
      PROVE  LET ended == {i \in Deletion!ItemsOfBatch(j) : dItem[i].status \in {"SUCCEEDED", "FAILED"}}
             IN  /\ dJob[j].processed = Deletion!Cardinality(ended)
                 /\ dJob[j].failed = Deletion!Cardinality({i \in ended : dItem[i].status = "FAILED"})
                 /\ dJob[j].status \in {"COMPLETED", "FAILED"} <=> ended = Deletion!ItemsOfBatch(j)
  <2> DEFINE ended == {i \in Deletion!ItemsOfBatch(j) : dItem[i].status \in {"SUCCEEDED", "FAILED"}}
  <2>1. ended = EndedOf(dItem, j) /\ {i \in ended : dItem[i].status = "FAILED"} = FailedOf(dItem, j)
    BY DeletionNames DEF EndedOf, FailedOf, AllOf
  <2>2. DeleteJobFits(dJob[j], dItem, j)
    BY <1>1 DEF DeleteQueueFits
  <2> QED
    BY <2>1, <2>2, DeletionNames DEF DeleteJobFits
<1>5. Deletion!DeleteCountersAgree
  BY <1>4 DEF Deletion!DeleteCountersAgree
<1> QED
  BY <1>2, <1>3, <1>5 DEF DeletionInv

-----------------------------------------------------------------------------
(* The three kinds of batch                                                  *)

BatchesInv == TagInv /\ ArtInv /\ DeletionInv

\* The kinds share no rows: a step of one leaves the others as they are.
batchVars == <<kind, tagVars, artVars, deletionVars>>

LEMMA BatchesStep ==
    ASSUME BatchesInv, [MCNext]_batchVars PROVE BatchesInv'
<1>1. UNCHANGED tagVars => TagInv'
  BY TagStep DEF BatchesInv
<1>2. UNCHANGED artVars => ArtInv'
  BY DEF BatchesInv, ArtInv, ArtRest, SuccessIsCommitted, Art!PictureIffSucceeded, artVars
<1>3. UNCHANGED deletionVars => DeletionInv'
  <2> SUFFICES ASSUME UNCHANGED deletionVars PROVE DeletionInv'
    OBVIOUS
  <2>1. DeletionInv /\ DeleteQueueFits(dJob', dItem', row)
    BY DEF BatchesInv, DeletionInv, deletionVars
  <2> QED
    BY <2>1, QueueStep DEF deletionVars
<1>4. CASE UNCHANGED batchVars
  BY <1>1, <1>2, <1>3, <1>4 DEF batchVars, BatchesInv
<1>5. CASE Next /\ UNCHANGED <<artVars, deletionVars>>
  BY <1>2, <1>3, <1>5, TagStep DEF BatchesInv
<1>6. CASE Stopped!Next /\ UNCHANGED <<artVars, deletionVars>>
  BY <1>2, <1>3, <1>6, StoppedStep DEF BatchesInv
<1>7. CASE Art!Next /\ UNCHANGED <<tagVars, deletionVars>>
  BY <1>1, <1>3, <1>7, ArtStep DEF BatchesInv
<1>8. CASE Deletion!Next /\ UNCHANGED <<tagVars, artVars>>
  BY <1>1, <1>2, <1>8, DeletionStep DEF BatchesInv
<1> QED
  BY <1>4, <1>5, <1>6, <1>7, <1>8, Zenon DEF MCNext

LEMMA BatchesHold == MCSpec => []BatchesInv
<1>1. MCInit => BatchesInv
  BY TagInit, ArtInit, DeletionInit DEF MCInit, BatchesInv
<1> QED
  BY <1>1, BatchesStep, PTL DEF MCSpec, batchVars

(* The rows of every batch are of their types.                              *)
THEOREM BatchesAreTyped == MCSpec => []TypesOK
<1>1. BatchesInv => TypesOK
  BY TagInvShows, ArtInvShows, DeletionInvShows DEF BatchesInv, TypesOK
<1> QED
  BY <1>1, BatchesHold, PTL

(* The counters of every batch are those of its items and its status says   *)
(* whether they have ended: whatever processes, administrators, retries,    *)
(* lapsed leases, crashes and lost answers did, for every number of them.   *)
THEOREM BatchesCountTheirItems == MCSpec => []BatchCountersAgree
<1>1. BatchesInv => BatchCountersAgree
  BY TagInvShows, ArtInvShows, DeletionInvShows DEF BatchesInv, BatchCountersAgree
<1> QED
  BY <1>1, BatchesHold, PTL

(* The picture of an artist was committed by a batch exactly when an item   *)
(* of it is reported as succeeded.                                          *)
THEOREM PicturesAreReported == MCSpec => []PictureIffSucceeded
<1>1. BatchesInv => PictureIffSucceeded
  BY ArtInvShows DEF BatchesInv, PictureIffSucceeded
<1> QED
  BY <1>1, BatchesHold, PTL

(* No file is removed while a track is left that is cut from it; without a  *)
(* crash or a failed rename a deletion that fails puts its files back; an   *)
(* item reported as deleted is of a track that is gone.  For every library  *)
(* and however administrators and batches delete tracks of the same files.  *)
THEOREM DeletionsAreWhole == MCSpec => []DeletionIsWhole
<1>1. BatchesInv => DeletionIsWhole
  BY DeletionInvShows DEF BatchesInv, DeletionIsWhole
<1> QED
  BY <1>1, BatchesHold, PTL

(* Nothing runs of a batch of tags that ended, also when processes stop.    *)
THEOREM EndedBatchesAreQuiet == MCSpec => []EndedBatchIsQuiet
<1>1. BatchesInv => EndedBatchIsQuiet
  BY TagInvShows DEF BatchesInv
<1> QED
  BY <1>1, BatchesHold, PTL

(* No step writes the tags of a track once the cancellation of its job is   *)
(* committed.                                                               *)
THEOREM CancelledBatchesWriteNothing == MCSpec => CancelledBatchWritesNothing
<1>1. BatchesInv /\ [MCNext]_batchVars
      => [\A i \in Items : track'[i] = "scraped" /\ track[i] # "scraped"
                              => ~job[JobOf[i]].cancel]_tagVars
  <2> SUFFICES ASSUME TagInv, [MCNext]_batchVars, ~UNCHANGED tagVars,
                      NEW i \in Items, track'[i] = "scraped", track[i] # "scraped"
               PROVE  ~job[JobOf[i]].cancel
    BY DEF BatchesInv
  <2>1. Next \/ Stopped!Next
    BY Zenon DEF MCNext, batchVars
  <2> QED
    BY <2>1, TagsWrittenUnderLock
<1> QED
  BY <1>1, BatchesHold, PTL DEF MCSpec, batchVars, CancelledBatchWritesNothing
=============================================================================
