------------------------- MODULE MCMetadataWriteback -------------------------
(* Bounded instances of MetadataWriteback. One run explores both kinds of    *)
(* worker: those that keep their leases or die, under all faults, and those  *)
(* that outlive a lease without noticing, without other faults.              *)
EXTENDS MetadataWriteback, TLC

CONSTANTS w1, w2

VARIABLE stalling   \* chosen at the start: workers may outlive their leases

Stalling == INSTANCE MetadataWriteback
              WITH MayStall <- TRUE, MaxAttemptIds <- 2, MaxDisturbances <- 0, MaxEdits <- 0

MCInit == stalling \in BOOLEAN /\ Init
MCNext ==
    \/ ~stalling /\ Next /\ UNCHANGED stalling
    \/ stalling /\ Stalling!Next /\ UNCHANGED stalling
MCSpec == MCInit /\ [][MCNext]_<<vars, stalling>>

(* The renames of the swap are not fenced by the lease: what they promise    *)
(* about files holds while no worker outlives its own.                       *)
ContentsAgreeUnlessStalled ==
    stalling \/ (RecordedContentKept /\ SettledSource /\ CommittedAgreement)
RollbackKeptUnlessStalled == stalling \/ RollbackReachable
SwapExclusiveUnlessStalled == stalling \/ ExclusiveSwap

WorkerSymmetry == Permutations({w1, w2})
=============================================================================
