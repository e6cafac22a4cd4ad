----------------------------- MODULE MCLibraryScan -----------------------------
(* Bounded instances of LibraryScan. One run explores both kinds of worker:   *)
(* those that keep their leases or die, and those that outlive a lease        *)
(* without noticing, with fewer faults and edits.                             *)
EXTENDS LibraryScan, TLC

CONSTANTS w1, w2

VARIABLE stalling   \* chosen at the start: workers may outlive their leases

Stalling == INSTANCE LibraryScan WITH MayStall <- TRUE, MaxVersion <- 2, MaxDisturbances <- 1

MCInit == stalling \in BOOLEAN /\ Init
MCNext ==
    \/ ~stalling /\ Next /\ UNCHANGED stalling
    \/ stalling /\ Stalling!Next /\ UNCHANGED stalling
MCSpec == MCInit /\ [][MCNext]_<<vars, stalling>>

(* The walk over the directory is not fenced by the lease: these two hold     *)
(* while no worker outlives its own.                                          *)
OneScannerUnlessStalled == stalling \/ OneScanner
NoWritebackBesideScanUnlessStalled == stalling \/ ScanExcludesWriteback

WorkerSymmetry == Permutations({w1, w2})
=============================================================================
