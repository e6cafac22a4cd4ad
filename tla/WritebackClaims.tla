--------------------------- MODULE WritebackClaims ---------------------------
(***************************************************************************)
(* What messages, tables and tests of the repository say of tag writebacks *)
(* and the modelled code does not do.                                      *)
(***************************************************************************)
EXTENDS MetadataWriteback, TLC

CONSTANTS w1, w2

(* An administrator may complete or cancel an active writeback to get its   *)
(* source or track deleted, so a cancelled one stops being active.          *)
CancelEnds == job.status = "PROCESSING" /\ job.cancel ~> job.status \notin Active
=============================================================================
