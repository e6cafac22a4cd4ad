-------------------------- MODULE WritebackContract --------------------------
(***************************************************************************)
(* What a tag writeback promises the catalogue, whatever its workers do:   *)
(* a request is answered by at most one commit, made in one step from the  *)
(* very checksum and metadata version it was queued with, and a committed  *)
(* request can only be finished.  How often it is tried, given back or     *)
(* dropped before, and by whom, leaves the catalogue alone.                *)
(***************************************************************************)
EXTENDS Naturals

CONSTANT Contents   \* what a recording can contain

VARIABLES
    phase,     \* of the latest request: closed, queued, open, committed
    recorded,  \* the content the catalogue records
    version,   \* of the track's metadata
    asked      \* what the request was queued with

contract == <<phase, recorded, version, asked>>

Init ==
    /\ phase = "closed"
    /\ recorded \in Contents
    /\ version \in Nat
    /\ asked \in [recorded : Contents, version : Nat]

Request ==
    /\ phase = "closed" /\ phase' = "queued"
    /\ asked' = [recorded |-> recorded, version |-> version]
    /\ UNCHANGED <<recorded, version>>

Start    == phase = "queued" /\ phase' = "open" /\ UNCHANGED <<recorded, version, asked>>
GiveBack == phase = "open" /\ phase' = "queued" /\ UNCHANGED <<recorded, version, asked>>
Drop     == phase \in {"queued", "open"} /\ phase' = "closed" /\ UNCHANGED <<recorded, version, asked>>

Commit ==
    /\ phase = "open" /\ phase' = "committed"
    /\ asked = [recorded |-> recorded, version |-> version]
    /\ recorded' \in Contents /\ version' = version + 1
    /\ UNCHANGED asked

Finish == phase = "committed" /\ phase' = "closed" /\ UNCHANGED <<recorded, version, asked>>

EditTags == version' = version + 1 /\ UNCHANGED <<phase, recorded, asked>>

Rescan == phase = "closed" /\ recorded' \in Contents /\ UNCHANGED <<phase, version, asked>>

Next ==
    Request \/ Start \/ GiveBack \/ Drop \/ Commit \/ Finish \/ EditTags \/ Rescan

Spec == Init /\ [][Next]_contract
=============================================================================
