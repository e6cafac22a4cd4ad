---------------------------- MODULE ResourceBudget ----------------------------
(***************************************************************************)
(* internal/shared/resourcebudget/budget.go: a weighted, context-aware     *)
(* semaphore built on a buffered Go channel holding Limit tokens.          *)
(*                                                                         *)
(* Acquire takes its tokens ONE AT A TIME from the channel, so several     *)
(* callers may each sit on part of what they asked for; Release puts them  *)
(* back one at a time and would block for ever on a full channel.          *)
(***************************************************************************)
EXTENDS Naturals, FiniteSets

CONSTANTS
    Callers,   \* goroutines that share the budget (the probe workers)
    Limit,     \* capacity given to New
    MaxUnits   \* largest weight a caller asks for (1 in production_sync_source.go)

ASSUME BudgetAssumption ==
    /\ IsFiniteSet(Callers)
    /\ Limit \in Nat \ {0}
    /\ MaxUnits \in Nat \ {0}

VARIABLES
    tokens,    \* tokens in the channel
    pc,        \* what each caller is doing
    acquired,  \* tokens each caller has received and not sent back
    units,     \* tokens each caller asked for
    done       \* the caller's context is cancelled

vars == <<tokens, pc, acquired, units, done>>

Phases == {"idle", "acquiring", "holding", "releasing"}

Init ==
    /\ tokens = Limit
    /\ pc = [c \in Callers |-> "idle"]
    /\ acquired = [c \in Callers |-> 0]
    /\ units = [c \in Callers |-> 0]
    /\ done = [c \in Callers |-> FALSE]

(* Acquire up to its loop: a request above the capacity or a context that  *)
(* is already cancelled returns an error and takes nothing, so only the    *)
(* accepted request is a step.                                             *)
Acquire(c, n) ==
    /\ pc[c] = "idle"
    /\ n <= Limit
    /\ ~done[c]
    /\ pc' = [pc EXCEPT ![c] = "acquiring"]
    /\ units' = [units EXCEPT ![c] = n]
    /\ UNCHANGED <<tokens, acquired, done>>

(* One receive from the channel; the last one ends Acquire. *)
ReceiveToken(c) ==
    /\ pc[c] = "acquiring"
    /\ tokens > 0
    /\ tokens' = tokens - 1
    /\ acquired' = [acquired EXCEPT ![c] = @ + 1]
    /\ pc' = [pc EXCEPT ![c] = IF acquired[c] + 1 = units[c] THEN "holding" ELSE @]
    /\ UNCHANGED <<units, done>>

(* Mutant: the ctx.Done() branch returns without budget.Release(acquired). *)
AbandonAcquireLeaks(c) ==
    /\ pc[c] = "acquiring"
    /\ done[c]
    /\ pc' = [pc EXCEPT ![c] = "idle"]
    /\ acquired' = [acquired EXCEPT ![c] = 0]
    /\ UNCHANGED <<tokens, units, done>>

(* The select takes its ctx.Done() branch: what was received is released. *)
AbandonAcquire(c) ==
    /\ pc[c] = "acquiring"
    /\ done[c]
    /\ pc' = [pc EXCEPT ![c] = IF acquired[c] = 0 THEN "idle" ELSE "releasing"]
    /\ UNCHANGED <<tokens, acquired, units, done>>

(* The holder has finished its probe and calls Release(units). *)
Release(c) ==
    /\ pc[c] = "holding"
    /\ pc' = [pc EXCEPT ![c] = "releasing"]
    /\ UNCHANGED <<tokens, acquired, units, done>>

(* One send of Release's loop: the channel has room for Limit tokens. *)
SendToken(c) ==
    /\ pc[c] = "releasing"
    /\ tokens < Limit
    /\ tokens' = tokens + 1
    /\ acquired' = [acquired EXCEPT ![c] = @ - 1]
    /\ pc' = [pc EXCEPT ![c] = IF acquired[c] = 1 THEN "idle" ELSE @]
    /\ UNCHANGED <<units, done>>

(* The request, scan or process behind the caller's context is cancelled. *)
CancelContext(c) ==
    /\ ~done[c]
    /\ done' = [done EXCEPT ![c] = TRUE]
    /\ UNCHANGED <<tokens, pc, acquired, units>>

(* The same goroutine turns to its next source with a fresh context. *)
FreshContext(c) ==
    /\ pc[c] = "idle"
    /\ done[c]
    /\ done' = [done EXCEPT ![c] = FALSE]
    /\ UNCHANGED <<tokens, pc, acquired, units>>

Step(c) ==
    \/ \E n \in 1..MaxUnits : Acquire(c, n)
    \/ ReceiveToken(c)
    \/ AbandonAcquire(c)
    \/ Release(c)
    \/ SendToken(c)
    \/ CancelContext(c)
    \/ FreshContext(c)

Next == \E c \in Callers : Step(c)

Spec == Init /\ [][Next]_vars

-----------------------------------------------------------------------------
(* Every variable ranges over the values its Go counterpart can hold. *)
TypeOK ==
    /\ tokens \in 0..Limit
    /\ pc \in [Callers -> Phases]
    /\ acquired \in [Callers -> 0..Limit]
    /\ units \in [Callers -> 0..Limit]
    /\ done \in [Callers -> BOOLEAN]

(* The tokens taken out of the channel, numbered for each caller. *)
TakenTokens == {t \in Callers \X (1..Limit) : t[2] <= acquired[t[1]]}

(* No token is ever lost or minted, whatever mix of partial acquisitions,  *)
(* cancellations and one-by-one releases is in flight: a leak would shrink *)
(* the machine-wide probe concurrency for the life of the process.         *)
TokensConserved == tokens + Cardinality(TakenTokens) = Limit
=============================================================================
