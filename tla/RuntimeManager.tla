--------------------------- MODULE RuntimeManager ---------------------------
(* The control plane of the server process: one runtime serves the requests  *)
(* while another is built to take its place, and the ones that were replaced *)
(* are drained and closed (control/manager.go, cmd/xymusic/runtime_retry.go  *)
(* and the start and the end of cmd/xymusic/main.go).                        *)
EXTENDS Naturals, FiniteSets

CONSTANTS Runtimes,   \* the runtimes the factory may build: a bound on generations
          Requests,   \* requests in flight at a time
          None,
          MaxFailures \* bound: steps of a runtime's life that fail, drains that time out

VARIABLES rt,         \* runtime -> [open, working, inFlight, retiring, retirement]
          active,     \* the runtime that is published
          phase, generation,
          call,       \* the call that holds the transition lock
          request,    \* request -> the runtime that serves it
          retry,      \* the goroutine that retries the first initialization
          failures

managerVars == <<rt, active, phase, generation, call, request, retry, failures>>

Unbuilt == [open |-> FALSE, built |-> FALSE, working |-> FALSE, inFlight |-> 0,
            retiring |-> FALSE, retirement |-> "none", deactivate |-> FALSE, overran |-> FALSE]
NoCall == [at |-> "none", by |-> None, previous |-> None, candidate |-> None,
           phase |-> "SETUP_REQUIRED", undo |-> FALSE]

TypeOK ==
    /\ \A r \in Runtimes :
          /\ rt[r].inFlight \in 0..Cardinality(Requests)
          /\ rt[r].retirement \in {"none", "drain", "deactivate", "close"}
          /\ {rt[r].open, rt[r].built, rt[r].working, rt[r].retiring, rt[r].deactivate, rt[r].overran}
                \subseteq BOOLEAN
    /\ active \in Runtimes \union {None}
    /\ phase \in {"SETUP_REQUIRED", "STARTING", "READY", "FAILED", "STOPPED"}
    /\ call.at \in {"none", "build", "ready", "deactivate", "activate", "closeCandidate",
                    "reactivate", "settle", "wait"}
    /\ request \in [Requests -> Runtimes \union {None}]
    /\ retry \in {"off", "waiting", "trying"}
    /\ generation \in 0..Cardinality(Runtimes) /\ failures \in 0..MaxFailures

\* NewManager: a server without a configuration waits for the setup, one with a
\* configuration starts at once.
Init ==
    /\ rt = [r \in Runtimes |-> Unbuilt] /\ active = None /\ generation = 0
    /\ phase \in {"SETUP_REQUIRED", "STARTING"}
    /\ call = [NoCall EXCEPT !.phase = phase]
    /\ request = [q \in Requests |-> None]
    /\ retry = "off" /\ failures = 0

---------------------------------------------------------------------------

MayFail == failures < MaxFailures /\ failures' = failures + 1
Fine == failures' = failures

\* Initialize, for the start of a configured server, its retries, the setup and
\* new settings. The transition lock admits one call at a time.
Begin(by) ==
    /\ call.at = "none" /\ \E r \in Runtimes : ~rt[r].built
    /\ call' = [NoCall EXCEPT !.at = "build", !.by = by, !.previous = active, !.phase = phase]
    /\ phase' = "STARTING"
    /\ UNCHANGED <<rt, active, generation, request, failures>>
Start == generation = 0 /\ phase = "STARTING" /\ retry = "off" /\ Begin("start") /\ UNCHANGED retry
Configure ==
    /\ active # None \/ (phase \notin {"READY", "STARTING"} /\ retry = "off")
    /\ Begin("operator") /\ UNCHANGED retry
\* retryManagedRuntimeWithPolicy
RetryRuntime ==
    /\ retry = "waiting"
    /\ IF phase = "READY"
       THEN retry' = "off" /\ UNCHANGED <<rt, active, phase, generation, call, request, failures>>
       ELSE Begin("retry") /\ retry' = "trying"

RollbackUnclosed(undo) == call' = [call EXCEPT !.at = "settle", !.undo = undo]
Rollback(undo) == call' = [call EXCEPT !.at = IF @ = "build" THEN "settle" ELSE "closeCandidate",
                                       !.undo = undo]
Build ==
    /\ call.at = "build"
    /\ \/ /\ \E r \in Runtimes :
                /\ ~rt[r].built
                /\ rt' = [rt EXCEPT ![r] = [Unbuilt EXCEPT !.open = TRUE, !.built = TRUE]]
                /\ call' = [call EXCEPT !.at = "ready", !.candidate = r]
          /\ Fine
       \/ Rollback(FALSE) /\ MayFail /\ UNCHANGED rt
    /\ UNCHANGED <<active, phase, generation, request, retry>>
Ready ==
    /\ call.at = "ready"
    /\ \/ call' = [call EXCEPT !.at = IF call.previous = None THEN "activate" ELSE "deactivate"] /\ Fine
       \/ Rollback(FALSE) /\ MayFail
    /\ UNCHANGED <<rt, active, phase, generation, request, retry>>
\* The hook of the runtime that still serves; when it fails it may have done its work.
Deactivate ==
    /\ call.at = "deactivate"
    /\ \/ call' = [call EXCEPT !.at = "activate"] /\ Fine /\ rt' = [rt EXCEPT ![call.previous].working = FALSE]
       \/ Rollback(TRUE) /\ MayFail /\ \E w \in BOOLEAN : rt' = [rt EXCEPT ![call.previous].working = w]
    /\ UNCHANGED <<active, phase, generation, request, retry>>

\* A runtime that is not to serve any more is left to a goroutine of its own.
startRetirementLocked(f, r, deactivate) ==
    IF f[r].retirement # "none" THEN f
    ELSE [f EXCEPT ![r].retiring = TRUE, ![r].retirement = "drain", ![r].deactivate = deactivate]
\* What the caller does with the outcome: a retry that failed waits for the next.
Answer(ok) ==
    /\ call' = NoCall
    /\ retry' = CASE call.by = "start" /\ ~ok -> "waiting"
                  [] call.by = "retry" -> IF ok THEN "off" ELSE "waiting"
                  [] OTHER -> retry
Activate ==
    /\ call.at = "activate"
    /\ \/ LET up == [rt EXCEPT ![call.candidate].working = TRUE]
          IN  /\ rt' = IF call.previous = None THEN up ELSE startRetirementLocked(up, call.previous, FALSE)
              /\ active' = call.candidate /\ phase' = "READY" /\ generation' = generation + 1
              /\ Answer(TRUE) /\ Fine
       \/ /\ Rollback(call.previous # None) /\ MayFail
          /\ UNCHANGED <<rt, active, phase, generation, retry>>
    /\ UNCHANGED request

\* rollbackInitialization
CloseCandidate ==
    /\ call.at = "closeCandidate"
    /\ rt' = [rt EXCEPT ![call.candidate].open = FALSE, ![call.candidate].working = FALSE]
    /\ call' = [call EXCEPT !.at = IF call.undo THEN "reactivate" ELSE "settle"]
    /\ UNCHANGED <<active, phase, generation, request, retry, failures>>
SettleUnpublished(reactivated) ==
    /\ IF call.previous # None /\ reactivated
       THEN phase' = "READY" /\ active' = active
       ELSE phase' = call.phase /\ active' = None
    /\ rt' = IF reactivated \/ call.previous = None THEN rt
             ELSE startRetirementLocked(rt, call.previous, FALSE)
    /\ Answer(FALSE)
    /\ UNCHANGED <<generation, request>>
SettleRollback(reactivated) ==
    /\ IF call.previous # None /\ reactivated
       THEN phase' = "READY" /\ active' = active
       ELSE phase' = "FAILED" /\ active' = None
    /\ rt' = IF call.previous = None THEN rt
             ELSE IF ~reactivated THEN startRetirementLocked(rt, call.previous, FALSE)
             ELSE IF call.undo THEN [rt EXCEPT ![call.previous].working = TRUE] ELSE rt
    /\ Answer(FALSE)
    /\ UNCHANGED <<generation, request>>
Settle == call.at = "settle" /\ SettleRollback(TRUE) /\ Fine
Reactivate ==
    /\ call.at = "reactivate"
    /\ \/ SettleRollback(TRUE) /\ Fine
       \/ SettleRollback(FALSE) /\ MayFail

---------------------------------------------------------------------------

\* ServeHTTP and Check hold on to the runtime they found until they return.
HoldUncounted(q) == /\ request[q] = None /\ rt' = rt
                    /\ request' = [request EXCEPT ![q] = active]
                    /\ UNCHANGED <<active, phase, generation, call, retry, failures>>
Hold(q) == /\ request[q] = None
           /\ rt' = [rt EXCEPT ![active].inFlight = @ + 1]
           /\ request' = [request EXCEPT ![q] = active]
           /\ UNCHANGED <<active, phase, generation, call, retry, failures>>
ServeHTTP(q) == active # None /\ ~rt[active].retiring /\ Hold(q)
Check(q) == active # None /\ phase = "READY" /\ Hold(q)
release(q) ==
    /\ request[q] # None
    /\ rt' = [rt EXCEPT ![request[q]].inFlight = IF @ > 0 THEN @ - 1 ELSE @]
    /\ request' = [request EXCEPT ![q] = None]
    /\ UNCHANGED <<active, phase, generation, call, retry, failures>>

\* runRetirement: it waits for the requests, but not for ever.
waitForDrain(r) ==
    /\ rt[r].retirement = "drain"
    /\ \/ rt[r].inFlight = 0 /\ Fine
       \/ rt[r].inFlight > 0 /\ MayFail
    /\ rt' = [rt EXCEPT ![r].retirement = IF rt[r].deactivate THEN "deactivate" ELSE "close",
                        ![r].overran = rt[r].inFlight > 0]
    /\ UNCHANGED <<active, phase, generation, call, request, retry>>
DeactivateRetired(r) ==
    /\ rt[r].retirement = "deactivate"
    /\ rt' = [rt EXCEPT ![r].retirement = "close", ![r].working = FALSE]
    /\ UNCHANGED <<active, phase, generation, call, request, retry, failures>>
CloseRetired(r) ==
    /\ rt[r].retirement = "close"
    /\ rt' = [rt EXCEPT ![r].retirement = "none", ![r].open = FALSE, ![r].working = FALSE]
    /\ UNCHANGED <<active, phase, generation, call, request, retry, failures>>

\* Close, when the server ends and when a setup that failed is undone.
Close ==
    /\ call.at = "none" /\ (active # None \/ retry = "waiting")
    /\ active' = None /\ phase' = "STOPPED" /\ retry' = "off"
    /\ rt' = IF active = None THEN rt ELSE startRetirementLocked(rt, active, TRUE)
    /\ call' = [NoCall EXCEPT !.at = "wait", !.by = "close"]
    /\ UNCHANGED <<generation, request, failures>>
waitForRetirements ==
    /\ call.at = "wait"
    /\ \/ (\A r \in Runtimes : rt[r].retirement = "none") /\ Fine
       \/ (\E r \in Runtimes : rt[r].retirement # "none") /\ MayFail
    /\ call' = NoCall
    /\ UNCHANGED <<rt, active, phase, generation, request, retry>>

Rest ==
    /\ call.at = "none" /\ \A r \in Runtimes : rt[r].retirement = "none"
    /\ UNCHANGED managerVars

Progress ==
    \/ Build \/ Ready \/ Deactivate \/ Activate \/ CloseCandidate \/ Settle \/ Reactivate
    \/ waitForRetirements
Retirement(r) == waitForDrain(r) \/ DeactivateRetired(r) \/ CloseRetired(r)
Next ==
    \/ Start \/ Configure \/ RetryRuntime \/ Progress \/ Close \/ Rest
    \/ \E r \in Runtimes : Retirement(r)
    \/ \E q \in Requests : ServeHTTP(q) \/ Check(q) \/ release(q)

Spec == Init /\ [][Next]_managerVars

---------------------------------------------------------------------------

\* No request is served by a runtime that was closed under it, except one that
\* ran past the time its runtime was given to drain.
ServedByOpenRuntime ==
    \A q \in Requests : request[q] # None => rt[request[q]].open \/ rt[request[q]].overran

\* Whenever no call is under way, the server says READY exactly when a runtime
\* is published, and that runtime is open and was not retired; and no two
\* runtimes work at once unless a hook failed.
ReadyIsServed ==
    /\ call.at = "none" => (phase = "READY" <=> active # None)
    /\ active # None => rt[active].open /\ ~rt[active].retiring
    /\ failures = 0 => Cardinality({r \in Runtimes : rt[r].working}) <= 1
=============================================================================
