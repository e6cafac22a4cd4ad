---------------------------- MODULE ServerProofs ----------------------------
(***************************************************************************)
(* What holds of the processes of the server for any number of runtimes,    *)
(* requests, configurations, streams and tasks.                             *)
(***************************************************************************)
EXTENDS MCServer, FiniteSetTheorems, TLAPS

-----------------------------------------------------------------------------
(* The worker: what has been started is waited for before the database goes. *)

Flows == [at : {"off", "idle", "running", "ended"}, cancelled : BOOLEAN]
TasksRest == \A t \in Tasks : ~Worker!Runs(task[t])
Rests(s) == ~Worker!Runs(service[s])

Early == {"open", "metrics", "events", "initialize", "startTags"}
Closing == {"closeEvents", "closeDatabase", "failed", "closed"}
Stages == Early \union Closing
          \union {"startArtwork", "undoTags", "startTasks", "up", "waitTasks", "waitTags", "waitArtwork"}

\* What runs at each stage of a start, and what may still run at each of an
\* end: only what a wait gave up on.
WorkerInv ==
    /\ stage \in Stages
    /\ task \in [Tasks -> Flows] /\ service \in [Worker!Services -> Flows] /\ left \in BOOLEAN
    /\ IF stage \in {"open", "failed", "closed"} THEN open = {} ELSE "database" \in open
    /\ stage \in Early \union {"startArtwork", "undoTags", "startTasks"} => TasksRest
    /\ stage \in Early => Rests("tags")
    /\ stage \in Early \union {"startArtwork", "undoTags"} => Rests("artwork")
    /\ stage \in Closing \union {"waitTags", "waitArtwork"} => left \/ TasksRest
    /\ stage \in Closing \union {"waitArtwork"} => left \/ Rests("tags")
    /\ stage \in Closing => left \/ Rests("artwork")

LEMMA WorkerInit == Worker!Init => WorkerInv
<1> SUFFICES ASSUME Worker!Init PROVE WorkerInv
  OBVIOUS
<1>1. stage = "open" /\ open = {} /\ left = FALSE
  BY DEF Worker!Init
<1>2. Worker!Off \in Flows /\ ~Worker!Runs(Worker!Off)
  BY DEF Worker!Off, Flows, Worker!Runs
<1>3. task \in [Tasks -> Flows] /\ service \in [Worker!Services -> Flows]
  BY <1>2 DEF Worker!Init
<1>4. TasksRest /\ Rests("tags") /\ Rests("artwork")
  BY <1>2 DEF Worker!Init, TasksRest, Rests, Worker!Services
<1> QED
  BY <1>1, <1>3, <1>4 DEF WorkerInv, Stages, Early, Closing

LEMMA FlowStep ==
    ASSUME NEW x \in Flows
    PROVE  /\ Worker!Step(x) \in Flows /\ Worker!Cancel(x) \in Flows /\ Worker!Idle \in Flows
           /\ Worker!Runs(Worker!Cancel(x)) <=> Worker!Runs(x)
BY DEF Flows, Worker!Step, Worker!Cancel, Worker!Idle, Worker!Runs

LEMMA WorkerNext == WorkerInv /\ Worker!Next => WorkerInv'
<1> SUFFICES ASSUME WorkerInv, Worker!Next PROVE WorkerInv'
  OBVIOUS
<1>t. stage \in Stages /\ task \in [Tasks -> Flows] /\ service \in [Worker!Services -> Flows] /\ left \in BOOLEAN
  BY DEF WorkerInv
<1> USE DEF Stages, Early, Closing, Worker!Services
<1>k. UNCHANGED task => (TasksRest' <=> TasksRest)
  BY DEF TasksRest
<1>s. UNCHANGED service => (Rests("tags")' <=> Rests("tags")) /\ (Rests("artwork")' <=> Rests("artwork"))
  BY DEF Rests
<1>c. \A s \in Worker!Services : service' = [service EXCEPT ![s] = Worker!Cancel(@)] =>
          service' \in [Worker!Services -> Flows]
          /\ (Rests("tags")' <=> Rests("tags")) /\ (Rests("artwork")' <=> Rests("artwork"))
  BY <1>t, FlowStep DEF Rests
<1>1. CASE Worker!OpenDatabase
  BY <1>1, <1>t, <1>k, <1>s DEF WorkerInv, Worker!OpenDatabase, Worker!Start, Worker!Fails
<1>2. CASE Worker!wireCore
  BY <1>2, <1>t, <1>k, <1>s DEF WorkerInv, Worker!wireCore, Worker!Start, Worker!Fails
<1>3. CASE Worker!Initialize
  BY <1>3, <1>t, <1>k, <1>s DEF WorkerInv, Worker!Initialize, Worker!Start, Worker!Fails
<1>4. CASE Worker!StartTags
  <2>1. service' \in [Worker!Services -> Flows] /\ (Rests("artwork")' <=> Rests("artwork"))
        /\ (UNCHANGED service \/ stage' = "startArtwork")
    <3>1. CASE stage' = "startArtwork" /\ service' = [service EXCEPT !["tags"] = Worker!Idle]
      BY <3>1, <1>t DEF Rests, Worker!Idle, Flows
    <3> QED
      BY <3>1, <1>4, <1>t, <1>s DEF Worker!StartTags, Worker!Start, Worker!Fails
  <2> QED
    BY <2>1, <1>4, <1>t, <1>k, <1>s DEF WorkerInv, Worker!StartTags, Worker!Start, Worker!Fails
<1>5. CASE Worker!StartArtwork
  <2>1. CASE Worker!Start("startArtwork", "startTasks") /\ service' = [service EXCEPT !["artwork"] = Worker!Idle]
    <3>1. service' \in [Worker!Services -> Flows]
      BY <2>1, <1>t DEF Worker!Idle, Flows
    <3> QED
      BY <3>1, <2>1, <1>5, <1>t, <1>k DEF WorkerInv, Worker!StartArtwork, Worker!Start
  <2>2. CASE Worker!Fails("startArtwork", "undoTags") /\ service' = [service EXCEPT !["tags"] = Worker!Cancel(@)]
    BY <2>2, <1>5, <1>t, <1>k, <1>c DEF WorkerInv, Worker!StartArtwork, Worker!Fails
  <2> QED
    BY <1>5, <2>1, <2>2 DEF Worker!StartArtwork
<1>6. CASE Worker!startBackgroundGroup
  <2>1. task' \in [Tasks -> Flows]
    BY <1>6 DEF Worker!startBackgroundGroup, Worker!Idle, Flows
  <2> QED
    BY <2>1, <1>6, <1>t, <1>s DEF WorkerInv, Worker!startBackgroundGroup, Worker!Start
<1>7. CASE Worker!CloseContext
  <2>1. task' \in [Tasks -> Flows]
    BY <1>7, <1>t, FlowStep DEF Worker!CloseContext
  <2> QED
    BY <2>1, <1>7, <1>t, <1>s DEF WorkerInv, Worker!CloseContext, Worker!Start
<1>8. CASE Worker!UndoTags
  BY <1>8, <1>t, <1>k, <1>s DEF WorkerInv, Worker!UndoTags, Worker!Waits, Rests
<1>9. CASE Worker!CloseBackground
  <2>1. left' \/ TasksRest
    BY <1>9 DEF Worker!CloseBackground, Worker!Waits, TasksRest
  <2> QED
    BY <2>1, <1>9, <1>t, <1>k, <1>c DEF WorkerInv, Worker!CloseBackground, Worker!Waits
<1>10. CASE Worker!CloseTags
  <2>1. left' \/ Rests("tags")
    BY <1>10 DEF Worker!CloseTags, Worker!Waits, Rests
  <2> QED
    BY <2>1, <1>10, <1>t, <1>k, <1>c DEF WorkerInv, Worker!CloseTags, Worker!Waits
<1>11. CASE Worker!CloseArtwork
  BY <1>11, <1>t, <1>k, <1>s DEF WorkerInv, Worker!CloseArtwork, Worker!Waits, Rests
<1>12. CASE Worker!CloseEvents
  BY <1>12, <1>t, <1>k, <1>s DEF WorkerInv, Worker!CloseEvents, Worker!Start
<1>13. CASE Worker!CloseDatabase
  BY <1>13, <1>t, <1>k, <1>s DEF WorkerInv, Worker!CloseDatabase, Worker!Start
<1>14. ASSUME NEW t \in Tasks, Worker!runBackgroundPoller(t) PROVE WorkerInv'
  <2>1. ~TasksRest /\ task' \in [Tasks -> Flows]
    BY <1>14, <1>t, FlowStep DEF Worker!runBackgroundPoller, TasksRest
  <2> QED
    BY <2>1, <1>14, <1>t, <1>s DEF WorkerInv, Worker!runBackgroundPoller
<1>15. ASSUME NEW s \in Worker!Services, Worker!runBatchWorkers(s) PROVE WorkerInv'
  <2>1. ~Rests(s) /\ service' \in [Worker!Services -> Flows]
        /\ \A u \in Worker!Services \ {s} : Rests(u)' <=> Rests(u)
    BY <1>15, <1>t, FlowStep DEF Worker!runBatchWorkers, Rests
  <2> QED
    BY <2>1, <1>15, <1>t, <1>k DEF WorkerInv, Worker!runBatchWorkers
<1>16. CASE Worker!Over
  BY <1>16, <1>t, <1>k, <1>s DEF WorkerInv, Worker!Over, Worker!lifecycleVars
<1> QED
  BY <1>1, <1>2, <1>3, <1>4, <1>5, <1>6, <1>7, <1>8, <1>9, <1>10, <1>11, <1>12, <1>13, <1>14, <1>15, <1>16
     DEF Worker!Next, Worker!Starting, Worker!Ending

LEMMA WorkerInvShows == WorkerInv => Worker!NothingLeftBehind
BY DEF WorkerInv, Worker!NothingLeftBehind, Stages, Early, Closing, TasksRest, Rests, Worker!Runs,
       Worker!Services

-----------------------------------------------------------------------------
(* The runtimes: one that was replaced is closed once no request holds it,   *)
(* and one that is built holds none before it is published.                  *)

RuntimeRecords ==
    [open : BOOLEAN, built : BOOLEAN, working : BOOLEAN, inFlight : Nat, retiring : BOOLEAN,
     retirement : {"none", "drain", "deactivate", "close"}, deactivate : BOOLEAN, overran : BOOLEAN]
CallRecords ==
    [at : {"none", "build", "ready", "deactivate", "activate", "closeCandidate", "reactivate",
           "settle", "wait"},
     by : {None, "start", "operator", "retry", "close"}, previous : Runtimes \union {None},
     candidate : Runtimes \union {None},
     phase : {"SETUP_REQUIRED", "STARTING", "READY", "FAILED", "STOPPED"}, undo : BOOLEAN]
Holders(r) == {q \in Requests : request[q] = r}

\* A runtime counts the requests that hold it, and is open for them until the
\* drain gave up on them.
RuntimeFits(row, holders) ==
    /\ row.inFlight = Cardinality(holders)
    /\ holders = {} \/ row.overran \/ (row.open /\ row.retirement \in {"none", "drain"})
    /\ row.retirement # "none" => row.retiring
    /\ ~row.built => holders = {} /\ ~row.open /\ ~row.working /\ ~row.retiring

\* The call under way: the runtime it replaces is the one published, and nobody
\* holds the one it builds.
CallFits ==
    /\ call.at = "none" => (phase = "READY" <=> active # None)
    /\ call.at = "wait" => phase = "STOPPED" /\ active = None
    /\ call.at \notin {"none", "wait"} => phase = "STARTING" /\ call.previous = active
    /\ call.at = "deactivate" => active # None
    /\ call.at \in {"ready", "deactivate", "activate", "closeCandidate"} =>
          /\ call.candidate \in Runtimes /\ call.candidate # active
          /\ Holders(call.candidate) = {}
          /\ rt[call.candidate].open /\ rt[call.candidate].built
          /\ ~rt[call.candidate].retiring

\* Until a step fails, the published runtime works and no other one, but for
\* the one that Close takes down.
OneWorks ==
    /\ call.at \notin {"closeCandidate", "reactivate", "settle"}
    /\ \A r \in Runtimes : rt[r].working =>
          r = active \/ (call.at = "wait" /\ rt[r].retirement # "none")
    /\ \A r, s \in Runtimes : rt[r].working /\ rt[s].working => r = s
    /\ call.at = "activate" => \A r \in Runtimes : ~rt[r].working

ManagerTypes ==
    /\ rt \in [Runtimes -> RuntimeRecords] /\ call \in CallRecords
    /\ active \in Runtimes \union {None} /\ request \in [Requests -> Runtimes \union {None}]
    /\ phase \in {"SETUP_REQUIRED", "STARTING", "READY", "FAILED", "STOPPED"} /\ failures \in Nat
ManagerInv ==
    /\ ManagerTypes
    /\ \A r \in Runtimes : RuntimeFits(rt[r], Holders(r))
    /\ active # None => rt[active].open /\ rt[active].built /\ ~rt[active].retiring
    /\ CallFits
    /\ failures = 0 => OneWorks

LEMMA HoldersFinite ==
    \A r : IsFiniteSet(Holders(r)) /\ Cardinality(Holders(r)) \in Nat
           /\ (Cardinality(Holders(r)) = 0 <=> Holders(r) = {})
BY FS_Subset, FS_CardinalityType, FS_EmptySet, ManagerAssumption DEF Holders

LEMMA ManagerInit == Manager!Init => ManagerInv
<1> SUFFICES ASSUME Manager!Init PROVE ManagerInv
  OBVIOUS
<1>1. Manager!Unbuilt \in RuntimeRecords
  BY DEF Manager!Unbuilt, RuntimeRecords
<1>2. ManagerTypes
  BY <1>1, ManagerAssumption DEF Manager!Init, ManagerTypes, Manager!NoCall, CallRecords
<1>3. \A r \in Runtimes : Holders(r) = {}
  BY ManagerAssumption DEF Manager!Init, Holders
<1>4. Cardinality({}) = 0
  BY FS_EmptySet
<1>5. \A r \in Runtimes : RuntimeFits(rt[r], Holders(r))
  BY <1>3, <1>4 DEF Manager!Init, RuntimeFits, Manager!Unbuilt
<1>6. CallFits
  BY DEF Manager!Init, CallFits, Manager!NoCall
<1>7. OneWorks
  BY DEF Manager!Init, OneWorks, Manager!NoCall, Manager!Unbuilt
<1> QED
  BY <1>2, <1>5, <1>6, <1>7 DEF Manager!Init, ManagerInv

(* Steps that neither take nor give back a request.                          *)
LEMMA ManagerStep ==
    ASSUME ManagerInv, UNCHANGED request, rt' \in [Runtimes -> RuntimeRecords], call' \in CallRecords,
           active' \in Runtimes \union {None},
           phase' \in {"SETUP_REQUIRED", "STARTING", "READY", "FAILED", "STOPPED"}, failures' \in Nat,
           \A r \in Runtimes : RuntimeFits(rt'[r], Holders(r)),
           active' # None => rt'[active'].open /\ rt'[active'].built /\ ~rt'[active'].retiring,
           CallFits', failures' = 0 => OneWorks'
    PROVE  ManagerInv'
<1>1. \A r \in Runtimes : Holders(r)' = Holders(r)
  BY DEF Holders
<1> QED
  BY <1>1 DEF ManagerInv, ManagerTypes

LEMMA ManagerBegin ==
    ASSUME ManagerInv, NEW by \in {"start", "operator", "retry"}, Manager!Begin(by)
    PROVE  ManagerInv'
<1>1. call' \in CallRecords /\ call'.at = "build" /\ call'.previous = active /\ call.at = "none"
  BY DEF ManagerInv, ManagerTypes, Manager!Begin, Manager!NoCall, CallRecords
<1>2. UNCHANGED <<rt, active, request, failures>> /\ phase' = "STARTING"
  BY DEF Manager!Begin
<1>3. CallFits'
  BY <1>1, <1>2 DEF CallFits
<1>4. failures' = 0 => OneWorks'
  BY <1>1, <1>2 DEF ManagerInv, OneWorks
<1> QED
  BY <1>1, <1>2, <1>3, <1>4, ManagerStep DEF ManagerInv, ManagerTypes

LEMMA ManagerBuild ==
    ASSUME ManagerInv, Manager!Build
    PROVE  ManagerInv'
<1> DEFINE fresh == [Manager!Unbuilt EXCEPT !.open = TRUE, !.built = TRUE]
<1>t. rt \in [Runtimes -> RuntimeRecords] /\ call \in CallRecords /\ failures \in Nat
  BY DEF ManagerInv, ManagerTypes
<1>u. UNCHANGED <<active, phase, generation, request, retry>> /\ call.at = "build"
  BY DEF Manager!Build
<1>1. ASSUME NEW r \in Runtimes, ~rt[r].built, rt' = [rt EXCEPT ![r] = fresh],
             call' = [call EXCEPT !.at = "ready", !.candidate = r], failures' = failures
      PROVE  ManagerInv'
  <2>1. fresh \in RuntimeRecords /\ fresh.open /\ fresh.built /\ ~fresh.working /\ ~fresh.retiring
        /\ fresh.inFlight = 0 /\ fresh.retirement = "none"
    BY DEF Manager!Unbuilt, RuntimeRecords
  <2> HIDE DEF fresh
  <2>2. Holders(r) = {} /\ r # active /\ Cardinality({}) = 0
    <3>1. RuntimeFits(rt[r], Holders(r)) /\ (active # None => rt[active].built)
      BY DEF ManagerInv
    <3> QED
      BY <3>1, <1>1, FS_EmptySet, ManagerAssumption DEF RuntimeFits
  <2>3. RuntimeFits(fresh, Holders(r))
    BY <2>1, <2>2 DEF RuntimeFits
  <2>4. \A s \in Runtimes : RuntimeFits(rt'[s], Holders(s))
    BY <2>3, <1>1, <1>t DEF ManagerInv
  <2>5. rt' \in [Runtimes -> RuntimeRecords]
    BY <2>1, <1>1, <1>t
  <2>6. call' \in CallRecords /\ call'.at = "ready" /\ call'.candidate = r /\ call'.previous = call.previous
    BY <1>1, <1>t DEF CallRecords
  <2>7. Holders(r)' = {}
    BY <2>2, <1>u DEF Holders
  <2>8. CallFits'
    BY <2>1, <2>2, <2>6, <2>7, <1>1, <1>t, <1>u DEF CallFits, ManagerInv
  <2>9. failures' = 0 => OneWorks'
    BY <2>1, <2>6, <1>1, <1>t, <1>u DEF OneWorks, ManagerInv
  <2>10. active' # None => rt'[active'].open /\ rt'[active'].built /\ ~rt'[active'].retiring
    BY <2>2, <1>1, <1>t, <1>u DEF ManagerInv
  <2> QED
    BY <2>4, <2>5, <2>6, <2>8, <2>9, <2>10, <1>1, <1>t, <1>u, ManagerStep DEF ManagerInv, ManagerTypes
<1>2. CASE Manager!Rollback(FALSE) /\ Manager!MayFail /\ UNCHANGED rt
  <2>1. call' \in CallRecords /\ call'.at = "settle" /\ call'.previous = call.previous
    BY <1>2, <1>t, <1>u DEF CallRecords, Manager!Rollback
  <2>2. failures' \in Nat /\ failures' # 0
    BY <1>2, <1>t DEF Manager!MayFail
  <2>3. CallFits'
    BY <2>1, <1>2, <1>u DEF CallFits, ManagerInv
  <2> QED
    BY <2>1, <2>2, <2>3, <1>2, <1>t, <1>u, ManagerStep DEF ManagerInv, ManagerTypes
<1> QED
  BY <1>1, <1>2 DEF Manager!Build, Manager!Fine

LEMMA ManagerReady ==
    ASSUME ManagerInv, Manager!Ready
    PROVE  ManagerInv'
<1>t. rt \in [Runtimes -> RuntimeRecords] /\ call \in CallRecords /\ failures \in Nat
  BY DEF ManagerInv, ManagerTypes
<1>u. UNCHANGED <<rt, active, phase, generation, request, retry>> /\ call.at = "ready"
  BY DEF Manager!Ready
<1>1. /\ call' \in CallRecords /\ call'.previous = call.previous /\ call'.candidate = call.candidate
      /\ \/ call'.at = "activate" /\ call.previous = None /\ failures' = failures
         \/ call'.at = "deactivate" /\ call.previous # None /\ failures' = failures
         \/ call'.at = "closeCandidate" /\ failures' = failures + 1
  <2>1. CASE call' = [call EXCEPT !.at = IF call.previous = None THEN "activate" ELSE "deactivate"]
             /\ Manager!Fine
    BY <2>1, <1>t DEF CallRecords, Manager!Fine
  <2>2. CASE Manager!Rollback(FALSE) /\ Manager!MayFail
    BY <2>2, <1>t, <1>u DEF CallRecords, Manager!Rollback, Manager!MayFail
  <2> QED
    BY <2>1, <2>2 DEF Manager!Ready
<1>2. Holders(call.candidate)' = Holders(call.candidate)
  BY <1>1, <1>u DEF Holders
<1>3. CallFits'
  BY <1>1, <1>2, <1>t, <1>u DEF CallFits, ManagerInv
<1>4. failures' = 0 => OneWorks'
  <2>1. SUFFICES ASSUME failures' = 0 PROVE OneWorks'
    OBVIOUS
  <2>2. OneWorks /\ failures' = failures /\ call'.at # "closeCandidate"
    BY <2>1, <1>1, <1>t DEF ManagerInv
  <2>3. call'.at = "activate" => active = None
    BY <2>2, <1>1, <1>u DEF CallFits, ManagerInv
  <2> QED
    BY <2>2, <2>3, <1>1, <1>u, ManagerAssumption DEF OneWorks
<1>5. failures' \in Nat
  BY <1>1, <1>t
<1> QED
  BY <1>1, <1>3, <1>4, <1>5, <1>t, <1>u, ManagerStep DEF ManagerInv, ManagerTypes

LEMMA ManagerDeactivate ==
    ASSUME ManagerInv, Manager!Deactivate
    PROVE  ManagerInv'
<1>t. rt \in [Runtimes -> RuntimeRecords] /\ call \in CallRecords /\ failures \in Nat
  BY DEF ManagerInv, ManagerTypes
<1>u. UNCHANGED <<active, phase, generation, request, retry>> /\ call.at = "deactivate"
  BY DEF Manager!Deactivate
<1>p. call.previous = active /\ active \in Runtimes
  BY <1>u DEF ManagerInv, ManagerTypes, CallFits
<1>1. PICK w \in BOOLEAN :
        /\ rt' = [rt EXCEPT ![active].working = w]
        /\ call' \in CallRecords /\ call'.previous = call.previous /\ call'.candidate = call.candidate
        /\ \/ call'.at = "activate" /\ failures' = failures /\ w = FALSE
           \/ call'.at = "closeCandidate" /\ failures' = failures + 1
  <2>1. CASE /\ call' = [call EXCEPT !.at = "activate"] /\ Manager!Fine
             /\ rt' = [rt EXCEPT ![call.previous].working = FALSE]
    BY <2>1, <1>t, <1>p DEF CallRecords, Manager!Fine
  <2>2. CASE /\ Manager!Rollback(TRUE) /\ Manager!MayFail
             /\ \E w \in BOOLEAN : rt' = [rt EXCEPT ![call.previous].working = w]
    <3>1. call' \in CallRecords /\ call'.previous = call.previous /\ call'.candidate = call.candidate
          /\ call'.at = "closeCandidate"
      BY <2>2, <1>t, <1>u DEF CallRecords, Manager!Rollback
    <3> QED
      BY <3>1, <2>2, <1>p DEF Manager!MayFail
  <2> QED
    BY <2>1, <2>2 DEF Manager!Deactivate
<1>2. /\ rt' \in [Runtimes -> RuntimeRecords]
      /\ \A r \in Runtimes : /\ rt'[r].open = rt[r].open /\ rt'[r].built = rt[r].built
                             /\ rt'[r].inFlight = rt[r].inFlight /\ rt'[r].overran = rt[r].overran
                             /\ rt'[r].retiring = rt[r].retiring /\ rt'[r].retirement = rt[r].retirement
                             /\ rt'[r].working = IF r = active THEN w ELSE rt[r].working
  BY <1>1, <1>t, <1>p DEF RuntimeRecords
<1>3. rt[active].built
  BY <1>p, ManagerAssumption DEF ManagerInv
<1>4. \A r \in Runtimes : RuntimeFits(rt'[r], Holders(r))
  BY <1>2, <1>3 DEF ManagerInv, RuntimeFits
<1>5. Holders(call.candidate)' = Holders(call.candidate)
  BY <1>1, <1>u DEF Holders
<1>6. CallFits'
  BY <1>1, <1>2, <1>5, <1>t, <1>u DEF CallFits, ManagerInv
<1>7. failures' = 0 => OneWorks'
  <2>1. SUFFICES ASSUME failures' = 0 PROVE OneWorks'
    OBVIOUS
  <2>2. OneWorks /\ failures' = failures /\ call'.at = "activate" /\ w = FALSE
    BY <2>1, <1>1, <1>t DEF ManagerInv
  <2> QED
    BY <2>2, <1>2, <1>u DEF OneWorks
<1>8. failures' \in Nat
  BY <1>1, <1>t
<1>9. active' # None => rt'[active'].open /\ rt'[active'].built /\ ~rt'[active'].retiring
  BY <1>2, <1>p, <1>u DEF ManagerInv
<1> QED
  BY <1>1, <1>2, <1>4, <1>6, <1>7, <1>8, <1>9, <1>u, ManagerStep DEF ManagerInv, ManagerTypes

(* A runtime that is to go is drained; nothing else of it, and nothing of the *)
(* others, changes.                                                          *)
RetiredFrom(f, g, r) ==
    /\ g \in [Runtimes -> RuntimeRecords]
    /\ \A s \in Runtimes : s # r => g[s] = f[s]
    /\ g[r].open = f[r].open /\ g[r].built = f[r].built /\ g[r].working = f[r].working
    /\ g[r].inFlight = f[r].inFlight /\ g[r].overran = f[r].overran
    /\ g[r].retirement # "none"
    /\ g[r] = f[r] \/ (f[r].retirement = "none" /\ g[r].retiring /\ g[r].retirement = "drain")

LEMMA Retired ==
    ASSUME NEW f \in [Runtimes -> RuntimeRecords], NEW r \in Runtimes, NEW d \in BOOLEAN
    PROVE  RetiredFrom(f, Manager!startRetirementLocked(f, r, d), r)
<1>1. CASE f[r].retirement # "none"
  BY <1>1 DEF Manager!startRetirementLocked, RetiredFrom
<1>2. CASE f[r].retirement = "none"
  <2> DEFINE row == [f[r] EXCEPT !.retiring = TRUE, !.retirement = "drain", !.deactivate = d]
  <2>1. Manager!startRetirementLocked(f, r, d) = [f EXCEPT ![r] = row]
    BY <1>2 DEF Manager!startRetirementLocked
  <2>2. f[r] \in RuntimeRecords
    OBVIOUS
  <2>3. /\ row \in RuntimeRecords /\ row.retiring /\ row.retirement = "drain"
        /\ row.open = f[r].open /\ row.built = f[r].built /\ row.working = f[r].working
        /\ row.inFlight = f[r].inFlight /\ row.overran = f[r].overran
    BY <2>2 DEF RuntimeRecords
  <2> HIDE DEF row
  <2> QED
    BY <2>1, <2>3, <1>2 DEF RetiredFrom
<1> QED
  BY <1>1, <1>2

LEMMA RetiredFits ==
    ASSUME NEW f \in [Runtimes -> RuntimeRecords], NEW g, NEW r \in Runtimes, RetiredFrom(f, g, r), f[r].built,
           \A s \in Runtimes : RuntimeFits(f[s], Holders(s))
    PROVE  \A s \in Runtimes : RuntimeFits(g[s], Holders(s))
<1>1. SUFFICES ASSUME NEW s \in Runtimes PROVE RuntimeFits(g[s], Holders(s))
  OBVIOUS
<1>2. RuntimeFits(f[s], Holders(s))
  OBVIOUS
<1> QED
  BY <1>2 DEF RuntimeFits, RetiredFrom

LEMMA AnswerEnds ==
    ASSUME NEW ok \in BOOLEAN, Manager!Answer(ok)
    PROVE  call' \in CallRecords /\ call'.at = "none"
BY DEF Manager!Answer, Manager!NoCall, CallRecords

LEMMA ManagerActivate ==
    ASSUME ManagerInv, Manager!Activate
    PROVE  ManagerInv'
<1> DEFINE c == call.candidate
           up == [rt EXCEPT ![c].working = TRUE]
<1>t. rt \in [Runtimes -> RuntimeRecords] /\ call \in CallRecords /\ failures \in Nat
      /\ active \in Runtimes \union {None}
  BY DEF ManagerInv, ManagerTypes
<1>u. UNCHANGED request /\ call.at = "activate" /\ call.previous = active
  BY DEF Manager!Activate, ManagerInv, CallFits
<1>c. c \in Runtimes /\ c # active /\ Holders(c) = {} /\ rt[c].open /\ rt[c].built /\ ~rt[c].retiring
  BY <1>u DEF ManagerInv, CallFits
<1>a. active # None => rt[active].built
  BY DEF ManagerInv
<1>1. ASSUME rt' = IF active = None THEN up ELSE Manager!startRetirementLocked(up, active, FALSE),
             active' = c, phase' = "READY", Manager!Answer(TRUE), failures' = failures
      PROVE  ManagerInv'
  <2>1. /\ up \in [Runtimes -> RuntimeRecords]
        /\ \A r \in Runtimes : /\ up[r].open = rt[r].open /\ up[r].built = rt[r].built
                               /\ up[r].inFlight = rt[r].inFlight /\ up[r].overran = rt[r].overran
                               /\ up[r].retiring = rt[r].retiring /\ up[r].retirement = rt[r].retirement
                               /\ up[r].working = IF r = c THEN TRUE ELSE rt[r].working
    BY <1>t, <1>c DEF RuntimeRecords
  <2> HIDE DEF up
  <2>2. ASSUME NEW r \in Runtimes PROVE RuntimeFits(up[r], Holders(r))
    <3>1. RuntimeFits(rt[r], Holders(r))
      BY DEF ManagerInv
    <3> QED
      BY <3>1, <2>1, <1>c DEF RuntimeFits
  <2>3. rt' = up \/ RetiredFrom(up, rt', active)
    BY <2>1, <1>1, <1>t, Retired
  <2>r. rt' \in [Runtimes -> RuntimeRecords] /\ \A r \in Runtimes : RuntimeFits(rt'[r], Holders(r))
    <3>1. CASE rt' = up
      BY <3>1, <2>1, <2>2
    <3>2. CASE rt' # up
      <4>1. RetiredFrom(up, rt', active) /\ active \in Runtimes
        BY <3>2, <2>3, <1>1, <1>t
      <4>2. up[active].built
        BY <4>1, <2>1, <1>a, ManagerAssumption
      <4> QED
        BY <4>1, <4>2, <2>1, <2>2, RetiredFits DEF RetiredFrom
    <3> QED
      BY <3>1, <3>2
  <2>4. rt'[c] = up[c] /\ \A r \in Runtimes : rt'[r].working = up[r].working
    BY <2>3, <1>c DEF RetiredFrom
  <2>5. call' \in CallRecords /\ call'.at = "none"
    BY <1>1, AnswerEnds
  <2>6. c # None
    BY <1>c, ManagerAssumption
  <2>7. CallFits'
    BY <2>5, <2>6, <1>1 DEF CallFits
  <2>8. failures' = 0 => OneWorks'
    <3>1. SUFFICES ASSUME failures = 0 PROVE OneWorks'
      BY <1>1
    <3>2. \A r \in Runtimes : rt'[r].working => r = c
      BY <3>1, <2>1, <2>4, <1>u DEF ManagerInv, OneWorks
    <3> QED
      BY <3>2, <2>5, <1>1 DEF OneWorks
  <2>9. rt'[active'].open /\ rt'[active'].built /\ ~rt'[active'].retiring
    BY <2>1, <2>4, <1>1, <1>c
  <2> QED
    BY <2>r, <2>5, <2>7, <2>8, <2>9, <1>1, <1>t, <1>c, <1>u, ManagerStep
<1>2. CASE /\ Manager!Rollback(call.previous # None) /\ Manager!MayFail
           /\ UNCHANGED <<rt, active, phase, generation, retry>>
  <2>1. call' \in CallRecords /\ call'.at = "closeCandidate" /\ call'.previous = call.previous
        /\ call'.candidate = c
    BY <1>2, <1>t, <1>u DEF CallRecords, Manager!Rollback
  <2>2. failures' \in Nat /\ failures' # 0
    BY <1>2, <1>t DEF Manager!MayFail
  <2>3. Holders(call.candidate)' = {}
    BY <2>1, <1>c, <1>u DEF Holders
  <2>4. CallFits'
    BY <2>1, <2>3, <1>2, <1>c, <1>u DEF CallFits, ManagerInv
  <2> QED
    BY <2>1, <2>2, <2>4, <1>2, <1>t, <1>u, ManagerStep DEF ManagerInv, ManagerTypes
<1> QED
  <2>1. CASE /\ rt' = IF active = None THEN up ELSE Manager!startRetirementLocked(up, active, FALSE)
             /\ active' = c /\ phase' = "READY" /\ Manager!Answer(TRUE) /\ failures' = failures
    BY <2>1, <1>1
  <2> QED
    BY <2>1, <1>2, <1>u DEF Manager!Activate, Manager!Fine

LEMMA ManagerCloseCandidate ==
    ASSUME ManagerInv, Manager!CloseCandidate
    PROVE  ManagerInv'
<1> DEFINE c == call.candidate
<1>t. rt \in [Runtimes -> RuntimeRecords] /\ call \in CallRecords /\ failures \in Nat
      /\ active \in Runtimes \union {None}
  BY DEF ManagerInv, ManagerTypes
<1>u. UNCHANGED <<active, phase, generation, request, retry, failures>> /\ call.at = "closeCandidate"
      /\ call.previous = active
  BY DEF Manager!CloseCandidate, ManagerInv, CallFits
<1>c. c \in Runtimes /\ c # active /\ Holders(c) = {} /\ rt[c].open /\ rt[c].built /\ ~rt[c].retiring
  BY <1>u DEF ManagerInv, CallFits
<1>1. /\ rt' \in [Runtimes -> RuntimeRecords]
      /\ \A r \in Runtimes : r # c => rt'[r] = rt[r]
      /\ rt'[c].built = rt[c].built /\ rt'[c].inFlight = rt[c].inFlight
      /\ rt'[c].retiring = rt[c].retiring /\ rt'[c].retirement = rt[c].retirement
  <2> DEFINE row == [rt[c] EXCEPT !.open = FALSE, !.working = FALSE]
  <2>1. rt' = [rt EXCEPT ![c] = row]
    BY DEF Manager!CloseCandidate
  <2>2. rt[c] \in RuntimeRecords
    BY <1>t, <1>c
  <2>3. row \in RuntimeRecords /\ row.built = rt[c].built /\ row.inFlight = rt[c].inFlight
        /\ row.retiring = rt[c].retiring /\ row.retirement = rt[c].retirement
    BY <2>2 DEF RuntimeRecords
  <2> QED
    BY <2>1, <2>3, <1>t, <1>c
<1>2. \A r \in Runtimes : RuntimeFits(rt'[r], Holders(r))
  BY <1>1, <1>c DEF ManagerInv, RuntimeFits
<1>3. call' \in CallRecords /\ call'.at \in {"reactivate", "settle"} /\ call'.previous = call.previous
  BY <1>t DEF Manager!CloseCandidate, CallRecords
<1>4. CallFits'
  BY <1>3, <1>u DEF CallFits, ManagerInv
<1>5. failures # 0
  BY <1>u DEF ManagerInv, OneWorks
<1>6. active' # None => rt'[active'].open /\ rt'[active'].built /\ ~rt'[active'].retiring
  BY <1>1, <1>t, <1>u, <1>c DEF ManagerInv
<1> QED
  BY <1>1, <1>2, <1>3, <1>4, <1>5, <1>6, <1>t, <1>u, ManagerStep DEF ManagerInv, ManagerTypes

LEMMA ManagerSettle ==
    ASSUME ManagerInv, NEW reactivated \in BOOLEAN, Manager!SettleRollback(reactivated),
           call.at \in {"settle", "reactivate"}, failures' \in Nat, failures' >= failures
    PROVE  ManagerInv'
<1>t. rt \in [Runtimes -> RuntimeRecords] /\ active \in Runtimes \union {None} /\ failures \in Nat
      /\ phase \in {"SETUP_REQUIRED", "STARTING", "READY", "FAILED", "STOPPED"}
  BY DEF ManagerInv, ManagerTypes
<1>u. UNCHANGED request /\ call.previous = active
  BY DEF Manager!SettleRollback, ManagerInv, CallFits
<1>a. active # None => rt[active].open /\ rt[active].built /\ ~rt[active].retiring
  BY DEF ManagerInv
<1>1. call' \in CallRecords /\ call'.at = "none"
  BY AnswerEnds DEF Manager!SettleRollback
<1>2. failures' # 0
  BY <1>t DEF ManagerInv, OneWorks
<1>3. CallFits'
  BY <1>1, <1>u DEF CallFits, Manager!SettleRollback
<1>4. \A r \in Runtimes : RuntimeFits(rt[r], Holders(r))
  BY DEF ManagerInv
<1>5. /\ rt' \in [Runtimes -> RuntimeRecords]
      /\ \A r \in Runtimes : RuntimeFits(rt'[r], Holders(r))
      /\ active' # None => rt'[active'].open /\ rt'[active'].built /\ ~rt'[active'].retiring
  <2>1. CASE rt' = rt
    BY <2>1, <1>4, <1>a, <1>t, <1>u DEF Manager!SettleRollback
  <2>2. CASE rt' # rt /\ ~reactivated
    <3>1. active \in Runtimes /\ active' = None /\ RetiredFrom(rt, rt', active)
      BY <2>2, <1>t, <1>u, Retired DEF Manager!SettleRollback
    <3> QED
      BY <3>1, <1>4, <1>a, <1>t, RetiredFits, ManagerAssumption DEF RetiredFrom
  <2>3. CASE rt' # rt /\ reactivated
    <3>1. active \in Runtimes /\ active' = active /\ rt' = [rt EXCEPT ![active].working = TRUE]
      BY <2>3, <1>t, <1>u DEF Manager!SettleRollback
    <3>2. /\ rt' \in [Runtimes -> RuntimeRecords]
          /\ \A r \in Runtimes : /\ rt'[r].open = rt[r].open /\ rt'[r].built = rt[r].built
                                 /\ rt'[r].inFlight = rt[r].inFlight /\ rt'[r].overran = rt[r].overran
                                 /\ rt'[r].retiring = rt[r].retiring
                                 /\ rt'[r].retirement = rt[r].retirement
                                 /\ r # active => rt'[r].working = rt[r].working
      BY <3>1, <1>t DEF RuntimeRecords
    <3>3. ASSUME NEW r \in Runtimes PROVE RuntimeFits(rt'[r], Holders(r))
      BY <3>1, <3>2, <1>4, <1>a, ManagerAssumption DEF RuntimeFits
    <3> QED
      BY <3>1, <3>2, <3>3, <1>a
  <2> QED
    BY <2>1, <2>2, <2>3
<1>6. active' \in Runtimes \union {None} /\ phase' \in {"READY", "FAILED"}
  BY <1>t DEF Manager!SettleRollback
<1> QED
  BY <1>1, <1>2, <1>3, <1>5, <1>6, <1>u, ManagerStep

LEMMA ManagerClose ==
    ASSUME ManagerInv, Manager!Close
    PROVE  ManagerInv'
<1>t. rt \in [Runtimes -> RuntimeRecords] /\ active \in Runtimes \union {None} /\ failures \in Nat
  BY DEF ManagerInv, ManagerTypes
<1>u. UNCHANGED <<request, failures>> /\ call.at = "none" /\ active' = None /\ phase' = "STOPPED"
  BY DEF Manager!Close
<1>1. call' \in CallRecords /\ call'.at = "wait"
  BY DEF Manager!Close, Manager!NoCall, CallRecords
<1>2. CallFits'
  BY <1>1, <1>u DEF CallFits
<1>3. (active = None /\ rt' = rt) \/ (active \in Runtimes /\ RetiredFrom(rt, rt', active))
  BY <1>t, Retired DEF Manager!Close
<1>4. rt' \in [Runtimes -> RuntimeRecords] /\ \A r \in Runtimes : RuntimeFits(rt'[r], Holders(r))
  <2>1. \A r \in Runtimes : RuntimeFits(rt[r], Holders(r))
    BY DEF ManagerInv
  <2>2. CASE rt' = rt
    BY <2>1, <2>2, <1>t
  <2>3. CASE rt' # rt
    <3>1. active \in Runtimes /\ RetiredFrom(rt, rt', active) /\ rt[active].built
      BY <2>3, <1>3, ManagerAssumption DEF ManagerInv
    <3> QED
      BY <3>1, <2>1, <1>t, RetiredFits DEF RetiredFrom
  <2> QED
    BY <2>2, <2>3
<1>5. failures' = 0 => OneWorks'
  <2>1. SUFFICES ASSUME failures = 0 PROVE OneWorks'
    BY <1>u
  <2>2. \A r \in Runtimes : rt[r].working => r = active
    BY <2>1, <1>u DEF ManagerInv, OneWorks
  <2>3. \A r \in Runtimes : rt'[r].working => r = active /\ rt'[r].retirement # "none"
    BY <2>2, <1>3, ManagerAssumption DEF RetiredFrom
  <2> QED
    BY <2>3, <1>1, <1>u DEF OneWorks
<1> QED
  BY <1>1, <1>2, <1>4, <1>5, <1>t, <1>u, ManagerStep

LEMMA ManagerWait ==
    ASSUME ManagerInv, Manager!waitForRetirements
    PROVE  ManagerInv'
<1>t. rt \in [Runtimes -> RuntimeRecords] /\ active \in Runtimes \union {None} /\ failures \in Nat
      /\ phase \in {"SETUP_REQUIRED", "STARTING", "READY", "FAILED", "STOPPED"}
  BY DEF ManagerInv, ManagerTypes
<1>u. UNCHANGED <<rt, active, phase, generation, request, retry>> /\ call.at = "wait"
  BY DEF Manager!waitForRetirements
<1>1. call' \in CallRecords /\ call'.at = "none"
  BY DEF Manager!waitForRetirements, Manager!NoCall, CallRecords
<1>2. CallFits'
  BY <1>1, <1>u DEF CallFits, ManagerInv
<1>3. (failures' = failures /\ \A r \in Runtimes : rt[r].retirement = "none") \/ failures' = failures + 1
  BY DEF Manager!waitForRetirements, Manager!Fine, Manager!MayFail
<1>4. failures' = 0 => OneWorks'
  BY <1>1, <1>3, <1>t, <1>u DEF OneWorks, ManagerInv
<1> QED
  BY <1>1, <1>2, <1>3, <1>4, <1>t, <1>u, ManagerStep DEF ManagerInv

(* A retirement goes on: only its own runtime changes, and it is never the   *)
(* one published nor the one being built.                                    *)
LEMMA ManagerRetirement ==
    ASSUME ManagerInv, NEW r \in Runtimes, Manager!Retirement(r)
    PROVE  ManagerInv'
<1>t. rt \in [Runtimes -> RuntimeRecords] /\ rt[r] \in RuntimeRecords /\ call \in CallRecords
      /\ active \in Runtimes \union {None} /\ failures \in Nat
      /\ phase \in {"SETUP_REQUIRED", "STARTING", "READY", "FAILED", "STOPPED"}
  BY DEF ManagerInv, ManagerTypes
<1>u. UNCHANGED <<active, phase, generation, call, request, retry>>
  BY DEF Manager!Retirement, Manager!waitForDrain, Manager!DeactivateRetired, Manager!CloseRetired
<1>f. RuntimeFits(rt[r], Holders(r))
  BY DEF ManagerInv
<1> DEFINE Goes(row) ==
        /\ rt' = [rt EXCEPT ![r] = row] /\ rt[r].retirement # "none" /\ RuntimeFits(row, Holders(r))
        /\ row.working => rt[r].working /\ row.retirement # "none"
        /\ failures' \in Nat /\ failures' >= failures
<1>1. \E row \in RuntimeRecords : Goes(row)
  <2>1. CASE Manager!waitForDrain(r)
    <3> DEFINE late == rt[r].inFlight > 0
               next == IF rt[r].deactivate THEN "deactivate" ELSE "close"
    <3>1. late \in BOOLEAN /\ next \in {"deactivate", "close"}
          /\ (late <=> rt[r].inFlight > 0)
      OBVIOUS
    <3>2. rt' = [rt EXCEPT ![r].retirement = next, ![r].overran = late] /\ rt[r].retirement = "drain"
      BY <2>1 DEF Manager!waitForDrain
    <3> HIDE DEF late, next
    <3> DEFINE row == [rt[r] EXCEPT !.retirement = next, !.overran = late]
    <3>3. rt' = [rt EXCEPT ![r] = row]
      BY <3>2, <1>t
    <3>4. /\ row \in RuntimeRecords /\ row.retirement = next /\ row.inFlight = rt[r].inFlight
          /\ row.overran = late /\ row.working = rt[r].working
          /\ row.built = rt[r].built /\ row.open = rt[r].open /\ row.retiring = rt[r].retiring
      BY <3>1, <1>t DEF RuntimeRecords
    <3> HIDE DEF row
    <3>5. Holders(r) = {} \/ row.overran
      <4>1. rt[r].inFlight \in Nat /\ rt[r].inFlight = Cardinality(Holders(r))
        BY <1>t, <1>f DEF RuntimeRecords, RuntimeFits
      <4>2. rt[r].inFlight = 0 => Holders(r) = {}
        BY <4>1, HoldersFinite
      <4> QED
        BY <4>1, <4>2, <3>1, <3>4
    <3>6. RuntimeFits(row, Holders(r))
      BY <3>1, <3>2, <3>4, <3>5, <1>f DEF RuntimeFits
    <3>7. failures' \in Nat /\ failures' >= failures
      BY <2>1, <1>t DEF Manager!waitForDrain, Manager!Fine, Manager!MayFail
    <3>8. Goes(row)
      BY <3>1, <3>2, <3>3, <3>4, <3>6, <3>7
    <3> QED
      BY <3>4, <3>8
  <2>2. CASE Manager!DeactivateRetired(r)
    <3> DEFINE row == [rt[r] EXCEPT !.retirement = "close", !.working = FALSE]
    <3>1. rt' = [rt EXCEPT ![r] = row] /\ rt[r].retirement = "deactivate" /\ failures' = failures
      BY <2>2, <1>t DEF Manager!DeactivateRetired
    <3>2. /\ row \in RuntimeRecords /\ row.retirement = "close" /\ row.inFlight = rt[r].inFlight
          /\ row.overran = rt[r].overran /\ ~row.working
          /\ row.built = rt[r].built /\ row.open = rt[r].open /\ row.retiring = rt[r].retiring
      BY <1>t DEF RuntimeRecords
    <3> HIDE DEF row
    <3>3. RuntimeFits(row, Holders(r))
      BY <3>1, <3>2, <1>f DEF RuntimeFits
    <3>4. Goes(row)
      BY <3>1, <3>2, <3>3, <1>t
    <3> QED
      BY <3>2, <3>4
  <2>3. CASE Manager!CloseRetired(r)
    <3> DEFINE row == [rt[r] EXCEPT !.retirement = "none", !.open = FALSE, !.working = FALSE]
    <3>1. rt' = [rt EXCEPT ![r] = row] /\ rt[r].retirement = "close" /\ failures' = failures
      BY <2>3, <1>t DEF Manager!CloseRetired
    <3>2. /\ row \in RuntimeRecords /\ row.retirement = "none" /\ row.inFlight = rt[r].inFlight
          /\ row.overran = rt[r].overran /\ ~row.working /\ ~row.open
          /\ row.built = rt[r].built /\ row.retiring = rt[r].retiring
      BY <1>t DEF RuntimeRecords
    <3> HIDE DEF row
    <3>3. RuntimeFits(row, Holders(r))
      BY <3>1, <3>2, <1>f DEF RuntimeFits
    <3>4. Goes(row)
      BY <3>1, <3>2, <3>3, <1>t
    <3> QED
      BY <3>2, <3>4
  <2> QED
    BY <2>1, <2>2, <2>3 DEF Manager!Retirement
<1>p. PICK row \in RuntimeRecords : Goes(row)
  BY <1>1
<1>2. rt' \in [Runtimes -> RuntimeRecords] /\ rt'[r] = row /\ \A s \in Runtimes : s # r => rt'[s] = rt[s]
  BY <1>p, <1>t
<1>3. r # active /\ rt[r].retiring
  BY <1>p, <1>f, ManagerAssumption DEF ManagerInv, RuntimeFits
<1>4. \A s \in Runtimes : RuntimeFits(rt'[s], Holders(s))
  BY <1>p, <1>2 DEF ManagerInv
<1>5. Holders(call.candidate)' = Holders(call.candidate)
  BY <1>u DEF Holders
<1>6. CallFits'
  BY <1>2, <1>3, <1>5, <1>u DEF CallFits, ManagerInv
<1>7. failures' = 0 => OneWorks'
  <2>1. SUFFICES ASSUME failures = 0 PROVE OneWorks'
    BY <1>p, <1>t
  <2>2. OneWorks
    BY <2>1 DEF ManagerInv
  <2> QED
    BY <2>2, <1>p, <1>2, <1>u DEF OneWorks
<1>8. active' # None => rt'[active'].open /\ rt'[active'].built /\ ~rt'[active'].retiring
  BY <1>2, <1>3, <1>t, <1>u DEF ManagerInv
<1> QED
  BY <1>p, <1>2, <1>4, <1>6, <1>7, <1>8, <1>t, <1>u, ManagerStep

(* A request takes hold of the published runtime or lets go of its own: the  *)
(* runtime counts it.                                                        *)
LEMMA ManagerHolds ==
    ASSUME ManagerInv, NEW r \in Runtimes, NEW n \in Nat,
           rt' = [rt EXCEPT ![r].inFlight = n], request' \in [Requests -> Runtimes \union {None}],
           n = Cardinality(Holders(r)'), \A s \in Runtimes : s # r => Holders(s)' = Holders(s),
           Holders(r)' = {} \/ Holders(r) # {} \/ r = active,
           UNCHANGED <<active, phase, generation, call, retry, failures>>
    PROVE  ManagerInv'
<1>t. rt \in [Runtimes -> RuntimeRecords] /\ active \in Runtimes \union {None}
  BY DEF ManagerInv, ManagerTypes
<1>1. /\ rt' \in [Runtimes -> RuntimeRecords] /\ rt'[r].inFlight = n
      /\ \A s \in Runtimes : /\ rt'[s].open = rt[s].open /\ rt'[s].built = rt[s].built
                             /\ rt'[s].working = rt[s].working /\ rt'[s].overran = rt[s].overran
                             /\ rt'[s].retiring = rt[s].retiring /\ rt'[s].retirement = rt[s].retirement
                             /\ s # r => rt'[s].inFlight = rt[s].inFlight
  BY <1>t DEF RuntimeRecords
<1>a. active # None => rt[active].open /\ rt[active].built /\ ~rt[active].retiring
  BY DEF ManagerInv
<1>2. ASSUME NEW s \in Runtimes PROVE RuntimeFits(rt'[s], Holders(s)')
  <2>1. RuntimeFits(rt[s], Holders(s))
    BY DEF ManagerInv
  <2>2. CASE s # r
    BY <2>1, <2>2, <1>1 DEF RuntimeFits
  <2>3. CASE s = r
    <3>1. s = active => rt[s].open /\ rt[s].built /\ rt[s].retirement = "none"
      BY <2>1, <1>a, ManagerAssumption DEF RuntimeFits
    <3> QED
      BY <3>1, <2>1, <2>3, <1>1 DEF RuntimeFits
  <2> QED
    BY <2>2, <2>3
<1>3. CallFits'
  <2>1. call.at \in {"ready", "deactivate", "activate", "closeCandidate"} =>
            call.candidate \in Runtimes /\ call.candidate # active /\ Holders(call.candidate) = {}
    BY DEF ManagerInv, CallFits
  <2>2. call.at \in {"ready", "deactivate", "activate", "closeCandidate"} => Holders(call.candidate)' = {}
    <3>1. \A c \in Runtimes : call.candidate = c => Holders(call.candidate)' = Holders(c)'
      BY DEF Holders
    <3>2. \A c \in Runtimes : c # active /\ Holders(c) = {} => Holders(c)' = {}
      OBVIOUS
    <3> QED
      BY <3>1, <3>2, <2>1
  <2> QED
    BY <2>2, <1>1 DEF ManagerInv, CallFits
<1>4. failures' = 0 => OneWorks'
  BY <1>1 DEF ManagerInv, OneWorks
<1>5. active' # None => rt'[active'].open /\ rt'[active'].built /\ ~rt'[active'].retiring
  BY <1>1, <1>a, <1>t
<1> QED
  BY <1>1, <1>2, <1>3, <1>4, <1>5 DEF ManagerInv, ManagerTypes

LEMMA ManagerHold ==
    ASSUME ManagerInv, NEW q \in Requests, active # None, Manager!Hold(q)
    PROVE  ManagerInv'
<1>t. rt \in [Runtimes -> RuntimeRecords] /\ active \in Runtimes
      /\ request \in [Requests -> Runtimes \union {None}]
  BY DEF ManagerInv, ManagerTypes
<1>1. /\ request[q] = None /\ rt' = [rt EXCEPT ![active].inFlight = @ + 1]
      /\ request' = [request EXCEPT ![q] = active]
      /\ UNCHANGED <<active, phase, generation, call, retry, failures>>
  BY DEF Manager!Hold
<1>2. /\ rt[active].inFlight = Cardinality(Holders(active)) /\ Cardinality(Holders(active)) \in Nat
      /\ IsFiniteSet(Holders(active))
  BY <1>t, HoldersFinite DEF ManagerInv, RuntimeFits
<1>3. q \notin Holders(active)
  BY <1>1, ManagerAssumption DEF Holders
<1>4. \A s \in Runtimes : Holders(s)' = IF s = active THEN Holders(s) \union {q} ELSE Holders(s)
  BY <1>1, <1>t, ManagerAssumption DEF Holders
<1>5. Cardinality(Holders(active) \union {q}) = Cardinality(Holders(active)) + 1
  BY <1>2, <1>3, FS_AddElement
<1>6. PICK r \in Runtimes : r = active
  BY <1>t
<1> DEFINE n == rt[r].inFlight + 1
<1>7. n = Cardinality(Holders(r)') /\ n \in Nat
  BY <1>2, <1>4, <1>5, <1>6
<1>8. rt' = [rt EXCEPT ![r].inFlight = n] /\ request' \in [Requests -> Runtimes \union {None}]
  BY <1>1, <1>6, <1>t
<1> HIDE DEF n
<1> QED
  BY <1>1, <1>4, <1>6, <1>7, <1>8, ManagerHolds

LEMMA ManagerRelease ==
    ASSUME ManagerInv, NEW q \in Requests, Manager!release(q)
    PROVE  ManagerInv'
<1>t. rt \in [Runtimes -> RuntimeRecords] /\ request \in [Requests -> Runtimes \union {None}]
  BY DEF ManagerInv, ManagerTypes
<1>1. PICK r \in Runtimes : r = request[q]
  BY <1>t DEF Manager!release
<1>2. /\ rt' = [rt EXCEPT ![r].inFlight = IF @ > 0 THEN @ - 1 ELSE @]
      /\ request' = [request EXCEPT ![q] = None]
      /\ UNCHANGED <<active, phase, generation, call, retry, failures>>
  BY <1>1 DEF Manager!release
<1>3. /\ rt[r].inFlight = Cardinality(Holders(r)) /\ Cardinality(Holders(r)) \in Nat
      /\ IsFiniteSet(Holders(r)) /\ q \in Holders(r)
  BY <1>1, HoldersFinite DEF ManagerInv, RuntimeFits, Holders
<1>4. \A s \in Runtimes : Holders(s)' = IF s = r THEN Holders(s) \ {q} ELSE Holders(s)
  BY <1>1, <1>2, <1>t, ManagerAssumption DEF Holders
<1>5. Cardinality(Holders(r) \ {q}) = Cardinality(Holders(r)) - 1
  BY <1>3, FS_RemoveElement
<1>6. Cardinality(Holders(r)) # 0
  BY <1>3, HoldersFinite
<1> DEFINE n == rt[r].inFlight - 1
<1>7. n = Cardinality(Holders(r)') /\ n \in Nat /\ rt[r].inFlight > 0
  BY <1>3, <1>4, <1>5, <1>6
<1>8. rt' = [rt EXCEPT ![r].inFlight = n] /\ request' \in [Requests -> Runtimes \union {None}]
  BY <1>2, <1>7, <1>t
<1> HIDE DEF n
<1> QED
  BY <1>2, <1>3, <1>4, <1>7, <1>8, ManagerHolds

LEMMA ManagerNext == ManagerInv /\ Manager!Next => ManagerInv'
<1> SUFFICES ASSUME ManagerInv, Manager!Next PROVE ManagerInv'
  OBVIOUS
<1>1. CASE Manager!Start \/ Manager!Configure \/ Manager!RetryRuntime
  <2>1. CASE \E by \in {"start", "operator", "retry"} : Manager!Begin(by)
    BY <2>1, ManagerBegin
  <2>2. CASE UNCHANGED <<rt, active, phase, generation, call, request, failures>>
    BY <2>2 DEF ManagerInv, ManagerTypes, Holders, CallFits, OneWorks
  <2> QED
    BY <1>1, <2>1, <2>2 DEF Manager!Start, Manager!Configure, Manager!RetryRuntime
<1>2. CASE Manager!Progress
  <2>t. failures \in Nat
    BY DEF ManagerInv, ManagerTypes
  <2>1. CASE Manager!Settle
    <3>1. Manager!SettleRollback(TRUE) /\ call.at \in {"settle", "reactivate"}
      BY <2>1 DEF Manager!Settle
    <3>2. failures' \in Nat /\ failures' >= failures
      BY <2>1, <2>t DEF Manager!Settle, Manager!Fine
    <3> QED
      BY <3>1, <3>2, ManagerSettle
  <2>2. CASE Manager!Reactivate
    <3>1. call.at \in {"settle", "reactivate"}
      BY <2>2 DEF Manager!Reactivate
    <3>2. failures' \in Nat /\ failures' >= failures
      <4>1. failures' = failures \/ failures' = failures + 1
        BY <2>2, Zenon DEF Manager!Reactivate, Manager!Fine, Manager!MayFail
      <4> QED
        BY <4>1, <2>t
    <3>3. Manager!SettleRollback(TRUE) \/ Manager!SettleRollback(FALSE)
      BY <2>2 DEF Manager!Reactivate
    <3> QED
      BY <3>1, <3>2, <3>3, ManagerSettle
  <2> QED
    BY <1>2, <2>1, <2>2, ManagerBuild, ManagerReady, ManagerDeactivate, ManagerActivate,
       ManagerCloseCandidate, ManagerWait DEF Manager!Progress
<1>3. CASE Manager!Close
  BY <1>3, ManagerClose
<1>4. CASE Manager!Rest
  BY <1>4 DEF Manager!Rest, Manager!managerVars, ManagerInv, ManagerTypes, Holders, CallFits, OneWorks
<1>5. CASE \E r \in Runtimes : Manager!Retirement(r)
  BY <1>5, ManagerRetirement
<1>6. CASE \E q \in Requests : Manager!ServeHTTP(q) \/ Manager!Check(q) \/ Manager!release(q)
  BY <1>6, ManagerHold, ManagerRelease DEF Manager!ServeHTTP, Manager!Check
<1> QED
  BY <1>1, <1>2, <1>3, <1>4, <1>5, <1>6 DEF Manager!Next

LEMMA ManagerInvShows == ManagerInv => Manager!ServedByOpenRuntime /\ Manager!ReadyIsServed
<1> SUFFICES ASSUME ManagerInv PROVE Manager!ServedByOpenRuntime /\ Manager!ReadyIsServed
  OBVIOUS
<1>1. Manager!ServedByOpenRuntime
  <2>1. SUFFICES ASSUME NEW q \in Requests, request[q] # None
                 PROVE  rt[request[q]].open \/ rt[request[q]].overran
    BY DEF Manager!ServedByOpenRuntime
  <2>2. request[q] \in Runtimes /\ q \in Holders(request[q])
    BY <2>1 DEF ManagerInv, ManagerTypes, Holders
  <2> QED
    BY <2>2 DEF ManagerInv, RuntimeFits
<1>2. failures = 0 => Cardinality({r \in Runtimes : rt[r].working}) <= 1
  <2>1. SUFFICES ASSUME failures = 0 PROVE Cardinality({r \in Runtimes : rt[r].working}) <= 1
    OBVIOUS
  <2>2. \A r, s \in Runtimes : rt[r].working /\ rt[s].working => r = s
    BY <2>1 DEF ManagerInv, OneWorks
  <2>3. CASE {r \in Runtimes : rt[r].working} = {}
    BY <2>3, FS_EmptySet
  <2>4. ASSUME NEW r \in Runtimes, rt[r].working
        PROVE  Cardinality({s \in Runtimes : rt[s].working}) <= 1
    <3>1. {s \in Runtimes : rt[s].working} = {r}
      BY <2>2, <2>4
    <3> QED
      BY <3>1, FS_Singleton
  <2> QED
    BY <2>3, <2>4
<1>3. Manager!Cardinality({r \in Runtimes : rt[r].working}) = Cardinality({r \in Runtimes : rt[r].working})
  BY Zenon DEF Manager!Cardinality, Cardinality
<1> QED
  BY <1>1, <1>2, <1>3 DEF Manager!ReadyIsServed, ManagerInv, CallFits

-----------------------------------------------------------------------------
(* The streams: a client is at the topic that is polled for its key, or has   *)
(* been taken off, and the frames it has end with what the topic shows.      *)

TopicRecords ==
    [key : Keys \union {None}, clients : SUBSET Clients, frame : 0..Final,
     step : {"gone", "wait", "load", "publish", "finish"}, loaded : 0..Final, cancelled : BOOLEAN]
ClientRecords ==
    [topic : Pollers \union {None}, state : {"away", "open", "slow", "finished", "stopped"},
     frames : Seq(0..Final), shown : 0..Final]

\* A topic that was replaced has been left by all and is told to end.
TopicFits(row, current) ==
    /\ row.step # "gone" => row.key \in Keys
    /\ current => row.clients # {} /\ ~row.cancelled
    /\ ~current => row.clients = {} /\ row.cancelled
    /\ row.step = "publish" => row.loaded # 0
    /\ row.step = "finish" /\ current => row.key \in EndingKeys /\ row.frame = Final

Ends(row, state) ==
    LET data == {i \in DOMAIN row.frames : row.frames[i] # 0}
    IN  IF data = {} THEN row.shown = state
        ELSE \E i \in data : row.frames[i] = state /\ \A j \in data : j <= i

ClientFits(c, row) ==
    /\ row.state # "away" => row.topic \in Pollers
    /\ row.state = "open" => c \in topic[row.topic].clients /\ Ends(row, topic[row.topic].frame)
    /\ row.state = "finished" => topic[row.topic].key \in EndingKeys /\ Ends(row, Final)
    /\ \A p \in Pollers : c \in topic[p].clients => row.state = "open" /\ row.topic = p

OpenClients == {c \in Clients : client[c].state = "open"}
Followed == {k \in Keys : topics[k] # None}

StreamsTypes ==
    /\ value \in [Keys -> 1..Final] /\ topics \in [Keys -> Pollers \union {None}]
    /\ topic \in [Pollers -> TopicRecords] /\ client \in [Clients -> ClientRecords]
StreamsInv ==
    /\ StreamsTypes
    /\ \A k \in Keys : topics[k] # None => topic[topics[k]].key = k /\ topic[topics[k]].step # "gone"
    /\ \A p \in Pollers : TopicFits(topic[p], Streams!Current(p))
    /\ \A c \in Clients : ClientFits(c, client[c])
    /\ subscribers = Cardinality(OpenClients)
    /\ Cardinality(Followed) <= MaxTopics

LEMMA EndsAppend ==
    ASSUME NEW row \in ClientRecords, NEW frame \in 0..Final, NEW state, Ends(row, state)
    PROVE  /\ [row EXCEPT !.frames = Append(@, frame)] \in ClientRecords
           /\ Ends([row EXCEPT !.frames = Append(@, frame)], IF frame = 0 THEN state ELSE frame)
<1> DEFINE s == row.frames  t == Append(s, frame)  after == [row EXCEPT !.frames = t]
<1>1. s \in Seq(0..Final) /\ Final \in Nat
  BY StreamsAssumption DEF ClientRecords
<1>2. /\ t \in Seq(0..Final) /\ Len(t) = Len(s) + 1 /\ t[Len(t)] = frame
      /\ DOMAIN s = 1..Len(s) /\ DOMAIN t = 1..Len(s) + 1 /\ Len(s) \in Nat
      /\ \A i \in 1..Len(s) : t[i] = s[i]
  BY <1>1
<1>3. after \in ClientRecords /\ after.frames = t /\ after.shown = row.shown
  BY <1>2 DEF ClientRecords
<1> HIDE DEF s, t, after
<1> DEFINE old == {i \in DOMAIN s : s[i] # 0}  new == {i \in DOMAIN t : t[i] # 0}
<1>4. new = IF frame = 0 THEN old ELSE old \union {Len(s) + 1}
  BY <1>2
<1>5. IF old = {} THEN row.shown = state ELSE \E i \in old : s[i] = state /\ \A j \in old : j <= i
  BY DEF Ends, s
<1>6. old \subseteq 1..Len(s) /\ \A i \in old : t[i] = s[i]
  BY <1>2
<1>7. Ends(after, IF frame = 0 THEN state ELSE frame)
  <2>1. CASE frame = 0
    <3>1. IF new = {} THEN row.shown = state ELSE \E i \in new : t[i] = state /\ \A j \in new : j <= i
      BY <2>1, <1>4, <1>5, <1>6
    <3> QED
      BY <3>1, <2>1, <1>3 DEF Ends
  <2>2. CASE frame # 0
    <3>1. Len(s) + 1 \in new /\ t[Len(s) + 1] = frame /\ \A j \in new : j <= Len(s) + 1
      BY <2>2, <1>2, <1>4, <1>6
    <3>2. \E i \in new : t[i] = frame /\ \A j \in new : j <= i
      BY <3>1
    <3> QED
      BY <3>1, <3>2, <2>2, <1>3 DEF Ends
  <2> QED
    BY <2>1, <2>2
<1> QED
  BY <1>3, <1>7 DEF after, t, s

LEMMA EndsTail ==
    ASSUME NEW row \in ClientRecords, row.frames # <<>>, NEW state, Ends(row, state)
    PROVE  LET after == [row EXCEPT !.frames = Tail(@),
                                    !.shown = IF Head(row.frames) = 0 THEN @ ELSE Head(row.frames)]
           IN  after \in ClientRecords /\ Ends(after, state)
<1> DEFINE s == row.frames  t == Tail(s)  head == Head(s)
           shown == IF head = 0 THEN row.shown ELSE head
           after == [row EXCEPT !.frames = t, !.shown = shown]
<1>1. s \in Seq(0..Final) /\ s # <<>> /\ Final \in Nat /\ row.shown \in 0..Final
  BY StreamsAssumption DEF ClientRecords
<1>2. /\ t \in Seq(0..Final) /\ Len(s) \in Nat /\ Len(s) >= 1 /\ head = s[1] /\ head \in 0..Final
      /\ DOMAIN s = 1..Len(s) /\ DOMAIN t = 1..Len(s) - 1
      /\ \A i \in 1..Len(s) - 1 : t[i] = s[i + 1]
  <2>1. s \in Seq(0..Final) /\ s # <<>>
    BY <1>1
  <2> HIDE DEF s
  <2>2. Len(s) \in Nat /\ DOMAIN s = 1..Len(s) /\ \A i \in 1..Len(s) : s[i] \in 0..Final
    <3> DEFINE Frames == 0..Final
    <3>1. s \in Seq(Frames)
      BY <2>1
    <3> HIDE DEF Frames
    <3>2. Len(s) \in Nat /\ DOMAIN s = 1..Len(s) /\ \A i \in 1..Len(s) : s[i] \in Frames
      BY <3>1
    <3> QED
      BY <3>2 DEF Frames
  <2>3. Len(s) # 0
    BY <2>1
  <2>4. Len(s) >= 1 /\ s[1] \in 0..Final /\ head = s[1]
    BY <2>1, <2>2, <2>3
  <2>5. t \in Seq(0..Final) /\ Len(t) = Len(s) - 1
    BY <2>1, <2>2, <2>3
  <2>6. \A i \in 1..Len(s) - 1 : t[i] = s[i + 1]
    BY <2>1, <2>2, <2>3
  <2> QED
    BY <2>2, <2>4, <2>5, <2>6
<1>3. after \in ClientRecords /\ after.frames = t /\ after.shown = shown
  BY <1>1, <1>2 DEF ClientRecords
<1>4. shown = IF s[1] = 0 THEN row.shown ELSE s[1]
  BY <1>2
<1> HIDE DEF s, t, head, shown, after
<1> DEFINE old == {i \in DOMAIN s : s[i] # 0}  new == {i \in DOMAIN t : t[i] # 0}
<1>5. \A i \in Int : i \in new <=> i + 1 \in old /\ i >= 1
  BY <1>2
<1>6. new \subseteq Int /\ old \subseteq Int /\ \A i \in old : i >= 1
  BY <1>2
<1>7. IF old = {} THEN row.shown = state ELSE \E i \in old : s[i] = state /\ \A j \in old : j <= i
  BY DEF Ends, s
<1>8. IF new = {} THEN shown = state ELSE \E i \in new : t[i] = state /\ \A j \in new : j <= i
  <2>1. CASE old = {}
    <3>1. new = {} /\ row.shown = state
      BY <2>1, <1>5, <1>6, <1>7
    <3>2. s[1] = 0
      BY <2>1, <1>2
    <3> QED
      BY <3>1, <3>2, <1>4
  <2>2. ASSUME NEW i \in old, s[i] = state, \A j \in old : j <= i
        PROVE  IF new = {} THEN shown = state ELSE \E k \in new : t[k] = state /\ \A j \in new : j <= k
    <3>1. CASE i = 1
      <4>1. new = {}
        BY <3>1, <2>2, <1>5, <1>6
      <4> QED
        BY <4>1, <3>1, <2>2, <1>4
    <3>2. CASE i # 1
      <4>1. i - 1 \in new /\ t[i - 1] = state
        BY <3>2, <2>2, <1>2, <1>5, <1>6
      <4>2. \A j \in new : j <= i - 1
        BY <2>2, <1>5, <1>6
      <4> QED
        BY <4>1, <4>2
    <3> QED
      BY <3>1, <3>2
  <2> QED
    BY <2>1, <2>2, <1>7
<1>9. Ends(after, state)
  BY <1>3, <1>8 DEF Ends
<1> QED
  BY <1>3, <1>9 DEF after, shown, t, head, s

LEMMA EmptyRecords == Streams!NoTopic \in TopicRecords /\ Streams!NoClient \in ClientRecords
BY StreamsAssumption DEF Streams!NoTopic, TopicRecords, Streams!NoClient, ClientRecords

LEMMA StreamsInit == Streams!Init => StreamsInv
<1> SUFFICES ASSUME Streams!Init PROVE StreamsInv
  OBVIOUS
<1>1. Streams!NoTopic \in TopicRecords /\ Streams!NoClient \in ClientRecords
  BY EmptyRecords
<1>2. StreamsTypes
  BY <1>1, StreamsAssumption DEF Streams!Init, StreamsTypes
<1>3. \A k \in Keys : topics[k] = None
  BY DEF Streams!Init
<1>4. ASSUME NEW p \in Pollers PROVE TopicFits(topic[p], Streams!Current(p))
  BY DEF Streams!Init, TopicFits, Streams!Current, Streams!NoTopic
<1>5. ASSUME NEW c \in Clients PROVE ClientFits(c, client[c])
  BY DEF Streams!Init, ClientFits, Streams!NoClient, Streams!NoTopic
<1>6. OpenClients = {} /\ Followed = {}
  BY <1>3 DEF Streams!Init, OpenClients, Followed, Streams!NoClient
<1> QED
  BY <1>2, <1>3, <1>4, <1>5, <1>6, FS_EmptySet, StreamsAssumption DEF StreamsInv, Streams!Init

LEMMA StreamsFinite ==
    /\ IsFiniteSet(OpenClients) /\ Cardinality(OpenClients) \in Nat
    /\ IsFiniteSet(Followed) /\ Cardinality(Followed) \in Nat
BY FS_Subset, FS_CardinalityType, StreamsAssumption DEF OpenClients, Followed

(* A key that nobody follows any more makes room.                            *)
LEMMA FollowedLess ==
    ASSUME NEW rest \in SUBSET Followed, Cardinality(Followed) <= MaxTopics
    PROVE  Cardinality(rest) <= MaxTopics
BY StreamsFinite, FS_Subset, FS_CardinalityType, StreamsAssumption

(* A client at a topic is open and the topic is the one polled for its key.  *)
LEMMA OpenAtCurrent ==
    ASSUME StreamsInv, NEW c \in Clients, client[c].state = "open"
    PROVE  /\ client[c].topic \in Pollers /\ Streams!Current(client[c].topic)
           /\ c \in topic[client[c].topic].clients /\ ~topic[client[c].topic].cancelled
<1>1. ClientFits(c, client[c])
  BY DEF StreamsInv
<1>2. client[c].topic \in Pollers /\ c \in topic[client[c].topic].clients
  BY <1>1 DEF ClientFits
<1>3. TopicFits(topic[client[c].topic], Streams!Current(client[c].topic))
  BY <1>2 DEF StreamsInv
<1> QED
  BY <1>2, <1>3 DEF TopicFits

(* The poller goes on, and what others see of its topic stays as it is.      *)
LEMMA StreamsPolls ==
    ASSUME StreamsInv, NEW p \in Pollers, NEW row \in TopicRecords, topic' = [topic EXCEPT ![p] = row],
           row.key = topic[p].key, row.clients = topic[p].clients, row.frame = topic[p].frame,
           row.cancelled = topic[p].cancelled, topic[p].step # "gone", row.step # "gone",
           row.step = "publish" => row.loaded # 0,
           row.step = "finish" /\ Streams!Current(p) => row.key \in EndingKeys /\ row.frame = Final,
           UNCHANGED <<value, topics, client, subscribers>>
    PROVE  StreamsInv'
<1>t. topic \in [Pollers -> TopicRecords] /\ topics \in [Keys -> Pollers \union {None}]
  BY DEF StreamsInv, StreamsTypes
<1>1. /\ topic' \in [Pollers -> TopicRecords] /\ topic'[p] = row
      /\ \A q \in Pollers : /\ q # p => topic'[q] = topic[q]
                            /\ topic'[q].key = topic[q].key /\ topic'[q].clients = topic[q].clients
                            /\ topic'[q].frame = topic[q].frame
                            /\ topic'[q].step # "gone" <=> topic[q].step # "gone"
  BY <1>t
<1>2. \A q \in Pollers : Streams!Current(q)' <=> Streams!Current(q)
  BY <1>1 DEF Streams!Current
<1>3. ASSUME NEW q \in Pollers PROVE TopicFits(topic'[q], Streams!Current(q)')
  <2>1. TopicFits(topic[q], Streams!Current(q))
    BY DEF StreamsInv
  <2>2. CASE q # p
    BY <2>1, <2>2, <1>1, <1>2 DEF TopicFits
  <2>3. CASE q = p
    BY <2>1, <2>3, <1>1, <1>2 DEF TopicFits
  <2> QED
    BY <2>2, <2>3
<1>4. ASSUME NEW c \in Clients PROVE ClientFits(c, client[c])'
  <2>1. ClientFits(c, client[c])
    BY DEF StreamsInv
  <2> QED
    BY <2>1, <1>1 DEF ClientFits
<1>5. \A k \in Keys : topics'[k] # None => topic'[topics'[k]].key = k /\ topic'[topics'[k]].step # "gone"
  BY <1>1, <1>t DEF StreamsInv
<1>6. OpenClients' = OpenClients /\ Followed' = Followed
  BY DEF OpenClients, Followed
<1> QED
  BY <1>1, <1>3, <1>4, <1>5, <1>6 DEF StreamsInv, StreamsTypes

LEMMA StreamsWait ==
    ASSUME StreamsInv, NEW p \in Pollers, Streams!Wait(p)
    PROVE  StreamsInv'
<1>t. topic \in [Pollers -> TopicRecords] /\ topic[p] \in TopicRecords
  BY DEF StreamsInv, StreamsTypes
<1> DEFINE next == IF topic[p].cancelled THEN "finish" ELSE "load"
           row == [topic[p] EXCEPT !.step = next]
<1>1. topic' = [topic EXCEPT ![p] = row] /\ topic[p].step = "wait"
      /\ UNCHANGED <<value, topics, client, subscribers>>
  BY DEF Streams!Wait
<1>2. next \in {"finish", "load"} /\ (next = "finish" => topic[p].cancelled)
  OBVIOUS
<1> HIDE DEF next
<1>3. /\ row \in TopicRecords /\ row.key = topic[p].key /\ row.clients = topic[p].clients
      /\ row.frame = topic[p].frame /\ row.cancelled = topic[p].cancelled /\ row.step = next
  BY <1>2, <1>t DEF TopicRecords
<1> HIDE DEF row
<1>4. Streams!Current(p) => ~topic[p].cancelled
  BY DEF StreamsInv, TopicFits
<1> QED
  BY <1>1, <1>2, <1>3, <1>4, StreamsPolls

LEMMA StreamsLoad ==
    ASSUME StreamsInv, NEW p \in Pollers, Streams!Load(p)
    PROVE  StreamsInv'
<1>t. topic \in [Pollers -> TopicRecords] /\ topic[p] \in TopicRecords /\ value \in [Keys -> 1..Final]
  BY DEF StreamsInv, StreamsTypes
<1> DEFINE loaded == value[topic[p].key]
           row == [topic[p] EXCEPT !.step = "publish", !.loaded = loaded]
<1>1. topic' = [topic EXCEPT ![p] = row] /\ topic[p].step = "load"
      /\ UNCHANGED <<value, topics, client, subscribers>>
  BY <1>t DEF Streams!Load
<1>2. topic[p].key \in Keys
  BY <1>1 DEF StreamsInv, TopicFits
<1>3. loaded \in 0..Final /\ loaded # 0
  BY <1>2, <1>t, StreamsAssumption
<1> HIDE DEF loaded
<1>4. /\ row \in TopicRecords /\ row.key = topic[p].key /\ row.clients = topic[p].clients
      /\ row.frame = topic[p].frame /\ row.cancelled = topic[p].cancelled /\ row.step = "publish"
      /\ row.loaded = loaded
  BY <1>3, <1>t DEF TopicRecords
<1> HIDE DEF row
<1> QED
  BY <1>1, <1>3, <1>4, StreamsPolls

LEMMA StreamsWrite ==
    ASSUME StreamsInv, NEW c \in Clients, Streams!eventsStream(c)
    PROVE  StreamsInv'
<1>t. client \in [Clients -> ClientRecords] /\ client[c] \in ClientRecords
  BY DEF StreamsInv, StreamsTypes
<1> DEFINE row == [client[c] EXCEPT !.frames = Tail(@),
                       !.shown = IF Head(client[c].frames) = 0 THEN @ ELSE Head(client[c].frames)]
<1>1. client' = [client EXCEPT ![c] = row] /\ client[c].frames # <<>>
      /\ UNCHANGED <<value, topics, topic, subscribers>>
  BY DEF Streams!eventsStream, Streams!Notice
<1>2. row.state = client[c].state /\ row.topic = client[c].topic
  BY <1>t DEF ClientRecords
<1>3. \A state : Ends(client[c], state) => row \in ClientRecords /\ Ends(row, state)
  BY <1>1, <1>t, EndsTail
<1>4. row \in ClientRecords
  <2>1. Tail(client[c].frames) \in Seq(0..Final) /\ Head(client[c].frames) \in 0..Final
    <3> DEFINE s == client[c].frames  Frames == 0..Final
    <3>1. s \in Seq(Frames) /\ s # <<>>
      BY <1>1, <1>t DEF ClientRecords
    <3> HIDE DEF s, Frames
    <3>2. Tail(s) \in Seq(Frames) /\ Head(s) \in Frames
      BY <3>1
    <3> QED
      BY <3>2 DEF s, Frames
  <2> QED
    BY <2>1, <1>t DEF ClientRecords
<1> HIDE DEF row
<1>5. ASSUME NEW d \in Clients PROVE ClientFits(d, client[d])'
  <2>1. ClientFits(d, client[d])
    BY DEF StreamsInv
  <2>2. CASE d # c
    BY <2>1, <2>2, <1>1, <1>t DEF ClientFits
  <2>3. CASE d = c
    <3>1. client'[d] = row /\ UNCHANGED topic
      BY <2>3, <1>1, <1>t
    <3> QED
      BY <2>1, <2>3, <3>1, <1>2, <1>3 DEF ClientFits
  <2> QED
    BY <2>2, <2>3
<1>6. OpenClients' = OpenClients /\ Followed' = Followed
  BY <1>1, <1>2, <1>t DEF OpenClients, Followed
<1>7. \A p \in Pollers : Streams!Current(p)' <=> Streams!Current(p)
  BY <1>1 DEF Streams!Current
<1>8. \A p \in Pollers : TopicFits(topic[p], Streams!Current(p))'
  BY <1>1, <1>7 DEF StreamsInv, TopicFits
<1>9. client' \in [Clients -> ClientRecords] /\ \A d \in Clients : ClientFits(d, client[d])'
  BY <1>1, <1>4, <1>5, <1>t
<1> QED
  BY <1>1, <1>6, <1>8, <1>9 DEF StreamsInv, StreamsTypes

(* What a step that takes clients off, or puts one on, leaves true.          *)
LEMMA StreamsMoves ==
    ASSUME StreamsInv, UNCHANGED value, topics' \in [Keys -> Pollers \union {None}],
           topic' \in [Pollers -> TopicRecords], client' \in [Clients -> ClientRecords],
           \A k \in Keys : topics'[k] # None =>
               topic'[topics'[k]].key = k /\ topic'[topics'[k]].step # "gone",
           \A p \in Pollers : TopicFits(topic'[p], Streams!Current(p)'),
           \A c \in Clients : ClientFits(c, client[c])',
           subscribers' = Cardinality(OpenClients'), Cardinality(Followed') <= MaxTopics
    PROVE  StreamsInv'
BY DEF StreamsInv, StreamsTypes

LEMMA StreamsClose ==
    ASSUME StreamsInv, NEW c \in Clients, Streams!Close(c)
    PROVE  StreamsInv'
<1> DEFINE p == client[c].topic
           rest == topic[p].clients \ {c}
           ends == Streams!Removes(c) /\ rest = {}
<1>t. /\ topic \in [Pollers -> TopicRecords] /\ client \in [Clients -> ClientRecords]
      /\ topics \in [Keys -> Pollers \union {None}]
  BY DEF StreamsInv, StreamsTypes
<1>c. ClientFits(c, client[c]) /\ client[c].state # "away"
  BY DEF StreamsInv, Streams!Close
<1>p. p \in Pollers /\ topic[p] \in TopicRecords
  BY <1>c, <1>t DEF ClientFits
<1>f. TopicFits(topic[p], Streams!Current(p))
  BY <1>p DEF StreamsInv
<1>r. Streams!Removes(c) <=> client[c].state = "open"
  BY <1>c, <1>p DEF ClientFits, Streams!Removes
<1>o. client[c].state = "open" => Streams!Current(p)
  BY OpenAtCurrent
<1> DEFINE row == [topic[p] EXCEPT !.clients = rest, !.cancelled = @ \/ ends]
<1>1. /\ topic' = [topic EXCEPT ![p] = row] /\ value' = value
      /\ topics' = IF ends /\ Streams!Current(p) THEN [topics EXCEPT ![topic[p].key] = None] ELSE topics
      /\ subscribers' = IF Streams!Removes(c) THEN subscribers - 1 ELSE subscribers
      /\ client' = [client EXCEPT ![c] = Streams!NoClient]
  BY <1>p, <1>t DEF Streams!Close
<1>2. ends \in BOOLEAN /\ (ends => client[c].state = "open" /\ rest = {})
      /\ (client[c].state = "open" /\ rest = {} => ends)
  BY <1>r DEF Streams!Removes
<1>3. rest \subseteq topic[p].clients /\ c \notin rest /\ (client[c].state # "open" => rest = topic[p].clients)
      /\ topic[p].clients \subseteq rest \union {c}
  BY <1>r DEF Streams!Removes
<1> HIDE DEF rest, ends
<1>4. /\ row \in TopicRecords /\ row.key = topic[p].key /\ row.clients = rest /\ row.frame = topic[p].frame
      /\ row.step = topic[p].step /\ row.loaded = topic[p].loaded
      /\ row.cancelled = (topic[p].cancelled \/ ends)
  BY <1>2, <1>3, <1>p DEF TopicRecords
<1> HIDE DEF row
<1>5. /\ topic' \in [Pollers -> TopicRecords] /\ topic'[p] = row
      /\ \A q \in Pollers : q # p => topic'[q] = topic[q]
  BY <1>1, <1>4, <1>t, <1>p
<1>6. topic[p].step # "gone" => topic[p].key \in Keys
  BY <1>f DEF TopicFits
<1>7. topics' \in [Keys -> Pollers \union {None}]
      /\ \A k \in Keys : topics'[k] = IF ends /\ k = topic[p].key THEN None ELSE topics[k]
  BY <1>1, <1>2, <1>6, <1>o, <1>t DEF Streams!Current
<1>8. client' \in [Clients -> ClientRecords] /\ client'[c] = Streams!NoClient
      /\ \A d \in Clients : d # c => client'[d] = client[d]
  BY <1>1, <1>t, EmptyRecords
<1>9. ASSUME NEW k \in Keys, topics'[k] # None
      PROVE  topic'[topics'[k]].key = k /\ topic'[topics'[k]].step # "gone"
  <2>1. topics[k] = topics'[k] /\ topics[k] \in Pollers
    BY <1>7, <1>9, <1>t
  <2>2. topic[topics[k]].key = k /\ topic[topics[k]].step # "gone"
    BY <2>1, <1>9 DEF StreamsInv
  <2> QED
    BY <2>1, <2>2, <1>4, <1>5
<1>10. ASSUME NEW q \in Pollers PROVE TopicFits(topic'[q], Streams!Current(q)')
  <2>1. TopicFits(topic[q], Streams!Current(q))
    BY DEF StreamsInv
  <2>2. CASE q # p
    <3>1. topic'[q] = topic[q]
      BY <2>2, <1>5
    <3>2. Streams!Current(q)' <=> Streams!Current(q)
      <4>1. topic[q].step # "gone" => topic[q].key \in Keys
        BY <2>1 DEF TopicFits
      <4>2. ends /\ topic[q].key = topic[p].key => topics[topic[q].key] = p
        BY <1>2, <1>o DEF Streams!Current
      <4> QED
        BY <2>2, <3>1, <4>1, <4>2, <1>7, StreamsAssumption DEF Streams!Current
    <3> QED
      BY <2>1, <3>1, <3>2 DEF TopicFits
  <2>3. CASE q = p
    <3>1. Streams!Current(q)' <=> Streams!Current(q) /\ ~ends
      BY <2>3, <1>4, <1>5, <1>6, <1>7, <1>p, StreamsAssumption DEF Streams!Current
    <3> QED
      BY <2>1, <2>3, <3>1, <1>2, <1>3, <1>4, <1>5, <1>o DEF TopicFits
  <2> QED
    BY <2>2, <2>3
<1>11. ASSUME NEW d \in Clients PROVE ClientFits(d, client[d])'
  <2>1. ClientFits(d, client[d])
    BY DEF StreamsInv
  <2>2. \A q \in Pollers : /\ topic'[q].key = topic[q].key /\ topic'[q].frame = topic[q].frame
                           /\ d # c => (d \in topic'[q].clients <=> d \in topic[q].clients)
                           /\ c \notin topic'[q].clients
    <3>1. \A q \in Pollers : q # p => c \notin topic[q].clients
      BY <1>c DEF ClientFits
    <3> QED
      BY <3>1, <1>3, <1>4, <1>5
  <2>3. CASE d # c
    BY <2>1, <2>2, <2>3, <1>8 DEF ClientFits
  <2>4. CASE d = c
    BY <2>2, <2>4, <1>8 DEF ClientFits, Streams!NoClient
  <2> QED
    BY <2>3, <2>4
<1>12. subscribers' = Cardinality(OpenClients')
  <2>1. OpenClients' = OpenClients \ {c}
    BY <1>8 DEF OpenClients, Streams!NoClient
  <2>2. c \in OpenClients <=> client[c].state = "open"
    BY DEF OpenClients
  <2>3. Cardinality(OpenClients \ {c}) =
            IF c \in OpenClients THEN Cardinality(OpenClients) - 1 ELSE Cardinality(OpenClients)
    BY StreamsFinite, FS_RemoveElement
  <2> QED
    BY <2>1, <2>2, <2>3, <1>1, <1>r DEF StreamsInv
<1>13. Cardinality(Followed') <= MaxTopics
  <2>1. Followed' \in SUBSET Followed
    BY <1>7 DEF Followed
  <2> QED
    BY <2>1, FollowedLess DEF StreamsInv
<1> QED
  BY <1>1, <1>5, <1>7, <1>8, <1>9, <1>10, <1>11, <1>12, <1>13, StreamsMoves

LEMMA StreamsBroadcast ==
    ASSUME StreamsInv, NEW p \in Pollers, NEW frame \in 0..Final, NEW step \in {"wait", "finish"},
           topic[p].step # "gone", Streams!broadcast(p, frame, step), UNCHANGED value,
           step = "finish" => topic[p].key \in EndingKeys
                              /\ Final = IF frame = 0 THEN topic[p].frame ELSE frame
    PROVE  StreamsInv'
<1> DEFINE slow == {c \in topic[p].clients : Len(client[c].frames) = Capacity}
           stay == topic[p].clients \ slow
           ends == stay = {}
           shows == IF frame = 0 THEN topic[p].frame ELSE frame
<1>t. /\ topic \in [Pollers -> TopicRecords] /\ client \in [Clients -> ClientRecords]
      /\ topics \in [Keys -> Pollers \union {None}] /\ topic[p] \in TopicRecords
  BY DEF StreamsInv, StreamsTypes
<1>f. TopicFits(topic[p], Streams!Current(p))
  BY DEF StreamsInv
<1>1. CASE ~Streams!Current(p)
  <2> DEFINE row == [topic[p] EXCEPT !.step = step]
  <2>1. topic' = [topic EXCEPT ![p] = row] /\ UNCHANGED <<topics, client, subscribers>>
    BY <1>1 DEF Streams!broadcast
  <2>2. /\ row \in TopicRecords /\ row.key = topic[p].key /\ row.clients = topic[p].clients
        /\ row.frame = topic[p].frame /\ row.cancelled = topic[p].cancelled /\ row.step = step
    BY <1>t DEF TopicRecords
  <2> HIDE DEF row
  <2> QED
    BY <2>1, <2>2, <1>1, StreamsPolls
<1>2. CASE Streams!Current(p)
  <2> DEFINE row == [topic[p] EXCEPT !.step = step, !.clients = stay, !.cancelled = @ \/ ends, !.frame = shows]
  <2>1. /\ topic' = [topic EXCEPT ![p] = row]
        /\ topics' = IF ends THEN [topics EXCEPT ![topic[p].key] = None] ELSE topics
        /\ client' = [c \in Clients |->
               CASE c \in stay -> [client[c] EXCEPT !.frames = Append(@, frame)]
                 [] c \in slow -> [client[c] EXCEPT !.state = "slow"]
                 [] OTHER -> client[c]]
        /\ subscribers' = subscribers - Streams!Cardinality(slow)
    <3>1. topic' = [topic EXCEPT ![p] = row]
      <4>1. topic' = [topic EXCEPT ![p].step = step, ![p].clients = stay, ![p].cancelled = @ \/ ends,
                                   ![p].frame = IF frame = 0 THEN @ ELSE frame]
        BY <1>2 DEF Streams!broadcast, Streams!Notice
      <4> QED
        BY <4>1, <1>t
    <3>2. topics' = IF ends THEN [topics EXCEPT ![topic[p].key] = None] ELSE topics
      BY <1>2, Zenon DEF Streams!broadcast
    <3>3. client' = [c \in Clients |->
               CASE c \in stay -> [client[c] EXCEPT !.frames = Append(@, frame)]
                 [] c \in slow -> [client[c] EXCEPT !.state = "slow"]
                 [] OTHER -> client[c]]
      BY <1>2, Zenon DEF Streams!broadcast
    <3>4. subscribers' = subscribers - Streams!Cardinality(slow)
      BY <1>2, Zenon DEF Streams!broadcast
    <3> QED
      BY <3>1, <3>2, <3>3, <3>4
  <2>2. /\ stay \subseteq Clients /\ slow \subseteq Clients /\ stay \intersect slow = {}
        /\ stay \union slow = topic[p].clients
        /\ ends \in BOOLEAN /\ (ends <=> stay = {}) /\ shows \in 0..Final
    BY <1>t DEF TopicRecords
  <2>3. shows = IF frame = 0 THEN topic[p].frame ELSE frame
    OBVIOUS
  <2> HIDE DEF stay, slow, ends, shows
  <2>4. /\ row \in TopicRecords /\ row.key = topic[p].key /\ row.clients = stay /\ row.frame = shows
        /\ row.step = step /\ row.cancelled = (topic[p].cancelled \/ ends)
    BY <2>2, <1>t DEF TopicRecords
  <2> HIDE DEF row
  <2>5. /\ topic' \in [Pollers -> TopicRecords] /\ topic'[p] = row
        /\ \A q \in Pollers : q # p => topic'[q] = topic[q]
    BY <2>1, <2>4, <1>t
  <2>6. topic[p].key \in Keys /\ topics[topic[p].key] = p /\ topic[p].step # "gone"
    BY <1>2, <1>f DEF TopicFits, Streams!Current
  <2>7. topics' \in [Keys -> Pollers \union {None}]
        /\ \A k \in Keys : topics'[k] = IF ends /\ k = topic[p].key THEN None ELSE topics[k]
    BY <2>1, <2>2, <2>6, <1>t
  <2>8. ASSUME NEW k \in Keys, topics'[k] # None
        PROVE  topic'[topics'[k]].key = k /\ topic'[topics'[k]].step # "gone"
    <3>1. topics[k] = topics'[k] /\ topics[k] \in Pollers
      BY <2>7, <2>8, <1>t
    <3>2. topic[topics[k]].key = k /\ topic[topics[k]].step # "gone"
      BY <3>1, <2>8 DEF StreamsInv
    <3> QED
      BY <3>1, <3>2, <2>4, <2>5
  <2>9. ASSUME NEW q \in Pollers PROVE TopicFits(topic'[q], Streams!Current(q)')
    <3>1. TopicFits(topic[q], Streams!Current(q))
      BY DEF StreamsInv
    <3>2. CASE q # p
      <4>1. topic'[q] = topic[q]
        BY <3>2, <2>5
      <4>2. topic[q].step # "gone" => topic[q].key \in Keys
        BY <3>1 DEF TopicFits
      <4>3. Streams!Current(q)' <=> Streams!Current(q)
        BY <3>2, <4>1, <4>2, <2>6, <2>7, StreamsAssumption DEF Streams!Current
      <4> QED
        BY <3>1, <4>1, <4>3 DEF TopicFits
    <3>3. CASE q = p
      <4>1. Streams!Current(q)' <=> ~ends
        BY <3>3, <2>4, <2>5, <2>6, <2>7, StreamsAssumption DEF Streams!Current
      <4> QED
        BY <3>1, <3>3, <4>1, <2>2, <2>3, <2>4, <2>5, <2>6, <1>2 DEF TopicFits
    <3> QED
      BY <3>2, <3>3
  <2>10. ASSUME NEW c \in Clients
         PROVE  client'[c] \in ClientRecords /\ ClientFits(c, client[c])'
    <3>1. ClientFits(c, client[c]) /\ client[c] \in ClientRecords
      BY <1>t DEF StreamsInv
    <3>2. \A q \in Pollers : /\ topic'[q].key = topic[q].key
                             /\ c \in topic'[q].clients <=> c \in topic[q].clients /\ ~(q = p /\ c \in slow)
                             /\ q # p => topic'[q].frame = topic[q].frame
      BY <2>2, <2>4, <2>5
    <3>3. CASE c \in stay
      <4>1. client'[c] = [client[c] EXCEPT !.frames = Append(@, frame)]
        <5>1. client'[c] = CASE c \in stay -> [client[c] EXCEPT !.frames = Append(@, frame)]
                             [] c \in slow -> [client[c] EXCEPT !.state = "slow"]
                             [] OTHER -> client[c]
          BY <2>1, Zenon
        <5>2. c \notin slow
          BY <3>3, <2>2
        <5> QED
          BY <5>1, <5>2, <3>3
      <4>2. client[c].state = "open" /\ client[c].topic = p /\ Ends(client[c], topic[p].frame)
        BY <3>1, <3>3, <2>2 DEF ClientFits
      <4>3. client'[c] \in ClientRecords /\ Ends(client'[c], shows)
        BY <4>1, <4>2, <3>1, <2>3, EndsAppend
      <4>4. client'[c].state = "open" /\ client'[c].topic = p
        BY <4>1, <4>2, <3>1 DEF ClientRecords
      <4>5. \A q \in Pollers : c \in topic[q].clients => q = p
        BY <3>1, <4>2 DEF ClientFits
      <4> QED
        BY <3>2, <3>3, <4>3, <4>4, <4>5, <2>2, <2>4, <2>5 DEF ClientFits
    <3>4. CASE c \in slow
      <4>1. client'[c] = [client[c] EXCEPT !.state = "slow"]
        BY <3>4, <2>1, <2>2
      <4>2. client[c].state = "open" /\ client[c].topic = p
        BY <3>1, <3>4, <2>2 DEF ClientFits
      <4>3. client'[c] \in ClientRecords /\ client'[c].state = "slow" /\ client'[c].topic = p
        BY <4>1, <4>2, <3>1 DEF ClientRecords
      <4>4. \A q \in Pollers : c \notin topic'[q].clients
        BY <3>1, <3>2, <3>4, <4>2 DEF ClientFits
      <4> QED
        BY <4>3, <4>4 DEF ClientFits
    <3>5. CASE c \notin topic[p].clients
      <4>1. client'[c] = client[c]
        BY <3>5, <2>1, <2>2
      <4>2. client[c].state = "open" => client[c].topic # p
        BY <3>1, <3>5 DEF ClientFits
      <4>3. \A q \in Pollers : c \in topic'[q].clients <=> c \in topic[q].clients
        BY <3>2, <3>5, <2>2
      <4> QED
        BY <3>1, <3>2, <4>1, <4>2, <4>3 DEF ClientFits
    <3> QED
      BY <3>3, <3>4, <3>5, <2>2
  <2>11. client' \in [Clients -> ClientRecords]
    BY <2>1, <2>10
  <2>12. subscribers' = Cardinality(OpenClients')
    <3>1. slow \subseteq OpenClients
      <4>1. ASSUME NEW c \in slow PROVE client[c].state = "open"
        BY <4>1, <2>2 DEF StreamsInv, ClientFits
      <4> QED
        BY <4>1, <2>2 DEF OpenClients
    <3>2. ASSUME NEW c \in Clients PROVE client'[c].state = "open" <=> client[c].state = "open" /\ c \notin slow
      <4>1. client[c] \in ClientRecords /\ (c \in stay => client[c].state = "open")
        BY <2>2, <1>t DEF StreamsInv, ClientFits
      <4>2. client'[c] = CASE c \in stay -> [client[c] EXCEPT !.frames = Append(@, frame)]
                           [] c \in slow -> [client[c] EXCEPT !.state = "slow"]
                           [] OTHER -> client[c]
        BY <2>1
      <4> QED
        BY <4>1, <4>2, <2>2 DEF ClientRecords
    <3>3. OpenClients' = OpenClients \ slow
      BY <3>2 DEF OpenClients
    <3>4. Cardinality(OpenClients \ slow) = Cardinality(OpenClients) - Cardinality(slow)
      <4>1. OpenClients \intersect slow = slow
        BY <3>1
      <4> QED
        BY <4>1, StreamsFinite, FS_Difference
    <3>5. Streams!Cardinality(slow) = Cardinality(slow)
      BY Zenon DEF Streams!Cardinality, Cardinality
    <3> QED
      BY <3>3, <3>4, <3>5, <2>1 DEF StreamsInv
  <2>13. Cardinality(Followed') <= MaxTopics
    <3>1. Followed' \in SUBSET Followed
      BY <2>7 DEF Followed
    <3> QED
      BY <3>1, FollowedLess DEF StreamsInv
  <2> QED
    BY <2>5, <2>7, <2>8, <2>9, <2>10, <2>11, <2>12, <2>13, StreamsMoves
<1> QED
  BY <1>1, <1>2

LEMMA StreamsLoadFails ==
    ASSUME StreamsInv, NEW p \in Pollers, Streams!LoadFails(p)
    PROVE  StreamsInv'
<1>1. topic[p].step = "load" /\ Streams!broadcast(p, 0, "wait") /\ UNCHANGED value
  BY DEF Streams!LoadFails, Streams!Notice
<1>2. 0 \in 0..Final
  BY StreamsAssumption
<1> QED
  BY <1>1, <1>2, StreamsBroadcast

LEMMA StreamsRun ==
    ASSUME StreamsInv, NEW p \in Pollers, Streams!run(p)
    PROVE  StreamsInv'
<1> DEFINE new == topic[p].loaded # topic[p].frame
           step == IF Streams!Terminal(p) THEN "finish" ELSE "wait"
<1>t. topic \in [Pollers -> TopicRecords] /\ topic[p] \in TopicRecords
  BY DEF StreamsInv, StreamsTypes
<1>1. /\ topic[p].step = "publish" /\ UNCHANGED value
      /\ \/ new /\ Streams!broadcast(p, topic[p].loaded, step)
         \/ ~new /\ Streams!broadcast(p, 0, step)
         \/ ~new /\ topic' = [topic EXCEPT ![p].step = step] /\ UNCHANGED <<topics, client, subscribers>>
  BY DEF Streams!run, Streams!Notice
<1>2. topic[p].loaded # 0 /\ topic[p].loaded \in 0..Final /\ 0 \in 0..Final
  BY <1>1, <1>t, StreamsAssumption DEF StreamsInv, TopicFits, TopicRecords
<1>3. step \in {"wait", "finish"} /\ (step = "finish" => topic[p].key \in EndingKeys /\ topic[p].loaded = Final)
  BY DEF Streams!Terminal
<1> HIDE DEF step
<1>4. CASE new /\ Streams!broadcast(p, topic[p].loaded, step)
  BY <1>1, <1>2, <1>3, <1>4, StreamsBroadcast
<1>5. CASE ~new /\ Streams!broadcast(p, 0, step)
  BY <1>1, <1>2, <1>3, <1>5, StreamsBroadcast
<1>6. CASE ~new /\ topic' = [topic EXCEPT ![p].step = step] /\ UNCHANGED <<topics, client, subscribers>>
  <2> DEFINE row == [topic[p] EXCEPT !.step = step]
  <2>1. topic' = [topic EXCEPT ![p] = row]
    BY <1>6
  <2>2. /\ row \in TopicRecords /\ row.key = topic[p].key /\ row.clients = topic[p].clients
        /\ row.frame = topic[p].frame /\ row.cancelled = topic[p].cancelled /\ row.step = step
    BY <1>3, <1>t DEF TopicRecords
  <2> HIDE DEF row
  <2> QED
    BY <1>1, <1>3, <1>6, <2>1, <2>2, StreamsPolls
<1> QED
  BY <1>1, <1>4, <1>5, <1>6

LEMMA StreamsFinish ==
    ASSUME StreamsInv, NEW p \in Pollers, Streams!finish(p)
    PROVE  StreamsInv'
<1> DEFINE gone == topic[p].clients
           row == [topic[p] EXCEPT !.step = "gone", !.cancelled = TRUE, !.clients = {}]
<1>t. /\ topic \in [Pollers -> TopicRecords] /\ client \in [Clients -> ClientRecords]
      /\ topics \in [Keys -> Pollers \union {None}] /\ topic[p] \in TopicRecords
  BY DEF StreamsInv, StreamsTypes
<1>f. TopicFits(topic[p], Streams!Current(p))
  BY DEF StreamsInv
<1>1. /\ topic[p].step = "finish" /\ value' = value
      /\ topics' = IF Streams!Current(p) THEN [topics EXCEPT ![topic[p].key] = None] ELSE topics
      /\ topic' = [topic EXCEPT ![p] = row]
      /\ client' = [c \in Clients |->
             IF c \in gone THEN [client[c] EXCEPT !.state = "finished"] ELSE client[c]]
      /\ subscribers' = subscribers - Streams!Cardinality(gone)
  BY Zenon DEF Streams!finish
<1>2. topic[p].key \in Keys /\ gone \subseteq Clients
      /\ (gone # {} => Streams!Current(p) /\ topic[p].key \in EndingKeys /\ topic[p].frame = Final)
  BY <1>1, <1>f, <1>t DEF TopicFits, TopicRecords
<1>3. row \in TopicRecords /\ row.key = topic[p].key /\ row.clients = {} /\ row.step = "gone" /\ row.cancelled = TRUE
  BY <1>t DEF TopicRecords
<1> HIDE DEF row
<1>4. /\ topic' \in [Pollers -> TopicRecords] /\ topic'[p] = row
      /\ \A q \in Pollers : q # p => topic'[q] = topic[q]
  BY <1>1, <1>3, <1>t
<1> HIDE DEF gone
<1>5. topics' \in [Keys -> Pollers \union {None}]
      /\ \A k \in Keys : topics'[k] = IF Streams!Current(p) /\ k = topic[p].key THEN None ELSE topics[k]
  BY <1>1, <1>2, <1>t
<1>6. Streams!Current(p) <=> topics[topic[p].key] = p
  BY <1>1 DEF Streams!Current
<1>7. ASSUME NEW k \in Keys, topics'[k] # None
      PROVE  topic'[topics'[k]].key = k /\ topic'[topics'[k]].step # "gone"
  <2>1. topics[k] = topics'[k] /\ topics[k] \in Pollers
    BY <1>5, <1>7, <1>t
  <2>2. topic[topics[k]].key = k /\ topic[topics[k]].step # "gone"
    BY <2>1, <1>7 DEF StreamsInv
  <2>3. topics[k] # p
    BY <2>1, <2>2, <1>5, <1>6, <1>7
  <2> QED
    BY <2>1, <2>2, <2>3, <1>4
<1>8. ASSUME NEW q \in Pollers PROVE TopicFits(topic'[q], Streams!Current(q)')
  <2>1. TopicFits(topic[q], Streams!Current(q))
    BY DEF StreamsInv
  <2>2. CASE q # p
    <3>1. topic'[q] = topic[q]
      BY <2>2, <1>4
    <3>2. topic[q].step # "gone" => topic[q].key \in Keys
      BY <2>1 DEF TopicFits
    <3>3. Streams!Current(q)' <=> Streams!Current(q)
      BY <2>2, <3>1, <3>2, <1>5, <1>6, StreamsAssumption DEF Streams!Current
    <3> QED
      BY <2>1, <3>1, <3>3 DEF TopicFits
  <2>3. CASE q = p
    <3>1. ~Streams!Current(q)'
      BY <2>3, <1>3, <1>4 DEF Streams!Current
    <3> QED
      BY <2>3, <3>1, <1>3, <1>4 DEF TopicFits
  <2> QED
    BY <2>2, <2>3
<1>9. ASSUME NEW c \in Clients
      PROVE  client'[c] \in ClientRecords /\ ClientFits(c, client[c])'
  <2>1. ClientFits(c, client[c]) /\ client[c] \in ClientRecords
    BY <1>t DEF StreamsInv
  <2>2. \A q \in Pollers : /\ topic'[q].key = topic[q].key
                           /\ q # p => topic'[q].clients = topic[q].clients /\ topic'[q].frame = topic[q].frame
                           /\ c \notin topic'[p].clients
    BY <1>3, <1>4
  <2>3. CASE c \in gone
    <3>1. client'[c] = [client[c] EXCEPT !.state = "finished"]
      BY <2>3, <1>1
    <3>2. client[c].state = "open" /\ client[c].topic = p /\ Ends(client[c], topic[p].frame)
      BY <2>1, <2>3 DEF ClientFits, gone
    <3>3. client'[c] \in ClientRecords /\ client'[c].state = "finished" /\ client'[c].topic = p
          /\ client'[c].frames = client[c].frames /\ client'[c].shown = client[c].shown
      BY <3>1, <3>2, <2>1 DEF ClientRecords
    <3>4. Ends(client'[c], Final) /\ topic[p].key \in EndingKeys
      BY <2>3, <3>2, <3>3, <1>2 DEF Ends
    <3>5. \A q \in Pollers : c \notin topic'[q].clients
      BY <2>1, <2>2, <3>2 DEF ClientFits
    <3> QED
      BY <2>2, <3>3, <3>4, <3>5 DEF ClientFits
  <2>4. CASE c \notin gone
    <3>1. client'[c] = client[c]
      BY <2>4, <1>1
    <3>2. client[c].state = "open" => client[c].topic # p
      BY <2>1, <2>4 DEF ClientFits, gone
    <3> QED
      BY <2>1, <2>2, <2>4, <3>1, <3>2 DEF ClientFits, gone
  <2> QED
    BY <2>3, <2>4
<1>10. client' \in [Clients -> ClientRecords]
  BY <1>1, <1>9
<1>11. subscribers' = Cardinality(OpenClients')
  <2>1. gone \subseteq OpenClients
    <3>1. ASSUME NEW c \in gone PROVE client[c].state = "open"
      BY <3>1, <1>2 DEF StreamsInv, ClientFits, gone
    <3> QED
      BY <3>1, <1>2 DEF OpenClients
  <2>2. ASSUME NEW c \in Clients PROVE client'[c].state = "open" <=> client[c].state = "open" /\ c \notin gone
    BY <1>1, <1>t DEF ClientRecords
  <2>3. OpenClients' = OpenClients \ gone /\ OpenClients \intersect gone = gone
    BY <2>1, <2>2 DEF OpenClients
  <2>4. Cardinality(OpenClients \ gone) = Cardinality(OpenClients) - Cardinality(gone)
    BY <2>3, StreamsFinite, FS_Difference
  <2>5. Streams!Cardinality(gone) = Cardinality(gone)
    BY Zenon DEF Streams!Cardinality, Cardinality
  <2> QED
    BY <2>3, <2>4, <2>5, <1>1 DEF StreamsInv
<1>12. Cardinality(Followed') <= MaxTopics
  <2>1. Followed' \in SUBSET Followed
    BY <1>5 DEF Followed
  <2> QED
    BY <2>1, FollowedLess DEF StreamsInv
<1> QED
  BY <1>1, <1>4, <1>5, <1>7, <1>8, <1>9, <1>10, <1>11, <1>12, StreamsMoves

LEMMA StreamsCloseAll ==
    ASSUME StreamsInv, Streams!CloseAll
    PROVE  StreamsInv'
<1>t. topic \in [Pollers -> TopicRecords] /\ client \in [Clients -> ClientRecords]
  BY DEF StreamsInv, StreamsTypes
<1>1. /\ value' = value /\ topics' = [k \in Keys |-> None]
      /\ topic' = [p \in Pollers |-> IF Streams!Current(p)
             THEN [topic[p] EXCEPT !.clients = {}, !.cancelled = TRUE] ELSE topic[p]]
      /\ client' = [c \in Clients |-> IF client[c].state = "open"
             THEN [client[c] EXCEPT !.state = "stopped"] ELSE client[c]]
      /\ subscribers' = subscribers - Streams!Cardinality(OpenClients)
  BY DEF Streams!CloseAll, Streams!Open, OpenClients
<1>2. ASSUME NEW p \in Pollers
      PROVE  /\ topic'[p] \in TopicRecords /\ topic'[p].key = topic[p].key /\ topic'[p].step = topic[p].step
             /\ topic'[p].loaded = topic[p].loaded /\ topic'[p].clients = {} /\ topic'[p].cancelled = TRUE
  <2>1. TopicFits(topic[p], Streams!Current(p)) /\ topic[p] \in TopicRecords
    BY <1>t DEF StreamsInv
  <2>2. CASE Streams!Current(p)
    <3>1. topic'[p] = [topic[p] EXCEPT !.clients = {}, !.cancelled = TRUE]
      BY <2>2, <1>1
    <3> QED
      BY <2>1, <3>1 DEF TopicRecords
  <2>3. CASE ~Streams!Current(p)
    <3>1. topic'[p] = topic[p]
      BY <2>3, <1>1
    <3> QED
      BY <2>1, <2>3, <3>1 DEF TopicFits, TopicRecords
  <2> QED
    BY <2>2, <2>3
<1>3. topic' \in [Pollers -> TopicRecords]
  BY <1>1, <1>2
<1>4. ASSUME NEW p \in Pollers PROVE TopicFits(topic'[p], Streams!Current(p)')
  <2>1. TopicFits(topic[p], Streams!Current(p))
    BY DEF StreamsInv
  <2>2. ~Streams!Current(p)'
    BY <2>1, <1>1, <1>2, StreamsAssumption DEF TopicFits, Streams!Current
  <2> QED
    BY <2>1, <2>2, <1>2 DEF TopicFits
<1>5. ASSUME NEW c \in Clients PROVE client'[c] \in ClientRecords /\ client'[c].state # "open" /\ ClientFits(c, client[c])'
  <2>1. ClientFits(c, client[c]) /\ client[c] \in ClientRecords
    BY <1>t DEF StreamsInv
  <2>2. CASE client[c].state = "open"
    <3>1. client'[c] = [client[c] EXCEPT !.state = "stopped"]
      BY <2>2, <1>1
    <3>2. client'[c] \in ClientRecords /\ client'[c].state = "stopped" /\ client'[c].topic = client[c].topic
      BY <2>1, <3>1 DEF ClientRecords
    <3> QED
      BY <2>1, <2>2, <3>2, <1>2 DEF ClientFits
  <2>3. CASE client[c].state # "open"
    <3>1. client'[c] = client[c]
      BY <2>3, <1>1
    <3>2. \A q \in Pollers : topic'[q].key = topic[q].key /\ topic'[q].clients = {}
      BY <1>2
    <3>3. client[c].state = "finished" => topic'[client[c].topic].key \in EndingKeys
      BY <2>1, <3>2 DEF ClientFits
    <3> QED
      BY <2>1, <2>3, <3>1, <3>2, <3>3 DEF ClientFits
  <2> QED
    BY <2>2, <2>3
<1>6. client' \in [Clients -> ClientRecords]
  BY <1>1, <1>5
<1>7. OpenClients' = {} /\ Followed' = {}
  BY <1>1, <1>5 DEF OpenClients, Followed
<1>8. subscribers' = Cardinality(OpenClients') /\ Cardinality(Followed') <= MaxTopics
  <2>1. Streams!Cardinality(OpenClients) = Cardinality(OpenClients)
    BY Zenon DEF Streams!Cardinality, Cardinality
  <2>2. subscribers' = Cardinality(OpenClients) - Cardinality(OpenClients)
    BY <2>1, <1>1 DEF StreamsInv
  <2> QED
    BY <2>2, <1>7, FS_EmptySet, StreamsFinite, StreamsAssumption
<1>9. topics' \in [Keys -> Pollers \union {None}] /\ \A k \in Keys : topics'[k] = None
  BY <1>1
<1> QED
  BY <1>1, <1>3, <1>4, <1>5, <1>6, <1>8, <1>9, StreamsMoves

LEMMA JoiningFits ==
    ASSUME NEW p \in Pollers, NEW frame \in 0..Final, NEW row,
           row = [topic |-> p, state |-> "open", shown |-> 0, frames |-> IF frame = 0 THEN <<>> ELSE <<frame>>]
    PROVE  row \in ClientRecords /\ row.state = "open" /\ row.topic = p /\ Ends(row, frame)
<1> DEFINE s == IF frame = 0 THEN <<>> ELSE <<frame>>
<1>1. row = [topic |-> p, state |-> "open", shown |-> 0, frames |-> s]
  OBVIOUS
<1>2. 0 \in 0..Final
  BY StreamsAssumption
<1>3. CASE frame = 0
  <2>1. s = <<>>
    BY <1>3
  <2> HIDE DEF s
  <2>2. s \in Seq(0..Final) /\ DOMAIN s = {}
    BY <2>1
  <2> QED
    BY <1>1, <1>2, <1>3, <2>2 DEF ClientRecords, Ends
<1>4. CASE frame # 0
  <2>1. s = <<frame>>
    BY <1>4
  <2> HIDE DEF s
  <2>2. s \in Seq(0..Final) /\ DOMAIN s = {1} /\ s[1] = frame
    BY <2>1
  <2>3. row \in ClientRecords /\ row.frames = s /\ row.state = "open" /\ row.topic = p
    BY <1>1, <1>2, <2>2 DEF ClientRecords
  <2>4. {i \in DOMAIN s : s[i] # 0} = {1}
    BY <2>2, <1>4
  <2>5. \E i \in {1} : s[i] = frame /\ \A j \in {1} : j <= i
    BY <2>2
  <2> QED
    BY <2>3, <2>4, <2>5 DEF Ends
<1> QED
  BY <1>3, <1>4

(* One more client, at a topic that is polled or at one that begins.         *)
LEMMA StreamsJoin ==
    ASSUME StreamsInv, NEW c \in Clients, NEW k \in Keys, NEW p \in Pollers,
           NEW row \in TopicRecords, NEW entry \in ClientRecords, client[c].state = "away",
           topic' = [topic EXCEPT ![p] = row], topics' = [topics EXCEPT ![k] = p],
           client' = [client EXCEPT ![c] = entry], subscribers' = subscribers + 1, UNCHANGED value,
           row.key = k, row.clients = topic[p].clients \union {c}, row.step # "gone", ~row.cancelled,
           row.step = "publish" => row.loaded # 0,
           row.step = "finish" => row.key \in EndingKeys /\ row.frame = Final,
           entry.state = "open", entry.topic = p, Ends(entry, row.frame),
           \/ topics[k] = p /\ row.frame = topic[p].frame
           \/ topics[k] = None /\ topic[p].step = "gone" /\ \A d \in Clients : client[d].topic # p,
           Cardinality(Followed \union {k}) <= MaxTopics
    PROVE  StreamsInv'
<1>t. /\ topic \in [Pollers -> TopicRecords] /\ client \in [Clients -> ClientRecords]
      /\ topics \in [Keys -> Pollers \union {None}]
  BY DEF StreamsInv, StreamsTypes
<1>1. /\ topic' \in [Pollers -> TopicRecords] /\ topic'[p] = row
      /\ \A q \in Pollers : q # p => topic'[q] = topic[q]
  BY <1>t
<1>2. /\ topics' \in [Keys -> Pollers \union {None}]
      /\ \A j \in Keys : topics'[j] = IF j = k THEN p ELSE topics[j]
  BY <1>t
<1>3. /\ client' \in [Clients -> ClientRecords] /\ client'[c] = entry
      /\ \A d \in Clients : d # c => client'[d] = client[d]
  BY <1>t
<1>4. topics[k] = p => topic[p].key = k
  BY StreamsAssumption DEF StreamsInv
<1>5. \A q \in Pollers : c \notin topic[q].clients
  BY DEF StreamsInv, ClientFits
<1>6. topics[k] = None => \A j \in Keys : topics[j] # p
  <2>1. ASSUME topic[p].step = "gone", NEW j \in Keys PROVE topics[j] # p
    BY <2>1, StreamsAssumption DEF StreamsInv
  <2> QED
    BY <2>1, StreamsAssumption
<1>7. ASSUME NEW j \in Keys, topics'[j] # None
      PROVE  topic'[topics'[j]].key = j /\ topic'[topics'[j]].step # "gone"
  <2>1. CASE j = k
    BY <2>1, <1>1, <1>2
  <2>2. CASE j # k
    <3>1. topics'[j] = topics[j] /\ topics[j] \in Pollers
      BY <2>2, <1>2, <1>7, <1>t
    <3>2. topic[topics[j]].key = j /\ topic[topics[j]].step # "gone"
      BY <3>1, <1>7 DEF StreamsInv
    <3>3. topics[j] # p
      BY <2>2, <3>2, <1>4, <1>6
    <3> QED
      BY <3>1, <3>2, <3>3, <1>1
  <2> QED
    BY <2>1, <2>2
<1>8. ASSUME NEW q \in Pollers PROVE TopicFits(topic'[q], Streams!Current(q)')
  <2>1. TopicFits(topic[q], Streams!Current(q))
    BY DEF StreamsInv
  <2>2. CASE q # p
    <3>1. topic'[q] = topic[q]
      BY <2>2, <1>1
    <3>2. topic[q].step # "gone" => topic[q].key \in Keys
      BY <2>1 DEF TopicFits
    <3>3. topics[k] # q
      BY <2>2, StreamsAssumption
    <3>4. Streams!Current(q)' <=> Streams!Current(q)
      BY <2>2, <3>1, <3>2, <3>3, <1>2 DEF Streams!Current
    <3> QED
      BY <2>1, <3>1, <3>4 DEF TopicFits
  <2>3. CASE q = p
    <3>1. Streams!Current(q)'
      BY <2>3, <1>1, <1>2 DEF Streams!Current
    <3>2. row.clients # {}
      OBVIOUS
    <3> QED
      BY <2>3, <3>1, <3>2, <1>1 DEF TopicFits
  <2> QED
    BY <2>2, <2>3
<1>9. ASSUME NEW d \in Clients PROVE ClientFits(d, client[d])'
  <2>1. ClientFits(d, client[d])
    BY DEF StreamsInv
  <2>2. CASE d = c
    <3>1. client'[d] = entry /\ d \in topic'[p].clients /\ topic'[p].frame = row.frame
      BY <2>2, <1>1, <1>3
    <3>2. \A q \in Pollers : d \in topic'[q].clients => q = p
      BY <2>2, <1>1, <1>5
    <3> QED
      BY <3>1, <3>2 DEF ClientFits
  <2>3. CASE d # c
    <3>1. client'[d] = client[d]
      BY <2>3, <1>3
    <3>2. \A q \in Pollers : d \in topic'[q].clients <=> d \in topic[q].clients
      BY <2>3, <1>1
    <3>3. ASSUME client[d].topic \in Pollers
          PROVE  topic'[client[d].topic].key = topic[client[d].topic].key
                 /\ topic'[client[d].topic].frame = topic[client[d].topic].frame
      BY <3>3, <1>1, <1>4
    <3> QED
      BY <2>1, <3>1, <3>2, <3>3 DEF ClientFits
  <2> QED
    BY <2>2, <2>3
<1>10. subscribers' = Cardinality(OpenClients')
  <2>1. OpenClients' = OpenClients \union {c} /\ c \notin OpenClients
    BY <1>3 DEF OpenClients
  <2> QED
    BY <2>1, StreamsFinite, FS_AddElement DEF StreamsInv
<1>11. Cardinality(Followed') <= MaxTopics
  <2>1. Followed' = Followed \union {k}
    BY <1>2, StreamsAssumption DEF Followed
  <2> QED
    BY <2>1
<1> QED
  BY <1>1, <1>2, <1>3, <1>7, <1>8, <1>9, <1>10, <1>11, StreamsMoves

LEMMA StreamsSubscribe ==
    ASSUME StreamsInv, NEW c \in Clients, NEW k \in Keys, Streams!Subscribe(c, k)
    PROVE  StreamsInv'
<1>t. /\ topic \in [Pollers -> TopicRecords] /\ client \in [Clients -> ClientRecords]
      /\ topics \in [Keys -> Pollers \union {None}]
  BY DEF StreamsInv, StreamsTypes
<1>1. PICK p \in Pollers :
          /\ IF topics[k] # None THEN p = topics[k] ELSE Streams!Free(p)
          /\ topic' = IF topics[k] # None THEN [topic EXCEPT ![p].clients = @ \union {c}]
                      ELSE [topic EXCEPT ![p] = [Streams!NoTopic EXCEPT
                               !.key = k, !.clients = {c}, !.step = "wait", !.cancelled = FALSE]]
          /\ topics' = [topics EXCEPT ![k] = p]
          /\ client' = [client EXCEPT ![c] = Streams!Joining(p)]
  BY Zenon DEF Streams!Subscribe
<1>2. /\ client[c].state = "away" /\ subscribers' = subscribers + 1 /\ UNCHANGED value
      /\ topics[k] = None => Streams!Cardinality(Followed) < MaxTopics
  BY DEF Streams!Subscribe, Followed
<1> DEFINE entry == Streams!Joining(p)
<1>3. entry = [topic |-> p, state |-> "open", shown |-> 0,
               frames |-> IF topic'[p].frame = 0 THEN <<>> ELSE <<topic'[p].frame>>]
  BY DEF Streams!Joining
<1> HIDE DEF entry
<1>4. CASE topics[k] # None
  <2> DEFINE row == [topic[p] EXCEPT !.clients = @ \union {c}]
  <2>1. p = topics[k] /\ topic' = [topic EXCEPT ![p] = row]
    BY <1>1, <1>4
  <2>2. topic[p].key = k /\ topic[p].step # "gone" /\ TopicFits(topic[p], Streams!Current(p)) /\ topic[p] \in TopicRecords
    BY <2>1, <1>4, <1>t DEF StreamsInv
  <2>3. Streams!Current(p)
    BY <2>1, <2>2 DEF Streams!Current
  <2>4. /\ row \in TopicRecords /\ row.key = k /\ row.clients = topic[p].clients \union {c}
        /\ row.frame = topic[p].frame /\ row.step = topic[p].step /\ row.loaded = topic[p].loaded
        /\ ~row.cancelled
    BY <2>2, <2>3 DEF TopicRecords, TopicFits
  <2> HIDE DEF row
  <2>5. row.frame \in 0..Final /\ topic'[p] = row
    BY <2>1, <2>4, <1>t DEF TopicRecords
  <2>6. entry \in ClientRecords /\ entry.state = "open" /\ entry.topic = p /\ Ends(entry, row.frame)
    BY <1>3, <2>5, JoiningFits
  <2>7. Followed \union {k} = Followed
    BY <1>4 DEF Followed
  <2>8. /\ row.step = "publish" => row.loaded # 0
        /\ row.step = "finish" => row.key \in EndingKeys /\ row.frame = Final
    BY <2>2, <2>3, <2>4 DEF TopicFits
  <2>9. client' = [client EXCEPT ![c] = entry] /\ Cardinality(Followed \union {k}) <= MaxTopics
    BY <1>1, <2>7 DEF entry, StreamsInv
  <2> QED
    BY <1>1, <1>2, <2>1, <2>2, <2>4, <2>6, <2>8, <2>9, StreamsJoin
<1>5. CASE topics[k] = None
  <2> DEFINE row == [Streams!NoTopic EXCEPT !.key = k, !.clients = {c}, !.step = "wait", !.cancelled = FALSE]
  <2>1. Streams!Free(p) /\ topic' = [topic EXCEPT ![p] = row]
    BY <1>1, <1>5
  <2>2. topic[p].step = "gone" /\ topic[p].clients = {} /\ \A d \in Clients : client[d].topic # p
    BY <2>1 DEF Streams!Free, Streams!Current, StreamsInv, TopicFits
  <2>3. /\ row \in TopicRecords /\ row.key = k /\ row.clients = topic[p].clients \union {c}
        /\ row.frame = 0 /\ row.step = "wait" /\ ~row.cancelled
    <3> DEFINE fresh == Streams!NoTopic
    <3>1. fresh \in TopicRecords /\ fresh.frame = 0
      BY EmptyRecords DEF Streams!NoTopic
    <3>2. row = [fresh EXCEPT !.key = k, !.clients = {c}, !.step = "wait", !.cancelled = FALSE]
      OBVIOUS
    <3> HIDE DEF fresh
    <3> QED
      BY <2>2, <3>1, <3>2 DEF TopicRecords
  <2> HIDE DEF row
  <2>4. row.frame \in 0..Final /\ topic'[p] = row
    BY <2>1, <2>3, <1>t DEF TopicRecords
  <2>5. entry \in ClientRecords /\ entry.state = "open" /\ entry.topic = p /\ Ends(entry, row.frame)
    BY <1>3, <2>4, JoiningFits
  <2>6. Cardinality(Followed \union {k}) <= MaxTopics
    <3>1. Streams!Cardinality(Followed) = Cardinality(Followed)
      BY Zenon DEF Streams!Cardinality, Cardinality
    <3>2. k \notin Followed /\ Cardinality(Followed) < MaxTopics
      BY <3>1, <1>2, <1>5 DEF Followed
    <3>3. Cardinality(Followed \union {k}) = Cardinality(Followed) + 1
      BY <3>2, StreamsFinite, FS_AddElement
    <3> QED
      BY <3>2, <3>3, StreamsFinite, StreamsAssumption
  <2>7. client' = [client EXCEPT ![c] = entry]
    BY <1>1 DEF entry
  <2> QED
    BY <1>1, <1>2, <1>5, <2>1, <2>2, <2>3, <2>5, <2>6, <2>7, StreamsJoin
<1> QED
  BY <1>4, <1>5

LEMMA StreamsNext == StreamsInv /\ Streams!Next => StreamsInv'
<1> SUFFICES ASSUME StreamsInv, Streams!Next PROVE StreamsInv'
  OBVIOUS
<1>1. ASSUME NEW c \in Clients, Streams!eventsStream(c) \/ Streams!Close(c) \/ \E k \in Keys : Streams!Subscribe(c, k)
      PROVE  StreamsInv'
  BY <1>1, StreamsWrite, StreamsClose, StreamsSubscribe
<1>2. ASSUME NEW p \in Pollers, Streams!Polls(p) PROVE StreamsInv'
  BY <1>2, StreamsWait, StreamsLoad, StreamsLoadFails, StreamsRun, StreamsFinish DEF Streams!Polls
<1>3. ASSUME NEW k \in Keys, Streams!Change(k) PROVE StreamsInv'
  <2>1. value \in [Keys -> 1..Final] /\ value[k] < Final /\ value' = [value EXCEPT ![k] = @ + 1]
        /\ UNCHANGED <<topics, topic, client, subscribers>>
    BY <1>3 DEF Streams!Change, StreamsInv, StreamsTypes
  <2>2. value' \in [Keys -> 1..Final]
    BY <2>1, StreamsAssumption
  <2>3. /\ \A p \in Pollers : Streams!Current(p)' <=> Streams!Current(p)
        /\ \A c \in Clients : ClientFits(c, client[c])' <=> ClientFits(c, client[c])
        /\ OpenClients' = OpenClients /\ Followed' = Followed
    BY <2>1 DEF Streams!Current, ClientFits, OpenClients, Followed
  <2>4. \A p \in Pollers : TopicFits(topic[p], Streams!Current(p))'
    BY <2>1, <2>3 DEF StreamsInv, TopicFits
  <2> QED
    BY <2>1, <2>2, <2>3, <2>4 DEF StreamsInv, StreamsTypes
<1>4. CASE Streams!CloseAll
  BY <1>4, StreamsCloseAll
<1> QED
  BY <1>1, <1>2, <1>3, <1>4 DEF Streams!Next

LEMMA StreamsInvShows == StreamsInv => Streams!ClientsUpToDate /\ Streams!SubscribersCounted
<1> SUFFICES ASSUME StreamsInv PROVE Streams!ClientsUpToDate /\ Streams!SubscribersCounted
  OBVIOUS
<1>1. ASSUME NEW c \in Clients, NEW state PROVE Streams!Has(c, state) <=> Ends(client[c], state)
  BY DEF Streams!Has, Streams!Notice, Ends
<1>2. Streams!ClientsUpToDate
  <2>1. ASSUME NEW c \in Clients, Streams!Open(c)
        PROVE  /\ Streams!Current(client[c].topic) /\ c \in topic[client[c].topic].clients
               /\ ~topic[client[c].topic].cancelled /\ Streams!Has(c, topic[client[c].topic].frame)
    <3>1. client[c].state = "open" /\ ClientFits(c, client[c])
      BY <2>1 DEF Streams!Open, StreamsInv
    <3> QED
      BY <3>1, <1>1, OpenAtCurrent DEF ClientFits
  <2>2. ASSUME NEW c \in Clients, client[c].state = "finished"
        PROVE  topic[client[c].topic].key \in EndingKeys /\ Streams!Has(c, Final)
    BY <2>2, <1>1 DEF StreamsInv, ClientFits
  <2> QED
    BY <2>1, <2>2 DEF Streams!ClientsUpToDate
<1>3. Streams!SubscribersCounted
  <2>1. /\ Streams!Cardinality(OpenClients) = Cardinality(OpenClients)
        /\ Streams!Cardinality(Followed) = Cardinality(Followed)
    BY Zenon DEF Streams!Cardinality, Cardinality
  <2> QED
    BY <2>1 DEF Streams!SubscribersCounted, Streams!Open, StreamsInv, OpenClients, Followed
<1> QED
  BY <1>2, <1>3

-----------------------------------------------------------------------------
(* The installation: one request at a time works, unless changes of settings  *)
(* have overlapped; each stage of it says what the files, the server and the *)
(* database hold.                                                            *)

Files == Configs \union {None, Torn}
FileRecords == [path : Files, next : Files, backup : Files]
ServerRecords == [up : BOOLEAN, configured : BOOLEAN, active : Configs \union {None}, generation : Nat]
Administrators == {"none", "old", "new"}
DatabaseRecords == [migrated : BOOLEAN, administrator : Administrators, data : BOOLEAN, assets : BOOLEAN]
FollowerRecords ==
    [up : BOOLEAN, config : Configs \union {None}, recovery : {"check", "clean", "next", "backup", "ran"}]
BoundRecords == [failures : Nat, crashes : Nat, calls : Nat]
Prepares == {"probe", "check", "inspect", "clear", "provision"}
SetupSteps == Prepares \union {"initialize", "save", "close", "compensate"}
ApplySteps == {"queue", "initialize", "save", "back", "saveBack"}
Writes == {"write", "aside", "place", "drop"}
RequestRecords ==
    [kind : {"none", "setup", "apply"}, at : {"none"} \union SetupSteps \union ApplySteps,
     service : Nat, expected : Nat, candidate : Configs \union {None}, previous : Configs \union {None},
     reset : SUBSET {"database", "storage"}, provisioned : BOOLEAN, initialized : BOOLEAN,
     save : {"none", "saved", "failed"} \union Writes, saving : Configs \union {None}, existed : BOOLEAN]

InstallTypes ==
    /\ file \in FileRecords /\ server \in ServerRecords /\ setup \in [Askers -> RequestRecords]
    /\ database \in DatabaseRecords /\ worker \in FollowerRecords /\ bound \in BoundRecords
    /\ overlap \subseteq {"recovery", "settings"}

Works(row) == row.at \notin {"none", "queue"}
SettingUp(row) == row.kind = "setup"
Applying(row) == row.kind = "apply" /\ row.at # "queue"

\* What a request is made of, at each of its steps.
RequestFits(row) ==
    /\ row.kind = "none" => row.at = "none" /\ row.save = "none"
    /\ row.kind = "setup" => row.at \in SetupSteps /\ row.candidate \in Configs
    /\ row.kind = "apply" => row.at \in ApplySteps
    /\ Applying(row) => row.candidate \in Configs /\ row.previous \in Configs
    /\ row.at \in {"none", "queue", "initialize"} \union Prepares => row.save = "none"
    /\ row.at \in {"back", "close"} => row.save = "failed"
    /\ row.at = "compensate" => row.save \in {"none", "failed"}
    /\ row.at \in {"save", "saveBack"} => row.save # "none"
    /\ row.at = "save" => row.saving = row.candidate
    /\ row.at = "saveBack" => row.saving = row.previous
    /\ SettingUp(row) =>
           /\ row.at \in Prepares => ~row.provisioned
           /\ row.at \in {"initialize", "save", "close"} => row.provisioned
           /\ row.at \in {"save", "close"} => row.initialized
           /\ row.at \in {"initialize"} \union Prepares => ~row.initialized

\* The files while a save is under way, with what was there before it.
FilesOf(row, old) ==
    /\ row.save = "write" => file.path = old /\ file.backup = None /\ file.next \notin Configs
    /\ row.save = "aside" => file.path = old /\ file.backup = None /\ file.next = row.saving
    /\ row.save = "place" => /\ file.path = None /\ file.backup = old /\ file.next = row.saving
                             /\ row.existed = (old # None)
    /\ row.save = "drop" => file.path = row.saving /\ file.next = None
    /\ row.save = "saved" => file.path = row.saving /\ file.next = None /\ file.backup = None
    /\ row.save = "failed" => file.path = old /\ file.next \notin Configs /\ file.backup = None

\* The files of a system that is not set up, and of one that is.
NoFiles == file.path = None /\ file.backup = None /\ file.next \notin Configs
OneFile == file.path \in Configs /\ file.backup = None /\ file.next \notin Configs

\* What one request that works finds and has done.
SetupFits(row) ==
    /\ ~server.configured
    /\ row.at \notin {"save", "close"} => server.active = None
    /\ row.at \in {"save", "close"} => server.active = row.candidate
    /\ row.at # "save" => NoFiles
    /\ row.at = "save" => FilesOf(row, None)
    /\ row.provisioned => database.administrator = "new"
    /\ row.at \in {"close", "compensate"} /\ row.provisioned => bound.failures >= 1
    /\ row.save = "failed" => bound.failures >= 1
    /\ bound.crashes = 0 /\ bound.failures <= 1 /\ ~row.provisioned => database.administrator # "new"
ApplyFits(row) ==
    /\ server.configured /\ server.active # None
    /\ row.save = "none" => OneFile
    /\ row.save # "none" => \E old \in Configs :
           /\ FilesOf(row, old)
           /\ bound.failures <= 1 => old = row.previous
    /\ row.save = "failed" => bound.failures >= 1
    /\ row.at \in {"back", "saveBack"} => bound.failures >= 1
    /\ row.at = "saveBack" /\ row.save = "failed" => bound.failures >= 2
    /\ bound.failures <= 1 =>
           /\ row.at = "initialize" => file.path = server.active /\ server.active = row.previous
           /\ row.at \in {"save", "back"} => server.active = row.candidate
           /\ row.at = "saveBack" => server.active = row.previous

\* What holds while no request works.
RestFits ==
    /\ IF server.configured THEN OneFile ELSE NoFiles
    /\ server.active # None => server.configured
    /\ server.active # None /\ bound.failures <= 1 => file.path = server.active
    /\ ~server.configured /\ bound.crashes = 0 /\ bound.failures <= 1 => database.administrator # "new"

InstallCalm ==
    /\ \A c, d \in Askers : Works(setup[c]) /\ Works(setup[d]) => c = d
    /\ file.path # Torn /\ file.backup # Torn
    /\ (\E f \in {"path", "next", "backup"} : file[f] \in Configs) => database.administrator = "new"
    /\ server.configured => database.administrator = "new"
    /\ \A c \in Askers : /\ SettingUp(setup[c]) => SetupFits(setup[c])
                         /\ Applying(setup[c]) => ApplyFits(setup[c])
    /\ server.up /\ (\A c \in Askers : ~Works(setup[c])) => RestFits

InstallInv ==
    /\ InstallTypes
    /\ \A c \in Askers : RequestFits(setup[c])
    /\ ~server.up => /\ ~worker.up /\ server.active = None /\ ~server.configured
                     /\ bound.crashes >= 1 /\ \A c \in Askers : setup[c].kind = "none"
    /\ overlap = {} => InstallCalm

LEMMA EmptyRequest ==
    /\ Install!NoCall \in RequestRecords /\ Install!NoCall.kind = "none" /\ Install!NoCall.at = "none"
    /\ Install!NoCall.save = "none" /\ RequestFits(Install!NoCall)
    /\ ~Works(Install!NoCall) /\ ~SettingUp(Install!NoCall) /\ ~Applying(Install!NoCall)
<1>1. Install!NoCall \in RequestRecords
  BY DEF Install!NoCall, RequestRecords
<1>2. /\ Install!NoCall.kind = "none" /\ Install!NoCall.at = "none" /\ Install!NoCall.save = "none"
  BY DEF Install!NoCall
<1> QED
  BY <1>1, <1>2 DEF RequestFits, Works, SettingUp, Applying, Prepares

(* Where a request is.                                                       *)
LEMMA WhereRequestIs ==
    ASSUME NEW row \in RequestRecords, RequestFits(row)
    PROVE  /\ Works(row) <=> SettingUp(row) \/ Applying(row)
           /\ ~(SettingUp(row) /\ Applying(row))
           /\ row.at \in Prepares \union {"close", "compensate"} => SettingUp(row)
           /\ row.at \in {"back", "saveBack"} => Applying(row)
           /\ row.at = "initialize" => SettingUp(row) \/ Applying(row)
           /\ row.at = "save" => SettingUp(row) \/ Applying(row)
           /\ row.kind = "none" => ~Works(row)
           /\ row.save \in Writes \union {"saved"} => row.at \in {"save", "saveBack"}
<1>1. row.kind \in {"none", "setup", "apply"}
  BY DEF RequestRecords
<1>2. /\ row.kind = "none" => row.at = "none"
      /\ row.kind = "setup" => row.at \in SetupSteps
      /\ row.kind = "apply" => row.at \in ApplySteps
  BY DEF RequestFits
<1>3. row.at \in {"none"} \union SetupSteps \union ApplySteps
  BY DEF RequestRecords
<1>4. row.save \in Writes \union {"saved"} => row.at \in {"save", "saveBack"}
  BY <1>3 DEF RequestFits, SetupSteps, ApplySteps, Prepares, Writes
<1> QED
  BY <1>1, <1>2, <1>4 DEF Works, SettingUp, Applying, SetupSteps, ApplySteps, Prepares

LEMMA InstallInit == Install!Init => InstallInv
<1> SUFFICES ASSUME Install!Init PROVE InstallInv
  OBVIOUS
<1>1. /\ server = [up |-> TRUE, configured |-> FALSE, active |-> None, generation |-> 0]
      /\ file = [path |-> None, next |-> None, backup |-> None]
      /\ setup = [c \in Askers |-> Install!NoCall]
      /\ worker = [up |-> TRUE, config |-> None, recovery |-> "ran"]
      /\ overlap = {} /\ bound = [failures |-> 0, crashes |-> 0, calls |-> 0]
  BY DEF Install!Init, Install!Down
<1>2. database \in DatabaseRecords /\ database.administrator # "new"
  BY DEF Install!Init, DatabaseRecords, Administrators
<1>3. InstallTypes
  BY <1>1, <1>2, EmptyRequest
     DEF InstallTypes, ServerRecords, FileRecords, Files, FollowerRecords, BoundRecords
<1>4. \A c \in Askers : setup[c] = Install!NoCall
  BY <1>1
<1>5. file.path = None /\ file.next = None /\ file.backup = None /\ None # Torn /\ None \notin Configs
  BY <1>1, InstallAssumption
<1>6. InstallCalm
  <2>1. \A f \in {"path", "next", "backup"} : file[f] \notin Configs
    BY <1>5, <1>1, InstallAssumption
  <2>2. RestFits
    BY <1>1, <1>2, <1>5 DEF RestFits, NoFiles
  <2> QED
    BY <2>1, <2>2, <1>1, <1>4, <1>5, EmptyRequest DEF InstallCalm
<1> QED
  BY <1>1, <1>3, <1>4, <1>6, EmptyRequest DEF InstallInv

(* A request that works makes a step, and the others keep out of it.         *)
FilesFit ==
    /\ file.path # Torn /\ file.backup # Torn
    /\ (\E f \in {"path", "next", "backup"} : file[f] \in Configs) => database.administrator = "new"
    /\ server.configured => database.administrator = "new"

LEMMA InstallWorks ==
    ASSUME InstallInv, NEW c \in Askers, setup' = [setup EXCEPT ![c] = setup'[c]], InstallTypes',
           setup[c].kind # "none", overlap' = {} => Works(setup[c]) \/ \A d \in Askers : ~Works(setup[d]),
           RequestFits(setup[c])', UNCHANGED worker, server'.up = server.up, overlap' = {} => overlap = {},
           overlap' = {} =>
               /\ FilesFit'
               /\ SettingUp(setup'[c]) => SetupFits(setup[c])'
               /\ Applying(setup'[c]) => ApplyFits(setup[c])'
               /\ ~Works(setup'[c]) => RestFits'
    PROVE  InstallInv'
<1>t. setup \in [Askers -> RequestRecords] /\ server \in ServerRecords
  BY DEF InstallInv, InstallTypes
<1>1. \A d \in Askers : d # c => setup'[d] = setup[d]
  BY <1>t
<1>2. server.up
  BY <1>t DEF InstallInv, ServerRecords
<1>3. \A d \in Askers : RequestFits(setup[d])'
  BY <1>1 DEF InstallInv
<1>4. ASSUME overlap' = {} PROVE InstallCalm'
  <2>1. overlap = {} /\ InstallCalm
    BY <1>4 DEF InstallInv
  <2>2. \A d \in Askers : d # c => ~Works(setup'[d])
    BY <2>1, <1>1, <1>4 DEF InstallCalm
  <2>3. \A d \in Askers : d # c => ~SettingUp(setup'[d]) /\ ~Applying(setup'[d])
    BY <2>2, <1>1, <1>t, WhereRequestIs DEF InstallInv
  <2>4. \A d \in Askers : /\ SettingUp(setup'[d]) => SetupFits(setup[d])'
                          /\ Applying(setup'[d]) => ApplyFits(setup[d])'
    BY <2>3, <1>4
  <2>5. (\A d \in Askers : ~Works(setup'[d])) => RestFits'
    BY <1>4
  <2>6. \A d, e \in Askers : Works(setup'[d]) /\ Works(setup'[e]) => d = e
    BY <2>2
  <2> QED
    BY <2>4, <2>5, <2>6, <1>4 DEF InstallCalm, FilesFit
<1> QED
  BY <1>2, <1>3, <1>4 DEF InstallInv

(* What a request that works finds.                                          *)
LEMMA InstallFinds ==
    ASSUME InstallInv, NEW c \in Askers
    PROVE  /\ file \in FileRecords /\ server \in ServerRecords /\ setup[c] \in RequestRecords
           /\ database \in DatabaseRecords /\ worker \in FollowerRecords /\ bound \in BoundRecords
           /\ setup \in [Askers -> RequestRecords] /\ overlap \subseteq {"recovery", "settings"}
           /\ RequestFits(setup[c])
           /\ setup[c].kind # "none" => server.up
           /\ overlap = {} => /\ FilesFit
                              /\ SettingUp(setup[c]) => SetupFits(setup[c])
                              /\ Applying(setup[c]) => ApplyFits(setup[c])
BY DEF InstallInv, InstallTypes, InstallCalm, FilesFit, ServerRecords

LEMMA RequestEnds ==
    ASSUME InstallInv, NEW c \in Askers, Install!End(c)
    PROVE  /\ setup' = [setup EXCEPT ![c] = setup'[c]] /\ setup' \in [Askers -> RequestRecords]
           /\ setup'[c] = Install!NoCall /\ RequestFits(setup[c])'
           /\ ~Works(setup'[c]) /\ ~SettingUp(setup'[c]) /\ ~Applying(setup'[c])
<1>1. setup' = [setup EXCEPT ![c] = Install!NoCall] /\ setup \in [Askers -> RequestRecords]
  BY InstallFinds DEF Install!End, Install!Set
<1>2. setup'[c] = Install!NoCall
  BY <1>1
<1> QED
  BY <1>1, <1>2, EmptyRequest

(* The fields that a step of a request leaves alone.                         *)
Alone(old, new) ==
    /\ new.kind = old.kind /\ new.candidate = old.candidate /\ new.previous = old.previous
LEMMA RequestGoes ==
    ASSUME InstallInv, NEW c \in Askers, NEW to \in SetupSteps \union ApplySteps, Install!Go(c, to)
    PROVE  /\ setup' = [setup EXCEPT ![c] = setup'[c]] /\ setup' \in [Askers -> RequestRecords]
           /\ setup'[c].at = to /\ Alone(setup[c], setup'[c]) /\ setup'[c].save = setup[c].save
           /\ setup'[c].saving = setup[c].saving /\ setup'[c].existed = setup[c].existed
           /\ setup'[c].provisioned = setup[c].provisioned /\ setup'[c].initialized = setup[c].initialized
<1> DEFINE row == [setup[c] EXCEPT !.at = to]
<1>1. setup' = [setup EXCEPT ![c] = row] /\ setup \in [Askers -> RequestRecords] /\ setup[c] \in RequestRecords
  BY InstallFinds DEF Install!Go, Install!Set
<1>2. /\ row \in RequestRecords /\ row.at = to /\ Alone(setup[c], row) /\ row.save = setup[c].save
      /\ row.saving = setup[c].saving /\ row.existed = setup[c].existed
      /\ row.provisioned = setup[c].provisioned /\ row.initialized = setup[c].initialized
  BY <1>1 DEF RequestRecords, Alone
<1> HIDE DEF row
<1>3. setup'[c] = row
  BY <1>1
<1> QED
  BY <1>1, <1>2, <1>3

LEMMA OneFailsMore ==
    ASSUME InstallInv, Install!Fails
    PROVE  bound' \in BoundRecords /\ bound'.failures = bound.failures + 1 /\ bound'.crashes = bound.crashes
<1>1. bound \in BoundRecords /\ bound' = [bound EXCEPT !.failures = @ + 1]
  BY DEF InstallInv, InstallTypes, Install!Fails
<1> QED
  BY <1>1 DEF BoundRecords

(* A setup goes on without a change of the files.                            *)
LEMMA SetupGoes ==
    ASSUME InstallInv, NEW c \in Askers, SettingUp(setup[c]),
           NEW to \in {"check", "inspect", "clear", "provision", "close", "compensate"}, Install!Go(c, to),
           UNCHANGED <<file, worker, overlap>>, server' \in ServerRecords, database' \in DatabaseRecords,
           bound' \in BoundRecords, server'.up = server.up, bound'.failures >= bound.failures,
           bound'.crashes = bound.crashes,
           to \in Prepares => setup[c].at \in Prepares,
           to = "close" => setup[c].provisioned /\ setup[c].initialized /\ setup[c].save = "failed",
           to = "compensate" => setup[c].save \in {"none", "failed"},
           overlap = {} =>
               /\ NoFiles /\ ~server'.configured
               /\ server'.active = IF to = "close" THEN setup[c].candidate ELSE None
               /\ to \in {"close", "compensate"} /\ setup[c].provisioned => bound'.failures >= 1
               /\ \/ database'.administrator = database.administrator
                  \/ ~setup[c].provisioned /\ database'.administrator # "new"
    PROVE  InstallInv'
<1>1. /\ setup' = [setup EXCEPT ![c] = setup'[c]] /\ setup' \in [Askers -> RequestRecords]
      /\ setup'[c].at = to /\ Alone(setup[c], setup'[c]) /\ setup'[c].save = setup[c].save
      /\ setup'[c].provisioned = setup[c].provisioned /\ setup'[c].initialized = setup[c].initialized
  BY RequestGoes DEF SetupSteps, Prepares
<1>2. /\ file \in FileRecords /\ worker \in FollowerRecords /\ overlap \subseteq {"recovery", "settings"}
      /\ setup[c] \in RequestRecords /\ bound \in BoundRecords /\ RequestFits(setup[c])
      /\ setup'[c] \in RequestRecords
      /\ overlap = {} => FilesFit /\ SetupFits(setup[c])
  BY <1>1, InstallFinds
<1>3. InstallTypes'
  BY <1>1, <1>2 DEF InstallTypes
<1>4. setup'[c].kind = "setup" /\ setup[c].kind = "setup"
  BY <1>1 DEF SettingUp, Alone
<1>5. RequestFits(setup[c])'
  <2>1. setup[c].candidate \in Configs
    BY <1>2, <1>4 DEF RequestFits
  <2>2. to \in Prepares => setup[c].save = "none" /\ ~setup[c].provisioned /\ ~setup[c].initialized
    BY <1>2 DEF RequestFits, SettingUp
  <2> QED
    BY <2>1, <2>2, <1>1, <1>4 DEF RequestFits, SettingUp, Applying, Alone, SetupSteps, Prepares
<1>6. SettingUp(setup'[c]) /\ ~Applying(setup'[c]) /\ Works(setup[c]) /\ Works(setup'[c])
  BY <1>1, <1>2, <1>4, WhereRequestIs DEF SettingUp, Applying, Works
<1>7. ASSUME overlap = {} PROVE FilesFit' /\ SetupFits(setup[c])'
  <2>1. /\ NoFiles /\ ~server'.configured /\ FilesFit /\ SetupFits(setup[c])
        /\ server'.active = IF to = "close" THEN setup[c].candidate ELSE None
        /\ to \in {"close", "compensate"} /\ setup[c].provisioned => bound'.failures >= 1
        /\ \/ database'.administrator = database.administrator
           \/ ~setup[c].provisioned /\ database'.administrator # "new"
    BY <1>2, <1>7
  <2>2. FilesFit'
    BY <2>1, InstallAssumption DEF FilesFit, NoFiles
  <2>3. setup[c].provisioned => database'.administrator = "new"
    BY <2>1 DEF SetupFits
  <2>4. bound'.crashes = 0 /\ bound'.failures <= 1 /\ ~setup[c].provisioned => database'.administrator # "new"
    <3>1. bound.failures \in Nat /\ bound'.failures \in Nat
      BY <1>2 DEF BoundRecords
    <3> QED
      BY <2>1, <3>1 DEF SetupFits
  <2>5. setup[c].save = "failed" => bound'.failures >= 1
    <3>1. bound.failures \in Nat /\ bound'.failures \in Nat
      BY <1>2 DEF BoundRecords
    <3> QED
      BY <2>1, <3>1 DEF SetupFits
  <2>6. NoFiles'
    BY <2>1 DEF NoFiles
  <2> QED
    BY <2>1, <2>2, <2>3, <2>4, <2>5, <2>6, <1>1 DEF SetupFits, Alone
<1> QED
  BY <1>1, <1>3, <1>4, <1>5, <1>6, <1>7, InstallWorks

(* A request that ends leaves the files, the server and the database whole.  *)
LEMMA InstallEnds ==
    ASSUME InstallInv, NEW c \in Askers, Install!End(c), setup[c].kind # "none",
           UNCHANGED <<file, worker, overlap>>, server' \in ServerRecords, database' \in DatabaseRecords,
           bound' \in BoundRecords, server'.up = server.up,
           overlap = {} => (Works(setup[c]) \/ \A d \in Askers : ~Works(setup[d])) /\ FilesFit' /\ RestFits'
    PROVE  InstallInv'
<1>1. /\ setup' = [setup EXCEPT ![c] = setup'[c]] /\ setup' \in [Askers -> RequestRecords]
      /\ RequestFits(setup[c])' /\ ~SettingUp(setup'[c]) /\ ~Applying(setup'[c])
  BY RequestEnds
<1>2. InstallTypes'
  BY <1>1, InstallFinds DEF InstallTypes
<1> QED
  BY <1>1, <1>2, InstallWorks

LEMMA InstallProbe ==
    ASSUME InstallInv, NEW c \in Askers, Install!Probe(c)
    PROVE  InstallInv'
<1>1. /\ setup[c].at = "probe" /\ UNCHANGED <<file, server, database, worker, overlap, bound>>
      /\ Install!End(c) \/ Install!Go(c, "check")
  BY DEF Install!Probe
<1>2. /\ setup[c] \in RequestRecords /\ RequestFits(setup[c]) /\ server \in ServerRecords
      /\ database \in DatabaseRecords /\ bound \in BoundRecords
      /\ overlap = {} => FilesFit /\ (SettingUp(setup[c]) => SetupFits(setup[c]))
  BY InstallFinds
<1>3. SettingUp(setup[c]) /\ Works(setup[c]) /\ setup[c].kind # "none" /\ setup[c].at \in Prepares
  BY <1>1, <1>2, WhereRequestIs DEF Prepares
<1>4. overlap = {} => NoFiles /\ ~server.configured /\ server.active = None
  BY <1>1, <1>2, <1>3 DEF SetupFits
<1>5. bound.failures \in Nat
  BY <1>2 DEF BoundRecords
<1>6. CASE Install!Go(c, "check")
  BY <1>1, <1>2, <1>3, <1>4, <1>5, <1>6, SetupGoes
<1>7. CASE Install!End(c)
  <2>1. ~setup[c].provisioned
    BY <1>2, <1>3 DEF RequestFits
  <2>2. overlap = {} => FilesFit' /\ RestFits'
    BY <1>1, <1>2, <1>3, <1>4, <2>1 DEF RestFits, NoFiles, SetupFits, FilesFit
  <2> QED
    BY <1>1, <1>2, <1>3, <1>7, <2>2, InstallEnds
<1> QED
  BY <1>1, <1>6, <1>7

LEMMA InstallCheck ==
    ASSUME InstallInv, NEW c \in Askers, Install!CheckConfiguration(c)
    PROVE  InstallInv'
<1>1. /\ setup[c].at = "check" /\ UNCHANGED <<file, database, worker, overlap, bound>>
      /\ server' = [server EXCEPT !.configured = file.path \in Configs]
      /\ IF file.path # None THEN Install!End(c) ELSE Install!Go(c, "inspect")
  BY DEF Install!CheckConfiguration
<1>2. /\ setup[c] \in RequestRecords /\ RequestFits(setup[c]) /\ server \in ServerRecords
      /\ database \in DatabaseRecords /\ bound \in BoundRecords
      /\ overlap = {} => FilesFit /\ (SettingUp(setup[c]) => SetupFits(setup[c]))
  BY InstallFinds
<1>3. SettingUp(setup[c]) /\ Works(setup[c]) /\ setup[c].kind # "none" /\ setup[c].at \in Prepares
  BY <1>1, <1>2, WhereRequestIs DEF Prepares
<1>4. overlap = {} => NoFiles /\ ~server.configured /\ server.active = None
  BY <1>1, <1>2, <1>3 DEF SetupFits
<1>5. bound.failures \in Nat
  BY <1>2 DEF BoundRecords
<1>6. /\ server' \in ServerRecords /\ server'.up = server.up /\ server'.active = server.active
      /\ server'.configured = (file.path \in Configs)
  <2> DEFINE there == file.path \in Configs
  <2>1. there \in BOOLEAN /\ server' = [server EXCEPT !.configured = there]
    BY <1>1
  <2> HIDE DEF there
  <2>2. server' \in ServerRecords /\ server'.up = server.up /\ server'.active = server.active
        /\ server'.configured = there
    BY <2>1, <1>2 DEF ServerRecords
  <2> QED
    BY <2>2 DEF there
<1>7. overlap = {} => file.path = None /\ ~server'.configured
  BY <1>4, <1>6, InstallAssumption DEF NoFiles
<1>8. CASE file.path = None
  <2>1. Install!Go(c, "inspect")
    BY <1>1, <1>8
  <2> QED
    BY <1>1, <1>2, <1>3, <1>4, <1>5, <1>6, <1>7, <2>1, SetupGoes DEF Prepares
<1>9. CASE file.path # None
  BY <1>1, <1>2, <1>3, <1>6, <1>7, <1>9, InstallEnds
<1> QED
  BY <1>8, <1>9

(* A setup that has not published a runtime gives up.                        *)
LEMMA SetupUnwinds ==
    ASSUME InstallInv, NEW c \in Askers, setup[c].at \in {"inspect", "clear", "provision", "initialize"},
           SettingUp(setup[c]), Install!Unwind(c), UNCHANGED <<file, server, worker, overlap>>,
           database' \in DatabaseRecords,
           \/ Install!Fails
           \/ UNCHANGED bound /\ ~setup[c].provisioned,
           \/ database' = database
           \/ ~setup[c].provisioned /\ database'.administrator = "none"
    PROVE  InstallInv'
<1>1. /\ setup[c] \in RequestRecords /\ RequestFits(setup[c]) /\ server \in ServerRecords
      /\ database \in DatabaseRecords /\ bound \in BoundRecords
      /\ overlap = {} => FilesFit /\ SetupFits(setup[c])
  BY InstallFinds
<1>2. ~setup[c].initialized /\ setup[c].save = "none"
  BY <1>1 DEF RequestFits, Prepares
<1>3. Install!Go(c, "compensate")
  BY <1>2 DEF Install!Unwind
<1>4. overlap = {} => NoFiles /\ ~server.configured /\ server.active = None
  BY <1>1 DEF SetupFits
<1>5. /\ bound' \in BoundRecords /\ bound'.failures >= bound.failures /\ bound'.crashes = bound.crashes
      /\ setup[c].provisioned => bound'.failures >= 1
  <2>1. bound.failures \in Nat
    BY <1>1 DEF BoundRecords
  <2>2. CASE Install!Fails
    BY <2>1, <2>2, OneFailsMore
  <2>3. CASE UNCHANGED bound /\ ~setup[c].provisioned
    BY <2>1, <2>3, <1>1
  <2> QED
    BY <2>2, <2>3
<1>6. \/ database'.administrator = database.administrator
      \/ ~setup[c].provisioned /\ database'.administrator # "new"
  OBVIOUS
<1>7. "compensate" \notin Prepares
  BY DEF Prepares
<1> QED
  BY <1>1, <1>2, <1>3, <1>4, <1>5, <1>6, <1>7, SetupGoes

LEMMA InstallDecide ==
    ASSUME InstallInv, NEW c \in Askers, Install!DecideAndMigrate(c)
    PROVE  InstallInv'
<1>1. /\ setup[c].at = "inspect" /\ UNCHANGED <<file, server, worker, overlap>>
      /\ \/ database' = [database EXCEPT !.migrated = TRUE] /\ Install!Go(c, "clear") /\ Install!Fine
         \/ Install!Unwind(c) /\ Install!Fails /\ UNCHANGED database
         \/ Install!Unwind(c) /\ Install!Fine /\ UNCHANGED database
  BY DEF Install!DecideAndMigrate
<1>2. /\ setup[c] \in RequestRecords /\ RequestFits(setup[c]) /\ server \in ServerRecords
      /\ database \in DatabaseRecords /\ bound \in BoundRecords
      /\ overlap = {} => FilesFit /\ (SettingUp(setup[c]) => SetupFits(setup[c]))
  BY InstallFinds
<1>3. SettingUp(setup[c]) /\ setup[c].at \in Prepares
  BY <1>1, <1>2, WhereRequestIs DEF Prepares
<1>4. ~setup[c].provisioned
  BY <1>2, <1>3 DEF RequestFits
<1>5. CASE database' = [database EXCEPT !.migrated = TRUE] /\ Install!Go(c, "clear") /\ Install!Fine
  <2>1. database' \in DatabaseRecords /\ database'.administrator = database.administrator
    BY <1>2, <1>5 DEF DatabaseRecords
  <2>2. bound' = bound /\ bound.failures \in Nat
    BY <1>2, <1>5 DEF Install!Fine, BoundRecords
  <2>3. overlap = {} => NoFiles /\ ~server.configured /\ server.active = None
    BY <1>1, <1>2, <1>3 DEF SetupFits
  <2>4. Install!Go(c, "clear")
    BY <1>5
  <2> QED
    BY <1>1, <1>2, <1>3, <2>1, <2>2, <2>3, <2>4, SetupGoes DEF Prepares
<1>6. CASE Install!Unwind(c) /\ Install!Fails /\ UNCHANGED database
  BY <1>1, <1>2, <1>3, <1>6, SetupUnwinds
<1>7. CASE Install!Unwind(c) /\ Install!Fine /\ UNCHANGED database
  BY <1>1, <1>2, <1>3, <1>4, <1>7, SetupUnwinds DEF Install!Fine
<1> QED
  BY <1>1, <1>5, <1>6, <1>7

LEMMA InstallClear ==
    ASSUME InstallInv, NEW c \in Askers, Install!ClearData(c)
    PROVE  InstallInv'
<1> DEFINE emptied == IF "database" \in setup[c].reset THEN Install!Reset(database) ELSE database
<1>1. /\ setup[c].at = "clear" /\ UNCHANGED <<file, server, worker, overlap>>
      /\ \/ /\ database' = [emptied EXCEPT !.assets = @ /\ "storage" \notin setup[c].reset]
            /\ Install!Go(c, "provision") /\ Install!Fine
         \/ database' \in {database, emptied} /\ Install!Unwind(c) /\ Install!Fails
  BY DEF Install!ClearData
<1>2. /\ setup[c] \in RequestRecords /\ RequestFits(setup[c]) /\ server \in ServerRecords
      /\ database \in DatabaseRecords /\ bound \in BoundRecords
      /\ overlap = {} => FilesFit /\ (SettingUp(setup[c]) => SetupFits(setup[c]))
  BY InstallFinds
<1>3. SettingUp(setup[c]) /\ setup[c].at \in Prepares
  BY <1>1, <1>2, WhereRequestIs DEF Prepares
<1>4. ~setup[c].provisioned
  BY <1>2, <1>3 DEF RequestFits
<1>5. emptied \in DatabaseRecords /\ (emptied = database \/ emptied.administrator = "none")
  BY <1>2 DEF DatabaseRecords, Administrators, Install!Reset
<1> HIDE DEF emptied
<1>6. CASE database' = [emptied EXCEPT !.assets = @ /\ "storage" \notin setup[c].reset]
           /\ Install!Go(c, "provision") /\ Install!Fine
  <2> DEFINE kept == emptied.assets /\ "storage" \notin setup[c].reset
  <2>1. database' = [emptied EXCEPT !.assets = kept] /\ kept \in BOOLEAN
    BY <1>6
  <2> HIDE DEF kept
  <2>2. database' \in DatabaseRecords /\ database'.administrator = emptied.administrator
    BY <2>1, <1>5 DEF DatabaseRecords
  <2>3. bound' = bound /\ bound.failures \in Nat
    BY <1>2, <1>6 DEF Install!Fine, BoundRecords
  <2>4. overlap = {} => NoFiles /\ ~server.configured /\ server.active = None
    BY <1>1, <1>2, <1>3 DEF SetupFits
  <2>5. Install!Go(c, "provision")
    BY <1>6
  <2> QED
    BY <1>1, <1>2, <1>3, <1>4, <1>5, <2>2, <2>3, <2>4, <2>5, SetupGoes DEF Prepares
<1>7. CASE database' \in {database, emptied} /\ Install!Unwind(c) /\ Install!Fails
  BY <1>1, <1>2, <1>3, <1>4, <1>5, <1>7, SetupUnwinds
<1> QED
  BY <1>1, <1>6, <1>7

LEMMA InstallProvision ==
    ASSUME InstallInv, NEW c \in Askers, Install!Provision(c)
    PROVE  InstallInv'
<1> DEFINE row == [setup[c] EXCEPT !.at = "initialize", !.provisioned = TRUE]
<1>1. /\ setup[c].at = "provision" /\ UNCHANGED <<file, server, worker, overlap>>
      /\ \/ /\ database.administrator = "none" /\ database' = [database EXCEPT !.administrator = "new"]
            /\ setup' = [setup EXCEPT ![c] = row] /\ Install!Fine
         \/ Install!Unwind(c) /\ Install!Fine /\ UNCHANGED database
         \/ Install!Unwind(c) /\ Install!Fails /\ UNCHANGED database
  BY DEF Install!Provision, Install!Set
<1>2. /\ setup[c] \in RequestRecords /\ RequestFits(setup[c]) /\ server \in ServerRecords
      /\ database \in DatabaseRecords /\ bound \in BoundRecords /\ setup \in [Askers -> RequestRecords]
      /\ overlap = {} => FilesFit /\ (SettingUp(setup[c]) => SetupFits(setup[c]))
  BY InstallFinds
<1>3. SettingUp(setup[c]) /\ Works(setup[c]) /\ setup[c].kind # "none" /\ setup[c].at \in Prepares
  BY <1>1, <1>2, WhereRequestIs DEF Prepares
<1>4. ~setup[c].provisioned
  BY <1>2, <1>3 DEF RequestFits
<1>5. CASE /\ database.administrator = "none" /\ database' = [database EXCEPT !.administrator = "new"]
           /\ setup' = [setup EXCEPT ![c] = row] /\ Install!Fine
  <2>1. database' \in DatabaseRecords /\ database'.administrator = "new" /\ bound' = bound
    BY <1>2, <1>5 DEF DatabaseRecords, Administrators, Install!Fine
  <2>2. /\ row \in RequestRecords /\ row.at = "initialize" /\ row.provisioned = TRUE /\ Alone(setup[c], row)
        /\ row.save = setup[c].save /\ row.initialized = setup[c].initialized
    BY <1>2 DEF RequestRecords, Alone, SetupSteps
  <2>3. setup' = [setup EXCEPT ![c] = row]
    BY <1>5
  <2> HIDE DEF row
  <2>4. setup'[c] = row /\ setup' \in [Askers -> RequestRecords]
    BY <2>2, <2>3, <1>2
  <2>5. setup'[c].kind = "setup"
    BY <2>2, <2>4, <1>3 DEF Alone, SettingUp
  <2>6. RequestFits(setup[c])'
    BY <1>2, <1>3, <2>2, <2>4, <2>5 DEF RequestFits, Alone, Applying, SettingUp, SetupSteps, Prepares
  <2>7. SettingUp(setup'[c]) /\ ~Applying(setup'[c]) /\ Works(setup'[c])
    BY <2>2, <2>4, <2>5 DEF SettingUp, Applying, Works
  <2>8. InstallTypes'
    BY <1>1, <1>2, <2>1, <2>4, InstallFinds DEF InstallTypes
  <2>9. overlap = {} => FilesFit' /\ SetupFits(setup[c])'
    BY <1>1, <1>2, <1>3, <2>1, <2>2, <2>4 DEF FilesFit, SetupFits, NoFiles, Alone
  <2> QED
    BY <1>1, <1>3, <2>3, <2>4, <2>6, <2>7, <2>8, <2>9, InstallWorks
<1>6. CASE Install!Unwind(c) /\ Install!Fine /\ UNCHANGED database
  BY <1>1, <1>2, <1>3, <1>4, <1>6, SetupUnwinds DEF Install!Fine
<1>7. CASE Install!Unwind(c) /\ Install!Fails /\ UNCHANGED database
  BY <1>1, <1>2, <1>3, <1>7, SetupUnwinds
<1> QED
  BY <1>1, <1>5, <1>6, <1>7

(* A runtime is published for a configuration.                               *)
LEMMA Published ==
    ASSUME NEW config \in Configs, Install!Initialize(config), server \in ServerRecords
    PROVE  /\ server' \in ServerRecords /\ server'.active = config /\ server'.up = server.up
           /\ server'.configured = server.configured
<1> DEFINE next == server.generation + 1
<1>1. next \in Nat /\ server' = [server EXCEPT !.active = config, !.generation = next]
  BY DEF Install!Initialize, ServerRecords
<1> HIDE DEF next
<1> QED
  BY <1>1 DEF ServerRecords

LEMMA InstallPublishSetup ==
    ASSUME InstallInv, NEW c \in Askers, Install!InitializeSetup(c)
    PROVE  InstallInv'
<1> DEFINE row == [setup[c] EXCEPT !.at = "save", !.initialized = TRUE, !.save = "write",
                                   !.saving = setup[c].candidate]
<1>1. /\ setup[c].kind = "setup" /\ setup[c].at = "initialize" /\ UNCHANGED <<file, database, worker, overlap>>
      /\ \/ /\ Install!Initialize(setup[c].candidate) /\ Install!Fine
            /\ setup' = [setup EXCEPT ![c] = row]
         \/ Install!Unwind(c) /\ Install!Fails /\ UNCHANGED server
  BY DEF Install!InitializeSetup, Install!Set
<1>2. /\ setup[c] \in RequestRecords /\ RequestFits(setup[c]) /\ server \in ServerRecords
      /\ database \in DatabaseRecords /\ bound \in BoundRecords /\ setup \in [Askers -> RequestRecords]
      /\ overlap = {} => FilesFit /\ (SettingUp(setup[c]) => SetupFits(setup[c]))
  BY InstallFinds
<1>3. SettingUp(setup[c]) /\ Works(setup[c]) /\ setup[c].candidate \in Configs /\ setup[c].provisioned
  BY <1>1, <1>2 DEF SettingUp, Works, RequestFits
<1>4. CASE /\ Install!Initialize(setup[c].candidate) /\ Install!Fine
           /\ setup' = [setup EXCEPT ![c] = row]
  <2>1. /\ server' \in ServerRecords /\ server'.active = setup[c].candidate /\ server'.up = server.up
        /\ server'.configured = server.configured /\ bound' = bound
    BY <1>2, <1>3, <1>4, Published DEF Install!Fine
  <2>2. /\ row \in RequestRecords /\ row.at = "save" /\ row.provisioned = setup[c].provisioned
        /\ Alone(setup[c], row) /\ row.save = "write" /\ row.initialized = TRUE
        /\ row.saving = setup[c].candidate
    BY <1>2 DEF RequestRecords, Alone, SetupSteps, Writes
  <2>3. setup' = [setup EXCEPT ![c] = row]
    BY <1>4
  <2> HIDE DEF row
  <2>4. setup'[c] = row /\ setup' \in [Askers -> RequestRecords]
    BY <2>2, <2>3, <1>2
  <2>5. setup'[c].kind = "setup"
    BY <2>2, <2>4, <1>1 DEF Alone
  <2>6. RequestFits(setup[c])'
    BY <1>3, <2>2, <2>4, <2>5 DEF RequestFits, Alone, Applying, SettingUp, SetupSteps, Prepares
  <2>7. SettingUp(setup'[c]) /\ ~Applying(setup'[c]) /\ Works(setup'[c])
    BY <2>2, <2>4, <2>5 DEF SettingUp, Applying, Works
  <2>8. InstallTypes'
    BY <1>1, <1>2, <2>1, <2>4, InstallFinds DEF InstallTypes
  <2>9. ASSUME overlap = {} PROVE FilesFit' /\ SetupFits(setup[c])'
    <3>1. FilesFit /\ SetupFits(setup[c]) /\ NoFiles
      BY <2>9, <1>1, <1>2, <1>3 DEF SetupFits
    <3>2. FilesOf(setup[c], None)'
      BY <3>1, <1>1, <2>2, <2>4 DEF FilesOf, NoFiles
    <3> QED
      BY <3>1, <3>2, <1>1, <1>3, <2>1, <2>2, <2>4 DEF FilesFit, SetupFits, Alone
  <2> QED
    BY <1>1, <1>3, <2>1, <2>3, <2>4, <2>6, <2>7, <2>8, <2>9, InstallWorks
<1>5. CASE Install!Unwind(c) /\ Install!Fails /\ UNCHANGED server
  BY <1>1, <1>2, <1>3, <1>5, SetupUnwinds
<1> QED
  BY <1>1, <1>4, <1>5

LEMMA InstallFinishSetup ==
    ASSUME InstallInv, NEW c \in Askers, Install!FinishSetup(c)
    PROVE  InstallInv'
<1>1. /\ setup[c].kind = "setup" /\ setup[c].at = "save" /\ UNCHANGED <<file, database, worker, overlap, bound>>
      /\ \/ /\ setup[c].save = "saved" /\ server' = [server EXCEPT !.configured = TRUE]
            /\ Install!End(c)
         \/ setup[c].save = "failed" /\ Install!Unwind(c) /\ UNCHANGED server
  BY DEF Install!FinishSetup
<1>2. /\ setup[c] \in RequestRecords /\ RequestFits(setup[c]) /\ server \in ServerRecords
      /\ database \in DatabaseRecords /\ bound \in BoundRecords
      /\ overlap = {} => FilesFit /\ (SettingUp(setup[c]) => SetupFits(setup[c]))
  BY InstallFinds
<1>3. /\ SettingUp(setup[c]) /\ Works(setup[c]) /\ setup[c].candidate \in Configs
      /\ setup[c].provisioned /\ setup[c].initialized /\ setup[c].saving = setup[c].candidate
  BY <1>1, <1>2 DEF SettingUp, Works, RequestFits
<1>4. CASE setup[c].save = "saved" /\ server' = [server EXCEPT !.configured = TRUE] /\ Install!End(c)
  <2>1. /\ server' \in ServerRecords /\ server'.up = server.up /\ server'.active = server.active
        /\ server'.configured = TRUE
    BY <1>2, <1>4 DEF ServerRecords
  <2>2. ASSUME overlap = {} PROVE FilesFit' /\ RestFits'
    <3>1. FilesFit /\ SetupFits(setup[c]) /\ FilesOf(setup[c], None)
      BY <2>2, <1>1, <1>2, <1>3 DEF SetupFits
    <3>2. /\ file.path = setup[c].candidate /\ file.next = None /\ file.backup = None
          /\ server.active = setup[c].candidate /\ database.administrator = "new"
      BY <3>1, <1>1, <1>3, <1>4 DEF FilesOf, SetupFits
    <3> QED
      BY <3>1, <3>2, <1>1, <1>3, <2>1, InstallAssumption DEF FilesFit, RestFits, OneFile
  <2> QED
    BY <1>1, <1>2, <1>3, <1>4, <2>1, <2>2, InstallEnds
<1>5. CASE setup[c].save = "failed" /\ Install!Unwind(c) /\ UNCHANGED server
  <2>1. Install!Go(c, "close") /\ bound.failures \in Nat
    BY <1>2, <1>3, <1>5 DEF Install!Unwind, BoundRecords
  <2>2. ASSUME overlap = {}
        PROVE  /\ NoFiles /\ ~server.configured /\ server.active = setup[c].candidate
               /\ bound.failures >= 1
    <3>1. SetupFits(setup[c]) /\ FilesOf(setup[c], None)
      BY <2>2, <1>1, <1>2, <1>3 DEF SetupFits
    <3>2. NoFiles
      BY <3>1, <1>5 DEF FilesOf, NoFiles
    <3> QED
      BY <3>1, <3>2, <1>1, <1>5 DEF SetupFits
  <2>3. setup[c].save = "failed" /\ server' = server
    BY <1>5
  <2>4. "close" \notin Prepares
    BY DEF Prepares
  <2> QED
    BY <1>1, <1>2, <1>3, <2>1, <2>2, <2>3, <2>4, SetupGoes
<1> QED
  BY <1>1, <1>4, <1>5

LEMMA InstallCloseRuntime ==
    ASSUME InstallInv, NEW c \in Askers, Install!CloseRuntime(c)
    PROVE  InstallInv'
<1>1. /\ setup[c].at = "close" /\ UNCHANGED <<file, database, worker, overlap, bound>>
      /\ server' = [server EXCEPT !.active = None] /\ Install!Go(c, "compensate")
  BY DEF Install!CloseRuntime
<1>2. /\ setup[c] \in RequestRecords /\ RequestFits(setup[c]) /\ server \in ServerRecords
      /\ database \in DatabaseRecords /\ bound \in BoundRecords
      /\ overlap = {} => FilesFit /\ (SettingUp(setup[c]) => SetupFits(setup[c]))
  BY InstallFinds
<1>3. SettingUp(setup[c]) /\ setup[c].save = "failed" /\ bound.failures \in Nat
  BY <1>1, <1>2, WhereRequestIs DEF RequestFits, BoundRecords
<1>4. /\ server' \in ServerRecords /\ server'.up = server.up /\ server'.active = None
      /\ server'.configured = server.configured
  BY <1>1, <1>2 DEF ServerRecords
<1>5. overlap = {} => NoFiles /\ ~server.configured /\ (setup[c].provisioned => bound.failures >= 1)
  BY <1>1, <1>2, <1>3 DEF SetupFits
<1>6. "compensate" \notin Prepares
  BY DEF Prepares
<1> QED
  BY <1>1, <1>2, <1>3, <1>4, <1>5, <1>6, SetupGoes

LEMMA InstallCompensate ==
    ASSUME InstallInv, NEW c \in Askers, Install!Compensate(c)
    PROVE  InstallInv'
<1> DEFINE admin == IF setup[c].provisioned THEN "none" ELSE database.administrator
<1>1. /\ setup[c].at = "compensate" /\ UNCHANGED <<file, server, worker, overlap>> /\ Install!End(c)
      /\ \/ database' = [database EXCEPT !.administrator = admin] /\ Install!Fine
         \/ setup[c].provisioned /\ Install!Fails /\ UNCHANGED database
  BY DEF Install!Compensate
<1>2. /\ setup[c] \in RequestRecords /\ RequestFits(setup[c]) /\ server \in ServerRecords
      /\ database \in DatabaseRecords /\ bound \in BoundRecords
      /\ overlap = {} => FilesFit /\ (SettingUp(setup[c]) => SetupFits(setup[c]))
  BY InstallFinds
<1>3. SettingUp(setup[c]) /\ Works(setup[c]) /\ setup[c].kind # "none" /\ bound.failures \in Nat
  BY <1>1, <1>2, WhereRequestIs DEF BoundRecords, SettingUp
<1>4. overlap = {} => /\ NoFiles /\ ~server.configured /\ server.active = None
                      /\ setup[c].provisioned => bound.failures >= 1
                      /\ bound.crashes = 0 /\ bound.failures <= 1 /\ ~setup[c].provisioned
                         => database.administrator # "new"
  BY <1>1, <1>2, <1>3 DEF SetupFits
<1>5. /\ database' \in DatabaseRecords /\ bound' \in BoundRecords
      /\ \/ bound' = bound /\ database'.administrator = admin
         \/ setup[c].provisioned /\ bound'.failures = bound.failures + 1
  <2>1. CASE database' = [database EXCEPT !.administrator = admin] /\ Install!Fine
    <3>1. admin \in Administrators
      BY <1>2 DEF Administrators, DatabaseRecords
    <3> HIDE DEF admin
    <3> QED
      BY <2>1, <3>1, <1>2 DEF DatabaseRecords, Install!Fine
  <2>2. CASE setup[c].provisioned /\ Install!Fails /\ UNCHANGED database
    BY <2>2, <1>2, OneFailsMore
  <2> QED
    BY <1>1, <2>1, <2>2
<1>6. ASSUME overlap = {} PROVE FilesFit' /\ RestFits'
  <2>1. FilesFit'
    BY <1>1, <1>4, <1>6, InstallAssumption DEF FilesFit, NoFiles
  <2>2. bound'.crashes = 0 /\ bound'.failures <= 1 => database'.administrator # "new"
    BY <1>3, <1>4, <1>5, <1>6
  <2> QED
    BY <2>1, <2>2, <1>1, <1>4, <1>6 DEF RestFits, NoFiles
<1> QED
  BY <1>1, <1>2, <1>3, <1>5, <1>6, InstallEnds

(* One step of a save: what it leaves of the files is what the next step, or *)
(* the request that failed, expects.                                         *)
LEMMA InstallSaves ==
    ASSUME InstallInv, NEW c \in Askers, setup[c].save \in Writes,
           setup' = [setup EXCEPT ![c] = setup'[c]], setup' \in [Askers -> RequestRecords],
           Alone(setup[c], setup'[c]), setup'[c].at = setup[c].at, setup'[c].saving = setup[c].saving,
           setup'[c].provisioned = setup[c].provisioned, setup'[c].initialized = setup[c].initialized,
           setup'[c].save \in {"aside", "place", "drop", "saved", "failed"},
           UNCHANGED <<server, database, worker, overlap>>, file' \in FileRecords, bound' \in BoundRecords,
           bound' = bound \/ (bound'.failures = bound.failures + 1 /\ bound'.crashes = bound.crashes),
           overlap = {} => /\ file'.path # Torn /\ file'.backup # Torn
                           /\ setup'[c].save = "failed" => bound'.failures = bound.failures + 1
                           /\ \A old \in Configs \union {None} : FilesOf(setup[c], old) => FilesOf(setup[c], old)'
    PROVE  InstallInv'
<1>1. /\ setup[c] \in RequestRecords /\ RequestFits(setup[c]) /\ server \in ServerRecords
      /\ database \in DatabaseRecords /\ bound \in BoundRecords /\ worker \in FollowerRecords
      /\ overlap \subseteq {"recovery", "settings"}
      /\ overlap = {} => /\ FilesFit
                         /\ SettingUp(setup[c]) => SetupFits(setup[c])
                         /\ Applying(setup[c]) => ApplyFits(setup[c])
  BY InstallFinds
<1>2. setup[c].at \in {"save", "saveBack"} /\ Works(setup[c]) /\ setup[c].kind # "none"
      /\ (setup[c].at = "saveBack" => Applying(setup[c]))
      /\ (SettingUp(setup[c]) \/ Applying(setup[c]))
  BY <1>1, WhereRequestIs DEF Works
<1>3. setup'[c].kind = setup[c].kind /\ setup'[c].candidate = setup[c].candidate /\ setup'[c].previous = setup[c].previous
  BY DEF Alone
<1>4. RequestFits(setup[c])'
  BY <1>1, <1>2, <1>3 DEF RequestFits, SettingUp, Applying, SetupSteps, ApplySteps, Prepares
<1>5. (SettingUp(setup'[c]) <=> SettingUp(setup[c])) /\ (Applying(setup'[c]) <=> Applying(setup[c])) /\ Works(setup'[c])
  BY <1>2, <1>3 DEF SettingUp, Applying, Works
<1>6. InstallTypes'
  BY <1>1 DEF InstallTypes
<1>7. bound.failures \in Nat /\ bound'.failures \in Nat /\ bound'.failures >= bound.failures /\ bound'.crashes = bound.crashes
  BY <1>1 DEF BoundRecords
<1>8. ASSUME overlap = {}, SettingUp(setup[c]) PROVE FilesFit' /\ SetupFits(setup[c])'
  <2>1. SetupFits(setup[c]) /\ FilesFit /\ setup[c].at = "save" /\ setup[c].provisioned
    BY <1>1, <1>2, <1>8 DEF SettingUp, Applying, RequestFits
  <2>2. FilesOf(setup[c], None) /\ database.administrator = "new"
    BY <2>1 DEF SetupFits
  <2>3. FilesOf(setup[c], None)'
    BY <2>2, <1>8
  <2>4. FilesFit'
    BY <2>2, <1>8 DEF FilesFit
  <2>5. setup'[c].save = "failed" => bound'.failures >= 1
    BY <1>7, <1>8
  <2> QED
    BY <2>1, <2>2, <2>3, <2>4, <2>5, <1>3, <1>7 DEF SetupFits
<1>9. ASSUME overlap = {}, Applying(setup[c]) PROVE FilesFit' /\ ApplyFits(setup[c])'
  <2>1. ApplyFits(setup[c]) /\ FilesFit
    BY <1>1, <1>9
  <2>2. server.configured /\ server.active # None /\ database.administrator = "new"
    BY <2>1 DEF ApplyFits, FilesFit
  <2>3. PICK old \in Configs : FilesOf(setup[c], old) /\ (bound.failures <= 1 => old = setup[c].previous)
    BY <2>1 DEF ApplyFits, Writes
  <2>4. FilesOf(setup[c], old)' /\ (bound'.failures <= 1 => old = setup'[c].previous)
    BY <2>3, <1>3, <1>7, <1>9
  <2>5. FilesFit'
    BY <2>2, <1>9 DEF FilesFit
  <2>6. /\ setup'[c].save = "failed" => bound'.failures >= 1
        /\ setup'[c].at = "saveBack" => bound'.failures >= 1
        /\ setup'[c].at = "saveBack" /\ setup'[c].save = "failed" => bound'.failures >= 2
    BY <2>1, <1>7, <1>9 DEF ApplyFits
  <2>7. bound'.failures <= 1 =>
            /\ setup'[c].at = "save" => server.active = setup'[c].candidate
            /\ setup'[c].at = "saveBack" => server.active = setup'[c].previous
    BY <2>1, <1>3, <1>7 DEF ApplyFits
  <2>8. setup'[c].at \notin {"initialize", "back"}
    BY <1>2
  <2> QED
    BY <2>2, <2>4, <2>5, <2>6, <2>7, <2>8 DEF ApplyFits
<1> QED
  BY <1>2, <1>4, <1>5, <1>6, <1>8, <1>9, InstallWorks

LEMMA RequestSaves ==
    ASSUME InstallInv, NEW c \in Askers, NEW to \in {"aside", "place", "drop", "saved", "failed"}, Install!Saves(c, to)
    PROVE  /\ setup' = [setup EXCEPT ![c] = setup'[c]] /\ setup' \in [Askers -> RequestRecords]
           /\ setup'[c].at = setup[c].at /\ Alone(setup[c], setup'[c]) /\ setup'[c].save = to
           /\ setup'[c].saving = setup[c].saving /\ setup'[c].existed = setup[c].existed
           /\ setup'[c].provisioned = setup[c].provisioned /\ setup'[c].initialized = setup[c].initialized
<1> DEFINE row == [setup[c] EXCEPT !.save = to]
<1>1. setup' = [setup EXCEPT ![c] = row] /\ setup \in [Askers -> RequestRecords] /\ setup[c] \in RequestRecords
  BY InstallFinds DEF Install!Saves, Install!Set
<1>2. /\ row \in RequestRecords /\ row.at = setup[c].at /\ Alone(setup[c], row) /\ row.save = to
      /\ row.saving = setup[c].saving /\ row.existed = setup[c].existed
      /\ row.provisioned = setup[c].provisioned /\ row.initialized = setup[c].initialized
  BY <1>1 DEF RequestRecords, Alone, Writes
<1> HIDE DEF row
<1>3. setup'[c] = row
  BY <1>1
<1> QED
  BY <1>1, <1>2, <1>3

(* What is being saved is a configuration.                                   *)
LEMMA Saved ==
    ASSUME InstallInv, NEW c \in Askers, setup[c].save \in Writes
    PROVE  setup[c].saving \in Configs /\ setup[c].saving # None /\ setup[c].saving # Torn
<1>1. setup[c] \in RequestRecords /\ RequestFits(setup[c])
  BY InstallFinds
<1>2. setup[c].at \in {"save", "saveBack"} /\ (setup[c].at = "saveBack" => Applying(setup[c]))
      /\ (SettingUp(setup[c]) \/ Applying(setup[c]))
  BY <1>1, WhereRequestIs
<1> QED
  BY <1>1, <1>2, InstallAssumption DEF RequestFits, SettingUp

LEMMA InstallWriteNext ==
    ASSUME InstallInv, NEW c \in Askers, Install!WriteNext(c)
    PROVE  InstallInv'
<1>1. /\ setup[c].save = "write" /\ UNCHANGED <<server, database, worker, overlap>>
      /\ \/ file' = [file EXCEPT !.next = setup[c].saving] /\ Install!Saves(c, "aside") /\ Install!Fine
         \/ file' = [file EXCEPT !.next = None] /\ Install!Saves(c, "failed") /\ Install!Fails
  BY DEF Install!WriteNext
<1>2. file \in FileRecords /\ bound \in BoundRecords /\ setup[c].save \in Writes /\ None \notin Configs
      /\ (overlap = {} => file.path # Torn /\ file.backup # Torn)
  BY <1>1, InstallFinds, InstallAssumption DEF Writes, FilesFit
<1>3. setup[c].saving \in Configs
  BY <1>2, Saved
<1>4. CASE file' = [file EXCEPT !.next = setup[c].saving] /\ Install!Saves(c, "aside") /\ Install!Fine
  <2>1. file' \in FileRecords /\ file'.path = file.path /\ file'.backup = file.backup /\ file'.next = setup[c].saving
    BY <1>2, <1>3, <1>4 DEF FileRecords, Files
  <2>2. setup'[c].save = "aside" /\ setup'[c].saving = setup[c].saving
    BY <1>4, RequestSaves
  <2>3. \A old \in Configs \union {None} : FilesOf(setup[c], old) => FilesOf(setup[c], old)'
    BY <1>1, <2>1, <2>2 DEF FilesOf
  <2>4. bound' = bound
    BY <1>4 DEF Install!Fine
  <2> QED
    BY <1>1, <1>2, <1>4, <2>1, <2>2, <2>3, <2>4, RequestSaves, InstallSaves
<1>5. CASE file' = [file EXCEPT !.next = None] /\ Install!Saves(c, "failed") /\ Install!Fails
  <2>1. file' \in FileRecords /\ file'.path = file.path /\ file'.backup = file.backup /\ file'.next = None
    BY <1>2, <1>5 DEF FileRecords, Files
  <2>2. setup'[c].save = "failed"
    BY <1>5, RequestSaves
  <2>3. \A old \in Configs \union {None} : FilesOf(setup[c], old) => FilesOf(setup[c], old)'
    BY <1>1, <1>2, <2>1, <2>2 DEF FilesOf
  <2> QED
    BY <1>1, <1>2, <1>5, <2>1, <2>2, <2>3, RequestSaves, OneFailsMore, InstallSaves
<1> QED
  BY <1>1, <1>4, <1>5

LEMMA InstallMoveAside ==
    ASSUME InstallInv, NEW c \in Askers, Install!MoveAside(c)
    PROVE  InstallInv'
<1> DEFINE exists == file.path # None
           row == [setup[c] EXCEPT !.save = "place", !.existed = exists]
<1>1. /\ setup[c].save = "aside" /\ UNCHANGED <<server, database, worker, overlap>>
      /\ \/ /\ file' = IF exists THEN [file EXCEPT !.backup = file.path, !.path = None] ELSE file
            /\ setup' = [setup EXCEPT ![c] = row] /\ Install!Fine
         \/ file' = [file EXCEPT !.next = None, !.backup = None] /\ Install!Saves(c, "failed") /\ Install!Fails
  BY DEF Install!MoveAside, Install!Set
<1>2. /\ file \in FileRecords /\ bound \in BoundRecords /\ setup[c].save \in Writes /\ None \notin Configs
      /\ setup[c] \in RequestRecords /\ setup \in [Askers -> RequestRecords] /\ None # Torn
      /\ overlap = {} => file.path # Torn /\ file.backup # Torn
  BY <1>1, InstallFinds, InstallAssumption DEF Writes, FilesFit
<1>3. CASE /\ file' = IF exists THEN [file EXCEPT !.backup = file.path, !.path = None] ELSE file
           /\ setup' = [setup EXCEPT ![c] = row] /\ Install!Fine
  <2>1. exists \in BOOLEAN /\ (exists <=> file.path # None)
    OBVIOUS
  <2>2. /\ file' \in FileRecords /\ file'.path = None /\ file'.next = file.next
        /\ file'.backup = IF exists THEN file.path ELSE file.backup
    BY <1>2, <1>3 DEF FileRecords, Files
  <2>3. setup' = [setup EXCEPT ![c] = row]
    BY <1>3
  <2> HIDE DEF exists
  <2>4. /\ row \in RequestRecords /\ row.at = setup[c].at /\ Alone(setup[c], row) /\ row.save = "place"
        /\ row.saving = setup[c].saving /\ row.existed = exists
        /\ row.provisioned = setup[c].provisioned /\ row.initialized = setup[c].initialized
    BY <1>2, <2>1 DEF RequestRecords, Alone, Writes
  <2> HIDE DEF row
  <2>5. setup'[c] = row /\ setup' \in [Askers -> RequestRecords]
    BY <1>2, <2>3, <2>4
  <2>6. \A old \in Configs \union {None} : FilesOf(setup[c], old) => FilesOf(setup[c], old)'
    BY <1>1, <2>1, <2>2, <2>4, <2>5 DEF FilesOf
  <2>7. bound' = bound /\ setup' = [setup EXCEPT ![c] = setup'[c]]
    BY <1>3, <2>3, <2>5 DEF Install!Fine
  <2> QED
    BY <1>1, <1>2, <2>2, <2>4, <2>5, <2>6, <2>7, InstallSaves
<1>4. CASE file' = [file EXCEPT !.next = None, !.backup = None] /\ Install!Saves(c, "failed") /\ Install!Fails
  <2>1. file' \in FileRecords /\ file'.path = file.path /\ file'.backup = None /\ file'.next = None
    BY <1>2, <1>4 DEF FileRecords, Files
  <2>2. setup'[c].save = "failed"
    BY <1>4, RequestSaves
  <2>3. \A old \in Configs \union {None} : FilesOf(setup[c], old) => FilesOf(setup[c], old)'
    BY <1>1, <1>2, <2>1, <2>2 DEF FilesOf
  <2> QED
    BY <1>1, <1>2, <1>4, <2>1, <2>2, <2>3, RequestSaves, OneFailsMore, InstallSaves
<1> QED
  BY <1>1, <1>3, <1>4

LEMMA InstallPutInPlace ==
    ASSUME InstallInv, NEW c \in Askers, Install!PutInPlace(c)
    PROVE  InstallInv'
<1> DEFINE unmoved == [file EXCEPT !.next = None]
           back == setup[c].existed /\ file.backup # None
           restored == IF back THEN [unmoved EXCEPT !.path = file.backup, !.backup = None] ELSE unmoved
<1>1. /\ setup[c].save = "place" /\ UNCHANGED <<server, database, worker, overlap>>
      /\ \/ /\ file.next # None /\ file' = [file EXCEPT !.path = file.next, !.next = None]
            /\ Install!Saves(c, "drop") /\ Install!Fine
         \/ file.next = None /\ file' = restored /\ Install!Saves(c, "failed") /\ Install!Fine
         \/ file' = restored /\ Install!Saves(c, "failed") /\ Install!Fails
  BY DEF Install!PutInPlace
<1>2. /\ file \in FileRecords /\ bound \in BoundRecords /\ setup[c].save \in Writes /\ None \notin Configs
      /\ setup[c] \in RequestRecords /\ None # Torn
      /\ overlap = {} => file.path # Torn /\ file.backup # Torn
      /\ setup[c].saving # None /\ setup[c].saving # Torn
  BY <1>1, InstallFinds, InstallAssumption, Saved DEF Writes, FilesFit
<1>3. overlap = {} => file.next = setup[c].saving
  <2>1. setup[c].at \in {"save", "saveBack"} /\ (setup[c].at = "saveBack" => Applying(setup[c]))
        /\ (SettingUp(setup[c]) \/ Applying(setup[c])) /\ RequestFits(setup[c])
    BY <1>2, WhereRequestIs, InstallFinds
  <2>2. ASSUME overlap = {}, SettingUp(setup[c]) PROVE file.next = setup[c].saving
    <3>1. setup[c].at = "save" /\ SetupFits(setup[c])
      BY <2>1, <2>2, InstallFinds DEF Applying, SettingUp
    <3> QED
      BY <3>1, <1>1 DEF SetupFits, FilesOf
  <2>3. ASSUME overlap = {}, Applying(setup[c]) PROVE file.next = setup[c].saving
    <3>1. ApplyFits(setup[c])
      BY <2>3, InstallFinds
    <3>2. PICK old \in Configs : FilesOf(setup[c], old)
      BY <3>1, <1>1 DEF ApplyFits
    <3> QED
      BY <3>2, <1>1 DEF FilesOf
  <2> QED
    BY <2>1, <2>2, <2>3
<1>4. CASE /\ file.next # None /\ file' = [file EXCEPT !.path = file.next, !.next = None]
           /\ Install!Saves(c, "drop") /\ Install!Fine
  <2>1. file' \in FileRecords /\ file'.path = file.next /\ file'.backup = file.backup /\ file'.next = None
    BY <1>2, <1>4 DEF FileRecords, Files
  <2>2. setup'[c].save = "drop" /\ setup'[c].saving = setup[c].saving
    BY <1>4, RequestSaves
  <2>3. \A old \in Configs \union {None} : FilesOf(setup[c], old) => FilesOf(setup[c], old)'
    BY <1>1, <2>1, <2>2 DEF FilesOf
  <2>4. bound' = bound
    BY <1>4 DEF Install!Fine
  <2> QED
    BY <1>1, <1>2, <1>3, <1>4, <2>1, <2>2, <2>3, <2>4, RequestSaves, InstallSaves
<1>5. ASSUME file' = restored, Install!Saves(c, "failed"),
             Install!Fails \/ (Install!Fine /\ file.next = None)
      PROVE  InstallInv'
  <2>1. unmoved \in FileRecords /\ unmoved.path = file.path /\ unmoved.backup = file.backup /\ unmoved.next = None
    BY <1>2 DEF FileRecords, Files
  <2> HIDE DEF unmoved
  <2>2. /\ file' \in FileRecords /\ file'.next = None
        /\ file'.path = IF back THEN file.backup ELSE file.path
        /\ file'.backup = IF back THEN None ELSE file.backup
    BY <1>2, <1>5, <2>1 DEF FileRecords, Files
  <2>3. setup'[c].save = "failed"
    BY <1>5, RequestSaves
  <2>4. \A old \in Configs \union {None} : FilesOf(setup[c], old) => FilesOf(setup[c], old)'
    BY <1>1, <1>2, <2>2, <2>3 DEF FilesOf
  <2>5. /\ bound' \in BoundRecords
        /\ bound' = bound \/ (bound'.failures = bound.failures + 1 /\ bound'.crashes = bound.crashes)
        /\ overlap = {} => bound'.failures = bound.failures + 1
    BY <1>2, <1>3, <1>5, OneFailsMore DEF Install!Fine
  <2> QED
    BY <1>1, <1>2, <1>5, <2>2, <2>3, <2>4, <2>5, RequestSaves, InstallSaves
<1> QED
  BY <1>1, <1>4, <1>5

LEMMA InstallDropBackup ==
    ASSUME InstallInv, NEW c \in Askers, Install!DropBackup(c)
    PROVE  InstallInv'
<1>1. /\ setup[c].save = "drop" /\ UNCHANGED <<server, database, worker, overlap, bound>>
      /\ file' = [file EXCEPT !.backup = None] /\ Install!Saves(c, "saved")
  BY DEF Install!DropBackup
<1>2. /\ file \in FileRecords /\ bound \in BoundRecords /\ setup[c].save \in Writes /\ None # Torn
      /\ overlap = {} => file.path # Torn /\ file.backup # Torn
  BY <1>1, InstallFinds, InstallAssumption DEF Writes, FilesFit
<1>3. file' \in FileRecords /\ file'.path = file.path /\ file'.backup = None /\ file'.next = file.next
  BY <1>1, <1>2 DEF FileRecords, Files
<1>4. setup'[c].save = "saved" /\ setup'[c].saving = setup[c].saving
  BY <1>1, RequestSaves
<1>5. \A old \in Configs \union {None} : FilesOf(setup[c], old) => FilesOf(setup[c], old)'
  BY <1>1, <1>3, <1>4 DEF FilesOf
<1> QED
  BY <1>1, <1>2, <1>3, <1>4, <1>5, RequestSaves, InstallSaves

LEMMA InstallBeginSetup ==
    ASSUME InstallInv, NEW c \in Askers, NEW config \in Configs, NEW reset \in SUBSET {"database", "storage"},
           Install!BeginSetup(c, config, reset)
    PROVE  InstallInv'
<1> DEFINE row == [Install!NoCall EXCEPT !.kind = "setup", !.at = "probe", !.candidate = config, !.reset = reset]
<1>1. /\ ~server.configured /\ server.active = None /\ \A d \in Askers : setup[d].kind # "setup"
      /\ server.up /\ setup[c].kind = "none" /\ setup' = [setup EXCEPT ![c] = row]
      /\ bound' = [bound EXCEPT !.calls = @ + 1]
      /\ UNCHANGED <<file, server, database, worker, overlap>>
  BY DEF Install!BeginSetup, Install!Arrive, Install!Set
<1>2. /\ setup \in [Askers -> RequestRecords] /\ bound \in BoundRecords
      /\ \A d \in Askers : setup[d] \in RequestRecords /\ RequestFits(setup[d])
  BY DEF InstallInv, InstallTypes
<1>3. /\ row \in RequestRecords /\ row.kind = "setup" /\ row.at = "probe" /\ row.save = "none"
      /\ row.candidate = config /\ row.provisioned = FALSE /\ row.initialized = FALSE
  <2> DEFINE fresh == Install!NoCall
  <2>1. /\ fresh \in RequestRecords /\ fresh.save = "none" /\ fresh.provisioned = FALSE /\ fresh.initialized = FALSE
    BY EmptyRequest DEF Install!NoCall
  <2> HIDE DEF fresh
  <2>2. "probe" \in SetupSteps
    BY DEF SetupSteps, Prepares
  <2>3. row = [fresh EXCEPT !.kind = "setup", !.at = "probe", !.candidate = config, !.reset = reset]
    BY DEF fresh
  <2> HIDE DEF row
  <2> QED
    BY <2>1, <2>2, <2>3 DEF RequestRecords
<1> HIDE DEF row
<1>4. setup'[c] = row /\ setup' \in [Askers -> RequestRecords]
      /\ \A d \in Askers : d # c => setup'[d] = setup[d]
  BY <1>1, <1>2, <1>3
<1>5. bound' \in BoundRecords /\ bound'.failures = bound.failures /\ bound'.crashes = bound.crashes
  BY <1>1, <1>2 DEF BoundRecords
<1>6. RequestFits(setup[c])' /\ SettingUp(setup'[c]) /\ ~Applying(setup'[c]) /\ Works(setup'[c])
  BY <1>3, <1>4 DEF RequestFits, SettingUp, Applying, Works, SetupSteps, Prepares
<1>7. InstallTypes'
  BY <1>1, <1>4, <1>5, InstallFinds DEF InstallTypes
<1>8. ASSUME overlap = {} PROVE InstallCalm'
  <2>1. InstallCalm
    BY <1>8 DEF InstallInv
  <2>2. ASSUME NEW d \in Askers PROVE ~Works(setup[d]) /\ ~SettingUp(setup[d]) /\ ~Applying(setup[d])
    <3>1. ~Applying(setup[d])
      BY <2>1, <1>1 DEF InstallCalm, ApplyFits
    <3> QED
      BY <3>1, <1>1, <1>2, WhereRequestIs DEF SettingUp
  <2>3. RestFits
    BY <2>1, <2>2, <1>1 DEF InstallCalm
  <2>4. SetupFits(setup[c])'
    BY <2>3, <1>1, <1>3, <1>4, <1>5 DEF RestFits, SetupFits, NoFiles
  <2>5. \A d \in Askers : d # c => ~Works(setup'[d]) /\ ~SettingUp(setup'[d]) /\ ~Applying(setup'[d])
    BY <2>2, <1>4
  <2>6. \A d \in Askers : /\ SettingUp(setup'[d]) => SetupFits(setup[d])'
                          /\ Applying(setup'[d]) => ApplyFits(setup[d])'
    BY <2>4, <2>5, <1>6
  <2>7. \A d, e \in Askers : Works(setup'[d]) /\ Works(setup'[e]) => d = e
    BY <2>5
  <2>8. FilesFit'
    BY <2>1, <1>1 DEF InstallCalm, FilesFit
  <2> QED
    BY <2>6, <2>7, <2>8, <1>6 DEF InstallCalm, FilesFit
<1>9. \A d \in Askers : RequestFits(setup[d])'
  BY <1>2, <1>4, <1>6
<1> QED
  BY <1>1, <1>7, <1>8, <1>9 DEF InstallInv

\* A request that stays outside of what the others work on leaves them calm.
LEMMA AsideKeepsCalm ==
    ASSUME InstallCalm, NEW c \in Askers, server.up, UNCHANGED <<file, server, database, worker>>,
           bound'.failures = bound.failures, bound'.crashes = bound.crashes, ~Works(setup[c]),
           ~SettingUp(setup'[c]), ~Applying(setup'[c]), ~Works(setup'[c]),
           \A d \in Askers : d # c => setup'[d] = setup[d]
    PROVE  InstallCalm'
<1>1. \A d \in Askers : /\ SettingUp(setup'[d]) => SetupFits(setup[d])'
                        /\ Applying(setup'[d]) => ApplyFits(setup[d])'
  <2>1. ASSUME NEW d \in Askers, d # c
        PROVE  /\ SettingUp(setup'[d]) => SetupFits(setup[d])'
               /\ Applying(setup'[d]) => ApplyFits(setup[d])'
    <3>1. /\ SettingUp(setup[d]) => SetupFits(setup[d])
          /\ Applying(setup[d]) => ApplyFits(setup[d])
      BY DEF InstallCalm
    <3>2. setup'[d] = setup[d]
      BY <2>1
    <3>3. SetupFits(setup[d]) => SetupFits(setup[d])'
      BY <3>2 DEF SetupFits, FilesOf, NoFiles
    <3>4. ApplyFits(setup[d]) => ApplyFits(setup[d])'
      BY <3>2 DEF ApplyFits, FilesOf, OneFile
    <3> QED
      BY <3>1, <3>2, <3>3, <3>4
  <2> QED
    BY <2>1
<1>2. (\A d \in Askers : ~Works(setup'[d])) => RestFits'
  <2>1. (\A d \in Askers : ~Works(setup'[d])) => RestFits
    BY DEF InstallCalm
  <2> QED
    BY <2>1 DEF RestFits, OneFile, NoFiles
<1>3. \A d, e \in Askers : Works(setup'[d]) /\ Works(setup'[e]) => d = e
  BY DEF InstallCalm
<1>4. FilesFit'
  BY DEF InstallCalm, FilesFit
<1> QED
  BY <1>1, <1>2, <1>3, <1>4 DEF InstallCalm, FilesFit

LEMMA InstallBeginApply ==
    ASSUME InstallInv, NEW c \in Askers, NEW seen \in Nat, Install!BeginApply(c, seen)
    PROVE  InstallInv'
<1> DEFINE row == [Install!NoCall EXCEPT !.kind = "apply", !.at = "queue", !.service = server.generation,
                                         !.expected = seen]
<1>1. /\ server.up /\ setup[c].kind = "none" /\ setup' = [setup EXCEPT ![c] = row]
      /\ bound' = [bound EXCEPT !.calls = @ + 1]
      /\ UNCHANGED <<file, server, database, worker, overlap>>
  BY DEF Install!BeginApply, Install!Arrive, Install!Set
<1>2. /\ setup \in [Askers -> RequestRecords] /\ bound \in BoundRecords /\ server.generation \in Nat
      /\ \A d \in Askers : setup[d] \in RequestRecords /\ RequestFits(setup[d])
  BY DEF InstallInv, InstallTypes, ServerRecords
<1>3. row \in RequestRecords /\ row.kind = "apply" /\ row.at = "queue" /\ row.save = "none"
  <2> DEFINE fresh == Install!NoCall
  <2>1. fresh \in RequestRecords /\ fresh.save = "none"
    BY EmptyRequest
  <2> HIDE DEF fresh
  <2>2. "queue" \in ApplySteps
    BY DEF ApplySteps
  <2>3. row = [fresh EXCEPT !.kind = "apply", !.at = "queue", !.service = server.generation, !.expected = seen]
    BY DEF fresh
  <2> HIDE DEF row
  <2> QED
    BY <2>1, <2>2, <2>3, <1>2 DEF RequestRecords
<1> HIDE DEF row
<1>4. setup'[c] = row /\ setup' \in [Askers -> RequestRecords]
      /\ \A d \in Askers : d # c => setup'[d] = setup[d]
  BY <1>1, <1>2, <1>3
<1>5. bound' \in BoundRecords /\ bound'.failures = bound.failures /\ bound'.crashes = bound.crashes
  BY <1>1, <1>2 DEF BoundRecords
<1>6. RequestFits(setup[c])' /\ ~SettingUp(setup'[c]) /\ ~Applying(setup'[c]) /\ ~Works(setup'[c])
  BY <1>3, <1>4 DEF RequestFits, SettingUp, Applying, Works, ApplySteps, Prepares
<1>7. InstallTypes'
  BY <1>1, <1>4, <1>5, InstallFinds DEF InstallTypes
<1>8. ASSUME overlap = {} PROVE InstallCalm'
  BY <1>1, <1>2, <1>4, <1>5, <1>6, <1>8, WhereRequestIs, AsideKeepsCalm DEF InstallInv
<1>9. \A d \in Askers : RequestFits(setup[d])'
  BY <1>2, <1>4, <1>6
<1> QED
  BY <1>1, <1>7, <1>8, <1>9 DEF InstallInv

LEMMA InstallApply ==
    ASSUME InstallInv, NEW c \in Askers, NEW config \in Configs, Install!Apply(c, config)
    PROVE  InstallInv'
<1> DEFINE row == [setup[c] EXCEPT !.at = "initialize", !.candidate = config, !.previous = server.active]
           others == \E d \in Askers \ {c} : setup[d].at \notin {"none", "queue"}
           ends == server.active = None \/ setup[c].expected # server.generation \/ config = server.active
<1>1. /\ setup[c].at = "queue" /\ UNCHANGED <<file, server, database, worker, bound>>
      /\ IF ends THEN Install!End(c) /\ UNCHANGED overlap
         ELSE /\ setup' = [setup EXCEPT ![c] = row]
              /\ overlap' = overlap \union IF others THEN {"settings"} ELSE {}
  BY DEF Install!Apply, Install!Set
<1>2. /\ setup[c] \in RequestRecords /\ RequestFits(setup[c]) /\ server \in ServerRecords
      /\ database \in DatabaseRecords /\ bound \in BoundRecords /\ setup \in [Askers -> RequestRecords]
      /\ file \in FileRecords /\ worker \in FollowerRecords /\ overlap \subseteq {"recovery", "settings"}
      /\ overlap = {} => FilesFit
  BY InstallFinds
<1>3. setup[c].kind = "apply" /\ ~Works(setup[c]) /\ setup[c].save = "none" /\ server.up
  BY <1>1, <1>2, InstallFinds DEF RequestFits, RequestRecords, SetupSteps, Prepares, Works
<1>4. CASE ends
  <2>1. Install!End(c) /\ UNCHANGED overlap
    BY <1>1, <1>4
  <2>2. /\ setup' = [setup EXCEPT ![c] = setup'[c]] /\ setup' \in [Askers -> RequestRecords]
        /\ setup'[c] = Install!NoCall /\ RequestFits(setup[c])'
        /\ ~SettingUp(setup'[c]) /\ ~Applying(setup'[c]) /\ ~Works(setup'[c])
    BY <2>1, RequestEnds
  <2>3. \A d \in Askers : d # c => setup'[d] = setup[d]
    BY <2>2, <1>2
  <2>4. InstallTypes'
    BY <1>1, <1>2, <2>1, <2>2 DEF InstallTypes
  <2>5. ASSUME overlap = {} PROVE InstallCalm'
    BY <1>1, <1>3, <2>2, <2>3, <2>5, AsideKeepsCalm DEF InstallInv
  <2>6. \A d \in Askers : RequestFits(setup[d])'
    BY <2>2, <2>3 DEF InstallInv
  <2> QED
    BY <1>1, <1>3, <2>1, <2>4, <2>5, <2>6 DEF InstallInv
<1>5. CASE ~ends
  <2>1. /\ setup' = [setup EXCEPT ![c] = row] /\ server.active \in Configs
        /\ overlap' = overlap \union IF others THEN {"settings"} ELSE {}
    BY <1>1, <1>2, <1>5 DEF ServerRecords
  <2>2. overlap' \subseteq {"recovery", "settings"} /\ (overlap' = {} => overlap = {} /\ ~others)
    BY <1>2, <2>1
  <2>3. /\ row \in RequestRecords /\ row.at = "initialize" /\ row.kind = "apply" /\ row.save = "none"
        /\ row.candidate = config /\ row.previous = server.active
    BY <1>2, <1>3, <2>1 DEF RequestRecords, ApplySteps
  <2> HIDE DEF row
  <2>4. setup'[c] = row /\ setup' \in [Askers -> RequestRecords]
    BY <1>2, <2>1, <2>3
  <2>5. RequestFits(setup[c])' /\ ~SettingUp(setup'[c]) /\ Applying(setup'[c]) /\ Works(setup'[c])
    BY <2>1, <2>3, <2>4 DEF RequestFits, SettingUp, Applying, Works, ApplySteps, Prepares
  <2>6. InstallTypes'
    BY <1>1, <1>2, <2>2, <2>4 DEF InstallTypes
  <2>7. ASSUME overlap' = {}
        PROVE  (\A d \in Askers : ~Works(setup[d])) /\ FilesFit' /\ ApplyFits(setup[c])'
    <3>1. \A d \in Askers : ~Works(setup[d])
      BY <2>2, <2>7, <1>3 DEF Works
    <3>2. FilesFit /\ RestFits
      BY <2>2, <2>7, <3>1, <1>2, <1>3 DEF InstallInv, InstallCalm
    <3>3. server.active # None /\ server.configured /\ OneFile
      BY <2>1, <3>2, InstallAssumption DEF RestFits
    <3>4. ApplyFits(setup[c])'
      BY <3>2, <3>3, <1>1, <2>3, <2>4 DEF ApplyFits, OneFile, RestFits
    <3> QED
      BY <3>1, <3>2, <3>4, <1>1 DEF FilesFit
  <2> QED
    BY <1>1, <1>3, <2>1, <2>2, <2>4, <2>5, <2>6, <2>7, InstallWorks
<1> QED
  BY <1>4, <1>5

LEMMA InstallPublishSettings ==
    ASSUME InstallInv, NEW c \in Askers, Install!InitializeSettings(c)
    PROVE  InstallInv'
<1> DEFINE row == [setup[c] EXCEPT !.at = "save", !.save = "write", !.saving = setup[c].candidate]
<1>1. /\ setup[c].kind = "apply" /\ setup[c].at = "initialize" /\ UNCHANGED <<file, database, worker, overlap>>
      /\ \/ Install!Initialize(setup[c].candidate) /\ setup' = [setup EXCEPT ![c] = row] /\ Install!Fine
         \/ Install!End(c) /\ Install!Fails /\ UNCHANGED server
  BY DEF Install!InitializeSettings, Install!BeginSave, Install!Set
<1>2. /\ setup[c] \in RequestRecords /\ RequestFits(setup[c]) /\ server \in ServerRecords
      /\ database \in DatabaseRecords /\ bound \in BoundRecords /\ setup \in [Askers -> RequestRecords]
      /\ overlap = {} => FilesFit /\ (Applying(setup[c]) => ApplyFits(setup[c]))
  BY InstallFinds
<1>3. /\ Applying(setup[c]) /\ Works(setup[c]) /\ setup[c].candidate \in Configs
      /\ setup[c].previous \in Configs /\ setup[c].save = "none" /\ bound.failures \in Nat
  BY <1>1, <1>2 DEF Applying, Works, RequestFits, BoundRecords
<1>4. CASE Install!Initialize(setup[c].candidate) /\ setup' = [setup EXCEPT ![c] = row] /\ Install!Fine
  <2>1. /\ server' \in ServerRecords /\ server'.active = setup[c].candidate /\ server'.up = server.up
        /\ server'.configured = server.configured /\ bound' = bound
    BY <1>2, <1>3, <1>4, Published DEF Install!Fine
  <2>2. /\ row \in RequestRecords /\ row.at = "save" /\ Alone(setup[c], row) /\ row.save = "write"
        /\ row.saving = setup[c].candidate
    BY <1>2 DEF RequestRecords, Alone, SetupSteps, Writes
  <2>3. setup' = [setup EXCEPT ![c] = row]
    BY <1>4
  <2> HIDE DEF row
  <2>4. setup'[c] = row /\ setup' \in [Askers -> RequestRecords]
    BY <2>2, <2>3, <1>2
  <2>5. setup'[c].kind = "apply"
    BY <2>2, <2>4, <1>1 DEF Alone
  <2>6. RequestFits(setup[c])'
    BY <1>3, <2>2, <2>4, <2>5 DEF RequestFits, Alone, Applying, SettingUp, ApplySteps, Prepares
  <2>7. ~SettingUp(setup'[c]) /\ Applying(setup'[c]) /\ Works(setup'[c])
    BY <2>2, <2>4, <2>5 DEF SettingUp, Applying, Works
  <2>8. InstallTypes'
    BY <1>1, <1>2, <2>1, <2>4, InstallFinds DEF InstallTypes
  <2>9. ASSUME overlap = {} PROVE FilesFit' /\ ApplyFits(setup[c])'
    <3>1. FilesFit /\ ApplyFits(setup[c]) /\ OneFile /\ server.configured
      BY <2>9, <1>2, <1>3 DEF ApplyFits
    <3>2. bound.failures <= 1 => file.path = setup[c].previous
      BY <3>1, <1>1 DEF ApplyFits
    <3>3. \E old \in Configs : FilesOf(setup[c], old)' /\ (bound'.failures <= 1 => old = setup'[c].previous)
      BY <3>1, <3>2, <1>1, <2>1, <2>2, <2>4 DEF FilesOf, OneFile, Alone
    <3> QED
      BY <3>1, <3>3, <1>1, <1>3, <2>1, <2>2, <2>4, InstallAssumption DEF FilesFit, ApplyFits, Alone
  <2> QED
    BY <1>1, <1>3, <2>1, <2>3, <2>4, <2>6, <2>7, <2>8, <2>9, InstallWorks
<1>5. CASE Install!End(c) /\ Install!Fails /\ UNCHANGED server
  <2>1. bound' \in BoundRecords /\ bound'.failures = bound.failures + 1 /\ bound'.crashes = bound.crashes
    BY <1>5, OneFailsMore
  <2>2. ASSUME overlap = {} PROVE FilesFit' /\ RestFits'
    <3>1. FilesFit /\ ApplyFits(setup[c]) /\ OneFile /\ server.configured
      BY <2>2, <1>2, <1>3 DEF ApplyFits
    <3>2. bound.failures <= 1 => file.path = server.active
      BY <3>1, <1>1 DEF ApplyFits
    <3> QED
      BY <3>1, <3>2, <1>1, <1>3, <1>5, <2>1 DEF FilesFit, RestFits, OneFile
  <2> QED
    BY <1>1, <1>2, <1>3, <1>5, <2>1, <2>2, InstallEnds
<1> QED
  BY <1>1, <1>4, <1>5

(* The files after a save that was done, or undone.                          *)
LEMMA AfterSave ==
    ASSUME InstallInv, NEW c \in Askers, Applying(setup[c]), overlap = {},
           setup[c].save \in {"saved", "failed"}
    PROVE  /\ OneFile /\ ApplyFits(setup[c])
           /\ setup[c].save = "saved" => file.path = setup[c].saving
           /\ setup[c].save = "failed" /\ bound.failures <= 1 => file.path = setup[c].previous
<1>1. ApplyFits(setup[c]) /\ RequestFits(setup[c]) /\ setup[c] \in RequestRecords
  BY InstallFinds
<1>2. PICK old \in Configs : FilesOf(setup[c], old) /\ (bound.failures <= 1 => old = setup[c].previous)
  BY <1>1 DEF ApplyFits
<1>3. setup[c].save = "saved" => setup[c].saving \in Configs
  <2>1. setup[c].save = "saved" => setup[c].at \in {"save", "saveBack"}
    BY <1>1, WhereRequestIs
  <2> QED
    BY <2>1, <1>1 DEF RequestFits
<1> QED
  BY <1>1, <1>2, <1>3, InstallAssumption DEF FilesOf, OneFile

LEMMA InstallFinishApply ==
    ASSUME InstallInv, NEW c \in Askers, Install!FinishApply(c)
    PROVE  InstallInv'
<1>1. /\ setup[c].kind = "apply" /\ setup[c].at = "save" /\ UNCHANGED <<file, server, database, worker, overlap, bound>>
      /\ \/ setup[c].save = "saved" /\ Install!End(c)
         \/ setup[c].save = "failed" /\ server.active = setup[c].candidate /\ Install!Go(c, "back")
         \/ setup[c].save = "failed" /\ server.active # setup[c].candidate /\ Install!End(c)
  BY DEF Install!FinishApply
<1>2. /\ setup[c] \in RequestRecords /\ RequestFits(setup[c]) /\ server \in ServerRecords
      /\ database \in DatabaseRecords /\ bound \in BoundRecords
      /\ overlap = {} => FilesFit /\ (Applying(setup[c]) => ApplyFits(setup[c]))
  BY InstallFinds
<1>3. /\ Applying(setup[c]) /\ Works(setup[c]) /\ setup[c].candidate \in Configs
      /\ setup[c].previous \in Configs /\ setup[c].saving = setup[c].candidate
  BY <1>1, <1>2 DEF Applying, Works, RequestFits
<1>4. ASSUME Install!End(c), setup[c].save \in {"saved", "failed"},
             setup[c].save = "failed" => server.active # setup[c].candidate
      PROVE  InstallInv'
  <2>1. ASSUME overlap = {} PROVE FilesFit' /\ RestFits'
    <3>1. /\ OneFile /\ ApplyFits(setup[c])
          /\ setup[c].save = "saved" => file.path = setup[c].saving
      BY <1>3, <1>4, <2>1, AfterSave
    <3>2. bound.failures <= 1 => server.active = setup[c].candidate
      BY <3>1, <1>1 DEF ApplyFits
    <3>3. server.configured /\ FilesFit
      BY <3>1, <2>1, <1>2 DEF ApplyFits
    <3> QED
      BY <3>1, <3>2, <3>3, <1>1, <1>3, <1>4 DEF FilesFit, RestFits, OneFile
  <2> QED
    BY <1>1, <1>2, <1>3, <1>4, <2>1, InstallEnds
<1>5. CASE setup[c].save = "failed" /\ server.active = setup[c].candidate /\ Install!Go(c, "back")
  <2>1. /\ setup' = [setup EXCEPT ![c] = setup'[c]] /\ setup' \in [Askers -> RequestRecords]
        /\ setup'[c].at = "back" /\ Alone(setup[c], setup'[c]) /\ setup'[c].save = "failed"
        /\ setup'[c].saving = setup[c].saving
    BY <1>5, RequestGoes DEF ApplySteps
  <2>2. setup'[c].kind = "apply"
    BY <2>1, <1>1 DEF Alone
  <2>3. RequestFits(setup[c])'
    BY <1>3, <2>1, <2>2 DEF RequestFits, Alone, Applying, SettingUp, ApplySteps, Prepares
  <2>4. ~SettingUp(setup'[c]) /\ Applying(setup'[c]) /\ Works(setup'[c])
    BY <2>1, <2>2 DEF SettingUp, Applying, Works
  <2>5. InstallTypes'
    BY <1>1, <1>2, <2>1, InstallFinds DEF InstallTypes
  <2>6. ASSUME overlap = {} PROVE FilesFit' /\ ApplyFits(setup[c])'
    <3>1. FilesFit /\ ApplyFits(setup[c])
      BY <2>6, <1>2, <1>3
    <3>2. PICK old \in Configs : FilesOf(setup[c], old) /\ (bound.failures <= 1 => old = setup[c].previous)
      BY <3>1, <1>5 DEF ApplyFits
    <3>3. FilesOf(setup[c], old)' /\ (bound'.failures <= 1 => old = setup'[c].previous)
      BY <3>2, <1>1, <1>5, <2>1 DEF FilesOf, Alone
    <3> QED
      BY <3>1, <3>3, <1>1, <1>5, <2>1 DEF FilesFit, ApplyFits, Alone
  <2> QED
    BY <1>1, <1>3, <2>1, <2>3, <2>4, <2>5, <2>6, InstallWorks
<1> QED
  BY <1>1, <1>4, <1>5

LEMMA InstallBack ==
    ASSUME InstallInv, NEW c \in Askers, Install!InitializeBack(c)
    PROVE  InstallInv'
<1> DEFINE row == [setup[c] EXCEPT !.at = "saveBack", !.save = "write", !.saving = setup[c].previous]
<1>1. /\ setup[c].at = "back" /\ UNCHANGED <<file, database, worker, overlap>>
      /\ setup' = [setup EXCEPT ![c] = row]
      /\ (Install!Initialize(setup[c].previous) /\ Install!Fine) \/ (Install!Fails /\ UNCHANGED server)
  BY DEF Install!InitializeBack, Install!BeginSave, Install!Set
<1>2. /\ setup[c] \in RequestRecords /\ RequestFits(setup[c]) /\ server \in ServerRecords
      /\ database \in DatabaseRecords /\ bound \in BoundRecords /\ setup \in [Askers -> RequestRecords]
      /\ overlap = {} => FilesFit /\ (Applying(setup[c]) => ApplyFits(setup[c]))
  BY InstallFinds
<1>3. /\ Applying(setup[c]) /\ Works(setup[c]) /\ setup[c].kind = "apply"
      /\ setup[c].save = "failed" /\ bound.failures \in Nat
  BY <1>1, <1>2, WhereRequestIs DEF RequestFits, BoundRecords, Applying
<1>4. setup[c].candidate \in Configs /\ setup[c].previous \in Configs
  BY <1>2, <1>3 DEF RequestFits
<1>5. /\ server' \in ServerRecords /\ server'.up = server.up /\ server'.configured = server.configured
      /\ bound' \in BoundRecords /\ bound'.failures \in Nat /\ bound'.failures >= bound.failures
      /\ server'.active = setup[c].previous \/ (server'.active = server.active /\ bound'.failures = bound.failures + 1)
  <2>1. CASE Install!Initialize(setup[c].previous) /\ Install!Fine
    BY <2>1, <1>2, <1>3, <1>4, Published DEF Install!Fine
  <2>2. CASE Install!Fails /\ UNCHANGED server
    BY <2>2, <1>2, <1>3, OneFailsMore
  <2> QED
    BY <1>1, <2>1, <2>2
<1>6. /\ row \in RequestRecords /\ row.at = "saveBack" /\ Alone(setup[c], row) /\ row.save = "write"
      /\ row.saving = setup[c].previous
  BY <1>2 DEF RequestRecords, Alone, ApplySteps, Writes
<1>7. setup' = [setup EXCEPT ![c] = row]
  BY <1>1
<1> HIDE DEF row
<1>8. setup'[c] = row /\ setup' \in [Askers -> RequestRecords] /\ setup'[c].kind = "apply"
  BY <1>2, <1>3, <1>6, <1>7 DEF Alone
<1>9. RequestFits(setup[c])'
  BY <1>4, <1>6, <1>8 DEF RequestFits, Alone, Applying, SettingUp, ApplySteps, Prepares
<1>10. ~SettingUp(setup'[c]) /\ Applying(setup'[c]) /\ Works(setup'[c])
  BY <1>6, <1>8 DEF SettingUp, Applying, Works
<1>11. InstallTypes'
  BY <1>1, <1>2, <1>5, <1>8, InstallFinds DEF InstallTypes
<1>12. ASSUME overlap = {} PROVE FilesFit' /\ ApplyFits(setup[c])'
  <2>1. /\ FilesFit /\ ApplyFits(setup[c]) /\ OneFile
        /\ bound.failures <= 1 => file.path = setup[c].previous
    BY <1>2, <1>3, <1>12, AfterSave
  <2>2. server.configured /\ server.active # None /\ bound.failures >= 1
    BY <2>1, <1>1 DEF ApplyFits
  <2>3. server'.active # None /\ (bound'.failures <= 1 => server'.active = setup'[c].previous)
    BY <2>2, <1>3, <1>4, <1>5, <1>6, <1>8, InstallAssumption DEF Alone
  <2>4. \E old \in Configs : FilesOf(setup[c], old)' /\ (bound'.failures <= 1 => old = setup'[c].previous)
    BY <2>1, <1>1, <1>3, <1>5, <1>6, <1>8 DEF FilesOf, OneFile, Alone
  <2>5. FilesFit'
    BY <2>1, <1>1, <1>5 DEF FilesFit
  <2> QED
    BY <2>2, <2>3, <2>4, <2>5, <1>3, <1>5, <1>6, <1>8 DEF ApplyFits
<1> QED
  BY <1>1, <1>3, <1>5, <1>7, <1>8, <1>9, <1>10, <1>11, <1>12, InstallWorks

LEMMA InstallFinishBack ==
    ASSUME InstallInv, NEW c \in Askers, Install!FinishBack(c)
    PROVE  InstallInv'
<1>1. /\ setup[c].at = "saveBack" /\ setup[c].save \in {"saved", "failed"} /\ Install!End(c)
      /\ UNCHANGED <<file, server, database, worker, overlap, bound>>
  BY DEF Install!FinishBack
<1>2. /\ setup[c] \in RequestRecords /\ RequestFits(setup[c]) /\ server \in ServerRecords
      /\ database \in DatabaseRecords /\ bound \in BoundRecords
      /\ overlap = {} => FilesFit /\ (Applying(setup[c]) => ApplyFits(setup[c]))
  BY InstallFinds
<1>3. Applying(setup[c]) /\ Works(setup[c]) /\ setup[c].kind # "none" /\ bound.failures \in Nat
  BY <1>1, <1>2, WhereRequestIs DEF Applying, BoundRecords
<1>4. setup[c].saving = setup[c].previous
  BY <1>1, <1>2 DEF RequestFits
<1>5. ASSUME overlap = {} PROVE FilesFit' /\ RestFits'
  <2>1. /\ OneFile /\ ApplyFits(setup[c]) /\ FilesFit
        /\ setup[c].save = "saved" => file.path = setup[c].saving
    BY <1>1, <1>2, <1>3, <1>5, AfterSave
  <2>2. server.configured /\ (bound.failures <= 1 => setup[c].save = "saved" /\ server.active = setup[c].previous)
    BY <2>1, <1>1, <1>3 DEF ApplyFits
  <2> QED
    BY <2>1, <2>2, <1>1, <1>4 DEF FilesFit, RestFits, OneFile
<1> QED
  BY <1>1, <1>2, <1>3, <1>5, InstallEnds

(* The worker, and the server when no request is under way.                  *)

LEMMA InstallFollows ==
    ASSUME InstallInv, UNCHANGED <<setup, server, database>>, file' \in FileRecords, worker' \in FollowerRecords,
           bound' \in BoundRecords, bound'.failures >= bound.failures, bound'.crashes >= bound.crashes,
           worker'.up => server.up, overlap' \subseteq {"recovery", "settings"},
           overlap' = {} =>
               /\ overlap = {}
               /\ \/ file' = file
                  \/ /\ \A c \in Askers : setup[c].save \notin Writes
                     /\ file'.path = file.path /\ file'.next = None /\ file'.backup = None
    PROVE  InstallInv'
<1>1. /\ InstallTypes /\ bound.failures \in Nat /\ bound.crashes \in Nat /\ bound'.failures \in Nat
      /\ bound'.crashes \in Nat
      /\ \A c \in Askers : setup[c] \in RequestRecords /\ RequestFits(setup[c])
  BY DEF InstallInv, InstallTypes, BoundRecords
<1>2. InstallTypes'
  BY <1>1 DEF InstallTypes
<1>3. ASSUME overlap' = {} PROVE InstallCalm'
  <2>1. /\ InstallCalm /\ None \notin Configs /\ None # Torn
        /\ \/ file' = file
           \/ /\ \A c \in Askers : setup[c].save \notin Writes
              /\ file'.path = file.path /\ file'.next = None /\ file'.backup = None
    BY <1>3, InstallAssumption DEF InstallInv
  <2>2. FilesFit'
    BY <2>1 DEF InstallCalm, FilesFit
  <2>3. (NoFiles => NoFiles') /\ (OneFile => OneFile')
    BY <2>1 DEF NoFiles, OneFile
  <2>4. ASSUME NEW c \in Askers, NEW old, FilesOf(setup[c], old), setup[c].save # "none"
        PROVE  FilesOf(setup[c], old)'
    BY <2>1, <2>4 DEF FilesOf, Writes
  <2>5. ASSUME NEW c \in Askers, SettingUp(setup[c]) PROVE SetupFits(setup[c])'
    <3>1. SetupFits(setup[c])
      BY <2>1, <2>5 DEF InstallCalm
    <3>2. setup[c].at = "save" => setup[c].save # "none"
      BY <1>1 DEF RequestFits
    <3>3. setup[c].at = "save" => FilesOf(setup[c], None)'
      BY <3>1, <3>2, <2>4 DEF SetupFits
    <3> QED
      BY <3>1, <3>3, <2>3, <1>1 DEF SetupFits
  <2>6. ASSUME NEW c \in Askers, Applying(setup[c]) PROVE ApplyFits(setup[c])'
    <3>1. ApplyFits(setup[c])
      BY <2>1, <2>6 DEF InstallCalm
    <3>2. setup[c].save # "none" => \E old \in Configs : FilesOf(setup[c], old)'
                                        /\ (bound'.failures <= 1 => old = setup'[c].previous)
      BY <3>1, <2>4, <1>1 DEF ApplyFits
    <3>3. file'.path = file.path
      BY <2>1
    <3> QED
      BY <3>1, <3>2, <3>3, <2>3, <1>1 DEF ApplyFits
  <2>7. RestFits => RestFits'
    BY <2>1, <2>3, <1>1 DEF RestFits
  <2> QED
    BY <2>1, <2>2, <2>5, <2>6, <2>7 DEF InstallCalm, FilesFit
<1> QED
  BY <1>1, <1>2, <1>3 DEF InstallInv

(* Between two saves nothing is left to recover.                             *)
LEMMA NothingToRecover ==
    ASSUME InstallInv, overlap = {}, server.up, \A c \in Askers : setup[c].save \notin Writes
    PROVE  file.next \notin Configs /\ file.backup = None
<1>1. InstallCalm /\ \A c \in Askers : setup[c] \in RequestRecords /\ RequestFits(setup[c])
  BY DEF InstallInv, InstallTypes
<1>2. CASE \A c \in Askers : ~Works(setup[c])
  BY <1>1, <1>2 DEF InstallCalm, RestFits, OneFile, NoFiles
<1>3. ASSUME NEW c \in Askers, SettingUp(setup[c]) PROVE file.next \notin Configs /\ file.backup = None
  <2>1. SetupFits(setup[c]) /\ setup[c] \in RequestRecords /\ RequestFits(setup[c]) /\ setup[c].save \notin Writes
    BY <1>1, <1>3 DEF InstallCalm
  <2>2. setup[c].at = "save" => setup[c].save \in {"saved", "failed"}
    BY <2>1 DEF RequestRecords, RequestFits
  <2> QED
    BY <2>1, <2>2, InstallAssumption DEF SetupFits, NoFiles, FilesOf
<1>4. ASSUME NEW c \in Askers, Applying(setup[c]) PROVE file.next \notin Configs /\ file.backup = None
  <2>1. ApplyFits(setup[c]) /\ setup[c] \in RequestRecords /\ setup[c].save \notin Writes
    BY <1>1, <1>4 DEF InstallCalm
  <2>2. setup[c].save \in {"none", "saved", "failed"}
    BY <2>1 DEF RequestRecords
  <2>3. CASE setup[c].save = "none"
    BY <2>1, <2>3 DEF ApplyFits, OneFile
  <2>4. CASE setup[c].save # "none"
    <3>1. PICK old \in Configs : FilesOf(setup[c], old)
      BY <2>1, <2>4 DEF ApplyFits
    <3> QED
      BY <3>1, <2>2, <2>4, InstallAssumption DEF FilesOf
  <2> QED
    BY <2>3, <2>4
<1> QED
  BY <1>1, <1>2, <1>3, <1>4, WhereRequestIs

LEMMA InstallRecover ==
    ASSUME InstallInv, Install!RecoverFiles
    PROVE  InstallInv'
<1> DEFINE gone == worker.recovery # "clean" /\ file[worker.recovery] = None
           saves == \E c \in Askers : Install!Saving(c)
           crosses == Install!RecoverFrom(file) # worker.recovery \/ saves
<1>1. /\ worker.up /\ worker.recovery \in {"clean", "next", "backup"} /\ UNCHANGED <<server, setup, database, bound>>
      /\ IF gone THEN Install!ExitWorker /\ file' = [file EXCEPT !.path = None]
         ELSE worker' = [worker EXCEPT !.recovery = "ran"] /\ file' = Install!Recovered(file, worker.recovery)
      /\ overlap' = overlap \union IF crosses THEN {"recovery"} ELSE {}
  BY DEF Install!RecoverFiles
<1>2. /\ file \in FileRecords /\ worker \in FollowerRecords /\ bound \in BoundRecords
      /\ overlap \subseteq {"recovery", "settings"} /\ server.up
  BY <1>1 DEF InstallInv, InstallTypes, ServerRecords
<1>3. worker' \in FollowerRecords
  BY <1>1, <1>2 DEF FollowerRecords, Install!ExitWorker
<1>4. file' \in FileRecords
  <2>1. CASE gone
    BY <1>1, <1>2, <2>1 DEF FileRecords, Files
  <2>2. CASE ~gone
    <3>1. file' = CASE worker.recovery = "clean" -> [file EXCEPT !.next = None, !.backup = None]
                    [] worker.recovery = "next" -> [path |-> file.next, next |-> None, backup |-> None]
                    [] worker.recovery = "backup" -> [path |-> file.backup, next |-> None, backup |-> None]
                    [] OTHER -> file
      BY <1>1, <2>2 DEF Install!Recovered
    <3> HIDE DEF gone
    <3> QED
      BY <3>1, <1>1, <1>2 DEF FileRecords, Files
  <2> QED
    BY <2>1, <2>2
<1>5. overlap' \subseteq {"recovery", "settings"} /\ (overlap' = {} => overlap = {} /\ ~crosses)
  <2> HIDE DEF crosses
  <2> QED
    BY <1>1, <1>2
<1>6. ASSUME overlap' = {}
      PROVE  /\ \A c \in Askers : setup[c].save \notin Writes
             /\ file'.path = file.path /\ file'.next = None /\ file'.backup = None
  <2>1. overlap = {} /\ Install!RecoverFrom(file) = worker.recovery /\ ~saves
    BY <1>5, <1>6
  <2>2. \A c \in Askers : setup[c].save \notin Writes
    BY <2>1 DEF Install!Saving, Writes
  <2>3. file.next \notin Configs /\ file.backup = None
    BY <2>1, <2>2, <1>2, NothingToRecover
  <2>4. worker.recovery = "clean"
    BY <2>1, <2>3, <1>1, InstallAssumption DEF Install!RecoverFrom
  <2>5. file' = [file EXCEPT !.next = None, !.backup = None]
    BY <2>4, <1>1 DEF Install!Recovered
  <2> QED
    BY <2>2, <2>5, <1>2 DEF FileRecords
<1>7. bound.failures \in Nat /\ bound.crashes \in Nat
  BY <1>2 DEF BoundRecords
<1> QED
  BY <1>1, <1>2, <1>3, <1>4, <1>5, <1>6, <1>7, InstallFollows

LEMMA InstallWorker ==
    ASSUME InstallInv, Install!Worker \/ Install!CrashWorker
    PROVE  InstallInv'
<1>1. /\ file \in FileRecords /\ worker \in FollowerRecords /\ bound \in BoundRecords /\ server \in ServerRecords
      /\ overlap \subseteq {"recovery", "settings"} /\ (worker.up => server.up)
      /\ bound.failures \in Nat /\ bound.crashes \in Nat
  BY DEF InstallInv, InstallTypes, BoundRecords, FollowerRecords, ServerRecords
<1>2. CASE Install!StartWorker
  <2>1. /\ worker' = [up |-> TRUE, config |-> None, recovery |-> "check"] /\ server.up
        /\ UNCHANGED <<file, server, setup, database, overlap, bound>>
    BY <1>2 DEF Install!StartWorker
  <2>2. worker' \in FollowerRecords
    BY <2>1 DEF FollowerRecords
  <2> QED
    BY <1>1, <2>1, <2>2, InstallFollows
<1>3. CASE Install!CheckFiles
  <2>1. /\ worker' = [worker EXCEPT !.recovery = Install!RecoverFrom(file)] /\ worker.up
        /\ UNCHANGED <<file, server, setup, database, overlap, bound>>
    BY <1>3 DEF Install!CheckFiles
  <2>2. Install!RecoverFrom(file) \in {"clean", "next", "backup", "ran"}
    BY DEF Install!RecoverFrom
  <2>3. worker' \in FollowerRecords
    BY <1>1, <2>1, <2>2 DEF FollowerRecords
  <2> QED
    BY <1>1, <2>1, <2>3, InstallFollows
<1>4. CASE Install!RecoverFiles
  BY <1>4, InstallRecover
<1>5. CASE Install!FollowConfiguration
  <2>1. /\ worker.up /\ UNCHANGED <<file, server, setup, database, overlap>>
        /\ \/ file.path \in Configs /\ worker' = [worker EXCEPT !.config = file.path] /\ Install!Fine
           \/ Install!Fails /\ (Install!ExitWorker \/ UNCHANGED worker)
    BY <1>5 DEF Install!FollowConfiguration
  <2>2. worker' \in FollowerRecords
    BY <1>1, <2>1 DEF FollowerRecords, Install!ExitWorker
  <2>3. bound' \in BoundRecords /\ bound'.failures >= bound.failures /\ bound'.crashes >= bound.crashes
    <3>1. CASE Install!Fine
      BY <1>1, <3>1 DEF Install!Fine
    <3>2. CASE Install!Fails
      BY <1>1, <3>2, OneFailsMore
    <3> QED
      BY <2>1, <3>1, <3>2
  <2> QED
    BY <1>1, <2>1, <2>2, <2>3, InstallFollows
<1>6. CASE Install!CrashWorker
  <2>1. /\ bound' = [bound EXCEPT !.crashes = @ + 1] /\ Install!ExitWorker
        /\ UNCHANGED <<file, server, setup, database, overlap>>
    BY <1>6 DEF Install!CrashWorker
  <2>2. bound' \in BoundRecords /\ bound'.failures = bound.failures /\ bound'.crashes = bound.crashes + 1
    BY <1>1, <2>1 DEF BoundRecords
  <2>3. worker' \in FollowerRecords /\ ~worker'.up
    BY <1>1, <2>1 DEF FollowerRecords, Install!ExitWorker
  <2> QED
    BY <1>1, <2>1, <2>2, <2>3, InstallFollows
<1> QED
  BY <1>2, <1>3, <1>4, <1>5, <1>6 DEF Install!Worker

LEMMA InstallCrash ==
    ASSUME InstallInv, Install!CrashServer
    PROVE  InstallInv'
<1>1. /\ bound' = [bound EXCEPT !.crashes = @ + 1] /\ (file' = file \/ file' = [file EXCEPT !.next = Torn])
      /\ server' = [up |-> FALSE, configured |-> FALSE, active |-> None, generation |-> 0]
      /\ worker' = [worker EXCEPT !.up = FALSE, !.config = None]
      /\ setup' = [c \in Askers |-> Install!NoCall]
      /\ UNCHANGED <<database, overlap>>
  BY DEF Install!CrashServer, Install!Down
<1>2. InstallTypes /\ None \notin Configs /\ Torn \notin Configs
  BY InstallAssumption DEF InstallInv
<1>3. bound' \in BoundRecords /\ bound'.crashes >= 1
  BY <1>1, <1>2 DEF InstallTypes, BoundRecords
<1>4. worker' \in FollowerRecords /\ ~worker'.up
  BY <1>1, <1>2 DEF InstallTypes, FollowerRecords
<1>5. file' \in FileRecords /\ file'.path = file.path /\ file'.backup = file.backup
      /\ (file'.next \in Configs => file'.next = file.next)
  BY <1>1, <1>2 DEF InstallTypes, FileRecords, Files
<1>6. server' \in ServerRecords /\ ~server'.up /\ ~server'.configured /\ server'.active = None
  BY <1>1 DEF ServerRecords
<1>7. setup' \in [Askers -> RequestRecords] /\ \A c \in Askers : setup'[c] = Install!NoCall
  BY <1>1, EmptyRequest
<1>8. InstallTypes'
  BY <1>1, <1>2, <1>3, <1>4, <1>5, <1>6, <1>7 DEF InstallTypes
<1>9. overlap = {} => FilesFit'
  BY <1>1, <1>5, <1>6 DEF InstallInv, InstallCalm, FilesFit
<1> QED
  BY <1>1, <1>3, <1>4, <1>6, <1>7, <1>8, <1>9, EmptyRequest DEF InstallInv, InstallCalm, FilesFit

LEMMA InstallStart ==
    ASSUME InstallInv, Install!StartServer
    PROVE  InstallInv'
<1>1. /\ ~server.up /\ file' = Install!Recovered(file, Install!RecoverFrom(file))
      /\ server' = [up |-> TRUE, configured |-> file'.path \in Configs, active |-> None, generation |-> 0]
      /\ UNCHANGED <<setup, database, worker, overlap, bound>>
  BY DEF Install!StartServer, Install!Down
<1>2. InstallTypes /\ None \notin Configs /\ Torn \notin Configs /\ file \in FileRecords /\ bound.crashes >= 1
      /\ bound.crashes \in Nat
      /\ \A c \in Askers : setup[c] \in RequestRecords /\ RequestFits(setup[c]) /\ setup[c].kind = "none"
  BY <1>1, InstallAssumption DEF InstallInv, InstallTypes, BoundRecords
<1>3. /\ file.path \in Configs => file' = [file EXCEPT !.next = None, !.backup = None]
      /\ file.path \notin Configs /\ file.next \in Configs
         => file' = [path |-> file.next, next |-> None, backup |-> None]
      /\ file.path \notin Configs /\ file.next \notin Configs /\ file.backup \in Configs
         => file' = [path |-> file.backup, next |-> None, backup |-> None]
      /\ (\A f \in {"path", "next", "backup"} : file[f] \notin Configs) => file' = file
  BY <1>1 DEF Install!Recovered, Install!RecoverFrom
<1>4. /\ file' \in FileRecords
      /\ \/ /\ file'.path \in Configs /\ file'.next = None /\ file'.backup = None
            /\ \E f \in {"path", "next", "backup"} : file[f] \in Configs
         \/ file' = file /\ \A f \in {"path", "next", "backup"} : file[f] \notin Configs
  <2>1. CASE file.path \in Configs
    <3>1. file' = [file EXCEPT !.next = None, !.backup = None]
      BY <2>1, <1>3
    <3> QED
      BY <2>1, <3>1, <1>2 DEF FileRecords, Files
  <2>2. CASE file.path \notin Configs /\ file.next \in Configs
    <3>1. file' = [path |-> file.next, next |-> None, backup |-> None]
      BY <2>2, <1>3
    <3> QED
      BY <2>2, <3>1 DEF FileRecords, Files
  <2>3. CASE file.path \notin Configs /\ file.next \notin Configs /\ file.backup \in Configs
    <3>1. file' = [path |-> file.backup, next |-> None, backup |-> None]
      BY <2>3, <1>3
    <3> QED
      BY <2>3, <3>1 DEF FileRecords, Files
  <2>4. CASE file.path \notin Configs /\ file.next \notin Configs /\ file.backup \notin Configs
    <3>1. \A f \in {"path", "next", "backup"} : file[f] \notin Configs
      BY <2>4
    <3>2. file' = file
      BY <3>1, <1>3
    <3> QED
      BY <3>1, <3>2, <1>2
  <2> QED
    BY <2>1, <2>2, <2>3, <2>4
<1>5. server' \in ServerRecords /\ server'.up /\ (server'.configured <=> file'.path \in Configs) /\ server'.active = None
  <2> DEFINE there == file'.path \in Configs
  <2>1. there \in BOOLEAN /\ server' = [up |-> TRUE, configured |-> there, active |-> None, generation |-> 0]
    BY <1>1
  <2> HIDE DEF there
  <2>2. server' \in ServerRecords /\ server'.up /\ server'.configured = there /\ server'.active = None
    BY <2>1 DEF ServerRecords
  <2> QED
    BY <2>1, <2>2 DEF there
<1>6. InstallTypes'
  BY <1>1, <1>2, <1>4, <1>5 DEF InstallTypes
<1>7. \A c \in Askers : ~Works(setup[c]) /\ ~SettingUp(setup[c]) /\ ~Applying(setup[c])
  BY <1>2, WhereRequestIs DEF SettingUp, Applying
<1>8. ASSUME overlap = {} PROVE FilesFit' /\ RestFits'
  <2>1. FilesFit
    BY <1>8 DEF InstallInv, InstallCalm, FilesFit
  <2>2. \/ OneFile' /\ \E f \in {"path", "next", "backup"} : file[f] \in Configs
        \/ NoFiles' /\ file' = file
    BY <2>1, <1>2, <1>4 DEF FilesFit, OneFile, NoFiles, FileRecords, Files
  <2>3. FilesFit'
    BY <2>1, <2>2, <1>1, <1>2, <1>5, InstallAssumption DEF FilesFit, OneFile, NoFiles
  <2>4. RestFits'
    BY <2>2, <1>1, <1>2, <1>5 DEF RestFits, OneFile, NoFiles
  <2> QED
    BY <2>3, <2>4
<1>9. /\ \A c, d \in Askers : Works(setup'[c]) /\ Works(setup'[d]) => c = d
      /\ \A c \in Askers : RequestFits(setup[c])' /\ ~SettingUp(setup'[c]) /\ ~Applying(setup'[c])
  BY <1>1, <1>2, <1>7
<1>10. overlap' = {} => InstallCalm'
  BY <1>1, <1>8, <1>9 DEF InstallCalm, FilesFit
<1> QED
  BY <1>5, <1>6, <1>9, <1>10 DEF InstallInv

LEMMA InstallAtStart ==
    ASSUME InstallInv, Install!InitializeAtStart
    PROVE  InstallInv'
<1>1. /\ server.up /\ server.configured /\ \A c \in Askers : setup[c].kind = "none"
      /\ \/ Install!Initialize(file.path) /\ file.path \in Configs /\ Install!Fine
         \/ Install!Fails /\ UNCHANGED server
      /\ UNCHANGED <<file, setup, database, worker, overlap>>
  BY DEF Install!InitializeAtStart
<1>2. /\ InstallTypes /\ server \in ServerRecords /\ bound \in BoundRecords /\ bound.failures \in Nat
      /\ \A c \in Askers : setup[c] \in RequestRecords /\ RequestFits(setup[c])
  BY DEF InstallInv, InstallTypes, BoundRecords
<1>3. CASE Install!Fails /\ UNCHANGED server
  <2>1. bound' \in BoundRecords /\ bound'.failures >= bound.failures /\ bound'.crashes >= bound.crashes
    <3>1. bound.crashes \in Nat
      BY <1>2 DEF BoundRecords
    <3> QED
      BY <3>1, <1>2, <1>3, OneFailsMore
  <2>2. file \in FileRecords /\ worker \in FollowerRecords /\ overlap \subseteq {"recovery", "settings"} /\ (worker.up => server.up)
    BY <1>1, <1>2 DEF InstallTypes
  <2> QED
    BY <1>1, <1>3, <2>1, <2>2, InstallFollows
<1>4. CASE Install!Initialize(file.path) /\ file.path \in Configs /\ Install!Fine
  <2>1. /\ server' \in ServerRecords /\ server'.active = file.path /\ server'.up = server.up
        /\ server'.configured = server.configured /\ bound' = bound
    BY <1>2, <1>4, Published DEF Install!Fine
  <2>2. InstallTypes'
    BY <1>1, <1>2, <2>1 DEF InstallTypes
  <2>3. \A c \in Askers : ~Works(setup[c]) /\ ~SettingUp(setup[c]) /\ ~Applying(setup[c])
    BY <1>1, <1>2, WhereRequestIs DEF SettingUp, Applying
  <2>4. ASSUME overlap = {} PROVE FilesFit' /\ RestFits'
    <3>1. FilesFit /\ RestFits
      BY <2>3, <2>4, <1>1 DEF InstallInv, InstallCalm, FilesFit
    <3> QED
      BY <3>1, <2>1, <1>1, <1>4 DEF FilesFit, RestFits, OneFile
  <2>5. /\ \A c, d \in Askers : Works(setup'[c]) /\ Works(setup'[d]) => c = d
        /\ \A c \in Askers : RequestFits(setup[c])' /\ ~SettingUp(setup'[c]) /\ ~Applying(setup'[c])
    BY <1>1, <1>2, <2>3
  <2>6. overlap' = {} => InstallCalm'
    BY <1>1, <2>4, <2>5 DEF InstallCalm, FilesFit
  <2> QED
    BY <1>1, <2>1, <2>2, <2>5, <2>6 DEF InstallInv
<1> QED
  BY <1>1, <1>3, <1>4

LEMMA InstallStays == InstallInv /\ UNCHANGED installVars => InstallInv'
<1> SUFFICES ASSUME InstallInv, UNCHANGED installVars PROVE InstallInv'
  OBVIOUS
<1>1. /\ file \in FileRecords /\ worker \in FollowerRecords /\ bound \in BoundRecords
      /\ overlap \subseteq {"recovery", "settings"} /\ (worker.up => server.up)
      /\ bound.failures \in Nat /\ bound.crashes \in Nat
  BY DEF InstallInv, InstallTypes, BoundRecords, FollowerRecords
<1> QED
  BY <1>1, InstallFollows DEF installVars

LEMMA InstallNext == InstallInv /\ Install!Next => InstallInv'
<1> SUFFICES ASSUME InstallInv, Install!Next PROVE InstallInv'
  OBVIOUS
<1>1. ASSUME NEW c \in Askers, NEW config \in Configs, NEW reset \in SUBSET {"database", "storage"},
             Install!BeginSetup(c, config, reset)
      PROVE  InstallInv'
  BY <1>1, InstallBeginSetup
<1>2. ASSUME NEW c \in Askers, NEW seen \in 0..MaxCalls + MaxSetbacks, Install!BeginApply(c, seen)
      PROVE  InstallInv'
  <2>1. seen \in Nat
    OBVIOUS
  <2> QED
    BY <1>2, <2>1, InstallBeginApply
<1>3. ASSUME NEW c \in Askers, Install!Setup(c) PROVE InstallInv'
  BY <1>3, InstallProbe, InstallCheck, InstallDecide, InstallClear, InstallProvision, InstallPublishSetup,
     InstallFinishSetup, InstallCloseRuntime, InstallCompensate DEF Install!Setup
<1>4. ASSUME NEW c \in Askers, Install!Settings(c) PROVE InstallInv'
  BY <1>4, InstallApply, InstallPublishSettings, InstallFinishApply, InstallBack, InstallFinishBack
     DEF Install!Settings
<1>5. ASSUME NEW c \in Askers, Install!Save(c) PROVE InstallInv'
  BY <1>5, InstallWriteNext, InstallMoveAside, InstallPutInPlace, InstallDropBackup DEF Install!Save
<1>6. CASE Install!Server
  BY <1>6, InstallStart, InstallAtStart DEF Install!Server
<1>7. CASE Install!Worker
  BY <1>7, InstallWorker
<1>8. CASE Install!CrashServer
  BY <1>8, InstallCrash
<1>9. CASE Install!CrashWorker
  BY <1>9, InstallWorker
<1>10. CASE Install!Rest
  BY <1>10, InstallStays DEF Install!Rest, Install!installVars, installVars
<1> QED
  BY <1>1, <1>2, <1>3, <1>4, <1>5, <1>6, <1>7, <1>8, <1>9, <1>10 DEF Install!Next

LEMMA InstallInvShows ==
    InstallInv => Install!ConfigurationSurvives /\ Install!FileFollowsServer /\ Install!SetupAllOrNothing
<1> SUFFICES ASSUME InstallInv
             PROVE  Install!ConfigurationSurvives /\ Install!FileFollowsServer /\ Install!SetupAllOrNothing
  OBVIOUS
<1>1. /\ file \in FileRecords /\ server \in ServerRecords
      /\ \A c \in Askers : setup[c] \in RequestRecords /\ RequestFits(setup[c])
      /\ server.configured => server.up
      /\ overlap = {} => InstallCalm
  BY DEF InstallInv, InstallTypes, ServerRecords
<1>2. ASSUME overlap = {}, server.configured
      PROVE  \E f \in {"path", "next", "backup"} : file[f] \in Configs
  <2>1. InstallCalm
    BY <1>1, <1>2
  <2>2. CASE \A c \in Askers : ~Works(setup[c])
    BY <2>1, <2>2, <1>1, <1>2 DEF InstallCalm, RestFits, OneFile
  <2>3. ASSUME NEW c \in Askers, Works(setup[c])
        PROVE  \E f \in {"path", "next", "backup"} : file[f] \in Configs
    <3>1. Applying(setup[c]) /\ ApplyFits(setup[c]) /\ setup[c] \in RequestRecords
      BY <2>1, <2>3, <1>1, <1>2, WhereRequestIs DEF InstallCalm, SetupFits
    <3>2. CASE setup[c].save = "none"
      BY <3>1, <3>2 DEF ApplyFits, OneFile
    <3>3. CASE setup[c].save # "none"
      <4>1. PICK old \in Configs : FilesOf(setup[c], old)
        BY <3>1, <3>3 DEF ApplyFits
      <4>2. setup[c].save \in Writes \union {"saved"} => setup[c].saving \in Configs
        <5>1. setup[c].save \in Writes \union {"saved"} => setup[c].at \in {"save", "saveBack"}
          BY <1>1, WhereRequestIs
        <5> QED
          BY <5>1, <3>1, <1>1 DEF RequestFits
      <4>3. setup[c].save \in {"write", "aside", "place", "drop", "saved", "failed"}
        BY <3>1, <3>3 DEF RequestRecords, Writes
      <4> QED
        BY <4>1, <4>2, <4>3 DEF FilesOf, Writes
    <3> QED
      BY <3>2, <3>3
  <2> QED
    BY <2>2, <2>3
<1>3. Install!ConfigurationSurvives
  BY <1>2 DEF Install!ConfigurationSurvives, Install!ConfigurationKept
<1>4. ASSUME overlap = {}, server.up, \A c \in Askers : setup[c].kind = "none" PROVE RestFits
  BY <1>1, <1>4, WhereRequestIs DEF InstallCalm
<1>5. Install!FileFollowsServer
  BY <1>1, <1>4 DEF Install!FileFollowsServer, RestFits
<1>6. Install!SetupAllOrNothing
  <2>1. ASSUME overlap = {}, server.up, ~server.configured, bound.failures <= 1, bound.crashes = 0,
               \A c \in Askers : setup[c].kind = "none"
        PROVE  server.active = None /\ file.path = None /\ database.administrator # "new"
    BY <2>1, <1>4 DEF RestFits, NoFiles
  <2>2. overlap = {} /\ server.configured => database.administrator = "new"
    BY <1>1 DEF InstallCalm
  <2> QED
    BY <2>1, <2>2 DEF Install!SetupAllOrNothing
<1> QED
  BY <1>3, <1>5, <1>6

-----------------------------------------------------------------------------
(* The budget of the probes: it is taken and given back token by token.      *)

(* What the loops of Acquire and Release keep true between two tokens: an  *)
(* acquiring caller still misses a token, a releasing one still has one.   *)
LoopBounds ==
    \A c \in Callers :
        /\ acquired[c] <= units[c]
        /\ pc[c] = "idle" => acquired[c] = 0
        /\ pc[c] = "acquiring" => acquired[c] < units[c]
        /\ pc[c] = "releasing" => acquired[c] > 0
        /\ pc[c] = "holding" => acquired[c] > 0

LoopInv == TypeOK /\ LoopBounds
BudgetInv == LoopInv /\ TokensConserved

LEMMA LoopInit == Init => LoopInv
  BY BudgetAssumption, SMT DEF Init, LoopInv, TypeOK, LoopBounds, Phases

LEMMA LoopStep == LoopInv /\ [Next]_vars => LoopInv'
  <1> SUFFICES ASSUME LoopInv, [Next]_vars PROVE LoopInv'
    OBVIOUS
  <1> USE BudgetAssumption DEF LoopInv, TypeOK, LoopBounds, Phases
  <1>1. ASSUME NEW c \in Callers, NEW n \in 1..MaxUnits, Acquire(c, n) PROVE LoopInv'
    BY <1>1, SMT DEF Acquire
  <1>2. ASSUME NEW c \in Callers, ReceiveToken(c) PROVE LoopInv'
    BY <1>2, SMT DEF ReceiveToken
  <1>3. ASSUME NEW c \in Callers, AbandonAcquire(c) PROVE LoopInv'
    BY <1>3, SMT DEF AbandonAcquire
  <1>4. ASSUME NEW c \in Callers, Release(c) PROVE LoopInv'
    BY <1>4, SMT DEF Release
  <1>5. ASSUME NEW c \in Callers, SendToken(c) PROVE LoopInv'
    BY <1>5, SMT DEF SendToken
  <1>6. ASSUME NEW c \in Callers, CancelContext(c) PROVE LoopInv'
    BY <1>6, SMT DEF CancelContext
  <1>7. ASSUME NEW c \in Callers, FreshContext(c) PROVE LoopInv'
    BY <1>7, SMT DEF FreshContext
  <1>8. CASE UNCHANGED vars
    BY <1>8, SMT DEF vars
  <1> QED
    BY <1>1, <1>2, <1>3, <1>4, <1>5, <1>6, <1>7, <1>8 DEF Next, Step

(* Receiving a token adds one pair to the tokens taken, sending one takes    *)
(* one away; nothing else touches them.                                      *)
LEMMA TakenFinite == IsFiniteSet(TakenTokens) /\ Cardinality(TakenTokens) \in Nat
  <1>1. IsFiniteSet(1..Limit)
    BY BudgetAssumption, FS_Interval
  <1>2. IsFiniteSet(Callers \X (1..Limit))
    BY <1>1, BudgetAssumption, FS_Product
  <1> QED
    BY <1>2, FS_Subset, FS_CardinalityType DEF TakenTokens

LEMMA ReceiveTakesOne ==
    ASSUME LoopInv, NEW c \in Callers, ReceiveToken(c)
    PROVE  Cardinality(TakenTokens)' = Cardinality(TakenTokens) + 1
  <1> USE BudgetAssumption DEF LoopInv, TypeOK, LoopBounds, Phases
  <1> DEFINE next == <<c, acquired[c] + 1>>
  <1>1. acquired[c] \in Nat /\ acquired[c] + 1 \in 1..Limit
    BY SMT DEF ReceiveToken
  <1>2. acquired' = [acquired EXCEPT ![c] = @ + 1]
    BY DEF ReceiveToken
  <1>3. TakenTokens' = TakenTokens \union {next}
    BY <1>1, <1>2, SMT DEF TakenTokens
  <1>4. next \notin TakenTokens
    BY <1>1, SMT DEF TakenTokens
  <1> QED
    BY <1>3, <1>4, TakenFinite, FS_AddElement

LEMMA SendReturnsOne ==
    ASSUME LoopInv, NEW c \in Callers, SendToken(c)
    PROVE  Cardinality(TakenTokens)' = Cardinality(TakenTokens) - 1
  <1> USE BudgetAssumption DEF LoopInv, TypeOK, LoopBounds, Phases
  <1> DEFINE latest == <<c, acquired[c]>>
  <1>1. acquired[c] \in 1..Limit
    BY SMT DEF SendToken
  <1>2. acquired' = [acquired EXCEPT ![c] = @ - 1]
    BY DEF SendToken
  <1>3. TakenTokens' = TakenTokens \ {latest}
    BY <1>1, <1>2, SMT DEF TakenTokens
  <1>4. latest \in TakenTokens
    BY <1>1, SMT DEF TakenTokens
  <1> QED
    BY <1>3, <1>4, TakenFinite, FS_RemoveElement

LEMMA BudgetInit == Init => BudgetInv
  <1> SUFFICES ASSUME Init PROVE TokensConserved
    BY LoopInit DEF BudgetInv
  <1>1. TakenTokens = {}
    BY BudgetAssumption, SMT DEF Init, TakenTokens
  <1> QED
    BY <1>1, FS_EmptySet, BudgetAssumption DEF Init, TokensConserved

LEMMA BudgetNext == BudgetInv /\ [Next]_vars => BudgetInv'
  <1> SUFFICES ASSUME BudgetInv, [Next]_vars PROVE TokensConserved'
    BY LoopStep DEF BudgetInv
  <1> USE DEF BudgetInv
  <1>1. tokens \in Nat
    BY BudgetAssumption DEF LoopInv, TypeOK
  <1>2. ASSUME NEW c \in Callers, ReceiveToken(c) PROVE TokensConserved'
    <2>1. Cardinality(TakenTokens)' = Cardinality(TakenTokens) + 1
      BY <1>2, ReceiveTakesOne
    <2>2. tokens' = tokens - 1
      BY <1>2 DEF ReceiveToken
    <2> QED
      BY <1>1, <2>1, <2>2, TakenFinite, BudgetAssumption DEF TokensConserved
  <1>3. ASSUME NEW c \in Callers, SendToken(c) PROVE TokensConserved'
    <2>1. Cardinality(TakenTokens)' = Cardinality(TakenTokens) - 1
      BY <1>3, SendReturnsOne
    <2>2. tokens' = tokens + 1
      BY <1>3 DEF SendToken
    <2> QED
      BY <1>1, <2>1, <2>2, TakenFinite, BudgetAssumption DEF TokensConserved
  <1>4. CASE UNCHANGED <<tokens, acquired>>
    BY <1>4 DEF TokensConserved, TakenTokens
  <1> QED
    BY <1>2, <1>3, <1>4
    DEF Next, Step, Acquire, AbandonAcquire, Release, CancelContext, FreshContext, vars

-----------------------------------------------------------------------------
(* The parts, which share no state.                                          *)

ServerInv == WorkerInv /\ ManagerInv /\ StreamsInv /\ InstallInv /\ BudgetInv
serverVars == <<part, managerVars, installVars, configVars, streamVars, workerVars, vars>>

LEMMA WorkerStays == WorkerInv /\ UNCHANGED workerVars => WorkerInv'
<1> SUFFICES ASSUME WorkerInv, UNCHANGED workerVars PROVE WorkerInv'
  OBVIOUS
<1>1. UNCHANGED <<stage, open, task, service, left>>
  BY DEF workerVars
<1>2. UNCHANGED TasksRest /\ \A s \in {"tags", "artwork"} : UNCHANGED Rests(s)
  BY <1>1 DEF TasksRest, Rests
<1> QED
  BY <1>1, <1>2 DEF WorkerInv

LEMMA ManagerStays == ManagerInv /\ UNCHANGED managerVars => ManagerInv'
<1> SUFFICES ASSUME ManagerInv, UNCHANGED managerVars PROVE ManagerInv'
  OBVIOUS
<1>1. UNCHANGED <<rt, active, phase, call, request, failures>>
  BY DEF managerVars
<1>2. \A r : UNCHANGED Holders(r)
  BY <1>1 DEF Holders
<1>3. ManagerTypes'
  BY <1>1 DEF ManagerInv, ManagerTypes
<1>4. \A r \in Runtimes : RuntimeFits(rt[r], Holders(r))'
  BY <1>1, <1>2 DEF ManagerInv, RuntimeFits
<1>5. CallFits'
  BY <1>1, <1>2 DEF ManagerInv, CallFits
<1>6. failures' = 0 => OneWorks'
  BY <1>1 DEF ManagerInv, OneWorks
<1> QED
  BY <1>1, <1>3, <1>4, <1>5, <1>6 DEF ManagerInv

LEMMA StreamsStays == StreamsInv /\ UNCHANGED streamVars => StreamsInv'
<1> SUFFICES ASSUME StreamsInv, UNCHANGED streamVars PROVE StreamsInv'
  OBVIOUS
<1>1. UNCHANGED <<value, topics, topic, client, subscribers>>
  BY DEF streamVars
<1>2. UNCHANGED <<OpenClients, Followed>> /\ \A p \in Pollers : UNCHANGED Streams!Current(p)
  BY <1>1 DEF OpenClients, Followed, Streams!Current
<1>3. \A p \in Pollers : TopicFits(topic[p], Streams!Current(p))'
  BY <1>1, <1>2 DEF StreamsInv, TopicFits
<1>4. \A c \in Clients : ClientFits(c, client[c])'
  BY <1>1 DEF StreamsInv, ClientFits
<1> QED
  BY <1>1, <1>2, <1>3, <1>4 DEF StreamsInv, StreamsTypes

LEMMA BudgetStays == BudgetInv /\ UNCHANGED vars => BudgetInv'
BY BudgetNext

LEMMA ServerStep ==
    ASSUME ServerInv, [MCNext]_serverVars PROVE ServerInv'
<1>1. WorkerInv /\ ManagerInv /\ StreamsInv /\ InstallInv /\ BudgetInv
  BY DEF ServerInv
<1>2. CASE UNCHANGED <<managerVars, installVars, streamVars, workerVars, vars>>
  BY <1>1, <1>2, ManagerStays, InstallStays, StreamsStays, WorkerStays, BudgetStays DEF ServerInv
<1>3. CASE Manager!Next /\ UNCHANGED <<installVars, streamVars, workerVars, vars>>
  BY <1>1, <1>3, ManagerNext, InstallStays, StreamsStays, WorkerStays, BudgetStays DEF ServerInv
<1>4. CASE Install!Next /\ UNCHANGED <<managerVars, streamVars, workerVars, vars>>
  BY <1>1, <1>4, ManagerStays, InstallNext, StreamsStays, WorkerStays, BudgetStays DEF ServerInv
<1>5. CASE Streams!Next /\ UNCHANGED <<managerVars, installVars, workerVars, vars>>
  BY <1>1, <1>5, ManagerStays, InstallStays, StreamsNext, WorkerStays, BudgetStays DEF ServerInv
<1>6. CASE Worker!Next /\ UNCHANGED <<managerVars, installVars, streamVars, vars>>
  BY <1>1, <1>6, ManagerStays, InstallStays, StreamsStays, WorkerNext, BudgetStays DEF ServerInv
<1>7. CASE Next /\ UNCHANGED <<managerVars, installVars, streamVars, workerVars>>
  BY <1>1, <1>7, ManagerStays, InstallStays, StreamsStays, WorkerStays, BudgetNext DEF ServerInv
<1> QED
  BY <1>2, <1>3, <1>4, <1>5, <1>6, <1>7, Zenon DEF MCNext, serverVars

LEMMA ServerHolds == MCSpec => []ServerInv
<1>1. MCInit => ServerInv
  BY WorkerInit, ManagerInit, StreamsInit, InstallInit, BudgetInit DEF MCInit, ServerInv
<1> QED
  BY <1>1, ServerStep, PTL DEF MCSpec, serverVars

(* Requests are served by runtimes that are open, READY is said only of one, *)
(* whatever runs in the worker finds its database open, and a start or an    *)
(* end that failed half-way leaves nothing behind: for any number of         *)
(* requests, activations, retirements, tasks and failures, in any order.     *)
THEOREM RuntimesStayWhole == MCSpec => []RuntimesAreWhole
<1>1. ServerInv => RuntimesAreWhole
  BY ManagerInvShows, WorkerInvShows DEF ServerInv, RuntimesAreWhole
<1> QED
  BY <1>1, ServerHolds, PTL

(* Whoever follows a topic has its last state in hand or on the way, and the *)
(* limits count whoever is there: for any number of clients, topics and      *)
(* pollers, however they come, go, fall behind and are replaced.             *)
THEOREM StreamsStayTrue == MCSpec => []StreamsAgree
<1>1. ServerInv => StreamsAgree
  BY StreamsInvShows DEF ServerInv, StreamsAgree
<1> QED
  BY <1>1, ServerHolds, PTL

(* The saved configuration survives crashes at every step of a save, the     *)
(* file is what the server runs, and a setup that fails undoes what it did:  *)
(* for any number of requests, configurations, failures and crashes.         *)
THEOREM InstallationStaysWhole == MCSpec => []InstallationHolds
<1>1. ServerInv => InstallationHolds
  BY InstallInvShows DEF ServerInv, InstallationHolds
<1> QED
  BY <1>1, ServerHolds, PTL

(* No token of the budget is lost or minted, whatever mix of partial         *)
(* acquisitions, cancellations and one-by-one releases is in flight: for any *)
(* number of callers and any capacity.                                       *)
THEOREM TokensAreConserved == MCSpec => []TokensConserved
<1>1. ServerInv => TokensConserved
  BY DEF ServerInv, BudgetInv
<1> QED
  BY <1>1, ServerHolds, PTL


-----------------------------------------------------------------------------
(* What is counted stays within its bounds: every generation of a runtime is  *)
(* one that was built, and none is built twice.                               *)

BeforeServing == {"ready", "deactivate", "activate"}
BuiltIn(rows) == {r \in Runtimes : rows[r].built}
ServerBounds ==
    /\ generation \in Nat /\ retry \in {"off", "waiting", "trying"} /\ failures \in 0..MaxFailures
    /\ generation <= Cardinality(BuiltIn(rt))
    /\ call.at \in BeforeServing => generation + 1 <= Cardinality(BuiltIn(rt))
    /\ Config!TypeOK
    /\ subscribers <= MaxSubscribers
    /\ open \subseteq {"database", "metrics", "events"} /\ failed \in 0..MaxFailures

LEMMA SettingsTyped == Config!TypeOK /\ Config!Next => Config!TypeOK'
<1> SUFFICES ASSUME Config!TypeOK, Config!Next PROVE Config!TypeOK'
  OBVIOUS
<1>1. changes' \in 0..1
  BY DEF Config!TypeOK, Config!Next, Config!Setup, Config!Apply, Config!EditFile, Config!Stop, Config!Start,
         Config!Counted
<1>2. ASSUME NEW c, Config!Save(c) PROVE DOMAIN saved' = Config!SavedKeys
  BY <1>2 DEF Config!Save
<1>3. ASSUME NEW in, Config!Setup(in) PROVE DOMAIN saved' = Config!SavedKeys
  BY <1>2, <1>3 DEF Config!Setup
<1>4. ASSUME NEW p, Config!Apply(p) PROVE DOMAIN saved' = Config!SavedKeys
  BY <1>2, <1>4 DEF Config!Apply
<1>5. ASSUME NEW key, NEW text, Config!EditFile(key, text) PROVE DOMAIN saved' = Config!SavedKeys
  BY <1>5 DEF Config!EditFile, Config!TypeOK
<1>6. Config!Stop \/ Config!Start => UNCHANGED saved
  BY DEF Config!Stop, Config!Start
<1> QED
  BY <1>1, <1>3, <1>4, <1>5, <1>6 DEF Config!Next, Config!TypeOK

LEMMA RuntimesAreCounted ==
    ASSUME ManagerInv, ServerBounds, Manager!Next
    PROVE  /\ generation' \in Nat /\ generation' <= Cardinality(BuiltIn(rt'))
           /\ call'.at \in BeforeServing => generation' + 1 <= Cardinality(BuiltIn(rt'))
<1> DEFINE n == Cardinality(BuiltIn(rt))
           Keeps == \A r \in Runtimes : rt'[r].built = rt[r].built
           Counts == Keeps /\ UNCHANGED generation /\ (call'.at \in BeforeServing => call.at \in BeforeServing)
<1>t. rt \in [Runtimes -> RuntimeRecords] /\ call \in CallRecords /\ active \in Runtimes \union {None}
      /\ None \notin Runtimes /\ generation \in Nat
  BY ManagerAssumption DEF ManagerInv, ManagerTypes, ServerBounds
<1>n. IsFiniteSet(BuiltIn(rt)) /\ n \in Nat
  BY FS_Subset, FS_CardinalityType, ManagerAssumption DEF BuiltIn
<1>k. Keeps => BuiltIn(rt') = BuiltIn(rt)
  BY DEF BuiltIn
<1>1. CASE Manager!Build
  <2>1. ASSUME NEW r \in Runtimes, ~rt[r].built, call'.at = "ready",
               rt' = [rt EXCEPT ![r] = [Manager!Unbuilt EXCEPT !.open = TRUE, !.built = TRUE]]
        PROVE  Cardinality(BuiltIn(rt')) = n + 1
    <3>1. BuiltIn(rt') = BuiltIn(rt) \union {r} /\ r \notin BuiltIn(rt)
      BY <2>1, <1>t DEF BuiltIn, Manager!Unbuilt
    <3> QED
      BY <3>1, <1>n, FS_AddElement
  <2>2. UNCHANGED generation
    BY <1>1 DEF Manager!Build
  <2>3. CASE UNCHANGED rt /\ call'.at \notin BeforeServing
    BY <1>t, <1>n, <1>k, <2>2, <2>3 DEF ServerBounds
  <2>4. Manager!Rollback(FALSE) /\ call.at = "build" => call'.at \notin BeforeServing
    BY <1>t DEF Manager!Rollback, CallRecords, BeforeServing
  <2>5. \/ \E r \in Runtimes :
              /\ ~rt[r].built /\ call'.at = "ready"
              /\ rt' = [rt EXCEPT ![r] = [Manager!Unbuilt EXCEPT !.open = TRUE, !.built = TRUE]]
        \/ UNCHANGED rt /\ call'.at \notin BeforeServing
    BY <1>1, <1>t, <2>4 DEF Manager!Build, CallRecords
  <2> QED
    BY <1>n, <1>t, <2>1, <2>2, <2>3, <2>5 DEF ServerBounds
<1>2. CASE Manager!Activate /\ generation' = generation + 1
  <2>1. Keeps /\ call'.at = "none" /\ call.at = "activate"
    BY <1>2, <1>t DEF Manager!Activate, Manager!Answer, Manager!NoCall, Manager!startRetirementLocked, RuntimeRecords
  <2> QED
    BY <1>2, <1>t, <1>n, <1>k, <2>1 DEF ServerBounds, BeforeServing
<1>3. CASE Counts
  BY <1>3, <1>n, <1>k DEF ServerBounds
<1> USE <1>t DEF BeforeServing, RuntimeRecords, CallRecords
<1>4. Manager!Start \/ Manager!Configure \/ Manager!RetryRuntime => Counts
  BY DEF Manager!Start, Manager!Configure, Manager!RetryRuntime, Manager!Begin, Manager!NoCall
<1>5. Manager!Ready \/ Manager!Deactivate => Counts
  BY DEF Manager!Ready, Manager!Deactivate, Manager!Rollback
<1>6. Manager!Activate => Counts \/ generation' = generation + 1
  BY DEF Manager!Activate, Manager!Rollback
<1>7. Manager!CloseCandidate => Counts
  BY DEF Manager!CloseCandidate
<1>8. Manager!Settle \/ Manager!Reactivate => Counts
  BY DEF Manager!Settle, Manager!Reactivate, Manager!SettleRollback, Manager!Answer, Manager!NoCall,
         Manager!startRetirementLocked
<1>9. Manager!waitForRetirements \/ Manager!Rest => Counts
  BY DEF Manager!waitForRetirements, Manager!Rest, Manager!NoCall, Manager!managerVars
<1>12. CASE Manager!Close
  <2>1. UNCHANGED generation /\ call'.at = "wait"
        /\ rt' = IF active = None THEN rt ELSE Manager!startRetirementLocked(rt, active, TRUE)
    BY <1>12 DEF Manager!Close, Manager!NoCall
  <2>2. active \in Runtimes => \A r \in Runtimes : Manager!startRetirementLocked(rt, active, TRUE)[r].built = rt[r].built
    BY DEF Manager!startRetirementLocked
  <2> QED
    BY <1>3, <2>1, <2>2
<1>10. \A r \in Runtimes : Manager!Retirement(r) => Counts
  BY DEF Manager!Retirement, Manager!waitForDrain, Manager!DeactivateRetired, Manager!CloseRetired
<1>11. \A q \in Requests : Manager!ServeHTTP(q) \/ Manager!Check(q) \/ Manager!release(q) => Counts
  BY DEF Manager!ServeHTTP, Manager!Check, Manager!release, Manager!Hold
<1> QED
  BY <1>1, <1>2, <1>3, <1>4, <1>5, <1>6, <1>7, <1>8, <1>9, <1>10, <1>11, <1>12 DEF Manager!Next, Manager!Progress

LEMMA ManagerCounts ==
    ASSUME ServerBounds, Manager!Next
    PROVE  retry' \in {"off", "waiting", "trying"} /\ failures' \in 0..MaxFailures
<1> DEFINE Counted == UNCHANGED failures \/ (failures < MaxFailures /\ failures' = failures + 1)
           Typed == retry' \in {"off", "waiting", "trying"}
<1>1. failures \in 0..MaxFailures /\ MaxFailures \in Nat /\ retry \in {"off", "waiting", "trying"}
  BY ManagerAssumption DEF ServerBounds
<1>2. Counted /\ Typed
  <2> USE DEF Manager!MayFail, Manager!Fine, Manager!Answer, Manager!SettleRollback
  <2> USE <1>1
  <2>1. Manager!Start \/ Manager!Configure \/ Manager!RetryRuntime \/ Manager!Close \/ Manager!Rest => Counted /\ Typed
    BY DEF Manager!Start, Manager!Configure, Manager!RetryRuntime, Manager!Begin, Manager!Close, Manager!Rest,
           Manager!managerVars
  <2>2. Manager!Progress => Counted /\ Typed
    BY DEF Manager!Progress, Manager!Build, Manager!Ready, Manager!Deactivate, Manager!Activate,
           Manager!CloseCandidate, Manager!Settle, Manager!Reactivate, Manager!waitForRetirements
  <2>3. ASSUME NEW r, Manager!Retirement(r) PROVE Counted /\ Typed
    BY <2>3 DEF Manager!Retirement, Manager!waitForDrain, Manager!DeactivateRetired, Manager!CloseRetired
  <2>4. ASSUME NEW q, Manager!ServeHTTP(q) \/ Manager!Check(q) \/ Manager!release(q) PROVE Counted /\ Typed
    BY <2>4 DEF Manager!ServeHTTP, Manager!Check, Manager!release, Manager!Hold
  <2> QED
    BY <2>1, <2>2, <2>3, <2>4 DEF Manager!Next
<1> QED
  BY <1>1, <1>2

LEMMA StreamsCount ==
    ASSUME StreamsInv, ServerBounds, Streams!Next PROVE subscribers' <= MaxSubscribers
<1> DEFINE Counted == subscribers' <= subscribers \/ (subscribers < MaxSubscribers /\ subscribers' = subscribers + 1)
<1>0. \A S : Streams!Cardinality(S) = Cardinality(S)
  BY Zenon DEF Streams!Cardinality, Cardinality
<1>1. subscribers \in Nat /\ subscribers <= MaxSubscribers /\ MaxSubscribers \in Nat
  BY StreamsAssumption, FS_Subset, FS_CardinalityType DEF StreamsInv, OpenClients, ServerBounds
<1>2. \A S \in SUBSET Clients : Streams!Cardinality(S) \in Nat
  BY <1>0, StreamsAssumption, FS_Subset, FS_CardinalityType
<1>3. \A p \in Pollers : topic[p].clients \subseteq Clients
  BY DEF StreamsInv, StreamsTypes, TopicRecords
<1>4. ASSUME NEW p \in Pollers, NEW frame, NEW step, Streams!broadcast(p, frame, step) PROVE Counted
  <2> DEFINE slow == {c \in topic[p].clients : Len(client[c].frames) = Capacity}
  <2>1. subscribers' = subscribers - Streams!Cardinality(slow) \/ UNCHANGED subscribers
    BY <1>4 DEF Streams!broadcast
  <2> QED
    BY <1>1, <1>2, <1>3, <2>1
<1>5. ASSUME NEW p \in Pollers, Streams!Polls(p) PROVE Counted
  <2>1. Streams!LoadFails(p) \/ Streams!run(p) => Counted
    BY <1>1, <1>4 DEF Streams!LoadFails, Streams!run
  <2>2. Streams!Wait(p) \/ Streams!Load(p) => Counted
    BY <1>1 DEF Streams!Wait, Streams!Load
  <2>3. Streams!finish(p) => Counted
    BY <1>1, <1>2, <1>3 DEF Streams!finish
  <2> QED
    BY <1>5, <2>1, <2>2, <2>3 DEF Streams!Polls
<1>6. ASSUME NEW c \in Clients, Streams!eventsStream(c) \/ Streams!Close(c) \/ \E k \in Keys : Streams!Subscribe(c, k)
      PROVE  Counted
  <2>1. ASSUME NEW k \in Keys, Streams!Subscribe(c, k) PROVE Counted
    BY <2>1 DEF Streams!Subscribe
  <2>2. Streams!eventsStream(c) => UNCHANGED subscribers
    BY DEF Streams!eventsStream
  <2>3. Streams!Close(c) => subscribers' = subscribers - 1 \/ UNCHANGED subscribers
    BY DEF Streams!Close
  <2> QED
    BY <1>1, <1>6, <2>1, <2>2, <2>3
<1>7. Streams!CloseAll \/ (\E k \in Keys : Streams!Change(k)) => Counted
  <2>1. Streams!Cardinality({c \in Clients : Streams!Open(c)}) \in Nat
    BY <1>2
  <2>2. Streams!CloseAll => subscribers' = subscribers - Streams!Cardinality({c \in Clients : Streams!Open(c)})
    BY DEF Streams!CloseAll
  <2>3. ASSUME NEW k, Streams!Change(k) PROVE UNCHANGED subscribers
    BY <2>3 DEF Streams!Change
  <2> QED
    BY <1>1, <2>1, <2>2, <2>3
<1>8. Counted
  BY <1>5, <1>6, <1>7 DEF Streams!Next
<1>9. subscribers' \in Nat
  BY StreamsNext, StreamsAssumption, FS_Subset, FS_CardinalityType DEF StreamsInv, OpenClients
<1> QED
  BY <1>1, <1>8, <1>9

LEMMA WorkerCounts ==
    ASSUME ServerBounds, Worker!Next
    PROVE  open' \subseteq {"database", "metrics", "events"} /\ failed' \in 0..MaxFailures
<1> DEFINE Counted == /\ open' \subseteq {"database", "metrics", "events"}
                      /\ UNCHANGED failed \/ (failed < MaxFailures /\ failed' = failed + 1)
<1>1. open \subseteq {"database", "metrics", "events"} /\ failed \in 0..MaxFailures /\ MaxFailures \in Nat
  BY ManagerAssumption DEF ServerBounds
<1>2. Counted
  <2> USE <1>1 DEF Worker!Start, Worker!Fails, Worker!MayFail, Worker!Fine, Worker!Waits
  <2>1. Worker!Starting \/ Worker!CloseContext => Counted
    BY DEF Worker!Starting, Worker!CloseContext, Worker!OpenDatabase, Worker!wireCore, Worker!Initialize,
           Worker!StartTags, Worker!StartArtwork, Worker!startBackgroundGroup
  <2>2. Worker!Ending => Counted
    BY DEF Worker!Ending, Worker!UndoTags, Worker!CloseBackground, Worker!CloseTags, Worker!CloseArtwork,
           Worker!CloseEvents, Worker!CloseDatabase
  <2>3. (\E t \in Tasks : Worker!runBackgroundPoller(t)) \/ (\E s \in Worker!Services : Worker!runBatchWorkers(s))
        \/ Worker!Over => Counted
    BY DEF Worker!runBackgroundPoller, Worker!runBatchWorkers, Worker!Over, Worker!lifecycleVars
  <2> QED
    BY <2>1, <2>2, <2>3 DEF Worker!Next
<1> QED
  BY <1>1, <1>2

LEMMA ServerBoundsInit == MCInit => ServerBounds
<1> SUFFICES ASSUME MCInit PROVE ServerBounds
  OBVIOUS
<1>1. generation = 0 /\ failures = 0 /\ retry = "off" /\ call.at = "none"
  BY DEF MCInit, Manager!Init, Manager!NoCall
<1>2. Cardinality(BuiltIn(rt)) \in Nat
  BY FS_Subset, FS_CardinalityType, ManagerAssumption DEF BuiltIn
<1>3. subscribers = 0 /\ MaxSubscribers \in Nat
  BY StreamsAssumption DEF MCInit, Streams!Init
<1>4. open = {} /\ failed = 0
  BY DEF MCInit, Worker!Init
<1>5. Config!TypeOK
  BY DEF MCInit, Config!Init, Config!TypeOK
<1> QED
  BY <1>1, <1>2, <1>3, <1>4, <1>5, ManagerAssumption DEF ServerBounds, BeforeServing

LEMMA ServerBoundsStep ==
    ASSUME ServerInv, ServerBounds, [MCNext]_serverVars PROVE ServerBounds'
<1>1. ManagerInv /\ StreamsInv
  BY DEF ServerInv
<1>2. Manager!Next \/ UNCHANGED managerVars
  BY DEF MCNext, serverVars
<1>3. Config!Next \/ UNCHANGED configVars
  BY DEF MCNext, serverVars
<1>4. Streams!Next \/ UNCHANGED streamVars
  BY DEF MCNext, serverVars
<1>5. Worker!Next \/ UNCHANGED workerVars
  BY DEF MCNext, serverVars
<1>6. /\ generation' \in Nat /\ generation' <= Cardinality(BuiltIn(rt'))
      /\ call'.at \in BeforeServing => generation' + 1 <= Cardinality(BuiltIn(rt'))
      /\ retry' \in {"off", "waiting", "trying"} /\ failures' \in 0..MaxFailures
  BY <1>1, <1>2, RuntimesAreCounted, ManagerCounts DEF managerVars, ServerBounds
<1>7. Config!TypeOK'
  BY <1>3, SettingsTyped DEF ServerBounds, configVars, Config!TypeOK
<1>8. subscribers' <= MaxSubscribers
  BY <1>1, <1>4, StreamsCount DEF streamVars, ServerBounds
<1>9. open' \subseteq {"database", "metrics", "events"} /\ failed' \in 0..MaxFailures
  BY <1>5, WorkerCounts DEF workerVars, ServerBounds
<1> QED
  BY <1>6, <1>7, <1>8, <1>9 DEF ServerBounds

LEMMA ServerBoundsShow ==
    ASSUME ServerInv, ServerBounds PROVE TypesOK
<1>1. WorkerInv /\ ManagerInv /\ StreamsInv /\ InstallInv /\ TypeOK
  BY DEF ServerInv, BudgetInv, LoopInv
<1>2. Manager!TypeOK
  <2>1. Cardinality(BuiltIn(rt)) <= Cardinality(Runtimes) /\ Cardinality(BuiltIn(rt)) \in Nat /\ Cardinality(Runtimes) \in Nat
    BY FS_Subset, FS_CardinalityType, ManagerAssumption DEF BuiltIn
  <2>2. generation \in 0..Cardinality(Runtimes)
    BY <2>1 DEF ServerBounds
  <2>3. ASSUME NEW r \in Runtimes PROVE rt[r].inFlight \in 0..Cardinality(Requests)
    <3>1. Holders(r) \subseteq Requests /\ rt[r].inFlight = Cardinality(Holders(r))
      BY <1>1 DEF ManagerInv, RuntimeFits, Holders
    <3> QED
      BY <3>1, FS_Subset, FS_CardinalityType, ManagerAssumption
  <2>4. \A S : Manager!Cardinality(S) = Cardinality(S)
    BY Zenon DEF Manager!Cardinality, Cardinality
  <2> QED
    BY <1>1, <2>2, <2>3, <2>4 DEF Manager!TypeOK, ManagerInv, ManagerTypes, ServerBounds, RuntimeRecords, CallRecords
<1>3. Install!TypeOK
  BY <1>1 DEF Install!TypeOK, InstallInv, InstallTypes, FileRecords, Files, ServerRecords, FollowerRecords,
              RequestRecords, Writes
<1>4. Streams!TypeOK
  <2>1. subscribers \in Nat
    BY <1>1, StreamsAssumption, FS_Subset, FS_CardinalityType DEF StreamsInv, OpenClients
  <2> QED
    BY <1>1, <2>1, StreamsAssumption DEF Streams!TypeOK, StreamsInv, StreamsTypes, ServerBounds
<1>5. Worker!TypeOK
  BY <1>1 DEF Worker!TypeOK, WorkerInv, ServerBounds, Flows
<1> QED
  BY <1>1, <1>2, <1>3, <1>4, <1>5 DEF TypesOK, ServerBounds

(* Whatever the server keeps is of its kind and within its bounds: a         *)
(* generation for each runtime that was built, requests of a runtime that    *)
(* are among those there are, and no more subscribers than the limit.        *)
THEOREM ServerTyped == MCSpec => []TypesOK
<1> QED
  BY ServerBoundsInit, ServerBoundsStep, ServerBoundsShow, ServerHolds, PTL DEF MCSpec, serverVars
=============================================================================
