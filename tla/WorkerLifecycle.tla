--------------------------- MODULE WorkerLifecycle ---------------------------
(* What a process that works in the background starts and ends: the database *)
(* and the services of app/runtime.go, the services of the batches and the   *)
(* pollers of app/background.go.  A start may fail half-way, and whatever    *)
(* runs may take longer to notice that it is to end than the end waits.      *)
EXTENDS Naturals

CONSTANTS Tasks,      \* pollers: scan, writeback, deletion, clean-up and retention
          MaxFailures \* bound: steps that fail, waits that run out

VARIABLES stage,    \* how far the start, the undoing of a start or the end has come
          open,     \* what is open: "database", "metrics", "events"
          task,     \* pollers
          service,  \* services of the batches of tags and of artwork
          left,     \* whether a wait ran out on something that still ran
          failures

lifecycleVars == <<stage, open, task, service, left, failures>>

Services == {"tags", "artwork"}
Idle == [at |-> "idle", cancelled |-> FALSE]
Off == [at |-> "off", cancelled |-> FALSE]

Init ==
    /\ stage = "open" /\ open = {}
    /\ task = [t \in Tasks |-> Off] /\ service = [s \in Services |-> Off]
    /\ left = FALSE /\ failures = 0

MayFail == failures < MaxFailures /\ failures' = failures + 1
Fine == failures' = failures
Runs(x) == x.at \in {"idle", "running"}
Cancel(x) == [x EXCEPT !.cancelled = TRUE]

---------------------------------------------------------------------------
(* The start *)

Start(at, next) == stage = at /\ stage' = next /\ Fine
Fails(at, next) == stage = at /\ stage' = next /\ MayFail

OpenDatabase ==
    /\ \/ Start("open", "metrics") /\ open' = {"database"}
       \/ Fails("open", "failed") /\ open' = {}
    /\ UNCHANGED <<task, service, left>>
\* Migrations run between the metrics and the events; the other services hold
\* nothing that has to be closed.
wireCore ==
    /\ \/ Start("metrics", "events") /\ open' = open \union {"metrics"}
       \/ Start("events", "initialize") /\ open' = open \union {"events"}
       \/ \E at \in {"metrics", "events"} : Fails(at, "closeEvents") /\ open' = open
    /\ UNCHANGED <<task, service, left>>
\* Scans and deletions that were interrupted are taken up again.
Initialize ==
    /\ Start("initialize", "startTags") \/ Fails("initialize", "closeEvents")
    /\ UNCHANGED <<open, task, service, left>>
StartTags ==
    /\ \/ Start("startTags", "startArtwork") /\ service' = [service EXCEPT !["tags"] = Idle]
       \/ Fails("startTags", "closeEvents") /\ UNCHANGED service
    /\ UNCHANGED <<open, task, left>>
StartArtworkForgets ==
    /\ \/ Start("startArtwork", "startTasks") /\ service' = [service EXCEPT !["artwork"] = Idle]
       \/ Fails("startArtwork", "closeEvents") /\ UNCHANGED service
    /\ UNCHANGED <<open, task, left>>
\* The service started before is closed again.
StartArtwork ==
    /\ \/ Start("startArtwork", "startTasks") /\ service' = [service EXCEPT !["artwork"] = Idle]
       \/ Fails("startArtwork", "undoTags") /\ service' = [service EXCEPT !["tags"] = Cancel(@)]
    /\ UNCHANGED <<open, task, left>>
startBackgroundGroup ==
    /\ Start("startTasks", "up")
    /\ task' = [t \in Tasks |-> Idle]
    /\ UNCHANGED <<open, service, left>>

---------------------------------------------------------------------------
(* The end of what runs *)

\* A wait ends with what it waits for, or gives up on it.
Waits(at, next, runs) ==
    /\ stage = at /\ stage' = next
    /\ \/ ~runs /\ left' = left /\ Fine
       \/ runs /\ left' = TRUE /\ MayFail

UndoTags ==
    /\ Waits("undoTags", "closeEvents", Runs(service["tags"]))
    /\ UNCHANGED <<open, task, service>>

CloseContext ==
    /\ Start("up", "waitTasks")
    /\ task' = [t \in Tasks |-> Cancel(task[t])]
    /\ UNCHANGED <<open, service, left>>
CloseBackground ==
    /\ Waits("waitTasks", "waitTags", \E t \in Tasks : Runs(task[t]))
    /\ service' = [service EXCEPT !["tags"] = Cancel(@)]
    /\ UNCHANGED <<open, task>>
CloseTags ==
    /\ Waits("waitTags", "waitArtwork", Runs(service["tags"]))
    /\ service' = [service EXCEPT !["artwork"] = Cancel(@)]
    /\ UNCHANGED <<open, task>>
CloseArtwork ==
    /\ Waits("waitArtwork", "closeEvents", Runs(service["artwork"]))
    /\ UNCHANGED <<open, task, service>>

\* After a start that failed and at the end.
CloseEvents ==
    /\ Start("closeEvents", "closeDatabase")
    /\ open' = open \intersect {"database"}
    /\ UNCHANGED <<task, service, left>>
\* The pool waits for the connections that are in use, without a limit.
CloseDatabase ==
    /\ Start("closeDatabase", IF \A t \in Tasks : task[t].at = "off" THEN "failed" ELSE "closed")
    /\ \A t \in Tasks : task[t].at # "running"
    /\ \A s \in Services : service[s].at # "running"
    /\ open' = {}
    /\ UNCHANGED <<task, service, left>>

---------------------------------------------------------------------------
(* What runs: a poller or a worker of a service uses the database, rests and  *)
(* ends when it finds itself cancelled.                                       *)

Step(x) ==
    CASE x.at = "idle" /\ x.cancelled -> [x EXCEPT !.at = "ended"]
      [] x.at = "idle" /\ ~x.cancelled -> [x EXCEPT !.at = "running"]
      [] OTHER -> [x EXCEPT !.at = "idle"]
runBackgroundPoller(t) ==
    /\ Runs(task[t])
    /\ task' = [task EXCEPT ![t] = Step(@)]
    /\ UNCHANGED <<stage, open, service, left, failures>>
runBatchWorkers(s) ==
    /\ Runs(service[s])
    /\ service' = [service EXCEPT ![s] = Step(@)]
    /\ UNCHANGED <<stage, open, task, left, failures>>

Over == stage \in {"failed", "closed"} /\ UNCHANGED lifecycleVars

Starting ==
    OpenDatabase \/ wireCore \/ Initialize \/ StartTags \/ StartArtwork \/ startBackgroundGroup
Ending ==
    \/ UndoTags \/ CloseBackground \/ CloseTags \/ CloseArtwork \/ CloseEvents \/ CloseDatabase
Next ==
    \/ Starting \/ CloseContext \/ Ending
    \/ \E t \in Tasks : runBackgroundPoller(t)
    \/ \E s \in Services : runBatchWorkers(s)
    \/ Over

Spec == Init /\ [][Next]_lifecycleVars

---------------------------------------------------------------------------
TypeOK ==
    /\ open \subseteq {"database", "metrics", "events"}
    /\ \A t \in Tasks : task[t].at \in {"off", "idle", "running", "ended"}
    /\ \A s \in Services : service[s].at \in {"off", "idle", "running", "ended"}
    /\ left \in BOOLEAN /\ failures \in 0..MaxFailures

\* Whatever uses the database runs on an open one, and a start that failed
\* half-way and an end leave nothing behind that runs or is open, unless a
\* wait ran out on it.
NothingLeftBehind ==
    /\ (\E t \in Tasks : task[t].at = "running") /\ ~left => "database" \in open
    /\ (\E s \in Services : service[s].at = "running") /\ ~left => "database" \in open
    /\ stage \in {"failed", "closed"} =>
          /\ open = {}
          /\ left \/ ((\A t \in Tasks : ~Runs(task[t])) /\ \A s \in Services : ~Runs(service[s]))
=============================================================================
