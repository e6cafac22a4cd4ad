----------------------------- MODULE EventStreams -----------------------------
(* Server-sent events (shared/sse): one poller per topic reads the state of   *)
(* the jobs (modules/adminjobs) or of one scan (modules/adminsources) and     *)
(* hands what changed to every client of the topic through a buffer each.     *)
EXTENDS Integers, Sequences, FiniteSets, TLC

CONSTANTS Keys,           \* what can be followed
          EndingKeys,     \* those that reach a final state: scans
          Clients,        \* requests for events
          Pollers,        \* topics, with the goroutine each runs
          None,
          Final,          \* bound: states a key passes through, the last one final for an EndingKeys key
          Capacity,       \* frames a client's buffer takes: 16
          MaxSubscribers, \* limits of the broadcaster
          MaxTopics

VARIABLES value,        \* state of each key, in the database
          topics,       \* topic of each key
          topic,        \* topics with their pollers, replaced ones included
          client,       \* clients: topic, frames not written yet, and the last state shown
          subscribers,  \* clients the broadcaster counts
          closed        \* whether it is stopping

eventVars == <<value, topics, topic, client, subscribers, closed>>

Notice == 0  \* a heartbeat or an error: a frame that is never kept
NoTopic == [key |-> None, clients |-> {}, frame |-> 0, step |-> "gone", loaded |-> 0, cancelled |-> TRUE]
NoClient == [topic |-> None, state |-> "away", frames |-> <<>>, shown |-> 0]

Init ==
    /\ value = [k \in Keys |-> 1]
    /\ topics = [k \in Keys |-> None]
    /\ topic = [p \in Pollers |-> NoTopic]
    /\ client = [c \in Clients |-> NoClient]
    /\ subscribers = 0 /\ closed = FALSE

Current(p) == topic[p].step # "gone" /\ topics[topic[p].key] = p
Free(p) == topic[p].step = "gone" /\ \A c \in Clients : client[c].topic # p
Open(c) == client[c].state = "open"

\* A client that joins a topic gets the last state the others were shown.
JoiningLate(p) == [topic |-> p, state |-> "open", shown |-> 0, frames |-> <<>>]
Joining(p) == [topic |-> p, state |-> "open", shown |-> 0,
               frames |-> IF topic'[p].frame = 0 THEN <<>> ELSE <<topic'[p].frame>>]

Subscribe(c, k) ==
    /\ client[c].state = "away" /\ ~closed
    /\ topics[k] = None => Cardinality({q \in Keys : topics[q] # None}) < MaxTopics
    /\ subscribers < MaxSubscribers
    /\ \E p \in Pollers :
          /\ IF topics[k] # None THEN p = topics[k] ELSE Free(p)
          /\ topic' = IF topics[k] # None THEN [topic EXCEPT ![p].clients = @ \union {c}]
                      ELSE [topic EXCEPT ![p] =
                 [NoTopic EXCEPT !.key = k, !.clients = {c}, !.step = "wait", !.cancelled = FALSE]]
          /\ topics' = [topics EXCEPT ![k] = p]
          /\ client' = [client EXCEPT ![c] = Joining(p)]
    /\ subscribers' = subscribers + 1
    /\ UNCHANGED <<value, closed>>

\* The request ends, or has found its frames closed; a client the broadcaster
\* took off before is not taken off again.
RemovesTwice(c) == TRUE
Removes(c) == c \in topic[client[c].topic].clients
Close(c) ==
    LET p == client[c].topic  rest == topic[p].clients \ {c}
        last == Removes(c) /\ rest = {}
    IN  /\ client[c].state # "away"
        /\ topic' = [topic EXCEPT ![p].clients = rest, ![p].cancelled = @ \/ last]
        /\ topics' = IF last /\ Current(p) THEN [topics EXCEPT ![topic[p].key] = None] ELSE topics
        /\ subscribers' = IF Removes(c) THEN subscribers - 1 ELSE subscribers
        /\ client' = [client EXCEPT ![c] = NoClient]
        /\ UNCHANGED <<value, closed>>

\* The handler writes one frame; what a closed buffer still holds is written too.
eventsStream(c) ==
    LET frame == Head(client[c].frames)
    IN  /\ client[c].state # "away" /\ client[c].frames # <<>>
        /\ client' = [client EXCEPT ![c].frames = Tail(@),
                                    ![c].shown = IF frame = Notice THEN @ ELSE frame]
        /\ UNCHANGED <<value, topics, topic, subscribers, closed>>

---------------------------------------------------------------------------
(* The poller of a topic *)

\* Clients whose buffer is full are taken off; a topic without clients ends.
broadcast(p, frame, step) ==
    LET slow == {c \in topic[p].clients : Len(client[c].frames) = Capacity}
        stay == topic[p].clients \ slow
    IN  IF ~Current(p)
        THEN /\ topic' = [topic EXCEPT ![p].step = step]
             /\ UNCHANGED <<topics, client, subscribers>>
        ELSE /\ topic' = [topic EXCEPT ![p].step = step, ![p].clients = stay,
                                       ![p].cancelled = @ \/ stay = {},
                                       ![p].frame = IF frame = Notice THEN @ ELSE frame]
             /\ topics' = IF stay = {} THEN [topics EXCEPT ![topic[p].key] = None] ELSE topics
             /\ client' = [c \in Clients |->
                    CASE c \in stay -> [client[c] EXCEPT !.frames = Append(@, frame)]
                      [] c \in slow -> [client[c] EXCEPT !.state = "slow"]
                      [] OTHER -> client[c]]
             /\ subscribers' = subscribers - Cardinality(slow)

\* The loop begins, or begins again after its pause, unless it was cancelled.
Wait(p) ==
    /\ topic[p].step = "wait"
    /\ topic' = [topic EXCEPT ![p].step = IF topic[p].cancelled THEN "finish" ELSE "load"]
    /\ UNCHANGED <<value, topics, client, subscribers, closed>>
Load(p) ==
    /\ topic[p].step = "load"
    /\ topic' = [topic EXCEPT ![p].step = "publish", ![p].loaded = value[topic[p].key]]
    /\ UNCHANGED <<value, topics, client, subscribers, closed>>
LoadFails(p) ==
    /\ topic[p].step = "load"
    /\ broadcast(p, Notice, "wait")
    /\ UNCHANGED <<value, closed>>

\* Only a state that differs from the last one published is sent; the final
\* state of a scan ends the topic.
Terminal(p) == topic[p].key \in EndingKeys /\ topic[p].loaded = Final
run(p) ==
    LET new == topic[p].loaded # topic[p].frame
        step == IF Terminal(p) THEN "finish" ELSE "wait"
    IN  /\ topic[p].step = "publish"
        /\ \/ new /\ broadcast(p, topic[p].loaded, step)
           \/ ~new /\ broadcast(p, Notice, step)
           \/ /\ ~new
              /\ topic' = [topic EXCEPT ![p].step = step]
              /\ UNCHANGED <<topics, client, subscribers>>
        /\ UNCHANGED <<value, closed>>
finish(p) ==
    /\ topic[p].step = "finish"
    /\ topics' = IF Current(p) THEN [topics EXCEPT ![topic[p].key] = None] ELSE topics
    /\ topic' = [topic EXCEPT ![p] = [@ EXCEPT !.step = "gone", !.cancelled = TRUE, !.clients = {}]]
    /\ client' = [c \in Clients |->
           IF c \in topic[p].clients THEN [client[c] EXCEPT !.state = "finished"] ELSE client[c]]
    /\ subscribers' = subscribers - Cardinality(topic[p].clients)
    /\ UNCHANGED <<value, closed>>

\* The server stops.
CloseAll ==
    /\ ~closed /\ closed' = TRUE
    /\ topics' = [k \in Keys |-> None]
    /\ topic' = [p \in Pollers |->
           IF Current(p) THEN [topic[p] EXCEPT !.clients = {}, !.cancelled = TRUE] ELSE topic[p]]
    /\ client' = [c \in Clients |-> IF Open(c) THEN [client[c] EXCEPT !.state = "stopped"] ELSE client[c]]
    /\ subscribers' = subscribers - Cardinality({c \in Clients : Open(c)})
    /\ UNCHANGED value

Change(k) ==
    /\ value[k] < Final
    /\ value' = [value EXCEPT ![k] = @ + 1]
    /\ UNCHANGED <<topics, topic, client, subscribers, closed>>

Polls(p) == Wait(p) \/ Load(p) \/ LoadFails(p) \/ run(p) \/ finish(p)
Next ==
    \/ \E c \in Clients : eventsStream(c) \/ Close(c) \/ \E k \in Keys : Subscribe(c, k)
    \/ \E p \in Pollers : Polls(p)
    \/ \E k \in Keys : Change(k)
    \/ CloseAll

Spec == Init /\ [][Next]_eventVars

---------------------------------------------------------------------------
TypeOK ==
    /\ value \in [Keys -> 1..Final]
    /\ topics \in [Keys -> Pollers \union {None}]
    /\ subscribers \in 0..MaxSubscribers

\* The state a client has: the last in its buffer, or the last it was shown.
Has(c, state) ==
    LET frames == client[c].frames
        data == {i \in DOMAIN frames : frames[i] # Notice}
    IN  IF data = {} THEN client[c].shown = state
        ELSE \E i \in data : frames[i] = state /\ \A j \in data : j <= i

\* Whoever follows a key has, shown or in its buffer, the last state its topic
\* published, however late it joined and whichever pollers of that key still
\* run; its topic is the one that is polled.  A stream that ended by itself
\* has shown the final state.
ClientsUpToDate ==
    \A c \in Clients :
        LET p == client[c].topic
        IN  /\ Open(c) => Current(p) /\ c \in topic[p].clients /\ ~topic[p].cancelled
                          /\ Has(c, topic[p].frame)
            /\ client[c].state = "finished" => topic[p].key \in EndingKeys /\ Has(c, Final)

\* The limit counts the clients that are there: none is counted twice, none
\* forgotten, whichever of the request, a full buffer, the end of the topic
\* and the stopping server takes it off first.
SubscribersCounted ==
    /\ subscribers = Cardinality({c \in Clients : Open(c)})
    /\ Cardinality({k \in Keys : topics[k] # None}) <= MaxTopics
=============================================================================
