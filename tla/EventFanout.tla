---------------------------- MODULE EventFanout ----------------------------
(***************************************************************************)
(* The event stream of the service: _publish, subscribe and unsubscribe of *)
(* service.py, and GET /events of api.py, which drains one queue.          *)
(*                                                                         *)
(* The worker and the request that starts it publish at the same time, and *)
(* the requests that subscribe run beside them.  subscribers_lock guards   *)
(* the set alone: the queues, and latest_patch_payload, are touched in     *)
(* steps of their own.                                                     *)
(*                                                                         *)
(* An event is its kind, the session it belongs to and, for a text, its    *)
(* place in the order the texts are published.                             *)
(***************************************************************************)
EXTENDS Naturals, Sequences

CONSTANTS
    MaxStreams,  \* bound: streams a page opens, one for each accepted start
    MaxTexts,    \* bound: patches published, beside a final text per session
    QueueLimit   \* maxsize of a subscriber's queue

ASSUME FanoutAssumption ==
    MaxStreams \in Nat /\ MaxTexts \in Nat /\ QueueLimit \in Nat \ {0}

Streams    == 1 .. MaxStreams
Publishers == {"worker", "request"}

TextKinds == {"patch", "final"}

Text(kind, session, number) ==
    [kind |-> kind, session |-> session, number |-> number]
ErrorOf(session) == [kind |-> "error", session |-> session, number |-> 0]
ReadyOf(session) == [kind |-> "ready", session |-> session, number |-> 0]
Null             == [kind |-> "none", session |-> 0, number |-> 0]

Events == [kind : TextKinds \cup {"error", "ready", "none"},
           session : 0 .. MaxStreams, number : 0 .. MaxTexts + MaxStreams]

VARIABLES
    latest,      \* latest_patch_payload
    subscribers, \* subscribers
    queue,       \* the queue of each stream
    replay,      \* how far each stream's subscribe has come
    replayed,    \* the payload it puts
    publishing,  \* per publisher: the step of _publish it is at
    sending,     \* the event it publishes
    todo,        \* the subscribers it has yet to serve
    serving,     \* the one it serves
    raced        \* whether a queue has changed, since the last text was published,
                 \* between a look for room in it and what it led to

subscription == <<subscribers, replay, replayed>>
publication  == <<publishing, sending, todo, serving, raced>>
fanout       == <<latest, queue, subscription, publication>>

QueueOK ==
    /\ queue \in [Streams -> Seq(Events)]
    /\ \A s \in Streams : Len(queue[s]) <= QueueLimit

SubscriptionOK ==
    /\ subscribers \subseteq Streams
    /\ replay \in [Streams -> {"none", "registered", "checked", "read", "done",
                               "refused"}]
    /\ replayed \in [Streams -> Events]

PublicationOK ==
    /\ publishing \in [Publishers ->
                         {"idle", "snapshot", "next", "evict", "put"}]
    /\ sending \in [Publishers -> Events]
    /\ todo \in [Publishers -> SUBSET Streams]
    /\ serving \in [Publishers -> 0 .. MaxStreams]
    /\ raced \in BOOLEAN

FanoutTypeOK == latest \in Events /\ QueueOK /\ SubscriptionOK /\ PublicationOK

FanoutInit ==
    /\ latest = Null
    /\ subscribers = {}
    /\ queue = [s \in Streams |-> <<>>]
    /\ replay = [s \in Streams |-> "none"]
    /\ replayed = [s \in Streams |-> Null]
    /\ publishing = [p \in Publishers |-> "idle"]
    /\ sending = [p \in Publishers |-> Null]
    /\ todo = [p \in Publishers |-> {}]
    /\ serving = [p \in Publishers |-> 0]
    /\ raced = FALSE

Full(s)   == Len(queue[s]) = QueueLimit
Quiet(p)  == publishing[p] = "idle"
Serves(p, s) == publishing[p] \in {"evict", "put"} /\ serving[p] = s
At(p, step, next) ==
    publishing[p] = step /\ publishing' = [publishing EXCEPT ![p] = next]

(***************************************************************************)
(* _publish.  A text is the latest from the first step on; the subscribers *)
(* are read under their lock and served one after the other, in no         *)
(* particular order.                                                       *)
(***************************************************************************)
Publish(p, event) ==
    /\ At(p, "idle", "snapshot")
    /\ sending' = [sending EXCEPT ![p] = event]
    /\ latest' = IF event.kind \in TextKinds THEN event ELSE latest
    /\ raced' = (raced /\ event.kind \notin TextKinds)
    /\ UNCHANGED <<queue, subscription, todo, serving>>

\* What p publishes, while it does.
Sends(p, goesOn) == sending' = [sending EXCEPT ![p] = IF goesOn THEN @ ELSE Null]

TakeSubscribers(p) ==
    /\ At(p, "snapshot", IF subscribers = {} THEN "idle" ELSE "next")
    /\ todo' = [todo EXCEPT ![p] = subscribers]
    /\ Sends(p, subscribers # {})
    /\ UNCHANGED <<latest, queue, subscription, serving, raced>>

LookForRoom(p) ==
    \E s \in todo[p] :
        /\ At(p, "next", IF Full(s) THEN "evict" ELSE "put")
        /\ serving' = [serving EXCEPT ![p] = s]
        /\ todo' = [todo EXCEPT ![p] = @ \ {s}]
        /\ UNCHANGED <<latest, queue, subscription, sending, raced>>

\* The oldest event makes room, if the stream has not taken it in the meantime.
Evict(p) ==
    /\ At(p, "evict", "put")
    /\ queue' = [queue EXCEPT ![serving[p]] = IF @ = <<>> THEN @ ELSE Tail(@)]
    /\ raced' = (raced \/ ~Full(serving[p]))
    /\ UNCHANGED <<latest, subscription, sending, todo, serving>>

\* Mutant: the queue may grow.
PutAnyway(p) ==
    /\ At(p, "put", IF todo[p] = {} THEN "idle" ELSE "next")
    /\ queue' = [queue EXCEPT ![serving[p]] = Append(@, sending[p])]
    /\ raced' = raced
    /\ serving' = [serving EXCEPT ![p] = 0]
    /\ Sends(p, todo[p] # {})
    /\ UNCHANGED <<latest, subscription, todo>>

\* A queue that is full again loses the event.
Put(p) ==
    /\ At(p, "put", IF todo[p] = {} THEN "idle" ELSE "next")
    /\ queue' = [queue EXCEPT ![serving[p]] =
                    IF Full(serving[p]) THEN @ ELSE Append(@, sending[p])]
    /\ raced' = (raced \/ \E q \in Publishers \ {p} : Serves(q, serving[p]))
    /\ serving' = [serving EXCEPT ![p] = 0]
    /\ Sends(p, todo[p] # {})
    /\ UNCHANGED <<latest, subscription, todo>>

PublishStep(p) ==
    TakeSubscribers(p) \/ LookForRoom(p) \/ Evict(p) \/ Put(p)

(***************************************************************************)
(* subscribe.  latest_patch_payload is read twice, and a start or a stop   *)
(* may clear it in between: the stream then replays no payload at all.     *)
(***************************************************************************)
Replays(s, step, next) ==
    replay[s] = step /\ replay' = [replay EXCEPT ![s] = next]

Register(s) ==
    /\ Replays(s, "none", "registered")
    /\ subscribers' = subscribers \cup {s}
    /\ UNCHANGED <<latest, queue, replayed, publication>>

\* Mutant: nothing is replayed.
ReplayNothing(s) ==
    /\ Replays(s, "registered", "done")
    /\ UNCHANGED <<latest, queue, subscribers, replayed, publication>>

CheckLatest(s) ==
    /\ Replays(s, "registered", IF latest = Null THEN "done" ELSE "checked")
    /\ UNCHANGED <<latest, queue, subscribers, replayed, publication>>

ReadLatest(s) ==
    /\ Replays(s, "checked", "read")
    /\ replayed' = [replayed EXCEPT ![s] = latest]
    /\ UNCHANGED <<latest, queue, subscribers, publication>>

\* put_nowait raises when the queue is full: the request fails, and its queue
\* stays registered.
Replay(s) ==
    /\ Replays(s, "read", IF Full(s) THEN "refused" ELSE "done")
    /\ queue' = [queue EXCEPT ![s] =
                    IF Full(s) THEN @ ELSE Append(@, replayed[s])]
    /\ raced' = (raced \/ \E p \in Publishers : Serves(p, s))
    /\ replayed' = [replayed EXCEPT ![s] = Null]
    /\ UNCHANGED <<latest, subscribers, publishing, sending, todo, serving>>

SubscribeStep(s) == CheckLatest(s) \/ ReadLatest(s) \/ Replay(s)

\* The stream takes its oldest event.
CanTake(s) == replay[s] = "done" /\ queue[s] # <<>>

Take(s) ==
    /\ queue' = [queue EXCEPT ![s] = Tail(@)]
    /\ UNCHANGED <<latest, subscription, publication>>

\* The client is gone, or a payload could not be sent: the generator ends, and
\* its queue with it.  (What is put in the queue of a client that is gone until
\* the generator notices, at its next write, is read by nobody; neither is what a
\* subscribe in progress would still put there.)
Drop(s) ==
    /\ subscribers' = subscribers \ {s}
    /\ queue' = [t \in Streams |-> IF t = s THEN <<>> ELSE queue[t]]
    /\ replay' = [t \in Streams |-> IF t = s THEN "none" ELSE replay[t]]
    /\ replayed' = [t \in Streams |-> IF t = s THEN Null ELSE replayed[t]]
    /\ UNCHANGED <<latest, publication>>
=============================================================================
