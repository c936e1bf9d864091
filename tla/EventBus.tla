------------------------------ MODULE EventBus ------------------------------
(***************************************************************************)
(* attest/api/stream.py: the in-process bus between the runs, which        *)
(* publish, and the SSE connections of GET /runs/{run_id}/stream, each a   *)
(* generator with a queue of its own.  publish(), subscribe() and          *)
(* unsubscribe() never suspend (the queues are unbounded), so each is one  *)
(* step; the generators are suspended at queue.get() and at every yield.   *)
(* The k-th event published for a run is the number k.                     *)
(***************************************************************************)
EXTENDS Integers, Sequences, FiniteSets

CONSTANTS
    Runs,
    Readers,         \* clients of the stream endpoint
    Watched,         \* the run each client asks for
    HistoryLimit,    \* HISTORY_LIMIT
    MaxSubscribers,  \* MAX_SUBSCRIBERS_PER_RUN
    MaxEvents        \* bound: events a run publishes

ASSUME EventBusAssumption ==
    /\ Watched \in [Readers -> Runs]
    /\ HistoryLimit \in Nat \ {0}
    /\ MaxSubscribers \in Nat \ {0}
    /\ MaxEvents \in Nat

VARIABLES
    published,    \* number of events published for each run
    finished,     \* runs whose last event was a terminal one
    expired,      \* finished runs for longer than HISTORY_TTL_SECONDS
    history,      \* the replay buffer of each run, empty without an entry
    subscribers,  \* the connections registered for each run
    conn,         \* the state of each client's generator
    queue,        \* its queue
    received,     \* the events it yielded
    joined        \* (history variable) published[Watched[c]] when it subscribed

run  == <<published, finished>>
link == <<conn, queue, received, joined>>
vars == <<run, expired, history, subscribers, link>>

(* closed: not connected. listening: suspended in the loop. ending: it has *)
(* yielded the terminal event. leaving: the client went away, which        *)
(* cancels the generator. In the last two the finally block is still due.  *)
(* refused: the answer was the one error event for too many subscribers.   *)
State == {"closed", "listening", "ending", "leaving", "refused"}

Attached == {"listening", "ending", "leaving"}

Init ==
    /\ published = [r \in Runs |-> 0]
    /\ finished = {}
    /\ expired = {}
    /\ history = [r \in Runs |-> << >>]
    /\ subscribers = [r \in Runs |-> {}]
    /\ conn = [c \in Readers |-> "closed"]
    /\ queue = [c \in Readers |-> << >>]
    /\ received = [c \in Readers |-> << >>]
    /\ joined = [c \in Readers |-> 0]

(* _evict_expired: for every run, at the next publish() or subscribe() for *)
(* any run.                                                                *)
Evict(h) == [r \in Runs |-> IF r \in expired THEN << >> ELSE h[r]]

(* Defective variant: a deque without a maximal length.                    *)
RememberAll(h, n) == Append(h, n)

(* Appending to a deque of HISTORY_LIMIT places drops the oldest event.    *)
Remember(h, n) ==
    Append(IF Len(h) < HistoryLimit THEN h ELSE Tail(h), n)

(* Defective variant: while somebody listens, nothing is kept for replay.  *)
PublishLive(r, terminal) ==
    LET n == published[r] + 1 IN
    /\ r \notin finished
    /\ published[r] < MaxEvents
    /\ published' = [published EXCEPT ![r] = n]
    /\ finished' = IF terminal THEN finished \cup {r} ELSE finished
    /\ history' = [Evict(history) EXCEPT ![r] =
                      IF subscribers[r] = {} THEN Remember(@, n) ELSE @]
    /\ queue' = [c \in Readers |-> IF c \in subscribers[r]
                                   THEN Append(queue[c], n) ELSE queue[c]]
    /\ UNCHANGED <<expired, subscribers, conn, received, joined>>

(* publish. The orchestrator publishes nothing after a terminal event.     *)
Publish(r, terminal) ==
    LET n == published[r] + 1 IN
    /\ r \notin finished
    /\ published[r] < MaxEvents
    /\ published' = [published EXCEPT ![r] = n]
    /\ finished' = IF terminal THEN finished \cup {r} ELSE finished
    /\ history' = [Evict(history) EXCEPT ![r] = Remember(@, n)]
    /\ queue' = [c \in Readers |-> IF c \in subscribers[r]
                                   THEN Append(queue[c], n) ELSE queue[c]]
    /\ UNCHANGED <<expired, subscribers, conn, received, joined>>

(* HISTORY_TTL_SECONDS pass after the terminal event of a run.             *)
Expire(r) ==
    /\ r \in finished \ expired
    /\ expired' = expired \cup {r}
    /\ UNCHANGED <<run, history, subscribers, link>>

(* Defective variant: the queue starts empty.                              *)
SubscribeWithoutReplay(c) ==
    LET r == Watched[c] IN
    /\ conn[c] = "closed"
    /\ Cardinality(subscribers[r]) < MaxSubscribers
    /\ history' = Evict(history)
    /\ queue' = [queue EXCEPT ![c] = << >>]
    /\ subscribers' = [subscribers EXCEPT ![r] = @ \cup {c}]
    /\ conn' = [conn EXCEPT ![c] = "listening"]
    /\ received' = [received EXCEPT ![c] = << >>]
    /\ joined' = [joined EXCEPT ![c] = published[r]]
    /\ UNCHANGED <<run, expired>>

(* A connection starts its generator, which subscribes: the queue starts   *)
(* with the replay buffer.                                                 *)
Subscribe(c) ==
    LET r == Watched[c] IN
    /\ conn[c] = "closed"
    /\ Cardinality(subscribers[r]) < MaxSubscribers
    /\ history' = Evict(history)
    /\ queue' = [queue EXCEPT ![c] = Evict(history)[r]]
    /\ subscribers' = [subscribers EXCEPT ![r] = @ \cup {c}]
    /\ conn' = [conn EXCEPT ![c] = "listening"]
    /\ received' = [received EXCEPT ![c] = << >>]
    /\ joined' = [joined EXCEPT ![c] = published[r]]
    /\ UNCHANGED <<run, expired>>

(* TooManySubscribers: one run.error of the endpoint's own, then the end.  *)
Refuse(c) ==
    LET r == Watched[c] IN
    /\ conn[c] = "closed"
    /\ Cardinality(subscribers[r]) >= MaxSubscribers
    /\ conn' = [conn EXCEPT ![c] = "refused"]
    /\ UNCHANGED <<run, expired, history, subscribers, queue, received, joined>>

Terminal(r, n) == r \in finished /\ n = published[r]

(* Defective variant: the loop does not break.                             *)
DeliverOn(c) ==
    /\ conn[c] = "listening"
    /\ queue[c] # << >>
    /\ received' = [received EXCEPT ![c] = Append(@, Head(queue[c]))]
    /\ queue' = [queue EXCEPT ![c] = Tail(@)]
    /\ UNCHANGED <<run, expired, history, subscribers, conn, joined>>

(* The generator takes the next event and yields it. With an empty queue   *)
(* it only yields heartbeats.                                              *)
Deliver(c) ==
    /\ conn[c] = "listening"
    /\ queue[c] # << >>
    /\ LET n == Head(queue[c]) IN
       /\ received' = [received EXCEPT ![c] = Append(@, n)]
       /\ queue' = [queue EXCEPT ![c] = Tail(@)]
       /\ conn' = [conn EXCEPT ![c] = IF Terminal(Watched[c], n) THEN "ending" ELSE @]
    /\ UNCHANGED <<run, expired, history, subscribers, joined>>

(* The client goes away; the server notices later.                         *)
Disconnect(c) ==
    /\ conn[c] \in {"listening", "ending"}
    /\ conn' = [conn EXCEPT ![c] = "leaving"]
    /\ UNCHANGED <<run, expired, history, subscribers, queue, received, joined>>

(* Defective variant: a cancelled generator does not unsubscribe.          *)
CleanupIfEnding(c) ==
    /\ conn[c] \in {"ending", "leaving"}
    /\ conn' = [conn EXCEPT ![c] = "closed"]
    /\ subscribers' = IF conn[c] = "leaving" THEN subscribers
                      ELSE [subscribers EXCEPT ![Watched[c]] = @ \ {c}]
    /\ queue' = [queue EXCEPT ![c] = << >>]
    /\ received' = [received EXCEPT ![c] = << >>]
    /\ joined' = [joined EXCEPT ![c] = 0]
    /\ UNCHANGED <<run, expired, history>>

(* The finally block: unsubscribe. The queue goes with the generator.      *)
Cleanup(c) ==
    /\ conn[c] \in {"ending", "leaving"}
    /\ conn' = [conn EXCEPT ![c] = "closed"]
    /\ subscribers' = [subscribers EXCEPT ![Watched[c]] = @ \ {c}]
    /\ queue' = [queue EXCEPT ![c] = << >>]
    /\ received' = [received EXCEPT ![c] = << >>]
    /\ joined' = [joined EXCEPT ![c] = 0]
    /\ UNCHANGED <<run, expired, history>>

(* A refused client may try again.                                         *)
Retry(c) ==
    /\ conn[c] = "refused"
    /\ conn' = [conn EXCEPT ![c] = "closed"]
    /\ UNCHANGED <<run, expired, history, subscribers, queue, received, joined>>

Next ==
    \/ \E r \in Runs : (\E terminal \in BOOLEAN : Publish(r, terminal)) \/ Expire(r)
    \/ \E c \in Readers : \/ Subscribe(c)
                          \/ Refuse(c)
                          \/ Deliver(c)
                          \/ Disconnect(c)
                          \/ Cleanup(c)
                          \/ Retry(c)

Spec == Init /\ [][Next]_vars

(* The event loop resumes every generator whose queue has an event and     *)
(* every one that is cancelled or asked for the event after the last.      *)
FairSpec == Spec /\ \A c \in Readers : WF_vars(Deliver(c)) /\ WF_vars(Cleanup(c))

-----------------------------------------------------------------------------
(* Properties.                                                             *)

(* Every variable has its type, and no buffer exceeds its limit.           *)
TypeOK ==
    /\ published \in [Runs -> 0..MaxEvents]
    /\ finished \subseteq Runs
    /\ expired \subseteq finished
    /\ history \in [Runs -> Seq(1..MaxEvents)]
    /\ \A r \in Runs : Len(history[r]) <= HistoryLimit
    /\ subscribers \in [Runs -> SUBSET Readers]
    /\ conn \in [Readers -> State]
    /\ queue \in [Readers -> Seq(1..MaxEvents)]
    /\ received \in [Readers -> Seq(1..MaxEvents)]
    /\ joined \in [Readers -> 0..MaxEvents]

(* s holds the events from+1, from+2, ..., to.                             *)
Interval(s, from, to) ==
    /\ Len(s) = to - from
    /\ \A i \in 1..Len(s) : s[i] = from + i

Oldest(n) == IF n <= HistoryLimit THEN 0 ELSE n - HistoryLimit

(* What a connection has yielded and still has queued is an unbroken       *)
(* interval of its run's events up to the newest, each once and in order;  *)
(* it misses none published after it subscribed, and of the earlier ones   *)
(* only those beyond HISTORY_LIMIT, unless the run's history expired.      *)
StreamIsTail ==
    \A c \in Readers : conn[c] \in Attached =>
        LET r == Watched[c]
            s == received[c] \o queue[c]
        IN \E from \in 0..joined[c] :
               /\ Interval(s, from, published[r])
               /\ r \notin expired => from = Oldest(joined[c])

(* The server ends a stream by itself exactly at the terminal event: it    *)
(* neither stops before it nor waits on after it.                          *)
EndsAtTerminal ==
    \A c \in Readers :
        LET s == received[c] IN
        /\ conn[c] = "ending"
               => s # << >> /\ Terminal(Watched[c], s[Len(s)]) /\ queue[c] = << >>
        /\ conn[c] = "listening"
               => \A k \in DOMAIN s : ~Terminal(Watched[c], s[k])

(* A subscriber slot is held by exactly the connections whose generator is *)
(* alive, at most MAX_SUBSCRIBERS_PER_RUN of them: none leaks when clients *)
(* come and go.                                                            *)
SlotsAreHeld ==
    \A r \in Runs :
        /\ subscribers[r] = {c \in Readers : conn[c] \in Attached /\ Watched[c] = r}
        /\ Cardinality(subscribers[r]) <= MaxSubscribers

(* A stream opened before the history of its finished run is evicted does  *)
(* not hang: it ends, however late the client came.                        *)
StreamsEnd ==
    \A c \in Readers :
        (conn[c] = "listening" /\ Watched[c] \in finished /\ history[Watched[c]] # << >>)
            ~> conn[c] # "listening"

=============================================================================
