----------------------------- MODULE SdkClient -----------------------------
(***************************************************************************)
(* attest/sdk/: what happens to an observation a host program makes.  The  *)
(* host's threads hand it over without waiting to the event loop of the    *)
(* current client's worker thread; a callback on that loop puts it on a    *)
(* bounded queue, dropping the oldest one when it is full; the consumer    *)
(* task posts one at a time.  Every init() starts a further client, whose  *)
(* predecessor keeps working off what it has.  The backend may get to a    *)
(* post after the client has given it up, and the host may exit at any     *)
(* time, which ends the workers (they are daemon threads).                 *)
(***************************************************************************)
EXTENDS Integers, Sequences, FiniteSets

CONSTANTS
    Hosts,          \* threads of the host program
    QueueSize,      \* queue_maxsize
    MaxInits,       \* bound: calls of init()
    MaxObservations \* bound: observations

ASSUME SdkAssumption ==
    /\ QueueSize \in Nat \ {0}
    /\ MaxInits \in Nat
    /\ MaxObservations \in Nat

VARIABLES
    current,    \* _client, 0 for None
    started,    \* the clients created so far
    up,         \* those whose worker has set up its loop and queue
    dead,       \* those whose consumer could not start (no httpx)
    call,       \* what each host thread is in: an entry point of the SDK
    holding,    \* the observation each host thread is handing over, or 0
    made,       \* observations made so far; they are numbered
    inbox,      \* callbacks waiting on each client's loop
    queue,      \* each client's queue
    sending,    \* what each consumer is posting: at most one
    attempted,  \* what it has posted, successfully or not
    dropCount,  \* dropped_count
    accepted,   \* (history) what was handed to each client's loop, in order
    dropped,    \* (history) what was dropped from the queue
    wire,       \* posts the backend may still get to
    runs,       \* how many runs POST /observe started for each observation
    exited      \* whether the host has exited

Client == 1..MaxInits

worker == <<inbox, queue, sending, attempted, dropCount, accepted, dropped>>
clients == <<current, started, up, dead>>
host == <<call, holding, made>>
backend == <<wire, runs>>
vars == <<clients, host, worker, backend, exited>>

Init ==
    /\ current = 0
    /\ started = 0
    /\ up = {}
    /\ dead = {}
    /\ call = [h \in Hosts |-> "none"]
    /\ holding = [h \in Hosts |-> 0]
    /\ made = 0
    /\ inbox = [c \in Client |-> << >>]
    /\ queue = [c \in Client |-> << >>]
    /\ sending = [c \in Client |-> << >>]
    /\ attempted = [c \in Client |-> << >>]
    /\ dropCount = [c \in Client |-> 0]
    /\ accepted = [c \in Client |-> << >>]
    /\ dropped = {}
    /\ wire = {}
    /\ runs = [o \in 1..MaxObservations |-> 0]
    /\ exited = FALSE

(* init(): the worker thread is started and, after at most two seconds,    *)
(* whether it is up or not, the client is installed. If there is no thread *)
(* to be had, init leaves the SDK without a client.                        *)
StartClient ==
    /\ started < MaxInits
    /\ started' = started + 1
    /\ current' \in {started + 1, 0}
    /\ UNCHANGED <<up, dead, host, worker, backend>>

(* _run_loop; _consume ends at once if it cannot make its HTTP client.     *)
WorkerUp(c) ==
    /\ c \in (1..started) \ up
    /\ up' = up \cup {c}
    /\ dead' \in {dead, dead \cup {c}}
    /\ UNCHANGED <<current, started, host, worker, backend>>

(* A host thread enters a function under observe(), a call of a chain      *)
(* under wrap(), or a trace() block.                                       *)
Enter(h, entry) ==
    /\ call[h] = "none"
    /\ holding[h] = 0
    /\ made < MaxObservations
    /\ call' = [call EXCEPT ![h] = entry]
    /\ UNCHANGED <<clients, holding, made, worker, backend>>

(* record_answer() in a trace() block.                                     *)
RecordAnswer(h) ==
    /\ call[h] = "trace"
    /\ call' = [call EXCEPT ![h] = "answered"]
    /\ UNCHANGED <<clients, holding, made, worker, backend>>

(* What is worth an observation at the end: an Output that an observed     *)
(* function returned, anything a chain returned, and the answer of a       *)
(* trace() block, also when the block raised after it.                     *)
Observable(entry, outcome) ==
    \/ entry = "observe" /\ outcome = "output"
    \/ entry = "wrap" /\ outcome \in {"output", "other"}
    \/ entry = "answered"

(* The host's call ends; _submit_observation needs a client to go on.      *)
Leave(h) ==
    /\ call[h] # "none"
    /\ call' = [call EXCEPT ![h] = "none"]
    /\ \E outcome \in {"output", "other", "raised"} :
          IF Observable(call[h], outcome) /\ current # 0 /\ made < MaxObservations
          THEN /\ made' = made + 1
               /\ holding' = [holding EXCEPT ![h] = made + 1]
          ELSE UNCHANGED <<made, holding>>
    /\ UNCHANGED <<clients, worker, backend>>

(* submit() on the client that is installed by now, if there still is one: *)
(* nothing happens if its worker is not up or the sampling says no;        *)
(* otherwise a callback is left on its loop.                               *)
Submit(h) ==
    /\ holding[h] # 0
    /\ holding' = [holding EXCEPT ![h] = 0]
    /\ \/ UNCHANGED worker
       \/ /\ current \in up
          /\ inbox' = [inbox EXCEPT ![current] = Append(@, holding[h])]
          /\ accepted' = [accepted EXCEPT ![current] = Append(@, holding[h])]
          /\ UNCHANGED <<queue, sending, attempted, dropCount, dropped>>
    /\ UNCHANGED <<clients, call, made, backend>>

Full(c) == Len(queue[c]) >= QueueSize

(* Defective variants: room is not made; the newest one is dropped; the    *)
(* drop is counted when the queue becomes full.                            *)
EnqueueUnbounded(c) ==
    /\ inbox[c] # << >>
    /\ inbox' = [inbox EXCEPT ![c] = Tail(@)]
    /\ queue' = [queue EXCEPT ![c] = Append(@, Head(inbox[c]))]
    /\ UNCHANGED <<clients, host, backend, sending, attempted, dropCount,
                   accepted, dropped>>

EnqueueDropNewest(c) ==
    /\ inbox[c] # << >>
    /\ inbox' = [inbox EXCEPT ![c] = Tail(@)]
    /\ queue' = IF Full(c) THEN queue
                ELSE [queue EXCEPT ![c] = Append(@, Head(inbox[c]))]
    /\ dropped' = IF Full(c) THEN dropped \cup {Head(inbox[c])} ELSE dropped
    /\ dropCount' = IF Full(c) THEN [dropCount EXCEPT ![c] = @ + 1] ELSE dropCount
    /\ UNCHANGED <<clients, host, backend, sending, attempted, accepted>>

EnqueueCountLate(c) ==
    /\ inbox[c] # << >>
    /\ inbox' = [inbox EXCEPT ![c] = Tail(@)]
    /\ queue' = [queue EXCEPT ![c] =
                    Append(IF Full(c) THEN Tail(@) ELSE @, Head(inbox[c]))]
    /\ dropped' = IF Full(c) THEN dropped \cup {Head(queue[c])} ELSE dropped
    /\ dropCount' = IF Len(queue'[c]) = QueueSize
                    THEN [dropCount EXCEPT ![c] = @ + 1] ELSE dropCount
    /\ UNCHANGED <<clients, host, backend, sending, attempted, accepted>>

(* Defective variant: the callback looks up the installed client only when *)
(* it runs, which another init() may have replaced since the hand-over.    *)
EnqueueAtCurrent(c) ==
    LET d == IF current = 0 THEN c ELSE current IN
    /\ inbox[c] # << >>
    /\ inbox' = [inbox EXCEPT ![c] = Tail(@)]
    /\ queue' = [queue EXCEPT ![d] =
                    Append(IF Full(d) THEN Tail(@) ELSE @, Head(inbox[c]))]
    /\ dropped' = IF Full(d) THEN dropped \cup {Head(queue[d])} ELSE dropped
    /\ dropCount' = IF Full(d) THEN [dropCount EXCEPT ![d] = @ + 1] ELSE dropCount
    /\ UNCHANGED <<clients, host, backend, sending, attempted, accepted>>

(* _enqueue with _put_drop_oldest, one callback: no suspension inside.     *)
Enqueue(c) ==
    /\ inbox[c] # << >>
    /\ inbox' = [inbox EXCEPT ![c] = Tail(@)]
    /\ queue' = [queue EXCEPT ![c] =
                    Append(IF Full(c) THEN Tail(@) ELSE @, Head(inbox[c]))]
    /\ dropped' = IF Full(c) THEN dropped \cup {Head(queue[c])} ELSE dropped
    /\ dropCount' = IF Full(c) THEN [dropCount EXCEPT ![c] = @ + 1] ELSE dropCount
    /\ UNCHANGED <<clients, host, backend, sending, attempted, accepted>>

(* The consumer takes the next one and posts it.                           *)
Take(c) ==
    /\ c \in up \ dead
    /\ sending[c] = << >>
    /\ queue[c] # << >>
    /\ sending' = [sending EXCEPT ![c] = <<Head(queue[c])>>]
    /\ queue' = [queue EXCEPT ![c] = Tail(@)]
    /\ wire' = wire \cup {Head(queue[c])}
    /\ UNCHANGED <<clients, host, runs, inbox, attempted, dropCount,
                   accepted, dropped>>

(* POST /observe: a run of its own for every request.                      *)
Observe(o) ==
    /\ o \in wire
    /\ wire' = wire \ {o}
    /\ runs' = [runs EXCEPT ![o] = @ + 1]
    /\ UNCHANGED <<clients, host, worker>>

(* The post is lost on the way, or refused.                                *)
Lose(o) ==
    /\ o \in wire
    /\ wire' = wire \ {o}
    /\ UNCHANGED <<clients, host, worker, runs>>

(* Defective variants: a failed post is put back; it ends the consumer.    *)
AttemptAgain(c) ==
    /\ sending[c] # << >>
    /\ sending' = [sending EXCEPT ![c] = << >>]
    /\ \/ attempted' = [attempted EXCEPT ![c] = @ \o sending[c]] /\ UNCHANGED queue
       \/ ~Full(c) /\ queue' = [queue EXCEPT ![c] = @ \o sending[c]] /\ UNCHANGED attempted
    /\ UNCHANGED <<clients, host, backend, inbox, dropCount, accepted, dropped>>

AttemptOrDie(c) ==
    /\ sending[c] # << >>
    /\ sending' = [sending EXCEPT ![c] = << >>]
    /\ attempted' = [attempted EXCEPT ![c] = @ \o sending[c]]
    /\ up' \in {up, up \ {c}}
    /\ UNCHANGED <<current, started, dead, host, backend, inbox, queue,
                   dropCount, accepted, dropped>>

(* The post was answered, refused or timed out; a failure is only logged.  *)
(* After a timeout the backend may still get to it.                        *)
Attempt(c) ==
    /\ sending[c] # << >>
    /\ sending' = [sending EXCEPT ![c] = << >>]
    /\ attempted' = [attempted EXCEPT ![c] = @ \o sending[c]]
    /\ UNCHANGED <<clients, host, backend, inbox, queue, dropCount, accepted,
                   dropped>>

(* The host program ends, and its daemon threads with it.                  *)
HostExits == exited' = TRUE /\ UNCHANGED <<clients, host, worker, backend>>

HostStep(h) ==
    \/ \E entry \in {"observe", "wrap", "trace"} : Enter(h, entry)
    \/ RecordAnswer(h) \/ Leave(h) \/ Submit(h)

WorkerStep(c) == WorkerUp(c) \/ Enqueue(c) \/ Take(c) \/ Attempt(c)

Running == ~exited /\ exited' = exited

Next ==
    \/ Running /\ (StartClient \/ (\E h \in Hosts : HostStep(h))
                   \/ \E c \in Client : WorkerStep(c))
    \/ ~exited /\ HostExits
    \/ exited' = exited /\ \E o \in wire : Observe(o) \/ Lose(o)

Spec == Init /\ [][Next]_vars

(* A worker's loop runs every callback, resumes its consumer when there is *)
(* something to take, and every post ends (timeout_s).                     *)
FairSpec ==
    /\ Spec
    /\ \A c \in Client : /\ WF_vars(Running /\ Enqueue(c))
                         /\ WF_vars(Running /\ Take(c))
                         /\ WF_vars(Running /\ Attempt(c))

-----------------------------------------------------------------------------
(* Properties.                                                             *)

SeqSet(s) == {s[k] : k \in DOMAIN s}

(* Every variable has its type; no queue holds more than queue_maxsize.    *)
TypeOK ==
    /\ current \in 0..started
    /\ started \in 0..MaxInits
    /\ up \subseteq 1..started
    /\ dead \subseteq up
    /\ call \in [Hosts -> {"none", "observe", "wrap", "trace", "answered"}]
    /\ holding \in [Hosts -> 0..made]
    /\ made \in 0..MaxObservations
    /\ \A s \in {inbox, queue, sending, attempted, accepted} :
          s \in [Client -> Seq(1..made)]
    /\ \A c \in Client : Len(queue[c]) <= QueueSize /\ Len(sending[c]) <= 1
    /\ dropCount \in [Client -> 0..MaxObservations]
    /\ dropped \subseteq 1..made
    /\ wire \subseteq 1..made
    /\ runs \in [1..MaxObservations -> Nat]
    /\ exited \in BOOLEAN

(* What a client's loop accepted and did not drop is posted, being posted, *)
(* queued or waiting, each observation exactly once and in the order it    *)
(* was handed over, also across several threads of the host and a second   *)
(* init() in between: one after the other, those kept are at increasing    *)
(* places among the accepted, and the places left out were dropped.        *)
KeptInOrder ==
    \A c \in Client :
        LET kept  == attempted[c] \o sending[c] \o queue[c] \o inbox[c]
            stays == {i \in DOMAIN accepted[c] : accepted[c][i] \notin dropped}
        IN  \E place \in [DOMAIN kept -> stays] :
               /\ \A k \in DOMAIN kept : kept[k] = accepted[c][place[k]]
               /\ \A j, k \in DOMAIN kept : j < k => place[j] < place[k]
               /\ \A i \in stays : \E k \in DOMAIN kept : place[k] = i

(* dropped_count is the number of observations this client lost.           *)
DropsAreCounted ==
    \A c \in Client : dropCount[c] = Cardinality(SeqSet(accepted[c]) \cap dropped)

(* Overflow loses the oldest: nothing that still waits for its post was    *)
(* handed over before something that was dropped.                          *)
OldestGoFirst ==
    \A c \in Client : \A j, k \in DOMAIN accepted[c] :
        /\ accepted[c][j] \in dropped
        /\ accepted[c][k] \in SeqSet(queue[c]) \cup SeqSet(inbox[c])
        => j < k

(* An observation is verified at most once: whatever timed out, was lost   *)
(* or was answered late, through whichever client and however often the    *)
(* host called init(), it never starts a second run.                       *)
AtMostOneRun == \A o \in DOMAIN runs : runs[o] <= 1

(* Whatever the host and the backend do, an observation that was accepted  *)
(* by a client with a working consumer is posted or dropped in the end,    *)
(* unless the host exits: one failed post does not stop the worker.        *)
EachIsAttempted ==
    \A c \in Client : \A o \in 1..MaxObservations :
        (o \in SeqSet(accepted[c]) /\ c \notin dead)
            ~> (o \in SeqSet(attempted[c]) \cup dropped \/ exited)

=============================================================================
