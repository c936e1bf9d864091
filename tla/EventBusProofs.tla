--------------------------- MODULE EventBusProofs ---------------------------
(***************************************************************************)
(* The streams of the event bus, for any number of runs, clients and       *)
(* events and any limits: every connection gets an unbroken tail of its    *)
(* run's events and ends at the terminal one, and no slot leaks.           *)
(***************************************************************************)
EXTENDS EventBus, FiniteSetTheorems, TLAPS

-----------------------------------------------------------------------------
(* Lemmas on sequences.                                                    *)

(* Moving the head of b to the end of a leaves their concatenation alone.  *)
LEMMA MoveHead ==
    ASSUME NEW S, NEW a \in Seq(S), NEW b \in Seq(S), b # << >>
    PROVE  /\ Append(a, Head(b)) \in Seq(S)
           /\ Tail(b) \in Seq(S)
           /\ Append(a, Head(b)) \o Tail(b) = a \o b
<1>1. Head(b) \in S /\ Tail(b) \in Seq(S) /\ Len(b) >= 1
  OBVIOUS
<1>2. Append(a, Head(b)) \in Seq(S) /\ Append(a, Head(b)) \o Tail(b) \in Seq(S)
  BY <1>1
<1>3. Len(Append(a, Head(b)) \o Tail(b)) = Len(a \o b)
  BY <1>1
<1>4. ASSUME NEW i \in 1..Len(a \o b)
      PROVE  (Append(a, Head(b)) \o Tail(b))[i] = (a \o b)[i]
  <2>1. CASE i <= Len(a)
    BY <1>1, <2>1
  <2>2. CASE i = Len(a) + 1
    BY <1>1, <2>2
  <2>3. CASE i > Len(a) + 1
    BY <1>1, <2>3
  <2> QED BY <2>1, <2>2, <2>3
<1> QED BY <1>1, <1>2, <1>3, <1>4

LEMMA AppendLast ==
    ASSUME NEW S, NEW a \in Seq(S), NEW b \in Seq(S), NEW e \in S
    PROVE  a \o Append(b, e) = Append(a \o b, e)
OBVIOUS

LEMMA ConcatFacts ==
    ASSUME NEW S, NEW a \in Seq(S), NEW b \in Seq(S)
    PROVE  /\ a \o b \in Seq(S)
           /\ Len(a \o b) = Len(a) + Len(b)
           /\ Len(a) \in Nat /\ Len(b) \in Nat /\ Len(a \o b) \in Nat
           /\ \A k \in DOMAIN a : k \in 1..Len(a \o b) /\ (a \o b)[k] = a[k]
           /\ b # << >> => /\ Len(a) + 1 \in 1..Len(a \o b)
                           /\ (a \o b)[Len(a) + 1] = Head(b)
OBVIOUS

LEMMA AppendFacts ==
    ASSUME NEW S, NEW a \in Seq(S), NEW e \in S
    PROVE  /\ Append(a, e) \in Seq(S)
           /\ Append(a, e) # << >>
           /\ Len(Append(a, e)) = Len(a) + 1
           /\ Append(a, e)[Len(a) + 1] = e
           /\ \A k \in DOMAIN a : Append(a, e)[k] = a[k]
           /\ \A k \in DOMAIN Append(a, e) : k \in DOMAIN a \/ k = Len(a) + 1
OBVIOUS

LEMMA HeadTailFacts ==
    ASSUME NEW S, NEW b \in Seq(S), b # << >>
    PROVE  /\ Head(b) \in S /\ Tail(b) \in Seq(S)
           /\ Len(Tail(b)) = Len(b) - 1
           /\ Len(b) = 1 => Tail(b) = << >>
OBVIOUS

LEMMA EmptyFacts ==
    ASSUME NEW S
    PROVE  << >> \in Seq(S) /\ \A h \in Seq(S) : << >> \o h = h
OBVIOUS

(* The next event extends an interval, and the oldest can leave it.        *)
LEMMA IntervalAppend ==
    ASSUME NEW S, NEW s \in Seq(S), NEW from \in Int, NEW to \in Int,
           NEW n \in S, n = to + 1, Interval(s, from, to)
    PROVE  Interval(Append(s, n), from, n)
BY DEF Interval

LEMMA IntervalTail ==
    ASSUME NEW S, NEW s \in Seq(S), NEW from \in Int, NEW to \in Int,
           s # << >>, Interval(s, from, to)
    PROVE  Interval(Tail(s), from + 1, to) /\ Len(Tail(s)) = Len(s) - 1
BY DEF Interval

-----------------------------------------------------------------------------
(* The invariant.                                                          *)

Number == 1..MaxEvents

(* A replay buffer holds the newest events of its run, as many as the      *)
(* limit allows unless it was evicted.                                     *)
HistoryInv ==
    \A r \in Runs :
        /\ Interval(history[r], published[r] - Len(history[r]), published[r])
        /\ r \notin expired => published[r] - Len(history[r]) = Oldest(published[r])

SlotsInv ==
    \A r \in Runs :
        /\ subscribers[r] = {c \in Readers : conn[c] \in Attached /\ Watched[c] = r}
        /\ IsFiniteSet(subscribers[r])
        /\ Cardinality(subscribers[r]) <= MaxSubscribers

(* StreamIsTail for one connection.                                        *)
Tailing(c) ==
    \E from \in 0..joined[c] :
        /\ Interval(received[c] \o queue[c], from, published[Watched[c]])
        /\ Watched[c] \notin expired => from = Oldest(joined[c])

LEMMA TailingIs ==
    /\ StreamIsTail <=> \A c \in Readers : conn[c] \in Attached => Tailing(c)
    /\ StreamIsTail' <=> \A c \in Readers : conn'[c] \in Attached => Tailing(c)'
BY DEF StreamIsTail, Tailing

EventBusInv == TypeOK /\ HistoryInv /\ SlotsInv /\ StreamIsTail /\ EndsAtTerminal

LEMMA InitInv == Init => EventBusInv
<1> SUFFICES ASSUME Init PROVE EventBusInv
  OBVIOUS
<1> USE EventBusAssumption
<1>1. TypeOK
  BY DEF Init, TypeOK, State
<1>2. HistoryInv
  BY DEF Init, HistoryInv, Interval, Oldest
<1>3. SlotsInv
  BY FS_EmptySet DEF Init, SlotsInv, Attached
<1>4. StreamIsTail /\ EndsAtTerminal
  BY DEF Init, StreamIsTail, EndsAtTerminal, Attached
<1> QED BY <1>1, <1>2, <1>3, <1>4 DEF EventBusInv

(* What is evicted leaves the buffers as they may be.                      *)
LEMMA EvictKeeps ==
    ASSUME EventBusInv
    PROVE  /\ Evict(history) \in [Runs -> Seq(Number)]
           /\ \A r \in Runs :
                 LET h == Evict(history)[r] IN
                 /\ Len(h) <= HistoryLimit
                 /\ Len(h) <= published[r]
                 /\ Interval(h, published[r] - Len(h), published[r])
                 /\ r \notin expired =>
                       /\ h = history[r]
                       /\ published[r] - Len(h) = Oldest(published[r])
<1> USE EventBusAssumption
<1>1. Evict(history) \in [Runs -> Seq(Number)]
  <2>1. history \in [Runs -> Seq(Number)]
    BY DEF EventBusInv, TypeOK, Number
  <2>2. << >> \in Seq(Number)
    BY EmptyFacts
  <2> QED BY <2>1, <2>2 DEF Evict
<1>2. ASSUME NEW r \in Runs
      PROVE  LET h == Evict(history)[r] IN
             /\ Len(h) <= HistoryLimit
             /\ Len(h) <= published[r]
             /\ Interval(h, published[r] - Len(h), published[r])
             /\ r \notin expired =>
                   /\ h = history[r]
                   /\ published[r] - Len(h) = Oldest(published[r])
  <2>1. published[r] \in Nat /\ history[r] \in Seq(Number)
    BY DEF EventBusInv, TypeOK, Number
  <2>2. CASE r \in expired
    BY <2>1, <2>2 DEF Evict, Interval
  <2>3. CASE r \notin expired
    <3>1. Evict(history)[r] = history[r]
      BY <2>3 DEF Evict
    <3>2. published[r] - Len(history[r]) = Oldest(published[r])
      BY <2>3 DEF EventBusInv, HistoryInv
    <3>3. Len(history[r]) <= published[r]
      BY <2>1, <3>2 DEF Oldest
    <3> QED BY <3>1, <3>2, <3>3 DEF EventBusInv, HistoryInv, TypeOK
  <2> QED BY <2>2, <2>3
<1> QED BY <1>1, <1>2

(* What a stream has got never lies ahead of what its run published.       *)
LEMMA ReceivedArePublished ==
    ASSUME EventBusInv, NEW c \in Readers, conn[c] \in Attached,
           NEW k \in DOMAIN received[c]
    PROVE  received[c][k] <= published[Watched[c]]
<1> DEFINE s == received[c] \o queue[c]
<1>1. /\ Watched[c] \in Runs /\ published[Watched[c]] \in Nat
      /\ received[c] \in Seq(Number) /\ queue[c] \in Seq(Number)
      /\ joined[c] \in Nat
  BY EventBusAssumption DEF EventBusInv, TypeOK, Number
<1>2. PICK from \in 0..joined[c] : Interval(s, from, published[Watched[c]])
  BY DEF EventBusInv, StreamIsTail
<1>3. k \in 1..Len(s) /\ s[k] = received[c][k]
  BY <1>1, ConcatFacts
<1>4. s[k] = from + k /\ Len(s) = published[Watched[c]] - from
  BY <1>2, <1>3 DEF Interval
<1>5. Len(s) \in Nat
  BY <1>1, ConcatFacts
<1>6. from \in Nat
  BY <1>1, <1>2
<1> QED BY <1>1, <1>3, <1>4, <1>5, <1>6

-----------------------------------------------------------------------------
(* The steps.                                                              *)

LEMMA PublishInv ==
    ASSUME EventBusInv, NEW r \in Runs, NEW terminal \in BOOLEAN, Publish(r, terminal)
    PROVE  EventBusInv'
<1> USE EventBusAssumption
<1>0. PICK n \in Number : n = published[r] + 1
  BY DEF Publish, EventBusInv, TypeOK, Number
<1>1. /\ r \notin finished /\ r \notin expired
      /\ published[r] \in Nat /\ n \in Number /\ n = published[r] + 1
      /\ published' = [published EXCEPT ![r] = n]
      /\ finished' \subseteq finished \cup {r} /\ finished \subseteq finished'
      /\ history' = [Evict(history) EXCEPT ![r] = Remember(@, n)]
      /\ queue' = [c \in Readers |-> IF c \in subscribers[r]
                                     THEN Append(queue[c], n) ELSE queue[c]]
      /\ UNCHANGED <<expired, subscribers, conn, received, joined>>
  BY <1>0 DEF Publish, EventBusInv, TypeOK, Number
<1>2. /\ Remember(Evict(history)[r], n) \in Seq(Number)
      /\ Len(Remember(Evict(history)[r], n)) <= HistoryLimit
      /\ LET h == Remember(Evict(history)[r], n) IN
         Interval(h, n - Len(h), n) /\ n - Len(h) = Oldest(n)
  <2> DEFINE h == Evict(history)[r]
  <2>1. /\ h \in Seq(Number) /\ Len(h) <= HistoryLimit
        /\ Interval(h, published[r] - Len(h), published[r])
        /\ published[r] - Len(h) = Oldest(published[r])
    BY <1>1, EvictKeeps
  <2>2. CASE Len(h) < HistoryLimit
    <3>1. Remember(h, n) = Append(h, n)
      BY <2>2 DEF Remember
    <3>2. Interval(Append(h, n), published[r] - Len(h), n)
      BY <1>1, <2>1, IntervalAppend
    <3>3. Len(h) \in Nat /\ Len(h) = published[r]
      BY <1>1, <2>1, <2>2 DEF Oldest
    <3>4. Append(h, n) \in Seq(Number) /\ Len(Append(h, n)) = Len(h) + 1
      BY <1>1, <2>1, AppendFacts
    <3>5. n - Len(Append(h, n)) = Oldest(n) /\ n - Len(Append(h, n)) = published[r] - Len(h)
      BY <1>1, <2>2, <3>3, <3>4 DEF Oldest
    <3>6. Len(Append(h, n)) <= HistoryLimit
      BY <2>2, <3>3, <3>4
    <3> QED BY <3>1, <3>2, <3>4, <3>5, <3>6
  <2>3. CASE Len(h) = HistoryLimit
    <3>1. Remember(h, n) = Append(Tail(h), n) /\ h # << >>
      BY <2>1, <2>3 DEF Remember
    <3>2. /\ Interval(Tail(h), published[r] - Len(h) + 1, published[r])
          /\ Tail(h) \in Seq(Number) /\ Len(Tail(h)) = Len(h) - 1
      BY <1>1, <2>1, <3>1, IntervalTail, HeadTailFacts
    <3>3. Interval(Append(Tail(h), n), published[r] - Len(h) + 1, n)
      <4>1. published[r] - Len(h) + 1 \in Int /\ published[r] \in Int
        BY <1>1, <2>3
      <4> HIDE DEF h
      <4> QED BY <1>0, <3>2, <4>1, IntervalAppend
    <3>4. published[r] - HistoryLimit = Oldest(published[r]) /\ n - HistoryLimit = Oldest(n)
      BY <1>1, <2>1, <2>3 DEF Oldest
    <3>5. /\ Append(Tail(h), n) \in Seq(Number)
          /\ Len(Append(Tail(h), n)) = HistoryLimit
      BY <1>1, <2>3, <3>2, AppendFacts
    <3>6. published[r] - Len(h) + 1 = n - HistoryLimit
      BY <1>1, <2>3
    <3>7. Interval(Append(Tail(h), n), n - HistoryLimit, n)
      BY <3>3, <3>6
    <3> QED BY <3>1, <3>4, <3>5, <3>7
  <2> QED BY <2>1, <2>2, <2>3
<1>3. TypeOK'
  <2>1. history' \in [Runs -> Seq(Number)] /\ \A q \in Runs : Len(history'[q]) <= HistoryLimit
    BY <1>1, <1>2, EvictKeeps
  <2>2. queue' \in [Readers -> Seq(Number)]
    <3>1. \A c \in Readers : queue[c] \in Seq(Number)
      BY DEF EventBusInv, TypeOK, Number
    <3>2. \A c \in Readers : Append(queue[c], n) \in Seq(Number)
      BY <1>1, <3>1, AppendFacts
    <3> QED BY <1>1, <3>1, <3>2
  <2> QED BY <1>1, <2>1, <2>2 DEF EventBusInv, TypeOK, Number
<1>4. HistoryInv'
  <2> SUFFICES ASSUME NEW q \in Runs
               PROVE  /\ Interval(history'[q], published'[q] - Len(history'[q]), published'[q])
                      /\ q \notin expired => published'[q] - Len(history'[q]) = Oldest(published'[q])
    BY <1>1 DEF HistoryInv, Oldest, Interval
  <2>1. CASE q = r
    <3>1. history'[q] = Remember(Evict(history)[r], n) /\ published'[q] = n
      BY <1>1, <2>1, EvictKeeps DEF EventBusInv, TypeOK, Number
    <3> QED BY <1>2, <3>1
  <2>2. CASE q # r
    <3>1. history'[q] = Evict(history)[q] /\ published'[q] = published[q]
      BY <1>1, <2>2, EvictKeeps DEF EventBusInv, TypeOK, Number
    <3> QED BY <3>1, EvictKeeps
  <2> QED BY <2>1, <2>2
<1>5. SlotsInv'
  BY <1>1 DEF EventBusInv, SlotsInv
<1>6. StreamIsTail'
  <2> SUFFICES ASSUME NEW c \in Readers, conn[c] \in Attached
               PROVE  Tailing(c)'
    BY <1>1, TailingIs
  <2>1. PICK from \in 0..joined[c] :
            /\ Interval(received[c] \o queue[c], from, published[Watched[c]])
            /\ Watched[c] \notin expired => from = Oldest(joined[c])
    BY TailingIs DEF EventBusInv, Tailing
  <2>2. /\ received[c] \in Seq(Number) /\ queue[c] \in Seq(Number)
        /\ Watched[c] \in Runs /\ joined[c] \in Nat
    BY DEF EventBusInv, TypeOK, Number
  <2>3. CASE Watched[c] = r
    <3>1. c \in subscribers[r]
      BY <2>3 DEF EventBusInv, SlotsInv
    <3>2. queue'[c] = Append(queue[c], n) /\ published'[Watched[c]] = n
      BY <1>1, <2>3, <3>1 DEF EventBusInv, TypeOK
    <3>3. received[c] \o Append(queue[c], n) = Append(received[c] \o queue[c], n)
      <4>1. ASSUME NEW a \in Seq(Number), NEW b \in Seq(Number)
            PROVE  a \o Append(b, n) = Append(a \o b, n)
        BY <1>0, AppendLast
      <4> QED BY <2>2, <4>1
    <3>4. received[c] \o queue[c] \in Seq(Number)
      BY <2>2, ConcatFacts
    <3>5. Interval(Append(received[c] \o queue[c], n), from, n)
      <4>1. /\ from \in Int /\ published[r] \in Int
            /\ Interval(received[c] \o queue[c], from, published[r])
        BY <1>1, <2>1, <2>2, <2>3
      <4> QED BY <1>0, <3>4, <4>1, IntervalAppend
    <3> QED BY <1>1, <2>1, <3>2, <3>3, <3>5 DEF Tailing
  <2>4. CASE Watched[c] # r
    <3>1. c \notin subscribers[r]
      BY <2>4 DEF EventBusInv, SlotsInv
    <3>2. queue'[c] = queue[c] /\ published'[Watched[c]] = published[Watched[c]]
      BY <1>1, <2>2, <2>4, <3>1 DEF EventBusInv, TypeOK
    <3> QED BY <1>1, <2>1, <3>2 DEF Tailing
  <2> QED BY <2>3, <2>4
<1>7. EndsAtTerminal'
  <2> SUFFICES ASSUME NEW c \in Readers
               PROVE  /\ conn[c] = "ending" =>
                             /\ received[c] # << >>
                             /\ Terminal(Watched[c], received[c][Len(received[c])])'
                             /\ queue'[c] = << >>
                      /\ conn[c] = "listening" =>
                             \A k \in DOMAIN received[c] : ~Terminal(Watched[c], received[c][k])'
    BY <1>1 DEF EndsAtTerminal, Terminal
  <2>1. Watched[c] \in Runs
    OBVIOUS
  <2>2. CASE conn[c] = "ending"
    <3>1. Watched[c] \in finished /\ Watched[c] # r
      BY <1>1, <2>2 DEF EventBusInv, EndsAtTerminal, Terminal
    <3>2. c \notin subscribers[r]
      BY <3>1 DEF EventBusInv, SlotsInv
    <3> QED BY <1>1, <2>1, <2>2, <3>1, <3>2 DEF EventBusInv, EndsAtTerminal, Terminal, TypeOK
  <2>3. CASE conn[c] = "listening"
    <3> SUFFICES ASSUME NEW k \in DOMAIN received[c]
                 PROVE  ~Terminal(Watched[c], received[c][k])'
      BY <2>3
    <3>1. CASE Watched[c] = r
      <4>1. received[c][k] <= published[r]
        BY <2>3, <3>1, ReceivedArePublished DEF Attached
      <4>2. received[c][k] \in Int
        BY DEF EventBusInv, TypeOK, Number
      <4>3. published'[r] = n
        BY <1>1 DEF EventBusInv, TypeOK, Number
      <4> QED BY <1>1, <3>1, <4>1, <4>2, <4>3 DEF Terminal
    <3>2. CASE Watched[c] # r
      BY <1>1, <2>1, <2>3, <3>2 DEF EventBusInv, EndsAtTerminal, Terminal, TypeOK
    <3> QED BY <3>1, <3>2
  <2> QED BY <2>2, <2>3
<1> QED BY <1>3, <1>4, <1>5, <1>6, <1>7 DEF EventBusInv

LEMMA ExpireInv ==
    ASSUME EventBusInv, NEW r \in Runs, Expire(r) PROVE EventBusInv'
<1>1. /\ expired' = expired \cup {r} /\ r \in finished
      /\ UNCHANGED <<published, finished, history, subscribers, conn, queue, received, joined>>
  BY DEF Expire, run, link
<1>2. TypeOK'
  BY <1>1 DEF EventBusInv, TypeOK, Number
<1>3. HistoryInv'
  BY <1>1 DEF EventBusInv, HistoryInv, Interval, Oldest
<1>4. SlotsInv'
  BY <1>1 DEF EventBusInv, SlotsInv
<1>5. StreamIsTail'
  BY <1>1 DEF EventBusInv, StreamIsTail, Interval, Oldest
<1>6. EndsAtTerminal'
  BY <1>1 DEF EventBusInv, EndsAtTerminal, Terminal
<1> QED BY <1>2, <1>3, <1>4, <1>5, <1>6 DEF EventBusInv

LEMMA SubscribeInv ==
    ASSUME EventBusInv, NEW c \in Readers, Subscribe(c) PROVE EventBusInv'
<1> USE EventBusAssumption
<1> DEFINE r == Watched[c]
           h == Evict(history)[r]
<1>0. r \in Runs /\ published[r] \in Nat /\ published[r] <= MaxEvents
  BY DEF EventBusInv, TypeOK
<1>1. /\ r \in Runs /\ published[r] \in Nat /\ published[r] <= MaxEvents
      /\ conn[c] = "closed"
      /\ Cardinality(subscribers[r]) < MaxSubscribers
      /\ history' = Evict(history)
      /\ queue' = [queue EXCEPT ![c] = h]
      /\ subscribers' = [subscribers EXCEPT ![r] = @ \cup {c}]
      /\ conn' = [conn EXCEPT ![c] = "listening"]
      /\ received' = [received EXCEPT ![c] = << >>]
      /\ joined' = [joined EXCEPT ![c] = published[r]]
      /\ UNCHANGED <<published, finished, expired>>
  BY <1>0 DEF Subscribe, run
<1>2. TypeOK'
  BY <1>1, EvictKeeps DEF EventBusInv, TypeOK, Number, State
<1>3. HistoryInv'
  BY <1>1, EvictKeeps DEF HistoryInv, Interval, Oldest
<1>4. SlotsInv'
  <2> SUFFICES ASSUME NEW q \in Runs
               PROVE  /\ subscribers'[q] = {d \in Readers : conn'[d] \in Attached /\ Watched[d] = q}
                      /\ IsFiniteSet(subscribers'[q])
                      /\ Cardinality(subscribers'[q]) <= MaxSubscribers
    BY DEF SlotsInv, Attached
  <2>1. subscribers'[q] = {d \in Readers : conn'[d] \in Attached /\ Watched[d] = q}
    BY <1>1 DEF EventBusInv, SlotsInv, TypeOK, Attached
  <2>2. CASE q = r
    <3>1. c \notin subscribers[r] /\ IsFiniteSet(subscribers[r])
      BY <1>1 DEF EventBusInv, SlotsInv, Attached
    <3>2. /\ IsFiniteSet(subscribers[r] \cup {c})
          /\ Cardinality(subscribers[r] \cup {c}) = Cardinality(subscribers[r]) + 1
          /\ Cardinality(subscribers[r]) \in Nat
      BY <3>1, FS_AddElement, FS_CardinalityType
    <3>3. subscribers'[q] = subscribers[r] \cup {c}
      BY <1>1, <2>2 DEF EventBusInv, TypeOK, Number
    <3>4. IsFiniteSet(subscribers'[q]) /\ Cardinality(subscribers'[q]) <= MaxSubscribers
      <4>1. Cardinality(subscribers[r]) < MaxSubscribers /\ MaxSubscribers \in Nat
        BY <1>1
      <4>2. Cardinality(subscribers[r]) + 1 <= MaxSubscribers
        BY <3>2, <4>1
      <4> HIDE DEF r
      <4> QED BY <3>2, <3>3, <4>2
    <3> QED BY <2>1, <3>4
  <2>3. CASE q # r
    BY <1>1, <2>1, <2>3 DEF EventBusInv, SlotsInv, TypeOK
  <2> QED BY <2>2, <2>3
<1>5. StreamIsTail'
  <2> SUFFICES ASSUME NEW d \in Readers, conn'[d] \in Attached
               PROVE  Tailing(d)'
    BY TailingIs
  <2>1. CASE d = c
    <3>1. received'[d] = << >> /\ queue'[d] = h /\ joined'[d] = published[r]
      BY <1>1, <2>1 DEF EventBusInv, TypeOK, Number
    <3>2. h \in Seq(Number)
      BY <1>1, EvictKeeps
    <3>3. received'[d] \o queue'[d] = h
      BY <3>1, <3>2
    <3>4. published[r] - Len(h) \in 0..joined'[d]
      BY <1>1, <3>1, <3>2, EvictKeeps
    <3>5. /\ Interval(h, published[r] - Len(h), published[r])
          /\ r \notin expired => published[r] - Len(h) = Oldest(published[r])
      BY <1>1, EvictKeeps
    <3> QED BY <1>1, <2>1, <3>1, <3>3, <3>4, <3>5 DEF Tailing
  <2>2. CASE d # c
    <3>1. conn[d] \in Attached /\ UNCHANGED <<joined[d], received[d], queue[d]>>
      BY <1>1, <2>2 DEF EventBusInv, TypeOK
    <3> QED BY <1>1, <3>1, TailingIs DEF EventBusInv, Tailing
  <2> QED BY <2>1, <2>2
<1>6. EndsAtTerminal'
  BY <1>1 DEF EventBusInv, EndsAtTerminal, Terminal, TypeOK
<1> QED BY <1>2, <1>3, <1>4, <1>5, <1>6 DEF EventBusInv

LEMMA DeliverInv ==
    ASSUME EventBusInv, NEW c \in Readers, Deliver(c) PROVE EventBusInv'
<1> USE EventBusAssumption
<1> DEFINE r == Watched[c]
<1>0. /\ conn[c] = "listening" /\ queue[c] # << >> /\ r \in Runs
      /\ received[c] \in Seq(Number) /\ queue[c] \in Seq(Number)
  BY DEF Deliver, EventBusInv, TypeOK, Number
<1>a. PICK n \in Number : n = Head(queue[c])
  BY <1>0, HeadTailFacts
<1>1. /\ conn[c] = "listening" /\ queue[c] # << >> /\ r \in Runs
      /\ received[c] \in Seq(Number) /\ queue[c] \in Seq(Number)
      /\ received' = [received EXCEPT ![c] = Append(@, n)]
      /\ queue' = [queue EXCEPT ![c] = Tail(@)]
      /\ conn' = [conn EXCEPT ![c] = IF Terminal(r, n) THEN "ending" ELSE @]
      /\ UNCHANGED <<published, finished, expired, history, subscribers, joined>>
  BY <1>0, <1>a DEF Deliver, run
<1>2. /\ received'[c] \in Seq(Number) /\ queue'[c] \in Seq(Number)
      /\ received'[c] = Append(received[c], n) /\ queue'[c] = Tail(queue[c])
      /\ received'[c] \o queue'[c] = received[c] \o queue[c]
  <2>1. received'[c] = Append(received[c], n) /\ queue'[c] = Tail(queue[c])
    BY <1>1 DEF EventBusInv, TypeOK
  <2>2. /\ Append(received[c], n) \in Seq(Number) /\ Tail(queue[c]) \in Seq(Number)
        /\ Append(received[c], n) \o Tail(queue[c]) = received[c] \o queue[c]
    BY <1>0, <1>a, MoveHead
  <2> QED BY <2>1, <2>2
<1>3. TypeOK'
  BY <1>1, <1>2 DEF EventBusInv, TypeOK, Number, State
<1>4. HistoryInv'
  BY <1>1 DEF EventBusInv, HistoryInv, Interval, Oldest
<1>5. \A d \in Readers : conn'[d] \in Attached <=> conn[d] \in Attached
  BY <1>1 DEF EventBusInv, TypeOK, Number, Attached
<1>6. SlotsInv'
  BY <1>1, <1>5 DEF EventBusInv, SlotsInv
<1>7. \A d \in Readers : received'[d] \o queue'[d] = received[d] \o queue[d]
  BY <1>1, <1>2 DEF EventBusInv, TypeOK, Number
<1>8. StreamIsTail'
  BY <1>1, <1>5, <1>7 DEF EventBusInv, StreamIsTail, Interval, Oldest
<1>9. EndsAtTerminal'
  <2> SUFFICES ASSUME NEW d \in Readers
               PROVE  /\ conn'[d] = "ending" =>
                             /\ received'[d] # << >>
                             /\ Terminal(Watched[d], received'[d][Len(received'[d])])
                             /\ queue'[d] = << >>
                      /\ conn'[d] = "listening" =>
                             \A k \in DOMAIN received'[d] : ~Terminal(Watched[d], received'[d][k])
    BY <1>1 DEF EndsAtTerminal, Terminal
  <2>1. CASE d # c
    BY <1>1, <2>1 DEF EventBusInv, EndsAtTerminal, TypeOK
  <2>2. CASE d = c
    <3>1. /\ received'[c] # << >> /\ received'[c][Len(received'[c])] = n
          /\ Len(received'[c]) = Len(received[c]) + 1
      BY <1>0, <1>2, AppendFacts
    <3>2. ASSUME Terminal(r, n) PROVE queue'[c] = << >>
      <4> DEFINE s == received[c] \o queue[c]
      <4>1. PICK from \in 0..joined[c] : Interval(s, from, published[r])
        BY <1>1 DEF EventBusInv, StreamIsTail, Attached
      <4>2. joined[c] \in Nat /\ published[r] \in Nat
        BY <1>1 DEF EventBusInv, TypeOK, Number
      <4>3. Len(received[c]) + 1 \in 1..Len(s) /\ s[Len(received[c]) + 1] = n
        <5>1. s[Len(received[c]) + 1] = Head(queue[c])
          <6>1. ASSUME NEW a \in Seq(Number), NEW b \in Seq(Number), b # << >>
                PROVE  (a \o b)[Len(a) + 1] = Head(b)
            BY <6>1, ConcatFacts
          <6> QED BY <1>0, <6>1
        <5>2. Len(received[c]) + 1 \in 1..Len(s)
          BY <1>0, ConcatFacts
        <5> QED BY <1>a, <5>1, <5>2
      <4>4. from + (Len(received[c]) + 1) = published[r]
        BY <3>2, <4>1, <4>3 DEF Interval, Terminal
      <4>5. Len(s) = published[r] - from /\ from \in Nat
        BY <4>1, <4>2 DEF Interval
      <4>6. Len(s) = Len(received[c]) + Len(queue[c]) /\ Len(received[c]) \in Nat /\ Len(queue[c]) \in Nat
        BY <1>0, ConcatFacts
      <4>7. Len(queue[c]) = 1
        <5>1. ASSUME NEW f \in Nat, NEW a \in Nat, NEW q \in Nat, NEW p \in Nat,
                     f + (a + 1) = p, a + q = p - f
              PROVE  q = 1
          BY <5>1
        <5>2. Len(received[c]) + Len(queue[c]) = published[r] - from
          BY <4>5, <4>6
        <5> QED BY <4>2, <4>4, <4>5, <4>6, <5>1, <5>2
      <4> QED BY <1>0, <1>2, <4>7, HeadTailFacts
    <3>3. CASE Terminal(r, n)
      <4>1. conn'[c] = "ending"
        BY <1>1, <3>3 DEF EventBusInv, TypeOK, Number
      <4> QED BY <2>2, <3>1, <3>2, <3>3, <4>1
    <3>4. CASE ~Terminal(r, n)
      <4>1. conn'[c] = "listening"
        BY <1>1, <3>4 DEF EventBusInv, TypeOK, Number
      <4>2. ASSUME NEW k \in DOMAIN received'[c] PROVE ~Terminal(r, received'[c][k])
        <5>1. CASE k \in DOMAIN received[c]
          <6>1. received'[c][k] = received[c][k]
            BY <1>0, <1>2, <5>1, AppendFacts
          <6> QED BY <1>1, <5>1, <6>1 DEF EventBusInv, EndsAtTerminal
        <5>2. CASE k \notin DOMAIN received[c]
          <6>1. k = Len(received'[c])
            BY <1>0, <1>2, <3>1, <5>2, AppendFacts
          <6> QED BY <3>1, <3>4, <6>1
        <5> QED BY <5>1, <5>2
      <4> QED BY <2>2, <4>1, <4>2
    <3> QED BY <3>3, <3>4
  <2> QED BY <2>1, <2>2
<1> QED BY <1>3, <1>4, <1>6, <1>8, <1>9 DEF EventBusInv

(* Steps that only move a client between states that hold a slot, or       *)
(* between those that do not.                                              *)
LEMMA MovingInv ==
    ASSUME EventBusInv, NEW c \in Readers, Refuse(c) \/ Disconnect(c) \/ Retry(c)
    PROVE  EventBusInv'
<1>1. PICK s \in {"refused", "leaving", "closed"} :
          /\ conn' = [conn EXCEPT ![c] = s]
          /\ conn[c] \in Attached <=> s \in Attached
  BY DEF Refuse, Disconnect, Retry, Attached
<1>2. UNCHANGED <<published, finished, expired, history, subscribers, queue, received, joined>>
  BY DEF Refuse, Disconnect, Retry, run
<1>3. TypeOK'
  BY <1>1, <1>2 DEF EventBusInv, TypeOK, Number, State
<1>4. HistoryInv'
  BY <1>2 DEF EventBusInv, HistoryInv, Interval, Oldest
<1>5. \A d \in Readers : conn'[d] \in Attached <=> conn[d] \in Attached
  BY <1>1 DEF EventBusInv, TypeOK, Number
<1>6. SlotsInv'
  BY <1>2, <1>5 DEF EventBusInv, SlotsInv
<1>7. StreamIsTail'
  BY <1>2, <1>5 DEF EventBusInv, StreamIsTail, Interval, Oldest
<1>8. EndsAtTerminal'
  BY <1>1, <1>2 DEF EventBusInv, EndsAtTerminal, Terminal, TypeOK
<1> QED BY <1>3, <1>4, <1>6, <1>7, <1>8 DEF EventBusInv

LEMMA CleanupInv ==
    ASSUME EventBusInv, NEW c \in Readers, Cleanup(c) PROVE EventBusInv'
<1> USE EventBusAssumption
<1>1. /\ Watched[c] \in Runs /\ conn[c] \in Attached
      /\ conn' = [conn EXCEPT ![c] = "closed"]
      /\ subscribers' = [subscribers EXCEPT ![Watched[c]] = @ \ {c}]
      /\ queue' = [queue EXCEPT ![c] = << >>]
      /\ received' = [received EXCEPT ![c] = << >>]
      /\ joined' = [joined EXCEPT ![c] = 0]
      /\ UNCHANGED <<published, finished, expired, history>>
  BY DEF Cleanup, run, Attached
<1>2. TypeOK'
  BY <1>1 DEF EventBusInv, TypeOK, Number, State
<1>3. HistoryInv'
  BY <1>1 DEF EventBusInv, HistoryInv, Interval, Oldest
<1>4. SlotsInv'
  <2> SUFFICES ASSUME NEW q \in Runs
               PROVE  /\ subscribers'[q] = {d \in Readers : conn'[d] \in Attached /\ Watched[d] = q}
                      /\ IsFiniteSet(subscribers'[q])
                      /\ Cardinality(subscribers'[q]) <= MaxSubscribers
    BY DEF SlotsInv, Attached
  <2>1. subscribers'[q] = {d \in Readers : conn'[d] \in Attached /\ Watched[d] = q}
    BY <1>1 DEF EventBusInv, SlotsInv, TypeOK, Attached
  <2>2. /\ subscribers'[q] \subseteq subscribers[q]
        /\ IsFiniteSet(subscribers[q])
        /\ Cardinality(subscribers[q]) <= MaxSubscribers
    BY <1>1 DEF EventBusInv, SlotsInv, TypeOK
  <2>3. /\ IsFiniteSet(subscribers'[q])
        /\ Cardinality(subscribers'[q]) <= Cardinality(subscribers[q])
        /\ Cardinality(subscribers'[q]) \in Nat /\ Cardinality(subscribers[q]) \in Nat
    BY <2>2, FS_Subset, FS_CardinalityType
  <2> QED BY <2>1, <2>2, <2>3
<1>5. StreamIsTail'
  <2> SUFFICES ASSUME NEW d \in Readers, conn'[d] \in Attached
               PROVE  Tailing(d)'
    BY TailingIs
  <2>1. d # c
    BY <1>1 DEF EventBusInv, TypeOK, Number, Attached
  <2>2. conn[d] \in Attached /\ UNCHANGED <<joined[d], received[d], queue[d]>>
    BY <1>1, <2>1 DEF EventBusInv, TypeOK
  <2> QED BY <1>1, <2>2, TailingIs DEF EventBusInv, Tailing
<1>6. EndsAtTerminal'
  BY <1>1 DEF EventBusInv, EndsAtTerminal, Terminal, TypeOK
<1> QED BY <1>2, <1>3, <1>4, <1>5, <1>6 DEF EventBusInv

LEMMA InvariantHolds == Spec => []EventBusInv
<1>1. EventBusInv /\ [Next]_vars => EventBusInv'
  <2> SUFFICES ASSUME EventBusInv, [Next]_vars PROVE EventBusInv'
    OBVIOUS
  <2>1. ASSUME NEW r \in Runs, NEW terminal \in BOOLEAN, Publish(r, terminal)
        PROVE  EventBusInv'
    BY <2>1, PublishInv
  <2>2. ASSUME NEW r \in Runs, Expire(r) PROVE EventBusInv'
    BY <2>2, ExpireInv
  <2>3. ASSUME NEW c \in Readers, Subscribe(c) PROVE EventBusInv'
    BY <2>3, SubscribeInv
  <2>4. ASSUME NEW c \in Readers, Deliver(c) PROVE EventBusInv'
    BY <2>4, DeliverInv
  <2>5. ASSUME NEW c \in Readers, Refuse(c) \/ Disconnect(c) \/ Retry(c) PROVE EventBusInv'
    BY <2>5, MovingInv
  <2>6. ASSUME NEW c \in Readers, Cleanup(c) PROVE EventBusInv'
    BY <2>6, CleanupInv
  <2>7. CASE UNCHANGED vars
    BY <2>7 DEF vars, run, link, EventBusInv, TypeOK, HistoryInv, SlotsInv, StreamIsTail,
                EndsAtTerminal, Terminal, Interval, Oldest
  <2> QED BY <2>1, <2>2, <2>3, <2>4, <2>5, <2>6, <2>7 DEF Next
<1> QED BY <1>1, InitInv, PTL DEF Spec

-----------------------------------------------------------------------------
(* A connection's replay and live events together are an unbroken tail of  *)
(* its run's events: none lost, doubled or swapped (subscribe, publish and *)
(* the generator of sse_response).                                         *)
THEOREM StreamsAreTails == Spec => []StreamIsTail
BY InvariantHolds, PTL DEF EventBusInv

(* The server closes a stream exactly at the terminal event: the break of  *)
(* the generator's loop never comes early and never leaves events behind.  *)
THEOREM StreamsEndAtTerminal == Spec => []EndsAtTerminal
BY InvariantHolds, PTL DEF EventBusInv

(* Slots are held by live generators only and never exceed                 *)
(* MAX_SUBSCRIBERS_PER_RUN.                                                *)
THEOREM SlotsDoNotLeak == Spec => []SlotsAreHeld
<1>1. EventBusInv => SlotsAreHeld
  BY DEF EventBusInv, SlotsInv, SlotsAreHeld
<1> QED BY <1>1, InvariantHolds, PTL

(* Every variable of the bus keeps its type, and no replay buffer exceeds  *)
(* HISTORY_LIMIT.                                                          *)
THEOREM BusTypeCorrect == Spec => []TypeOK
BY InvariantHolds, PTL DEF EventBusInv

=============================================================================
