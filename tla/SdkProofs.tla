----------------------------- MODULE SdkProofs -----------------------------
(***************************************************************************)
(* The SDK's queues, for any number of host threads, clients and           *)
(* observations and any queue size: no observation starts two runs, what   *)
(* overflows is the oldest, and every loss is counted.                     *)
(***************************************************************************)
EXTENDS SdkClient, FiniteSetTheorems, SequenceTheorems, TLAPS

-----------------------------------------------------------------------------
(* Lemmas on sequences.                                                    *)

LEMMA AppendIs ==
    ASSUME NEW S, NEW s \in Seq(S), NEW x \in S
    PROVE  /\ Append(s, x) \in Seq(S)
           /\ Len(Append(s, x)) = Len(s) + 1 /\ Len(s) \in Nat
           /\ Append(s, x)[Len(s) + 1] = x
           /\ \A k \in 1..Len(s) : Append(s, x)[k] = s[k]
OBVIOUS

LEMMA TailIs ==
    ASSUME NEW S, NEW s \in Seq(S), s # << >>
    PROVE  /\ Tail(s) \in Seq(S) /\ Head(s) \in S /\ Head(s) = s[1]
           /\ Len(s) \in Nat \ {0} /\ Len(Tail(s)) = Len(s) - 1
           /\ \A k \in 1..(Len(s) - 1) : Tail(s)[k] = s[k + 1]
OBVIOUS

LEMMA SeqGrows ==
    ASSUME NEW S, NEW T, S \subseteq T, NEW s \in Seq(S)
    PROVE  s \in Seq(T)
OBVIOUS

LEMMA SeqSetIs ==
    ASSUME NEW S, NEW s \in Seq(S)
    PROVE  /\ SeqSet(s) \subseteq S
           /\ \A o \in SeqSet(s) : \E k \in 1..Len(s) : s[k] = o
           /\ \A k \in 1..Len(s) : s[k] \in SeqSet(s)
BY DEF SeqSet

(* Places in a sequence of which g elements are gone, q queued, i waiting. *)
LEMMA Positions ==
    ASSUME NEW g \in Nat, NEW q \in Nat, NEW i \in Nat, NEW a \in Nat, g + q + i = a
    PROVE  /\ g + q + (i + 1) = a + 1
           /\ \A k \in 1..i : g + q + k \in 1..a
           /\ \A k \in 1..q : g + k \in 1..a
           /\ \A k \in 1..g : k \in 1..a
OBVIOUS

-----------------------------------------------------------------------------
(* The invariant.                                                          *)

Made == 1..made

Scalars ==
    /\ current \in 0..started
    /\ started \in 0..MaxInits
    /\ up \subseteq 1..started
    /\ dead \subseteq up
    /\ call \in [Hosts -> {"none", "observe", "wrap", "trace", "answered"}]
    /\ holding \in [Hosts -> 0..made]
    /\ made \in 0..MaxObservations
    /\ dropCount \in [Client -> Nat]
    /\ dropped \subseteq Made
    /\ wire \subseteq Made
    /\ runs \in [1..MaxObservations -> Nat]
    /\ exited \in BOOLEAN

Queues ==
    /\ inbox \in [Client -> Seq(Made)]
    /\ queue \in [Client -> Seq(Made)]
    /\ sending \in [Client -> Seq(Made)]
    /\ attempted \in [Client -> Seq(Made)]
    /\ accepted \in [Client -> Seq(Made)]
    /\ \A c \in Client : Len(queue[c]) <= QueueSize /\ Len(sending[c]) <= 1

(* How many of the observations a client accepted have left its queue.     *)
Gone(c) == Len(accepted[c]) - Len(queue[c]) - Len(inbox[c])

(* The queue and the callbacks behind it are what a client accepted last.  *)
TailKept ==
    \A c \in Client :
        /\ Gone(c) \in Nat
        /\ \A k \in 1..Len(queue[c]) : queue[c][k] = accepted[c][Gone(c) + k]
        /\ \A k \in 1..Len(inbox[c]) :
              inbox[c][k] = accepted[c][Gone(c) + Len(queue[c]) + k]

(* No observation is accepted twice.                                       *)
Distinct ==
    \A c, d \in Client : \A j \in 1..Len(accepted[c]), k \in 1..Len(accepted[d]) :
        accepted[c][j] = accepted[d][k] => c = d /\ j = k

(* What a host thread holds is its own, and no client has it yet.          *)
HeldOnce ==
    \A h \in Hosts : holding[h] # 0 =>
        /\ \A g \in Hosts : holding[g] = holding[h] => g = h
        /\ \A c \in Client : \A k \in 1..Len(accepted[c]) :
              accepted[c][k] # holding[h]

Past(o) == \E c \in Client : \E k \in 1..Gone(c) : accepted[c][k] = o

(* What was dropped, is on the wire or has a run has left its queue, and   *)
(* what is on the wire has no run.                                         *)
SentOnce ==
    /\ \A o \in dropped \cup wire : Past(o)
    /\ \A o \in 1..MaxObservations :
          /\ runs[o] <= 1
          /\ runs[o] # 0 => Past(o) /\ o \notin wire

Order == TailKept /\ Distinct /\ HeldOnce /\ SentOnce

SdkInv == Scalars /\ Queues /\ Order /\ DropsAreCounted

LEMMA InitInv == Init => SdkInv
<1> SUFFICES ASSUME Init PROVE SdkInv
  OBVIOUS
<1> USE SdkAssumption
<1>1. \A S : << >> \in Seq(S)
  OBVIOUS
<1>2. Scalars /\ Queues
  <2>1. Scalars
    <3>1. /\ current = 0 /\ started = 0 /\ up = {} /\ dead = {} /\ made = 0
          /\ dropped = {} /\ wire = {} /\ exited = FALSE
          /\ call \in [Hosts -> {"none", "observe", "wrap", "trace", "answered"}]
          /\ holding \in [Hosts -> 0..0] /\ dropCount \in [Client -> Nat]
          /\ runs \in [1..MaxObservations -> Nat]
      BY DEF Init
    <3>2. /\ current \in 0..started /\ started \in 0..MaxInits
          /\ made \in 0..MaxObservations /\ holding \in [Hosts -> 0..made]
      BY <3>1
    <3> QED BY <3>1, <3>2 DEF Scalars
  <2>2. /\ inbox \in [Client -> Seq(Made)] /\ queue \in [Client -> Seq(Made)]
        /\ sending \in [Client -> Seq(Made)] /\ attempted \in [Client -> Seq(Made)]
        /\ accepted \in [Client -> Seq(Made)]
    BY <1>1 DEF Init
  <2>3. \A c \in Client : Len(queue[c]) <= QueueSize /\ Len(sending[c]) <= 1
    BY DEF Init
  <2> QED BY <2>1, <2>2, <2>3 DEF Queues
<1>3. \A c \in Client : inbox[c] = << >> /\ queue[c] = << >> /\ accepted[c] = << >>
  BY DEF Init
<1>4. Order
  BY <1>3 DEF Init, Order, TailKept, Gone, Distinct, HeldOnce, SentOnce
<1>5. DropsAreCounted
  <2>1. \A c \in Client : SeqSet(accepted[c]) \cap dropped = {}
    BY DEF Init
  <2> QED BY <2>1, FS_EmptySet DEF Init, DropsAreCounted
<1> QED BY <1>2, <1>4, <1>5 DEF SdkInv

LEMMA Parts ==
    SdkInv <=> /\ Scalars /\ Queues /\ TailKept /\ Distinct /\ HeldOnce /\ SentOnce
               /\ DropsAreCounted
BY DEF SdkInv, Order

LEMMA Lengths ==
    ASSUME Queues, TailKept, NEW c \in Client
    PROVE  /\ inbox[c] \in Seq(Made) /\ queue[c] \in Seq(Made) /\ accepted[c] \in Seq(Made)
           /\ Len(inbox[c]) \in Nat /\ Len(queue[c]) \in Nat /\ Len(accepted[c]) \in Nat
           /\ Gone(c) \in Nat
           /\ Gone(c) + Len(queue[c]) + Len(inbox[c]) = Len(accepted[c])
<1>1. inbox[c] \in Seq(Made) /\ queue[c] \in Seq(Made) /\ accepted[c] \in Seq(Made)
  BY DEF Queues
<1>2. Len(inbox[c]) \in Nat /\ Len(queue[c]) \in Nat /\ Len(accepted[c]) \in Nat
  BY <1>1
<1>3. Gone(c) \in Nat
  BY DEF TailKept
<1>4. Gone(c) = Len(accepted[c]) - Len(queue[c]) - Len(inbox[c])
  BY DEF Gone
<1>5. Gone(c) + Len(queue[c]) + Len(inbox[c]) = Len(accepted[c])
  BY <1>2, <1>4
<1> QED BY <1>1, <1>2, <1>3, <1>5

(* Steps that leave the queues and the backend alone.                      *)
LEMMA TailSame == TailKept /\ UNCHANGED <<inbox, queue, accepted>> => TailKept'
<1> SUFFICES ASSUME TailKept, UNCHANGED <<inbox, queue, accepted>> PROVE TailKept'
  OBVIOUS
<1>1. \A c \in Client : Gone(c)' = Gone(c)
  BY DEF Gone
<1> QED BY <1>1 DEF TailKept

LEMMA DistinctSame == Distinct /\ UNCHANGED accepted => Distinct'
BY DEF Distinct

LEMMA SentSame ==
    SentOnce /\ UNCHANGED <<inbox, queue, accepted, dropped, wire, runs>> => SentOnce'
BY DEF SentOnce, Past, Gone

LEMMA OrderSame ==
    ASSUME Order, UNCHANGED <<inbox, queue, accepted, dropped, holding, wire, runs>>
    PROVE  Order'
<1>1. HeldOnce'
  BY DEF Order, HeldOnce
<1> QED BY <1>1, TailSame, DistinctSame, SentSame DEF Order

LEMMA CountSame ==
    ASSUME DropsAreCounted, UNCHANGED <<accepted, dropped, dropCount>>
    PROVE  DropsAreCounted'
BY DEF DropsAreCounted, SeqSet

LEMMA QuietStep ==
    ASSUME SdkInv,
           \/ StartClient /\ exited' = exited
           \/ UNCHANGED vars
           \/ HostExits
           \/ \E c \in Client : WorkerUp(c) /\ exited' = exited
           \/ \E h \in Hosts, entry \in {"observe", "wrap", "trace"} :
                 Enter(h, entry) /\ exited' = exited
           \/ \E h \in Hosts : RecordAnswer(h) /\ exited' = exited
    PROVE  SdkInv'
<1> USE SdkAssumption
<1>1. UNCHANGED <<worker, backend, holding, made>>
  BY DEF StartClient, HostExits, WorkerUp, Enter, RecordAnswer, vars, host, clients
<1>2. Queues'
  BY <1>1 DEF SdkInv, Queues, worker, Made
<1>3. Order'
  BY <1>1, OrderSame DEF SdkInv, worker, backend
<1>4. DropsAreCounted'
  BY <1>1, CountSame DEF SdkInv, worker
<1>5. Scalars'
  <2> USE DEF SdkInv, Scalars, Made
  <2>1. CASE StartClient /\ exited' = exited
    BY <1>1, <2>1 DEF StartClient, worker, backend, host
  <2>2. CASE UNCHANGED vars
    BY <2>2 DEF vars, host, clients, worker, backend
  <2>3. CASE HostExits
    BY <2>3 DEF HostExits, host, clients, worker, backend
  <2>4. ASSUME NEW c \in Client, WorkerUp(c), exited' = exited PROVE Scalars'
    BY <2>4 DEF WorkerUp, host, worker, backend
  <2>5. ASSUME NEW h \in Hosts, NEW entry \in {"observe", "wrap", "trace"},
               Enter(h, entry), exited' = exited
        PROVE  Scalars'
    BY <2>5 DEF Enter, clients, worker, backend
  <2>6. ASSUME NEW h \in Hosts, RecordAnswer(h), exited' = exited PROVE Scalars'
    BY <2>6 DEF RecordAnswer, clients, worker, backend
  <2> QED BY <2>1, <2>2, <2>3, <2>4, <2>5, <2>6
<1> QED BY <1>2, <1>3, <1>4, <1>5 DEF SdkInv

(* An observation is made: it gets the next number.                        *)
LEMMA LeaveStep ==
    ASSUME SdkInv, NEW h \in Hosts, Leave(h), exited' = exited
    PROVE  SdkInv'
<1> USE SdkAssumption
<1>1. UNCHANGED <<clients, worker, backend>>
  BY DEF Leave
<1>2. \/ UNCHANGED <<made, holding>>
      \/ made < MaxObservations /\ made' = made + 1
         /\ holding' = [holding EXCEPT ![h] = made + 1]
  BY DEF Leave
<1>3. made \in Nat /\ made' \in Nat /\ made <= made'
      /\ Made \subseteq Made' /\ call' \in [Hosts -> {"none", "observe", "wrap", "trace", "answered"}]
  BY <1>2 DEF Leave, SdkInv, Scalars, Made
<1>4. Scalars'
  <2>1. /\ UNCHANGED <<current, started, up, dead, dropCount, dropped, wire, runs, exited>>
    BY <1>1 DEF clients, worker, backend
  <2>2. holding' \in [Hosts -> 0..made'] /\ made' \in 0..MaxObservations
    <3>1. holding \in [Hosts -> 0..made] /\ made \in 0..MaxObservations
      BY DEF SdkInv, Scalars
    <3>2. ASSUME NEW g \in Hosts PROVE holding[g] \in 0..(made + 1)
      BY <3>1
    <3> QED BY <1>2, <3>1, <3>2
  <2>3. dropped' \subseteq Made' /\ wire' \subseteq Made'
    BY <1>3, <2>1 DEF SdkInv, Scalars
  <2> QED BY <1>3, <2>1, <2>2, <2>3 DEF SdkInv, Scalars
<1>5. Queues'
  <2>1. ASSUME NEW f \in [Client -> Seq(Made)] PROVE f \in [Client -> Seq(Made')]
    BY <1>3, SeqGrows
  <2> QED BY <1>1, <2>1 DEF SdkInv, Queues, worker
<1>6. Order'
  <2>1. CASE UNCHANGED <<made, holding>>
    BY <1>1, <2>1, OrderSame DEF SdkInv, worker, backend
  <2>2. CASE made' = made + 1 /\ holding' = [holding EXCEPT ![h] = made + 1]
    <3>1. UNCHANGED <<inbox, queue, accepted, dropped, wire, runs>>
      BY <1>1 DEF worker, backend
    <3>2. TailKept' /\ Distinct' /\ SentOnce'
      BY <3>1, Parts, TailSame, DistinctSame, SentSame
    <3>3. \A c \in Client : \A k \in 1..Len(accepted[c]) : accepted[c][k] \in 1..made
      <4> SUFFICES ASSUME NEW c \in Client, NEW k \in 1..Len(accepted[c])
                   PROVE  accepted[c][k] \in Made
        BY DEF Made
      <4>1. accepted[c] \in Seq(Made)
        BY DEF SdkInv, Queues
      <4> QED BY <4>1
    <3>4. \A g \in Hosts : holding[g] \in 0..made
          /\ holding'[g] = IF g = h THEN made + 1 ELSE holding[g]
      BY <2>2 DEF SdkInv, Scalars
    <3>5. HeldOnce'
      BY <1>3, <3>1, <3>3, <3>4 DEF SdkInv, Order, HeldOnce
    <3> QED BY <3>2, <3>5 DEF Order
  <2> QED BY <1>2, <2>1, <2>2
<1>7. DropsAreCounted'
  BY <1>1, CountSame DEF SdkInv, worker
<1> QED BY <1>4, <1>5, <1>6, <1>7 DEF SdkInv

(* A client's loop accepts an observation: it joins the end of the tail.   *)
LEMMA SubmitStep ==
    ASSUME SdkInv, NEW h \in Hosts, Submit(h), exited' = exited
    PROVE  SdkInv'
<1> USE SdkAssumption
<1>1. PICK x : x = holding[h]
  OBVIOUS
<1>2. /\ UNCHANGED <<clients, call, made, backend, exited>>
      /\ UNCHANGED <<queue, sending, attempted, dropCount, dropped>>
      /\ holding' = [holding EXCEPT ![h] = 0]
      /\ x \in Made
  BY <1>1 DEF Submit, worker, SdkInv, Scalars, Made
<1>3. Scalars'
  BY <1>2 DEF SdkInv, Scalars, clients, backend, Made
<1>4. CASE UNCHANGED worker
  <2>1. Queues' /\ DropsAreCounted'
    BY <1>2, <1>4, CountSame DEF SdkInv, Queues, worker, Made
  <2>2. UNCHANGED <<inbox, queue, accepted, dropped, wire, runs>>
    BY <1>2, <1>4 DEF worker, backend
  <2>3. TailKept' /\ Distinct' /\ SentOnce'
    BY <2>2, Parts, TailSame, DistinctSame, SentSame
  <2>4. HeldOnce'
    BY <1>2, <2>2 DEF SdkInv, Order, HeldOnce, Scalars
  <2> QED BY <1>3, <2>1, <2>3, <2>4 DEF SdkInv, Order
<1>5. ASSUME NEW c \in Client, inbox' = [inbox EXCEPT ![c] = Append(@, x)],
             accepted' = [accepted EXCEPT ![c] = Append(@, x)]
      PROVE  SdkInv'
  <2>0. Queues /\ TailKept /\ Distinct /\ HeldOnce /\ SentOnce
    BY Parts
  <2>1. /\ Made' = Made /\ queue' = queue
        /\ inbox'[c] = Append(inbox[c], x) /\ accepted'[c] = Append(accepted[c], x)
        /\ \A d \in Client \ {c} : inbox'[d] = inbox[d] /\ accepted'[d] = accepted[d]
    BY <1>2, <1>5, <2>0 DEF Queues, Made
  <2>2. Queues'
    <3>1. inbox' \in [Client -> Seq(Made)] /\ accepted' \in [Client -> Seq(Made)]
      BY <1>2, <1>5, <2>0, AppendIs DEF Queues
    <3> QED BY <1>2, <2>0, <2>1, <3>1 DEF Queues
  <2>3. /\ inbox[c] \in Seq(Made) /\ accepted[c] \in Seq(Made)
        /\ Len(inbox[c]) \in Nat /\ Len(queue[c]) \in Nat /\ Len(accepted[c]) \in Nat
        /\ Gone(c) \in Nat
        /\ Gone(c) + Len(queue[c]) + Len(inbox[c]) = Len(accepted[c])
    BY <2>0, Lengths
  <2>4. /\ Len(inbox'[c]) = Len(inbox[c]) + 1
        /\ inbox'[c][Len(inbox[c]) + 1] = x
        /\ \A k \in 1..Len(inbox[c]) : inbox'[c][k] = inbox[c][k]
        /\ Len(accepted'[c]) = Len(accepted[c]) + 1
        /\ accepted'[c][Len(accepted[c]) + 1] = x
        /\ \A k \in 1..Len(accepted[c]) : accepted'[c][k] = accepted[c][k]
    BY <1>2, <2>1, <2>3, AppendIs
  <2>5. Gone(c)' = Gone(c)
    BY <2>1, <2>3, <2>4 DEF Gone
  <2>6. \A d \in Client \ {c} : Gone(d)' = Gone(d)
    BY <2>1 DEF Gone
  <2>7. TailKept'
    <3>1. ASSUME NEW d \in Client \ {c}
          PROVE  /\ Gone(d)' \in Nat
                 /\ \A k \in 1..Len(queue'[d]) : queue'[d][k] = accepted'[d][Gone(d)' + k]
                 /\ \A k \in 1..Len(inbox'[d]) :
                       inbox'[d][k] = accepted'[d][Gone(d)' + Len(queue'[d]) + k]
      <4>1. Gone(d)' = Gone(d) /\ inbox'[d] = inbox[d] /\ accepted'[d] = accepted[d]
        BY <2>1, <2>6
      <4> QED BY <2>0, <2>1, <4>1 DEF TailKept
    <3>2. ASSUME NEW k \in 1..Len(queue[c])
          PROVE  queue[c][k] = accepted'[c][Gone(c) + k]
      <4>1. Gone(c) + k \in 1..Len(accepted[c])
        BY <2>3
      <4>2. queue[c][k] = accepted[c][Gone(c) + k]
        BY <2>0 DEF TailKept
      <4> QED BY <2>4, <4>1, <4>2
    <3>3. ASSUME NEW k \in 1..Len(inbox'[c])
          PROVE  inbox'[c][k] = accepted'[c][Gone(c) + Len(queue[c]) + k]
      <4>1. CASE k = Len(inbox[c]) + 1
        <5>1. Gone(c) + Len(queue[c]) + k = Len(accepted[c]) + 1
          <6>1. Gone(c) + Len(queue[c]) + (Len(inbox[c]) + 1) = Len(accepted[c]) + 1
            <7>1. /\ Len(inbox[c]) \in Nat /\ Len(queue[c]) \in Nat
                  /\ Len(accepted[c]) \in Nat /\ Gone(c) \in Nat
                  /\ Gone(c) + Len(queue[c]) + Len(inbox[c]) = Len(accepted[c])
              BY <2>3
            <7>2. PICK g \in Nat, q \in Nat, i \in Nat, a \in Nat :
                     g = Gone(c) /\ q = Len(queue[c]) /\ i = Len(inbox[c]) /\ a = Len(accepted[c])
              BY <7>1
            <7>3. g + q + i = a
              BY <7>1, <7>2
            <7>4. g + q + (i + 1) = a + 1
              BY <7>3
            <7> QED BY <7>2, <7>4
          <6> QED BY <4>1, <6>1
        <5> QED BY <2>4, <4>1, <5>1
      <4>2. CASE k # Len(inbox[c]) + 1
        <5>1. /\ k \in 1..Len(inbox[c])
              /\ Gone(c) + Len(queue[c]) + k \in 1..Len(accepted[c])
          <6>1. k \in 1..Len(inbox[c])
            BY <2>3, <2>4, <4>2
          <6> QED BY <2>3, <6>1, Positions
        <5>2. inbox[c][k] = accepted[c][Gone(c) + Len(queue[c]) + k]
          BY <2>0, <5>1 DEF TailKept
        <5> QED BY <2>4, <5>1, <5>2
      <4> QED BY <4>1, <4>2
    <3> QED BY <2>1, <2>3, <2>5, <3>1, <3>2, <3>3 DEF TailKept
  <2>8. ASSUME NEW d \in Client, NEW k \in 1..Len(accepted'[d])
        PROVE  \/ k \in 1..Len(accepted[d]) /\ accepted'[d][k] = accepted[d][k]
               \/ d = c /\ k = Len(accepted[c]) + 1 /\ accepted'[d][k] = x
    <3>1. CASE d = c
      BY <2>3, <2>4, <3>1
    <3>2. CASE d # c
      BY <2>1, <3>2
    <3> QED BY <3>1, <3>2
  <2>9. \A d \in Client : \A k \in 1..Len(accepted[d]) : accepted[d][k] # x
    BY <1>1, <2>0 DEF Submit, HeldOnce
  <2>10. Distinct'
    <3> SUFFICES ASSUME NEW d \in Client, NEW e \in Client,
                        NEW j \in 1..Len(accepted'[d]), NEW k \in 1..Len(accepted'[e]),
                        accepted'[d][j] = accepted'[e][k]
                 PROVE  d = e /\ j = k
      BY DEF Distinct
    <3>1. \/ j \in 1..Len(accepted[d]) /\ accepted'[d][j] = accepted[d][j]
          \/ d = c /\ j = Len(accepted[c]) + 1 /\ accepted'[d][j] = x
      BY <2>8
    <3>2. \/ k \in 1..Len(accepted[e]) /\ accepted'[e][k] = accepted[e][k]
          \/ e = c /\ k = Len(accepted[c]) + 1 /\ accepted'[e][k] = x
      BY <2>8
    <3> QED BY <2>0, <2>9, <3>1, <3>2 DEF Distinct
  <2>11. HeldOnce'
    <3>1. \A g \in Hosts : holding'[g] = IF g = h THEN 0 ELSE holding[g]
      BY <1>2 DEF SdkInv, Scalars
    <3>2. \A g \in Hosts : holding'[g] # 0 => g # h /\ holding'[g] # x
      BY <1>1, <2>0, <3>1 DEF HeldOnce
    <3> QED BY <2>0, <2>8, <3>1, <3>2 DEF HeldOnce
  <2>12. ASSUME NEW d \in Client, NEW k \in 1..Gone(d)
         PROVE  k \in 1..Len(accepted[d]) /\ accepted'[d][k] = accepted[d][k] /\ k \in 1..Gone(d)'
    <3>1. k \in 1..Len(accepted[d])
      <4>1. PICK g1 \in Nat, q1 \in Nat, i1 \in Nat, a1 \in Nat :
               /\ g1 = Gone(d) /\ q1 = Len(queue[d]) /\ i1 = Len(inbox[d])
               /\ a1 = Len(accepted[d]) /\ g1 + q1 + i1 = a1
        BY <2>0, Lengths
      <4>2. k \in 1..a1
        BY <4>1, Positions
      <4> QED BY <4>1, <4>2
    <3>2. CASE d = c
      BY <2>4, <2>5, <3>1, <3>2
    <3>3. CASE d # c
      BY <2>1, <2>6, <3>1, <3>3
    <3> QED BY <3>2, <3>3
  <2>13. SentOnce'
    <3>1. ASSUME NEW o, Past(o) PROVE Past(o)'
      BY <2>12, <3>1 DEF Past
    <3> QED BY <1>2, <2>0, <3>1 DEF SentOnce, backend
  <2>14. DropsAreCounted'
    <3>1. ~Past(x)
      BY <2>9, <2>12 DEF Past
    <3>2. x \notin dropped
      BY <2>0, <3>1 DEF SentOnce
    <3>3. SeqSet(accepted'[c]) \subseteq SeqSet(accepted[c]) \cup {x}
      <4> SUFFICES ASSUME NEW o \in SeqSet(accepted'[c]), o # x
                   PROVE  o \in SeqSet(accepted[c])
        OBVIOUS
      <4>1. accepted'[c] \in Seq(Made)
        BY <2>1, <2>2 DEF Queues
      <4>2. PICK k \in 1..Len(accepted'[c]) : accepted'[c][k] = o
        BY <4>1, SeqSetIs
      <4>3. k \in 1..Len(accepted[c]) /\ accepted[c][k] = o
        BY <2>8, <4>2
      <4> QED BY <2>3, <4>3, SeqSetIs
    <3>4. SeqSet(accepted[c]) \subseteq SeqSet(accepted'[c])
      <4> SUFFICES ASSUME NEW o \in SeqSet(accepted[c])
                   PROVE  o \in SeqSet(accepted'[c])
        OBVIOUS
      <4>1. PICK k \in 1..Len(accepted[c]) : accepted[c][k] = o
        BY <2>3, SeqSetIs
      <4>2. k \in 1..Len(accepted'[c]) /\ accepted'[c][k] = o
        BY <2>3, <2>4, <4>1
      <4>3. accepted'[c] \in Seq(Made)
        BY <2>1, <2>2 DEF Queues
      <4> QED BY <4>2, <4>3, SeqSetIs
    <3>5. \A d \in Client : SeqSet(accepted'[d]) \cap dropped = SeqSet(accepted[d]) \cap dropped
      <4> SUFFICES ASSUME NEW d \in Client
                   PROVE  SeqSet(accepted'[d]) \cap dropped = SeqSet(accepted[d]) \cap dropped
        OBVIOUS
      <4>1. CASE d = c
        BY <3>2, <3>3, <3>4, <4>1
      <4>2. CASE d # c
        BY <2>1, <4>2
      <4> QED BY <4>1, <4>2
    <3>6. \A d \in Client : SeqSet(accepted[d])' = SeqSet(accepted'[d])
      BY DEF SeqSet
    <3> QED BY <1>2, <3>5, <3>6 DEF SdkInv, DropsAreCounted
  <2> QED BY <1>3, <2>2, <2>7, <2>10, <2>11, <2>13, <2>14 DEF SdkInv, Order
<1>6. ASSUME ~UNCHANGED worker
      PROVE  /\ current \in Client
             /\ inbox' = [inbox EXCEPT ![current] = Append(@, x)]
             /\ accepted' = [accepted EXCEPT ![current] = Append(@, x)]
  BY <1>1, <1>6 DEF Submit, SdkInv, Scalars, Client
<1> QED BY <1>4, <1>5, <1>6

(* Past only grows when no client forgets what it accepted.                *)
LEMMA PastGrows ==
    ASSUME Queues, TailKept, UNCHANGED accepted,
           \A c \in Client : Gone(c)' \in Nat /\ Gone(c) <= Gone(c)'
    PROVE  \A o : Past(o) => Past(o)'
<1> SUFFICES ASSUME NEW o, Past(o) PROVE Past(o)'
  OBVIOUS
<1>0. PICK c \in Client : \E k \in 1..Gone(c) : accepted[c][k] = o
  BY DEF Past
<1>1. PICK k \in 1..Gone(c) : accepted[c][k] = o
  BY <1>0
<1>2. Gone(c) \in Nat /\ Gone(c)' \in Nat /\ Gone(c) <= Gone(c)'
  BY DEF TailKept
<1>3. k \in 1..Gone(c)'
  BY <1>2
<1> QED BY <1>1, <1>3 DEF Past

(* The oldest one a client has still to post has not been dropped nor      *)
(* posted by any client.                                                   *)
LEMMA HeadIsFresh ==
    ASSUME SdkInv, NEW c \in Client, queue[c] # << >>
    PROVE  /\ Head(queue[c]) = queue[c][1] /\ Len(queue[c]) >= 1
           /\ Gone(c) + 1 \in 1..Len(accepted[c])
           /\ accepted[c][Gone(c) + 1] = Head(queue[c])
           /\ ~Past(Head(queue[c]))
<1>0. Queues /\ TailKept /\ Distinct
  BY Parts
<1>1. queue[c] \in Seq(Made) /\ Head(queue[c]) = queue[c][1] /\ Len(queue[c]) \in Nat \ {0}
  BY <1>0, TailIs, Lengths
<1>2. 1 \in 1..Len(queue[c])
  BY <1>1
<1>3. accepted[c][Gone(c) + 1] = Head(queue[c])
  BY <1>0, <1>1, <1>2 DEF TailKept
<1>4. Gone(c) + 1 \in 1..Len(accepted[c])
  <2>1. PICK g \in Nat, q \in Nat, i \in Nat, a \in Nat :
           /\ g = Gone(c) /\ q = Len(queue[c]) /\ i = Len(inbox[c]) /\ a = Len(accepted[c])
           /\ g + q + i = a
    BY <1>0, Lengths
  <2>2. g + 1 \in 1..a
    BY <1>2, <2>1, Positions
  <2> QED BY <2>1, <2>2
<1>5. ~Past(Head(queue[c]))
  <2> SUFFICES ASSUME NEW d \in Client, NEW k \in 1..Gone(d), accepted[d][k] = Head(queue[c])
               PROVE  FALSE
    BY DEF Past
  <2>1. Gone(d) \in Nat /\ k \in 1..Len(accepted[d])
    <3>1. PICK g \in Nat, q \in Nat, i \in Nat, a \in Nat :
             /\ g = Gone(d) /\ q = Len(queue[d]) /\ i = Len(inbox[d]) /\ a = Len(accepted[d])
             /\ g + q + i = a
      BY <1>0, Lengths
    <3>2. k \in 1..a
      BY <3>1, Positions
    <3> QED BY <3>1, <3>2
  <2>2. d = c /\ k = Gone(c) + 1
    BY <1>0, <1>3, <1>4, <2>1 DEF Distinct
  <2> QED BY <2>1, <2>2
<1> QED BY <1>1, <1>2, <1>3, <1>4, <1>5

(* A callback puts the next one on the queue, dropping the oldest if full. *)
LEMMA EnqueueStep ==
    ASSUME SdkInv, NEW c \in Client, Enqueue(c), exited' = exited
    PROVE  SdkInv'
<1> USE SdkAssumption
<1>0. Scalars /\ Queues /\ TailKept /\ Distinct /\ HeldOnce /\ SentOnce
  BY Parts
<1>a. PICK n \in Nat : n = IF Full(c) THEN 1 ELSE 0
  OBVIOUS
<1>b. PICK x, kept : x = Head(inbox[c]) /\ kept = IF Full(c) THEN Tail(queue[c]) ELSE queue[c]
  OBVIOUS
<1>1. /\ x = Head(inbox[c])
      /\ kept = IF Full(c) THEN Tail(queue[c]) ELSE queue[c]
      /\ n = IF Full(c) THEN 1 ELSE 0
  BY <1>a, <1>b
<1>2. /\ UNCHANGED <<clients, host, backend, sending, attempted, accepted, exited>>
      /\ inbox[c] # << >>
      /\ inbox' = [inbox EXCEPT ![c] = Tail(@)]
      /\ queue' = [queue EXCEPT ![c] = Append(kept, x)]
      /\ dropped' = IF Full(c) THEN dropped \cup {Head(queue[c])} ELSE dropped
      /\ dropCount' = IF Full(c) THEN [dropCount EXCEPT ![c] = @ + 1] ELSE dropCount
  BY <1>1, <1>0 DEF Enqueue, Queues
<1>3. UNCHANGED <<made, holding, wire, runs>> /\ Made' = Made
  BY <1>2 DEF host, backend, Made
<1>4. PICK g \in Nat, q \in Nat, i \in Nat, a \in Nat :
         /\ g = Gone(c) /\ q = Len(queue[c]) /\ i = Len(inbox[c]) /\ a = Len(accepted[c])
         /\ g + q + i = a
  BY <1>0, Lengths
<1>c. g + q + i = a
  BY <1>4
<1>5. /\ x \in Made /\ x = inbox[c][1] /\ i >= 1
      /\ Tail(inbox[c]) \in Seq(Made) /\ Len(Tail(inbox[c])) = i - 1
      /\ \A k \in 1..(i - 1) : Tail(inbox[c])[k] = inbox[c][k + 1]
  BY <1>0, <1>1, <1>2, <1>4, TailIs, Lengths
<1>6. Full(c) => queue[c] # << >>
  <2>1. << >> \in Seq(Made) /\ Len(<< >>) = 0
    OBVIOUS
  <2> QED BY <2>1 DEF Full
<1>7. /\ kept \in Seq(Made) /\ Len(kept) = q - n /\ q >= n /\ q - n < QueueSize
      /\ \A k \in 1..(q - n) : kept[k] = queue[c][k + n]
  <2>1. queue[c] \in Seq(Made) /\ q <= QueueSize
    BY <1>0, <1>4 DEF Queues
  <2>2. CASE Full(c)
    <3>1. /\ Tail(queue[c]) \in Seq(Made) /\ Len(Tail(queue[c])) = q - 1 /\ q # 0
          /\ \A k \in 1..(q - 1) : Tail(queue[c])[k] = queue[c][k + 1]
      BY <1>4, <1>6, <2>1, <2>2, TailIs
    <3> QED BY <1>1, <1>4, <2>1, <2>2, <3>1
  <2>3. CASE ~Full(c)
    <3>1. kept = queue[c] /\ n = 0 /\ q < QueueSize
      BY <1>1, <1>4, <2>3 DEF Full
    <3> QED BY <1>4, <2>1, <3>1
  <2> QED BY <2>2, <2>3
<1>8. /\ Append(kept, x) \in Seq(Made) /\ Len(Append(kept, x)) = q - n + 1
      /\ Append(kept, x)[q - n + 1] = x
      /\ \A k \in 1..(q - n) : Append(kept, x)[k] = kept[k]
  BY <1>5, <1>7, AppendIs
<1>9. /\ queue'[c] = Append(kept, x) /\ inbox'[c] = Tail(inbox[c])
      /\ \A d \in Client \ {c} : queue'[d] = queue[d] /\ inbox'[d] = inbox[d]
      /\ accepted' = accepted
  BY <1>0, <1>2 DEF Queues
<1>10. Queues'
  <2>1. queue' \in [Client -> Seq(Made)] /\ inbox' \in [Client -> Seq(Made)]
    BY <1>0, <1>2, <1>5, <1>8 DEF Queues
  <2>2. Len(queue'[c]) <= QueueSize
    BY <1>4, <1>7, <1>8, <1>9
  <2> QED BY <1>0, <1>2, <1>3, <1>9, <2>1, <2>2 DEF Queues
<1>11. Gone(c)' = g + n
  <2>1. Gone(c)' = Len(accepted[c]) - Len(Append(kept, x)) - Len(Tail(inbox[c]))
    BY <1>9 DEF Gone
  <2>2. a - (q - n + 1) - (i - 1) = g + n
    BY <1>c
  <2> QED BY <1>4, <1>5, <1>8, <2>1, <2>2
<1>12. \A d \in Client \ {c} : Gone(d)' = Gone(d)
  BY <1>9 DEF Gone
<1>13. TailKept'
  <2>1. ASSUME NEW d \in Client \ {c}
        PROVE  /\ Gone(d)' \in Nat
               /\ \A k \in 1..Len(queue'[d]) : queue'[d][k] = accepted'[d][Gone(d)' + k]
               /\ \A k \in 1..Len(inbox'[d]) :
                     inbox'[d][k] = accepted'[d][Gone(d)' + Len(queue'[d]) + k]
    <3>1. Gone(d)' = Gone(d) /\ inbox'[d] = inbox[d] /\ queue'[d] = queue[d]
          /\ accepted'[d] = accepted[d]
      BY <1>9, <1>12
    <3> QED BY <1>0, <3>1 DEF TailKept
  <2>2. ASSUME NEW k \in 1..q PROVE queue[c][k] = accepted[c][g + k]
    BY <1>0, <1>4 DEF TailKept
  <2>3. ASSUME NEW k \in 1..i PROVE inbox[c][k] = accepted[c][g + q + k]
    BY <1>0, <1>4 DEF TailKept
  <2>4. ASSUME NEW k \in 1..(q - n + 1) PROVE queue'[c][k] = accepted[c][g + n + k]
    <3>1. CASE k = q - n + 1
      <4>1. g + q + 1 = g + n + k
        BY <1>4, <3>1
      <4>2. x = accepted[c][g + q + 1]
        <5>1. 1 \in 1..i
          BY <1>5
        <5>2. inbox[c][1] = accepted[c][g + q + 1]
          BY <2>3, <5>1
        <5> QED BY <1>5, <5>2
      <4> QED BY <1>8, <1>9, <3>1, <4>1, <4>2
    <3>2. CASE k # q - n + 1
      <4>1. k \in 1..(q - n) /\ k + n \in 1..q /\ g + (k + n) = g + n + k
        <5>1. q >= n
          BY <1>7
        <5> QED BY <3>2, <5>1
      <4>2. queue'[c][k] = queue[c][k + n]
        BY <1>7, <1>8, <1>9, <4>1
      <4>3. queue[c][k + n] = accepted[c][g + (k + n)]
        BY <2>2, <4>1
      <4> QED BY <4>1, <4>2, <4>3
    <3> QED BY <3>1, <3>2
  <2>5. ASSUME NEW k \in 1..(i - 1)
        PROVE  inbox'[c][k] = accepted[c][g + n + (q - n + 1) + k]
    <3>1. k + 1 \in 1..i /\ g + q + (k + 1) = g + n + (q - n + 1) + k
      OBVIOUS
    <3>2. inbox'[c][k] = inbox[c][k + 1]
      BY <1>5, <1>9
    <3>3. inbox[c][k + 1] = accepted[c][g + q + (k + 1)]
      BY <2>3, <3>1
    <3> QED BY <3>1, <3>2, <3>3
  <2>6. Len(queue'[c]) = q - n + 1 /\ Len(inbox'[c]) = i - 1
    BY <1>5, <1>8, <1>9
  <2>7. /\ Gone(c)' \in Nat
        /\ \A k \in 1..Len(queue'[c]) : queue'[c][k] = accepted'[c][Gone(c)' + k]
        /\ \A k \in 1..Len(inbox'[c]) :
              inbox'[c][k] = accepted'[c][Gone(c)' + Len(queue'[c]) + k]
    <3>1. g + n \in Nat /\ accepted' = accepted
      BY <1>9
    <3>2. \A k \in 1..(q - n + 1) : queue'[c][k] = accepted[c][g + n + k]
      BY <2>4
    <3>3. \A k \in 1..(i - 1) : inbox'[c][k] = accepted[c][g + n + (q - n + 1) + k]
      BY <2>5
    <3> QED BY <1>11, <2>6, <3>1, <3>2, <3>3
  <2> QED BY <2>1, <2>7 DEF TailKept
<1>14. Distinct' /\ HeldOnce'
  <2>1. Distinct'
    BY <1>0, <1>9, DistinctSame
  <2>2. HeldOnce'
    BY <1>0, <1>3, <1>9 DEF HeldOnce
  <2> QED BY <2>1, <2>2
<1>15. Full(c) => /\ ~Past(Head(queue[c])) /\ Head(queue[c]) = accepted[c][g + 1]
                  /\ g + 1 \in 1..Len(accepted[c])
  BY <1>4, <1>6, HeadIsFresh
<1>16. SentOnce'
  <2>1. \A d \in Client : Gone(d) \in Nat /\ Gone(d)' \in Nat /\ Gone(d) <= Gone(d)'
    <3>1. Gone(c) <= Gone(c)'
      BY <1>4, <1>11
    <3>2. \A d \in Client : Gone(d) \in Nat /\ Gone(d)' \in Nat
      BY <1>0, <1>13 DEF TailKept
    <3> QED BY <1>12, <3>1, <3>2
  <2>2. \A o : Past(o) => Past(o)'
    BY <1>0, <1>9, <2>1, PastGrows
  <2>3. \A o \in dropped' : Past(o)'
    <3>1. ASSUME Full(c) PROVE \E k \in 1..Gone(c)' : accepted'[c][k] = Head(queue[c])
      <4>1. g + 1 \in 1..Gone(c)'
        BY <1>1, <1>4, <1>11, <3>1
      <4> QED BY <1>9, <1>15, <3>1, <4>1
    <3>2. PICK y : y = Head(queue[c])
      OBVIOUS
    <3>3. Full(c) => Past(y)'
      BY <3>1, <3>2 DEF Past
    <3>4. ASSUME NEW o \in dropped' PROVE Past(o)'
      <4>1. o \in dropped \/ (Full(c) /\ o = y)
        BY <1>2, <3>2
      <4> QED BY <1>0, <2>2, <3>3, <4>1 DEF SentOnce
    <3> QED BY <3>4
  <2>4. \A o \in wire : Past(o)'
    BY <1>0, <2>2 DEF SentOnce
  <2>5. \A o \in 1..MaxObservations :
           runs[o] <= 1 /\ (runs[o] # 0 => Past(o)' /\ o \notin wire)
    BY <1>0, <2>2 DEF SentOnce
  <2> QED BY <1>3, <2>3, <2>4, <2>5 DEF SentOnce
<1>17. DropsAreCounted'
  <2>1. CASE ~Full(c)
    BY <1>2, <1>9, <2>1, CountSame DEF SdkInv
  <2>2. CASE Full(c)
    <3>1. PICK y : y = Head(queue[c])
      OBVIOUS
    <3>2. /\ y \notin dropped /\ dropped' = dropped \cup {y}
          /\ dropCount' = [dropCount EXCEPT ![c] = @ + 1]
      BY <1>0, <1>2, <1>15, <2>2, <3>1 DEF SentOnce
    <3>3. y = accepted[c][g + 1] /\ g + 1 \in 1..Len(accepted[c])
      BY <1>15, <2>2, <3>1
    <3>4. \A d \in Client : accepted[d] \in Seq(Made) /\ SeqSet(accepted[d])' = SeqSet(accepted[d])
      BY <1>0, <1>9 DEF Queues, SeqSet
    <3>5. y \in SeqSet(accepted[c])
      BY <3>3, <3>4, SeqSetIs
    <3>6. ASSUME NEW d \in Client \ {c} PROVE y \notin SeqSet(accepted[d])
      <4> SUFFICES ASSUME y \in SeqSet(accepted[d]) PROVE FALSE
        OBVIOUS
      <4>1. PICK k \in 1..Len(accepted[d]) : accepted[d][k] = y
        BY <3>4, SeqSetIs
      <4> QED BY <1>0, <3>3, <4>1 DEF Distinct
    <3>7. IsFiniteSet(SeqSet(accepted[c]) \cap dropped)
      <4>1. made \in Int /\ dropped \subseteq 1..made
        BY <1>0 DEF Scalars, Made
      <4>2. IsFiniteSet(1..made)
        BY <4>1, FS_Interval
      <4> QED BY <4>1, <4>2, FS_Subset
    <3>8. dropCount[c] = Cardinality(SeqSet(accepted[c]) \cap dropped)
      BY DEF SdkInv, DropsAreCounted
    <3>9. ASSUME NEW d \in Client
          PROVE  dropCount'[d] = Cardinality(SeqSet(accepted[d]) \cap dropped')
      <4>1. CASE d = c
        <5>1. SeqSet(accepted[c]) \cap dropped' = (SeqSet(accepted[c]) \cap dropped) \cup {y}
          BY <3>2, <3>5
        <5>2. Cardinality(SeqSet(accepted[c]) \cap dropped')
                 = Cardinality(SeqSet(accepted[c]) \cap dropped) + 1
          BY <3>2, <3>7, <5>1, FS_AddElement
        <5> QED BY <1>0, <3>2, <3>8, <4>1, <5>2 DEF Scalars
      <4>2. CASE d # c
        <5>1. SeqSet(accepted[d]) \cap dropped' = SeqSet(accepted[d]) \cap dropped
          BY <3>2, <3>6, <4>2
        <5>2. dropCount'[d] = dropCount[d]
          BY <1>0, <3>2, <4>2 DEF Scalars
        <5> QED BY <5>1, <5>2 DEF SdkInv, DropsAreCounted
      <4> QED BY <4>1, <4>2
    <3> QED BY <3>4, <3>9 DEF DropsAreCounted
  <2> QED BY <2>1, <2>2
<1>18. Scalars'
  <2>1. Head(queue[c]) \in Made \/ ~Full(c)
    BY <1>0, <1>6, TailIs DEF Queues
  <2>2. dropped' \subseteq Made /\ dropCount' \in [Client -> Nat]
    BY <1>0, <1>2, <2>1 DEF Scalars
  <2> QED BY <1>0, <1>2, <1>3, <2>2 DEF Scalars, clients, host, backend
<1> QED BY <1>10, <1>13, <1>14, <1>16, <1>17, <1>18 DEF SdkInv, Order

(* The consumer takes the oldest one, which nobody has posted before.      *)
LEMMA TakeStep ==
    ASSUME SdkInv, NEW c \in Client, Take(c), exited' = exited
    PROVE  SdkInv'
<1> USE SdkAssumption
<1>0. Scalars /\ Queues /\ TailKept /\ Distinct /\ HeldOnce /\ SentOnce
  BY Parts
<1>1. PICK x : x = Head(queue[c])
  OBVIOUS
<1>2. /\ UNCHANGED <<clients, host, runs, inbox, attempted, dropCount, accepted, dropped, exited>>
      /\ queue[c] # << >>
      /\ queue' = [queue EXCEPT ![c] = Tail(@)]
      /\ sending' = [sending EXCEPT ![c] = <<x>>]
      /\ wire' = wire \cup {x}
  BY <1>1 DEF Take
<1>3. UNCHANGED <<made, holding>> /\ Made' = Made
  BY <1>2 DEF host, Made
<1>4. PICK g \in Nat, q \in Nat, i \in Nat, a \in Nat :
         /\ g = Gone(c) /\ q = Len(queue[c]) /\ i = Len(inbox[c]) /\ a = Len(accepted[c])
         /\ g + q + i = a
  BY <1>0, Lengths
<1>5. g + q + i = a
  BY <1>4
<1>6. /\ x \in Made /\ q >= 1
      /\ Tail(queue[c]) \in Seq(Made) /\ Len(Tail(queue[c])) = q - 1
      /\ \A k \in 1..(q - 1) : Tail(queue[c])[k] = queue[c][k + 1]
  BY <1>0, <1>1, <1>2, <1>4, TailIs, Lengths
<1>7. /\ queue'[c] = Tail(queue[c])
      /\ \A d \in Client \ {c} : queue'[d] = queue[d]
      /\ inbox' = inbox /\ accepted' = accepted
  BY <1>0, <1>2 DEF Queues
<1>8. ~Past(x) /\ x = accepted[c][g + 1]
  BY <1>1, <1>2, <1>4, HeadIsFresh
<1>9. Queues'
  <2>1. queue' \in [Client -> Seq(Made)]
    BY <1>0, <1>2, <1>6 DEF Queues
  <2>2. q <= QueueSize
    BY <1>0, <1>4 DEF Queues
  <2>3. Len(queue'[c]) <= QueueSize
    BY <1>6, <1>7, <2>2
  <2>4. <<x>> \in Seq(Made) /\ Len(<<x>>) = 1
    BY <1>6
  <2>5. sending' \in [Client -> Seq(Made)] /\ \A d \in Client : Len(sending'[d]) <= 1
    <3>1. sending' \in [Client -> Seq(Made)]
      BY <1>0, <1>2, <2>4 DEF Queues
    <3>2. \A d \in Client : sending'[d] = IF d = c THEN <<x>> ELSE sending[d]
      BY <1>0, <1>2 DEF Queues
    <3>3. \A d \in Client : Len(sending[d]) <= 1
      BY <1>0 DEF Queues
    <3>4. ASSUME NEW d \in Client PROVE Len(sending'[d]) <= 1
      <4>1. CASE d = c
        <5>1. sending'[d] = <<x>>
          BY <3>2, <4>1
        <5>2. Len(<<x>>) <= 1
          OBVIOUS
        <5> QED BY <5>1, <5>2
      <4>2. CASE d # c
        <5>1. sending'[d] = sending[d]
          BY <3>2, <4>2
        <5> QED BY <3>3, <5>1
      <4> QED BY <4>1, <4>2
    <3> QED BY <3>1, <3>4
  <2> QED BY <1>0, <1>2, <1>3, <1>7, <2>1, <2>3, <2>5 DEF Queues
<1>10. Gone(c)' = g + 1
  <2>1. Gone(c)' = Len(accepted[c]) - Len(Tail(queue[c])) - Len(inbox[c])
    BY <1>7 DEF Gone
  <2>2. a - (q - 1) - i = g + 1
    BY <1>5
  <2> QED BY <1>4, <1>6, <2>1, <2>2
<1>11. \A d \in Client \ {c} : Gone(d)' = Gone(d)
  BY <1>7 DEF Gone
<1>12. TailKept'
  <2>1. ASSUME NEW d \in Client \ {c}
        PROVE  /\ Gone(d)' \in Nat
               /\ \A k \in 1..Len(queue'[d]) : queue'[d][k] = accepted'[d][Gone(d)' + k]
               /\ \A k \in 1..Len(inbox'[d]) :
                     inbox'[d][k] = accepted'[d][Gone(d)' + Len(queue'[d]) + k]
    <3>1. Gone(d)' = Gone(d) /\ queue'[d] = queue[d]
      BY <1>7, <1>11
    <3> QED BY <1>0, <1>7, <3>1 DEF TailKept
  <2>2. ASSUME NEW k \in 1..(q - 1) PROVE queue'[c][k] = accepted[c][g + 1 + k]
    <3>1. k + 1 \in 1..q /\ g + (k + 1) = g + 1 + k
      OBVIOUS
    <3>2. queue[c][k + 1] = accepted[c][g + (k + 1)]
      BY <1>0, <1>4, <3>1 DEF TailKept
    <3> QED BY <1>6, <1>7, <3>1, <3>2
  <2>3. ASSUME NEW k \in 1..i PROVE inbox[c][k] = accepted[c][g + 1 + (q - 1) + k]
    <3>1. g + q + k = g + 1 + (q - 1) + k
      OBVIOUS
    <3>2. inbox[c][k] = accepted[c][g + q + k]
      BY <1>0, <1>4 DEF TailKept
    <3> QED BY <3>1, <3>2
  <2>4. Len(queue'[c]) = q - 1 /\ Len(inbox[c]) = i
    BY <1>4, <1>6, <1>7
  <2>5. /\ Gone(c)' \in Nat
        /\ \A k \in 1..Len(queue'[c]) : queue'[c][k] = accepted'[c][Gone(c)' + k]
        /\ \A k \in 1..Len(inbox'[c]) :
              inbox'[c][k] = accepted'[c][Gone(c)' + Len(queue'[c]) + k]
    <3>1. g + 1 \in Nat /\ accepted' = accepted /\ inbox' = inbox
      BY <1>7
    <3>2. \A k \in 1..(q - 1) : queue'[c][k] = accepted[c][g + 1 + k]
      BY <2>2
    <3>3. \A k \in 1..i : inbox[c][k] = accepted[c][g + 1 + (q - 1) + k]
      BY <2>3
    <3> QED BY <1>10, <2>4, <3>1, <3>2, <3>3
  <2> QED BY <2>1, <2>5 DEF TailKept
<1>13. Distinct' /\ HeldOnce' /\ DropsAreCounted'
  <2>1. Distinct'
    BY <1>0, <1>7, DistinctSame
  <2>2. HeldOnce'
    BY <1>0, <1>3, <1>7 DEF HeldOnce
  <2>3. DropsAreCounted'
    BY <1>2, CountSame DEF SdkInv
  <2> QED BY <2>1, <2>2, <2>3
<1>14. SentOnce'
  <2>1. \A d \in Client : Gone(d) \in Nat /\ Gone(d)' \in Nat /\ Gone(d) <= Gone(d)'
    <3>1. Gone(c) <= Gone(c)'
      BY <1>4, <1>10
    <3>2. \A d \in Client : Gone(d) \in Nat /\ Gone(d)' \in Nat
      BY <1>0, <1>12 DEF TailKept
    <3> QED BY <1>11, <3>1, <3>2
  <2>2. \A o : Past(o) => Past(o)'
    BY <1>0, <1>7, <2>1, PastGrows
  <2>3. Past(x)'
    <3>1. g + 1 \in 1..Gone(c)' /\ accepted'[c][g + 1] = x
      BY <1>7, <1>8, <1>10
    <3> QED BY <3>1 DEF Past
  <2>4. \A o \in dropped' \cup wire' : Past(o)'
    BY <1>0, <1>2, <2>2, <2>3 DEF SentOnce
  <2>5. \A o \in 1..MaxObservations :
           runs[o] <= 1 /\ (runs[o] # 0 => Past(o)' /\ o \notin wire')
    BY <1>0, <1>2, <1>8, <2>2 DEF SentOnce
  <2> QED BY <1>2, <2>4, <2>5 DEF SentOnce
<1>15. Scalars'
  <2>1. wire' \subseteq Made
    BY <1>0, <1>2, <1>6 DEF Scalars
  <2> QED BY <1>0, <1>2, <1>3, <2>1 DEF Scalars, clients, host
<1> QED BY <1>9, <1>12, <1>13, <1>14, <1>15 DEF SdkInv, Order

(* A post ends.                                                            *)
LEMMA AttemptStep ==
    ASSUME SdkInv, NEW c \in Client, Attempt(c), exited' = exited
    PROVE  SdkInv'
<1>1. UNCHANGED <<clients, host, backend, inbox, queue, dropCount, accepted, dropped, exited>>
  BY DEF Attempt
<1>2. Scalars' /\ DropsAreCounted'
  BY <1>1, CountSame DEF SdkInv, Scalars, Made, clients, host, backend
<1>3. Order'
  BY <1>1, OrderSame DEF SdkInv, host, backend
<1>4. Queues'
  <2>1. Made' = Made /\ Queues
    BY <1>1 DEF SdkInv, Made, host
  <2>2. /\ sending' = [sending EXCEPT ![c] = << >>]
        /\ attempted' = [attempted EXCEPT ![c] = @ \o sending[c]]
    BY DEF Attempt
  <2>3. << >> \in Seq(Made) /\ Len(<< >>) = 0
    OBVIOUS
  <2>4. \A s, t \in Seq(Made) : s \o t \in Seq(Made)
    OBVIOUS
  <2>5. attempted' \in [Client -> Seq(Made)]
    BY <2>1, <2>2, <2>4 DEF Queues
  <2>6. sending' \in [Client -> Seq(Made)]
    BY <2>1, <2>2, <2>3 DEF Queues
  <2>7. \A d \in Client : sending'[d] = IF d = c THEN << >> ELSE sending[d]
    BY <2>1, <2>2 DEF Queues
  <2> QED BY <1>1, <2>1, <2>3, <2>5, <2>6, <2>7 DEF Queues
<1> QED BY <1>2, <1>3, <1>4 DEF SdkInv

(* The backend gets to a post, or never does.                              *)
LEMMA WireStep ==
    ASSUME SdkInv, NEW x \in wire, Observe(x) \/ Lose(x), exited' = exited
    PROVE  SdkInv'
<1>1. UNCHANGED <<clients, host, worker, exited>>
  BY DEF Observe, Lose
<1>2. UNCHANGED <<inbox, queue, accepted, dropped, dropCount, sending, attempted, made, holding>>
  BY <1>1 DEF worker, host
<1>3. Queues' /\ DropsAreCounted'
  BY <1>2, CountSame DEF SdkInv, Queues, Made
<1>4. TailKept' /\ Distinct' /\ HeldOnce'
  <2>1. HeldOnce'
    BY <1>2 DEF SdkInv, Order, HeldOnce
  <2> QED BY <1>2, <2>1, Parts, TailSame, DistinctSame
<1>5. Scalars /\ SentOnce
  BY Parts
<1>6. x \in 1..MaxObservations
  BY <1>5, SdkAssumption DEF Scalars, Made
<1>7. wire' = wire \ {x} /\ (runs' = runs \/ runs' = [runs EXCEPT ![x] = @ + 1])
  BY DEF Observe, Lose
<1>8. Scalars'
  BY <1>1, <1>2, <1>5, <1>6, <1>7 DEF Scalars, Made, clients, host
<1>9. \A o : Past(o)' <=> Past(o)
  BY <1>2 DEF Past, Gone
<1>10. SentOnce'
  <2>1. runs[x] = 0 /\ Past(x)
    BY <1>5, <1>6 DEF SentOnce, Scalars
  <2>2. \A o \in 1..MaxObservations :
           runs'[o] = runs[o] \/ (o = x /\ runs'[o] = 1)
    <3>1. runs \in [1..MaxObservations -> Nat]
      BY <1>5 DEF Scalars
    <3>2. CASE runs' = runs
      BY <3>2
    <3>3. CASE runs' = [runs EXCEPT ![x] = @ + 1]
      <4>1. runs'[x] = 1
        BY <1>6, <2>1, <3>1, <3>3
      <4>2. \A o \in 1..MaxObservations : o # x => runs'[o] = runs[o]
        BY <3>1, <3>3
      <4> QED BY <4>1, <4>2
    <3> QED BY <1>7, <3>2, <3>3
  <2>3. \A o \in dropped' \cup wire' : Past(o)'
    BY <1>2, <1>5, <1>7, <1>9 DEF SentOnce
  <2>4. \A o \in 1..MaxObservations :
           runs'[o] <= 1 /\ (runs'[o] # 0 => Past(o)' /\ o \notin wire')
    BY <1>5, <1>7, <1>9, <2>1, <2>2 DEF SentOnce
  <2> QED BY <2>3, <2>4 DEF SentOnce
<1> QED BY <1>3, <1>4, <1>8, <1>10 DEF SdkInv, Order

LEMMA InvStep == SdkInv /\ [Next]_vars => SdkInv'
<1> SUFFICES ASSUME SdkInv, [Next]_vars PROVE SdkInv'
  OBVIOUS
<1>1. CASE UNCHANGED vars \/ (~exited /\ HostExits) \/ (Running /\ StartClient)
  BY <1>1, QuietStep DEF Running
<1>2. ASSUME NEW h \in Hosts, Running, HostStep(h) PROVE SdkInv'
  BY <1>2, QuietStep, LeaveStep, SubmitStep DEF HostStep, Running
<1>3. ASSUME NEW c \in Client, Running, WorkerStep(c) PROVE SdkInv'
  BY <1>3, QuietStep, EnqueueStep, TakeStep, AttemptStep DEF WorkerStep, Running
<1>4. ASSUME exited' = exited, NEW o \in wire, Observe(o) \/ Lose(o) PROVE SdkInv'
  BY <1>4, WireStep
<1> QED BY <1>1, <1>2, <1>3, <1>4 DEF Next

LEMMA AlwaysInv == Spec => []SdkInv
<1> QED BY InitInv, InvStep, PTL DEF Spec

-----------------------------------------------------------------------------
(* What was posted, in the order it was accepted.                          *)

(* kept are those among the first g of acc that are not in gone, in order. *)
Placed(place, m, kept, acc, g, gone) ==
    /\ \A k \in 1..m : kept[k] = acc[place[k]] /\ acc[place[k]] \notin gone
    /\ \A j, k \in 1..m : j < k => place[j] < place[k]
    /\ \A i \in 1..g : acc[i] \in gone \/ \E k \in 1..m : place[k] = i

Keeps(kept, acc, g, gone) ==
    \E place \in [1..Len(kept) -> 1..g] : Placed(place, Len(kept), kept, acc, g, gone)

LEMMA KeepsNothing ==
    ASSUME NEW acc, NEW gone PROVE Keeps(<< >>, acc, 0, gone)
<1>1. [k \in 1..0 |-> k] \in [1..Len(<< >>) -> 1..0]
  OBVIOUS
<1>2. /\ \A k \in 1..Len(<< >>) : FALSE
      /\ \A i \in 1..0 : FALSE
  OBVIOUS
<1>3. Placed([k \in 1..0 |-> k], Len(<< >>), << >>, acc, 0, gone)
  BY <1>2 DEF Placed
<1> QED BY <1>1, <1>3 DEF Keeps

LEMMA KeepsOn ==
    ASSUME NEW S, NEW kept \in Seq(S), NEW acc, NEW now, NEW g \in Nat, NEW gone, NEW more,
           Keeps(kept, acc, g, gone),
           \A i \in 1..g : now[i] = acc[i] /\ (now[i] \in more <=> acc[i] \in gone)
    PROVE  Keeps(kept, now, g, more)
<1>1. PICK m \in Nat : m = Len(kept)
  OBVIOUS
<1>2. PICK place \in [1..m -> 1..g] : Placed(place, m, kept, acc, g, gone)
  BY <1>1 DEF Keeps
<1>3. Placed(place, m, kept, now, g, more)
  BY <1>2 DEF Placed
<1> QED BY <1>1, <1>3 DEF Keeps

LEMMA KeepsDropped ==
    ASSUME NEW S, NEW kept \in Seq(S), NEW acc, NEW g \in Nat, NEW gone,
           Keeps(kept, acc, g, gone), acc[g + 1] \in gone
    PROVE  Keeps(kept, acc, g + 1, gone)
<1>1. PICK m \in Nat : m = Len(kept)
  OBVIOUS
<1>p. PICK place \in [1..m -> 1..g] : Placed(place, m, kept, acc, g, gone)
  BY <1>1 DEF Keeps
<1>2. /\ place \in [1..m -> 1..g]
      /\ \A k \in 1..m : kept[k] = acc[place[k]] /\ acc[place[k]] \notin gone
      /\ \A j, k \in 1..m : j < k => place[j] < place[k]
      /\ \A i \in 1..g : acc[i] \in gone \/ \E k \in 1..m : place[k] = i
  BY <1>p DEF Placed
<1>3. place \in [1..m -> 1..(g + 1)]
  BY <1>2
<1>4. \A i \in 1..(g + 1) : i \in 1..g \/ i = g + 1
  OBVIOUS
<1>5. \A i \in 1..(g + 1) : acc[i] \in gone \/ \E k \in 1..m : place[k] = i
  BY <1>2, <1>4
<1>6. Placed(place, m, kept, acc, g + 1, gone)
  BY <1>2, <1>5 DEF Placed
<1> QED BY <1>1, <1>3, <1>6 DEF Keeps

LEMMA KeepsNext ==
    ASSUME NEW S, NEW kept \in Seq(S), NEW x \in S, NEW acc, NEW g \in Nat, NEW gone,
           Keeps(kept, acc, g, gone), acc[g + 1] = x, x \notin gone
    PROVE  Keeps(Append(kept, x), acc, g + 1, gone)
<1>1. PICK m \in Nat : m = Len(kept)
  OBVIOUS
<1>p. PICK place \in [1..m -> 1..g] : Placed(place, m, kept, acc, g, gone)
  BY <1>1 DEF Keeps
<1>2. /\ place \in [1..m -> 1..g]
      /\ \A k \in 1..m : kept[k] = acc[place[k]] /\ acc[place[k]] \notin gone
      /\ \A j, k \in 1..m : j < k => place[j] < place[k]
      /\ \A i \in 1..g : acc[i] \in gone \/ \E k \in 1..m : place[k] = i
  BY <1>p DEF Placed
<1>3. PICK longer \in Seq(S) :
          /\ longer = Append(kept, x) /\ Len(longer) = m + 1 /\ longer[m + 1] = x
          /\ \A k \in 1..m : longer[k] = kept[k]
  <2>1. /\ Append(kept, x) \in Seq(S) /\ Len(Append(kept, x)) = m + 1
        /\ Append(kept, x)[m + 1] = x
        /\ \A k \in 1..m : Append(kept, x)[k] = kept[k]
    BY <1>1, AppendIs
  <2> HIDE DEF Placed
  <2> QED BY <2>1, Zenon
<1>4. PICK on \in [1..(m + 1) -> 1..(g + 1)] :
          on[m + 1] = g + 1 /\ \A k \in 1..m : on[k] = place[k]
  <2> DEFINE f == [k \in 1..(m + 1) |-> IF k = m + 1 THEN g + 1 ELSE place[k]]
  <2>1. \A k \in 1..(m + 1) : k = m + 1 \/ (k \in 1..m /\ place[k] \in 1..g)
    BY <1>2
  <2>2. f \in [1..(m + 1) -> 1..(g + 1)]
    BY <2>1
  <2>3. f[m + 1] = g + 1 /\ \A k \in 1..m : f[k] = place[k]
    OBVIOUS
  <2> HIDE DEF f
  <2> QED BY <2>2, <2>3
<1>5. \A k \in 1..(m + 1) : k \in 1..m \/ k = m + 1
  OBVIOUS
<1>6. \A k \in 1..(m + 1) : longer[k] = acc[on[k]] /\ acc[on[k]] \notin gone
  BY <1>2, <1>3, <1>4, <1>5
<1>7. \A j, k \in 1..(m + 1) : j < k => on[j] < on[k]
  <2> SUFFICES ASSUME NEW j \in 1..(m + 1), NEW k \in 1..(m + 1), j < k
               PROVE  on[j] < on[k]
    OBVIOUS
  <2>1. j \in 1..m /\ on[j] = place[j] /\ place[j] \in 1..g
    BY <1>2, <1>4, <1>5
  <2>2. CASE k = m + 1
    BY <1>4, <2>1, <2>2
  <2>3. CASE k \in 1..m
    BY <1>2, <1>4, <2>1, <2>3
  <2> QED BY <1>5, <2>2, <2>3
<1>8. \A i \in 1..(g + 1) : acc[i] \in gone \/ \E k \in 1..(m + 1) : on[k] = i
  <2> SUFFICES ASSUME NEW i \in 1..(g + 1), acc[i] \notin gone
               PROVE  \E k \in 1..(m + 1) : on[k] = i
    OBVIOUS
  <2>1. CASE i = g + 1
    BY <1>4, <2>1
  <2>2. CASE i # g + 1
    <3>1. i \in 1..g
      BY <2>2
    <3>2. PICK k \in 1..m : place[k] = i
      BY <1>2, <3>1
    <3>3. k \in 1..(m + 1)
      OBVIOUS
    <3> QED BY <1>4, <3>2, <3>3
  <2> QED BY <2>1, <2>2
<1>9. Placed(on, m + 1, longer, acc, g + 1, gone)
  BY <1>6, <1>7, <1>8 DEF Placed
<1> QED BY <1>3, <1>4, <1>9 DEF Keeps

(* The property, of one client.                                            *)
InPlace(kept, acc, stays) ==
    \E place \in [DOMAIN kept -> stays] :
       /\ \A k \in DOMAIN kept : kept[k] = acc[place[k]]
       /\ \A j, k \in DOMAIN kept : j < k => place[j] < place[k]
       /\ \A i \in stays : \E k \in DOMAIN kept : place[k] = i

(* all is kept and then wait, which is all of acc from g + 1 on; stays are *)
(* the places of acc that are not gone.                                    *)
Waits(S, kept, wait, acc, g, gone, all, stays) ==
    /\ kept \in Seq(S) /\ wait \in Seq(S) /\ acc \in Seq(S) /\ g \in Nat
    /\ Keeps(kept, acc, g, gone) /\ Len(acc) = g + Len(wait)
    /\ \A k \in 1..Len(wait) : wait[k] = acc[g + k] /\ wait[k] \notin gone
    /\ all = kept \o wait /\ stays = {i \in DOMAIN acc : acc[i] \notin gone}

(* With what still waits, which is all of acc from g + 1 on.               *)
LEMMA KeepsWaiting ==
    ASSUME NEW S, NEW kept, NEW wait, NEW acc, NEW g, NEW gone, NEW all, NEW stays,
           Waits(S, kept, wait, acc, g, gone, all, stays)
    PROVE  InPlace(all, acc, stays)
<1> SUFFICES ASSUME kept \in Seq(S), wait \in Seq(S), acc \in Seq(S), g \in Nat,
                    Keeps(kept, acc, g, gone), Len(acc) = g + Len(wait),
                    \A k \in 1..Len(wait) : wait[k] = acc[g + k] /\ wait[k] \notin gone,
                    all = kept \o wait, stays = {i \in DOMAIN acc : acc[i] \notin gone}
             PROVE  InPlace(all, acc, stays)
  BY DEF Waits
<1>1. PICK m \in Nat, n \in Nat : m = Len(kept) /\ n = Len(wait)
  OBVIOUS
<1>p. PICK old \in [1..m -> 1..g] : Placed(old, m, kept, acc, g, gone)
  BY <1>1 DEF Keeps
<1>2. /\ old \in [1..m -> 1..g]
      /\ \A k \in 1..m : kept[k] = acc[old[k]] /\ acc[old[k]] \notin gone
      /\ \A j, k \in 1..m : j < k => old[j] < old[k]
      /\ \A i \in 1..g : acc[i] \in gone \/ \E k \in 1..m : old[k] = i
  BY <1>p DEF Placed
<1>3. /\ DOMAIN all = 1..(m + n)
      /\ \A k \in 1..m : all[k] = kept[k]
      /\ \A k \in 1..n : all[m + k] = wait[k]
  <2>1. kept \o wait \in Seq(S) /\ Len(kept \o wait) = m + n
    BY <1>1
  <2>2. DOMAIN (kept \o wait) = 1..(m + n)
    BY <2>1
  <2>3. \A k \in 1..m : (kept \o wait)[k] = kept[k]
    BY <1>1
  <2>4. \A k \in 1..n : (kept \o wait)[m + k] = wait[k]
    <3> SUFFICES ASSUME NEW k \in 1..n PROVE (kept \o wait)[m + k] = wait[k]
      OBVIOUS
    <3>1. m + k \in 1..(m + n) /\ ~(m + k <= m) /\ (m + k) - m = k
      OBVIOUS
    <3> QED BY <1>1, <3>1
  <2> QED BY <2>2, <2>3, <2>4, Zenon
<1>4. stays = {i \in 1..(g + n) : acc[i] \notin gone}
  BY <1>1
<1>6. \A k \in 1..(m + n) : k \in 1..m \/ \E l \in 1..n : k = m + l
  <2> SUFFICES ASSUME NEW k \in 1..(m + n), k \notin 1..m PROVE \E l \in 1..n : k = m + l
    OBVIOUS
  <2>1. k - m \in 1..n /\ k = m + (k - m)
    OBVIOUS
  <2> QED BY <2>1
<1>7. PICK place \in [1..(m + n) -> Nat] :
          /\ \A k \in 1..m : place[k] = old[k]
          /\ \A l \in 1..n : place[m + l] = g + l
  <2> DEFINE f == [k \in 1..(m + n) |-> IF k \in 1..m THEN old[k] ELSE g + (k - m)]
  <2>1. f \in [1..(m + n) -> Nat]
    <3>1. \A k \in 1..(m + n) : k \in 1..m => old[k] \in Nat
      BY <1>2
    <3>2. \A k \in 1..(m + n) : k \notin 1..m => g + (k - m) \in Nat
      OBVIOUS
    <3> QED BY <3>1, <3>2
  <2>2. \A k \in 1..m : f[k] = old[k]
    OBVIOUS
  <2>3. ASSUME NEW l \in 1..n PROVE f[m + l] = g + l
    <3>1. m + l \in 1..(m + n) /\ m + l \notin 1..m /\ g + ((m + l) - m) = g + l
      OBVIOUS
    <3> QED BY <3>1
  <2> HIDE DEF f
  <2> QED BY <2>1, <2>2, <2>3
<1>8. \A k \in 1..m : old[k] \in 1..(g + n) /\ old[k] <= g
  BY <1>2
<1>9. \A l \in 1..n : g + l \in 1..(g + n) /\ acc[g + l] = wait[l] /\ acc[g + l] \notin gone
  BY <1>1
<1>10. \A k \in 1..(m + n) : place[k] \in stays /\ all[k] = acc[place[k]]
  <2> SUFFICES ASSUME NEW k \in 1..(m + n)
               PROVE  place[k] \in stays /\ all[k] = acc[place[k]]
    OBVIOUS
  <2>1. CASE k \in 1..m
    BY <1>2, <1>3, <1>4, <1>7, <1>8, <2>1
  <2>2. ASSUME NEW l \in 1..n, k = m + l PROVE place[k] \in stays /\ all[k] = acc[place[k]]
    BY <1>3, <1>4, <1>7, <1>9, <2>2
  <2> QED BY <1>6, <2>1, <2>2
<1>11. \A j, k \in 1..(m + n) : j < k => place[j] < place[k]
  <2> SUFFICES ASSUME NEW j \in 1..(m + n), NEW k \in 1..(m + n), j < k
               PROVE  place[j] < place[k]
    OBVIOUS
  <2>1. CASE k \in 1..m
    <3>1. j \in 1..m
      BY <2>1
    <3> QED BY <1>2, <1>7, <2>1, <3>1
  <2>2. ASSUME NEW l \in 1..n, k = m + l PROVE place[j] < place[k]
    <3>1. place[k] = g + l
      BY <1>7, <2>2
    <3>2. CASE j \in 1..m
      <4>1. place[j] = old[j] /\ old[j] \in 1..g
        BY <1>2, <1>7, <3>2
      <4> QED BY <3>1, <4>1
    <3>3. ASSUME NEW i \in 1..n, j = m + i PROVE place[j] < place[k]
      <4>1. place[j] = g + i /\ i < l
        BY <1>7, <2>2, <3>3
      <4> QED BY <3>1, <4>1
    <3> QED BY <1>6, <3>2, <3>3
  <2> QED BY <1>6, <2>1, <2>2
<1>12. \A i \in stays : \E k \in 1..(m + n) : place[k] = i
  <2> SUFFICES ASSUME NEW i \in 1..(g + n), acc[i] \notin gone
               PROVE  \E k \in 1..(m + n) : place[k] = i
    BY <1>4
  <2>1. CASE i \in 1..g
    <3>1. PICK k \in 1..m : old[k] = i
      BY <1>2, <2>1
    <3>2. k \in 1..(m + n)
      OBVIOUS
    <3> QED BY <1>7, <3>1, <3>2
  <2>2. CASE i \notin 1..g
    <3>1. i - g \in 1..n /\ m + (i - g) \in 1..(m + n) /\ g + (i - g) = i
      BY <2>2
    <3> QED BY <1>7, <3>1
  <2> QED BY <2>1, <2>2
<1>13. place \in [DOMAIN all -> stays]
  BY <1>3, <1>7, <1>10
<1>14. /\ \A k \in DOMAIN all : all[k] = acc[place[k]]
       /\ \A j, k \in DOMAIN all : j < k => place[j] < place[k]
       /\ \A i \in stays : \E k \in DOMAIN all : place[k] = i
  BY <1>3, <1>10, <1>11, <1>12
<1>15. \E f \in [DOMAIN all -> stays] :
           /\ \A k \in DOMAIN all : all[k] = acc[f[k]]
           /\ \A j, k \in DOMAIN all : j < k => f[j] < f[k]
           /\ \A i \in stays : \E k \in DOMAIN all : f[k] = i
  BY <1>13, <1>14, Zenon
<1> QED BY <1>15 DEF InPlace

Sent(c) == attempted[c] \o sending[c]

SentInOrder == \A c \in Client : Keeps(Sent(c), accepted[c], Gone(c), dropped)

LEMMA SentInit == Init => SentInOrder
<1> SUFFICES ASSUME Init, NEW c \in Client
             PROVE  Keeps(Sent(c), accepted[c], Gone(c), dropped)
  BY DEF SentInOrder
<1>1. /\ attempted[c] = << >> /\ sending[c] = << >> /\ queue[c] = << >>
      /\ inbox[c] = << >> /\ accepted[c] = << >>
  BY DEF Init
<1>2. << >> \o << >> = << >> /\ Len(<< >>) = 0 /\ 0 - 0 - 0 = 0
  OBVIOUS
<1>3. Sent(c) = << >> /\ Gone(c) = 0
  BY <1>1, <1>2 DEF Sent, Gone
<1> QED BY <1>3, KeepsNothing

(* The part of accepted that has left the queue.                           *)
LEMMA PastIs ==
    ASSUME Queues, TailKept, NEW c \in Client, NEW i \in 1..Gone(c)
    PROVE  i \in 1..Len(accepted[c]) /\ Past(accepted[c][i])
<1>1. PICK g \in Nat, q \in Nat, w \in Nat, a \in Nat :
         /\ g = Gone(c) /\ q = Len(queue[c]) /\ w = Len(inbox[c]) /\ a = Len(accepted[c])
         /\ g + q + w = a
  BY Lengths
<1>2. i \in 1..a
  BY <1>1, Positions
<1> QED BY <1>1, <1>2 DEF Past

(* Nothing that is dropped or posted touches what had left a queue before. *)
LEMMA SentKept ==
    ASSUME SdkInv, SentInOrder, NEW c \in Client,
           Sent(c)' = Sent(c), Gone(c)' = Gone(c),
           Sent(c) \in Seq(Made),
           \A i \in 1..Gone(c) : accepted'[c][i] = accepted[c][i],
           dropped \subseteq dropped', \A o \in dropped' : o \in dropped \/ ~Past(o)
    PROVE  Keeps(Sent(c), accepted[c], Gone(c), dropped)'
<1>1. Queues /\ TailKept
  BY Parts
<1>2. PICK g \in Nat : g = Gone(c)
  BY <1>1 DEF TailKept
<1>3. Keeps(Sent(c), accepted[c], g, dropped)
  BY <1>2 DEF SentInOrder
<1>4. \A i \in 1..g : Past(accepted[c][i])
  BY <1>1, <1>2, PastIs
<1>5. \A i \in 1..g : accepted'[c][i] = accepted[c][i]
          /\ (accepted'[c][i] \in dropped' <=> accepted[c][i] \in dropped)
  BY <1>2, <1>4
<1>6. Keeps(Sent(c), accepted'[c], g, dropped')
  BY <1>3, <1>5, KeepsOn
<1> QED BY <1>2, <1>6

LEMMA SentType ==
    ASSUME Queues, NEW c \in Client PROVE Sent(c) \in Seq(Made)
<1>1. PICK a \in Seq(Made), b \in Seq(Made) : a = attempted[c] /\ b = sending[c]
  BY DEF Queues
<1>2. a \o b \in Seq(Made)
  OBVIOUS
<1> QED BY <1>1, <1>2 DEF Sent

(* A step that leaves the queue and what was sent of a client alone.       *)
LEMMA SentAside ==
    ASSUME SdkInv, SentInOrder, NEW c \in Client,
           UNCHANGED <<attempted[c], sending[c], queue[c], inbox[c], accepted[c]>>,
           dropped \subseteq dropped', \A o \in dropped' : o \in dropped \/ ~Past(o)
    PROVE  Keeps(Sent(c), accepted[c], Gone(c), dropped)'
<1>1. Sent(c)' = Sent(c) /\ Gone(c)' = Gone(c)
  BY DEF Sent, Gone
<1>2. Sent(c) \in Seq(Made)
  BY SentType DEF SdkInv
<1> QED BY <1>1, <1>2, SentKept

LEMMA SentSubmit ==
    ASSUME SdkInv, SentInOrder, NEW h \in Hosts, Submit(h) PROVE SentInOrder'
<1> SUFFICES ASSUME NEW c \in Client
             PROVE  Keeps(Sent(c), accepted[c], Gone(c), dropped)'
  BY DEF SentInOrder
<1>0. Scalars /\ Queues /\ TailKept
  BY Parts
<1>1. CASE UNCHANGED <<inbox[c], accepted[c]>>
  <2>1. UNCHANGED <<attempted, sending, queue, dropped>>
    BY DEF Submit, worker
  <2> QED BY <1>1, <2>1, SentAside
<1>2. CASE ~UNCHANGED <<inbox[c], accepted[c]>>
  <2>1. /\ UNCHANGED <<attempted, sending, queue, dropped>>
        /\ inbox'[c] = Append(inbox[c], holding[h])
        /\ accepted'[c] = Append(accepted[c], holding[h])
        /\ holding[h] # 0
    BY <1>0, <1>2 DEF Submit, worker, Queues
  <2>2. PICK x \in Made : x = holding[h]
    BY <1>0, <2>1 DEF Scalars, Made
  <2>3. PICK i \in Seq(Made), a \in Seq(Made) : i = inbox[c] /\ a = accepted[c]
    BY <1>0 DEF Queues
  <2>4. PICK g \in Nat, q \in Nat, w \in Nat, n \in Nat :
           /\ g = Gone(c) /\ q = Len(queue[c]) /\ w = Len(inbox[c]) /\ n = Len(accepted[c])
           /\ g + q + w = n
    BY <1>0, Lengths
  <2>5. /\ Len(Append(i, x)) = w + 1 /\ Len(Append(a, x)) = n + 1
        /\ \A k \in 1..n : Append(a, x)[k] = a[k]
    BY <2>3, <2>4, AppendIs
  <2>6. Gone(c)' = (n + 1) - q - (w + 1)
    BY <2>1, <2>2, <2>3, <2>4, <2>5 DEF Gone
  <2>7. Gone(c)' = Gone(c)
    <3>1. g + q + w = n
      BY <2>4
    <3>2. (n + 1) - q - (w + 1) = g
      BY <3>1
    <3> QED BY <2>4, <2>6, <3>2
  <2>8. \A k \in 1..g : k \in 1..n
    <3>1. g + q + w = n
      BY <2>4
    <3> QED BY <3>1
  <2>9. \A k \in 1..Gone(c) : accepted'[c][k] = accepted[c][k]
    BY <2>1, <2>2, <2>3, <2>4, <2>5, <2>8
  <2>10. Sent(c)' = Sent(c)
    BY <2>1 DEF Sent
  <2>11. Sent(c) \in Seq(Made)
    BY <1>0, SentType
  <2> QED BY <2>1, <2>7, <2>9, <2>10, <2>11, SentKept
<1> QED BY <1>1, <1>2

LEMMA SentEnqueue ==
    ASSUME SdkInv, SentInOrder, NEW c \in Client, Enqueue(c) PROVE SentInOrder'
<1> USE SdkAssumption
<1> SUFFICES ASSUME NEW d \in Client
             PROVE  Keeps(Sent(d), accepted[d], Gone(d), dropped)'
  BY DEF SentInOrder
<1>0. Queues /\ TailKept
  BY Parts
<1>1. /\ UNCHANGED <<attempted, sending, accepted>> /\ inbox[c] # << >>
      /\ inbox'[c] = Tail(inbox[c])
      /\ \A e \in Client \ {c} : inbox'[e] = inbox[e] /\ queue'[e] = queue[e]
      /\ dropped' = IF Full(c) THEN dropped \cup {Head(queue[c])} ELSE dropped
  BY <1>0 DEF Enqueue, Queues
<1>2. Full(c) => queue[c] # << >>
  BY DEF Full
<1>3. dropped \subseteq dropped' /\ \A o \in dropped' : o \in dropped \/ ~Past(o)
  BY <1>1, <1>2, HeadIsFresh
<1>4. CASE d # c
  BY <1>1, <1>3, <1>4, SentAside
<1>5. CASE d = c
  <2>1. PICK g \in Nat, q \in Nat, w \in Nat, n \in Nat :
           /\ g = Gone(c) /\ q = Len(queue[c]) /\ w = Len(inbox[c]) /\ n = Len(accepted[c])
           /\ g + q + w = n
    BY <1>0, Lengths
  <2>2. Len(inbox'[c]) = w - 1
    BY <1>0, <1>1, <2>1, TailIs, Lengths
  <2>3. PICK x \in Made : x = Head(inbox[c])
    BY <1>0, <1>1, TailIs, Lengths
  <2>4. Sent(c)' = Sent(c) /\ Sent(c) \in Seq(Made)
    BY <1>0, <1>1, SentType DEF Sent
  <2>5. CASE ~Full(c)
    <3>1. queue'[c] = Append(queue[c], x)
      BY <1>0, <2>3, <2>5 DEF Enqueue, Queues
    <3>2. Len(queue'[c]) = q + 1
      BY <1>0, <2>1, <3>1, AppendIs, Lengths
    <3>3. Gone(c)' = n - (q + 1) - (w - 1)
      BY <1>1, <2>1, <2>2, <3>2 DEF Gone
    <3>4. Gone(c)' = Gone(c)
      <4>1. g + q + w = n
        BY <2>1
      <4>2. n - (q + 1) - (w - 1) = g
        BY <4>1
      <4> QED BY <2>1, <3>3, <4>2
    <3> QED BY <1>1, <1>3, <1>5, <2>4, <3>4, SentKept
  <2>6. CASE Full(c)
    <3>1. queue'[c] = Append(Tail(queue[c]), x)
      BY <1>0, <2>3, <2>6 DEF Enqueue, Queues
    <3>2. Len(queue'[c]) = q /\ q >= 1
      <4>1. Tail(queue[c]) \in Seq(Made) /\ Len(Tail(queue[c])) = q - 1 /\ q \in Nat \ {0}
        BY <1>0, <1>2, <2>1, <2>6, TailIs, Lengths
      <4>2. Len(queue'[c]) = (q - 1) + 1
        BY <3>1, <4>1, AppendIs
      <4> QED BY <4>1, <4>2
    <3>3. Gone(c)' = n - q - (w - 1)
      BY <1>1, <2>1, <2>2, <3>2 DEF Gone
    <3>4. Gone(c)' = g + 1
      <4>1. g + q + w = n
        BY <2>1
      <4>2. n - q - (w - 1) = g + 1
        BY <4>1
      <4> QED BY <3>3, <4>2
    <3>5. accepted[c][g + 1] \in dropped'
      BY <1>1, <1>2, <2>1, <2>6, HeadIsFresh
    <3>6. Keeps(Sent(c), accepted[c], g, dropped)
      BY <2>1 DEF SentInOrder
    <3>7. \A i \in 1..g : Past(accepted[c][i])
      BY <1>0, <2>1, PastIs
    <3>8. \A i \in 1..g : accepted[c][i] \in dropped' <=> accepted[c][i] \in dropped
      BY <1>3, <3>7
    <3>9. Keeps(Sent(c), accepted[c], g, dropped')
      BY <2>4, <3>6, <3>8, KeepsOn
    <3>10. Keeps(Sent(c), accepted[c], g + 1, dropped')
      BY <2>4, <3>5, <3>9, KeepsDropped
    <3> QED BY <1>1, <1>5, <2>4, <3>4, <3>10
  <2> QED BY <2>5, <2>6
<1> QED BY <1>4, <1>5

LEMMA SentTake ==
    ASSUME SdkInv, SentInOrder, NEW c \in Client, Take(c) PROVE SentInOrder'
<1> SUFFICES ASSUME NEW d \in Client
             PROVE  Keeps(Sent(d), accepted[d], Gone(d), dropped)'
  BY DEF SentInOrder
<1>0. Queues /\ TailKept /\ SentOnce
  BY Parts
<1>1. /\ UNCHANGED <<attempted, inbox, accepted, dropped>>
      /\ sending[c] = << >> /\ queue[c] # << >>
      /\ sending'[c] = <<Head(queue[c])>> /\ queue'[c] = Tail(queue[c])
      /\ \A e \in Client \ {c} : sending'[e] = sending[e] /\ queue'[e] = queue[e]
  BY <1>0 DEF Take, Queues
<1>2. CASE d # c
  BY <1>1, <1>2, SentAside
<1>3. CASE d = c
  <2>1. PICK g \in Nat, q \in Nat, w \in Nat, n \in Nat :
           /\ g = Gone(c) /\ q = Len(queue[c]) /\ w = Len(inbox[c]) /\ n = Len(accepted[c])
           /\ g + q + w = n
    BY <1>0, Lengths
  <2>2. Len(queue'[c]) = q - 1 /\ q \in Nat \ {0} /\ Head(queue[c]) \in Made
    BY <1>0, <1>1, <2>1, TailIs, Lengths
  <2>3. Gone(c)' = n - (q - 1) - w
    BY <1>1, <2>1, <2>2 DEF Gone
  <2>4. Gone(c)' = g + 1
    <3>1. g + q + w = n
      BY <2>1
    <3>2. n - (q - 1) - w = g + 1
      BY <3>1
    <3> QED BY <2>3, <3>2
  <2>5. PICK a \in Seq(Made), x \in Made : a = attempted[c] /\ x = Head(queue[c])
    BY <1>0, <2>2 DEF Queues
  <2>6. a \o << >> = a /\ a \o <<x>> = Append(a, x)
    OBVIOUS
  <2>7. Sent(c) = a /\ Sent(c)' = Append(a, x)
    BY <1>1, <2>5, <2>6 DEF Sent
  <2>8. accepted[c][g + 1] = x /\ ~Past(x)
    BY <1>1, <2>1, <2>5, HeadIsFresh
  <2>9. x \notin dropped
    BY <1>0, <2>8 DEF SentOnce
  <2>10. Keeps(a, accepted[c], g, dropped)
    BY <2>1, <2>7 DEF SentInOrder
  <2>11. Keeps(Append(a, x), accepted[c], g + 1, dropped)
    BY <2>8, <2>9, <2>10, KeepsNext
  <2> QED BY <1>1, <1>3, <2>4, <2>7, <2>11
<1> QED BY <1>2, <1>3

LEMMA SentAttempt ==
    ASSUME SdkInv, SentInOrder, NEW c \in Client, Attempt(c) PROVE SentInOrder'
<1> SUFFICES ASSUME NEW d \in Client
             PROVE  Keeps(Sent(d), accepted[d], Gone(d), dropped)'
  BY DEF SentInOrder
<1>0. Queues
  BY Parts
<1>1. UNCHANGED <<queue, inbox, accepted, dropped>>
  BY DEF Attempt
<1>2. CASE d # c
  BY <1>0, <1>1, <1>2, SentAside DEF Attempt, Queues
<1>3. CASE d = c
  <2>1. PICK a \in Seq(Made), b \in Seq(Made) : a = attempted[c] /\ b = sending[c]
    BY <1>0 DEF Queues
  <2>2. attempted'[c] = a \o b /\ sending'[c] = << >>
    BY <1>0, <2>1 DEF Attempt, Queues
  <2>3. a \o b \in Seq(Made) /\ (a \o b) \o << >> = a \o b
    OBVIOUS
  <2>4. Sent(c)' = Sent(c) /\ Sent(c) \in Seq(Made)
    BY <2>1, <2>2, <2>3 DEF Sent
  <2>5. Gone(c)' = Gone(c)
    BY <1>1 DEF Gone
  <2> QED BY <1>1, <1>3, <2>4, <2>5, SentKept
<1> QED BY <1>2, <1>3

LEMMA SentStep ==
    ASSUME SdkInv, SentInOrder, [Next]_vars PROVE SentInOrder'
<1>1. ASSUME UNCHANGED worker PROVE SentInOrder'
  <2>1. UNCHANGED <<attempted, sending, queue, inbox, accepted, dropped>>
    BY <1>1 DEF worker
  <2> QED BY <2>1, SentAside DEF SentInOrder
<1>2. ASSUME NEW h \in Hosts, HostStep(h) PROVE SentInOrder'
  <2>1. CASE Submit(h)
    BY <2>1, SentSubmit
  <2>2. CASE RecordAnswer(h) \/ Leave(h)
    BY <1>1, <2>2 DEF RecordAnswer, Leave
  <2>3. ASSUME NEW entry, Enter(h, entry) PROVE SentInOrder'
    BY <1>1, <2>3 DEF Enter
  <2> QED BY <1>2, <2>1, <2>2, <2>3 DEF HostStep
<1>3. ASSUME NEW c \in Client, WorkerStep(c) PROVE SentInOrder'
  <2>1. CASE WorkerUp(c)
    BY <1>1, <2>1 DEF WorkerUp
  <2> QED BY <1>3, <2>1, SentEnqueue, SentTake, SentAttempt DEF WorkerStep
<1>4. ASSUME NEW o, Observe(o) \/ Lose(o) PROVE SentInOrder'
  BY <1>1, <1>4 DEF Observe, Lose
<1>5. CASE StartClient \/ HostExits \/ UNCHANGED vars
  BY <1>1, <1>5 DEF StartClient, HostExits, vars
<1> QED BY <1>2, <1>3, <1>4, <1>5 DEF Next

-----------------------------------------------------------------------------
(* The theorems.                                                           *)

(* Every variable of the SDK has its type and no queue outgrows its size.  *)
THEOREM SdkTypeCorrect == Spec => []TypeOK
<1>1. SdkInv => TypeOK
  <2> SUFFICES ASSUME SdkInv PROVE TypeOK
    OBVIOUS
  <2>1. Scalars /\ Queues /\ DropsAreCounted
    BY Parts
  <2>2. ASSUME NEW c \in Client PROVE dropCount[c] \in 0..MaxObservations
    <3>1. made \in Nat /\ made <= MaxObservations /\ dropped \subseteq 1..made
      BY <2>1, SdkAssumption DEF Scalars, Made
    <3>2. IsFiniteSet(1..made) /\ Cardinality(1..made) = made
      BY <3>1, FS_Interval
    <3>3. Cardinality(SeqSet(accepted[c]) \cap dropped) <= made
      BY <3>1, <3>2, FS_Subset
    <3>4. dropCount[c] \in Nat /\ dropCount[c] <= made
      BY <2>1, <3>3 DEF Scalars, DropsAreCounted
    <3> QED BY <3>1, <3>4, SdkAssumption
  <2>3. dropCount \in [Client -> 0..MaxObservations]
    BY <2>1, <2>2 DEF Scalars
  <2>4. \A s \in {inbox, queue, sending, attempted, accepted} :
           s \in [Client -> Seq(1..made)]
    BY <2>1 DEF Queues, Made
  <2> QED BY <2>1, <2>3, <2>4 DEF TypeOK, Scalars, Queues, Made
<1> QED BY <1>1, AlwaysInv, PTL

(* No observation ever starts a second run, whatever is lost, late or      *)
(* answered after a timeout and however many clients init() creates.       *)
THEOREM NoSecondRun == Spec => []AtMostOneRun
<1>1. SdkInv => AtMostOneRun
  BY DEF SdkInv, Order, Scalars, SentOnce, AtMostOneRun
<1> QED BY <1>1, AlwaysInv, PTL

(* dropped_count is exactly what the client lost.                          *)
THEOREM LossIsCounted == Spec => []DropsAreCounted
<1>1. SdkInv => DropsAreCounted
  BY DEF SdkInv
<1> QED BY <1>1, AlwaysInv, PTL

(* What a full queue loses is older than everything that still waits.      *)
THEOREM LossIsOldest == Spec => []OldestGoFirst
<1>1. SdkInv => OldestGoFirst
  <2> SUFFICES ASSUME SdkInv, NEW c \in Client, NEW j \in 1..Len(accepted[c]),
                      NEW k \in 1..Len(accepted[c]), accepted[c][j] \in dropped,
                      accepted[c][k] \in SeqSet(queue[c]) \cup SeqSet(inbox[c])
               PROVE  j < k
    <3>1. \A c \in Client : DOMAIN accepted[c] = 1..Len(accepted[c])
      BY DEF SdkInv, Queues
    <3> QED BY <3>1 DEF OldestGoFirst
  <2>0. Queues /\ TailKept /\ Distinct /\ SentOnce
    BY Parts
  <2>1. PICK g \in Nat, q \in Nat, i \in Nat, a \in Nat :
           /\ g = Gone(c) /\ q = Len(queue[c]) /\ i = Len(inbox[c]) /\ a = Len(accepted[c])
           /\ g + q + i = a
    BY <2>0, Lengths
  <2>2. g + q + i = a
    BY <2>1
  <2>3. j <= g
    <3>1. Past(accepted[c][j])
      BY <2>0 DEF SentOnce
    <3>2. PICK d \in Client : \E m \in 1..Gone(d) : accepted[d][m] = accepted[c][j]
      BY <3>1 DEF Past
    <3>3. PICK m \in 1..Gone(d) : accepted[d][m] = accepted[c][j]
      BY <3>2
    <3>4. m \in 1..Len(accepted[d])
      <4>1. PICK g1 \in Nat, q1 \in Nat, i1 \in Nat, a1 \in Nat :
               /\ g1 = Gone(d) /\ q1 = Len(queue[d]) /\ i1 = Len(inbox[d])
               /\ a1 = Len(accepted[d]) /\ g1 + q1 + i1 = a1
        BY <2>0, Lengths
      <4>2. m \in 1..a1
        BY <4>1, Positions
      <4> QED BY <4>1, <4>2
    <3>5. d = c /\ m = j
      BY <2>0, <3>3, <3>4 DEF Distinct
    <3> QED BY <2>1, <3>5
  <2>4. \E m \in 1..a : m > g /\ accepted[c][m] = accepted[c][k]
    <3>1. CASE accepted[c][k] \in SeqSet(queue[c])
      <4>1. PICK m \in 1..q : queue[c][m] = accepted[c][k]
        BY <2>0, <2>1, <3>1, Lengths, SeqSetIs
      <4>2. queue[c][m] = accepted[c][g + m]
        BY <2>0, <2>1 DEF TailKept
      <4>3. g + m \in 1..a /\ g + m > g
        BY <2>2
      <4> QED BY <4>1, <4>2, <4>3
    <3>2. CASE accepted[c][k] \in SeqSet(inbox[c])
      <4>1. PICK m \in 1..i : inbox[c][m] = accepted[c][k]
        BY <2>0, <2>1, <3>2, Lengths, SeqSetIs
      <4>2. inbox[c][m] = accepted[c][g + q + m]
        BY <2>0, <2>1 DEF TailKept
      <4>3. g + q + m \in 1..a /\ g + q + m > g
        BY <2>2
      <4> QED BY <4>1, <4>2, <4>3
    <3> QED BY <3>1, <3>2
  <2>5. PICK m \in 1..a : m > g /\ accepted[c][m] = accepted[c][k]
    BY <2>4
  <2>6. m = k
    BY <2>0, <2>1, <2>5 DEF Distinct
  <2> QED BY <2>3, <2>5, <2>6
<1> QED BY <1>1, AlwaysInv, PTL

(* Nothing that a client accepted and did not drop is lost or repeated,    *)
(* and all of it is posted in the order it was handed over.                *)
THEOREM NothingIsLost == Spec => []KeptInOrder
<1>1. SdkInv /\ SentInOrder => KeptInOrder
  <2> SUFFICES ASSUME SdkInv, SentInOrder, NEW c \in Client
               PROVE  InPlace(attempted[c] \o sending[c] \o queue[c] \o inbox[c],
                              accepted[c],
                              {i \in DOMAIN accepted[c] : accepted[c][i] \notin dropped})
    BY DEF KeptInOrder, InPlace
  <2> DEFINE all == attempted[c] \o sending[c] \o queue[c] \o inbox[c]
             stays == {i \in DOMAIN accepted[c] : accepted[c][i] \notin dropped}
  <2>0. Queues /\ TailKept /\ Distinct /\ SentOnce
    BY Parts
  <2>1. PICK g \in Nat, q \in Nat, w \in Nat, n \in Nat :
           /\ g = Gone(c) /\ q = Len(queue[c]) /\ w = Len(inbox[c]) /\ n = Len(accepted[c])
           /\ g + q + w = n
    BY <2>0, Lengths
  <2>2. PICK kept \in Seq(Made), mid \in Seq(Made), end \in Seq(Made) :
            kept = Sent(c) /\ mid = queue[c] /\ end = inbox[c]
    BY <2>0, SentType DEF Queues
  <2>3. mid \o end \in Seq(Made) /\ Len(mid \o end) = q + w
    BY <2>1, <2>2
  <2>a. kept \o mid \o end = kept \o (mid \o end)
    BY ConcatAssociative
  <2>4. all = kept \o (mid \o end)
    BY <2>2, <2>a DEF Sent
  <2>5. PICK wait \in Seq(Made) : wait = mid \o end
    BY <2>3
  <2>6. \A k \in 1..(q + w) : wait[k] = accepted[c][g + k]
    <3> SUFFICES ASSUME NEW k \in 1..(q + w) PROVE wait[k] = accepted[c][g + k]
      OBVIOUS
    <3>1. CASE k \in 1..q
      <4>1. wait[k] = mid[k]
        BY <2>1, <2>2, <2>5, <3>1
      <4> QED BY <2>0, <2>1, <2>2, <3>1, <4>1 DEF TailKept
    <3>2. CASE k \notin 1..q
      <4>1. k - q \in 1..w /\ k \in 1..(q + w) /\ ~(k <= q)
        BY <3>2
      <4>2. wait[k] = end[k - q]
        BY <2>1, <2>2, <2>5, <4>1
      <4>3. end[k - q] = accepted[c][g + q + (k - q)]
        BY <2>0, <2>1, <2>2, <4>1 DEF TailKept
      <4>4. g + q + (k - q) = g + k
        OBVIOUS
      <4> QED BY <4>2, <4>3, <4>4
    <3> QED BY <3>1, <3>2
  <2>7. \A k \in 1..(q + w) : accepted[c][g + k] \notin dropped
    <3> SUFFICES ASSUME NEW k \in 1..(q + w), accepted[c][g + k] \in dropped PROVE FALSE
      OBVIOUS
    <3>0. g + q + w = n
      BY <2>1
    <3>1. g + k \in 1..n /\ ~(g + k <= g)
      BY <3>0
    <3>2. PICK d \in Client : \E m \in 1..Gone(d) : accepted[d][m] = accepted[c][g + k]
      BY <2>0 DEF SentOnce, Past
    <3>3. PICK m \in 1..Gone(d) : accepted[d][m] = accepted[c][g + k]
      BY <3>2
    <3>4. m \in 1..Len(accepted[d])
      BY <2>0, PastIs
    <3>5. d = c /\ m = g + k
      BY <2>0, <2>1, <3>1, <3>3, <3>4 DEF Distinct
    <3> QED BY <2>1, <3>1, <3>5
  <2>8. Keeps(kept, accepted[c], g, dropped)
    BY <2>1, <2>2 DEF SentInOrder
  <2>9. PICK acc \in Seq(Made) : acc = accepted[c]
    BY <2>0 DEF Queues
  <2>10. /\ Keeps(kept, acc, g, dropped) /\ Len(acc) = g + Len(wait)
         /\ \A k \in 1..Len(wait) : wait[k] = acc[g + k] /\ wait[k] \notin dropped
    <3>1. Len(wait) = q + w
      BY <2>3, <2>5
    <3>2. g + q + w = n
      BY <2>1
    <3>3. n = g + (q + w)
      BY <3>2
    <3>4. \A k \in 1..Len(wait) : k \in 1..(q + w)
      BY <3>1
    <3> QED BY <2>1, <2>6, <2>7, <2>8, <2>9, <3>1, <3>3, <3>4
  <2>11. all = kept \o wait /\ stays = {i \in DOMAIN acc : acc[i] \notin dropped}
    BY <2>4, <2>5, <2>9
  <2> HIDE DEF all, stays
  <2>b. PICK S, D, al, st : S = Made /\ D = dropped /\ al = all /\ st = stays
    OBVIOUS
  <2>12. Waits(S, kept, wait, acc, g, D, al, st)
    BY <2>1, <2>b, <2>10, <2>11 DEF Waits
  <2>13. InPlace(al, acc, st)
    BY <2>12, KeepsWaiting
  <2>14. InPlace(all, acc, stays)
    BY <2>b, <2>13
  <2> QED BY <2>9, <2>14 DEF all, stays
<1>2. SdkInv /\ SentInOrder /\ [Next]_vars => SentInOrder'
  BY SentStep
<1>3. Spec => []SentInOrder
  BY <1>2, SentInit, AlwaysInv, PTL DEF Spec
<1> QED BY <1>1, <1>3, AlwaysInv, PTL

=============================================================================
