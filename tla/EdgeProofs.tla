----------------------------- MODULE EdgeProofs -----------------------------
(***************************************************************************)
(* The layers in front of the routes, for every number of connections,     *)
(* callers and proxies, all limits, any window and any cap: the rate limit *)
(* is exact, and what a route handles has passed every layer.              *)
(***************************************************************************)
EXTENDS Edge, FiniteSetTheorems, TLAPS

Reading == [stage : {"reading"}, request : Request, received : 0..MaxBytes]

Handled == [stage : {"handled"}, request : Request, received : 0..MaxBytes,
            asked : Nat, budget : Nat]

LogEntry == [caller : Callers, tier : Tier, at : Nat, admitted : BOOLEAN]

Key == Callers \X Tier

TypeInv ==
    /\ now \in Nat
    /\ hits \in [Key -> Seq(Nat)]
    /\ slot \in [Slots -> {Idle} \cup Reading \cup Handled]
    /\ log \in Seq(LogEntry)

(* Requests are logged as time passes.                                     *)
TimesInv ==
    \A j \in DOMAIN log :
        /\ log[j].at <= now
        /\ \A i \in DOMAIN log : i <= j => log[i].at <= log[j].at

(* The admitted requests of a caller and tier, by their place in the log.  *)
Mine(requests, k) ==
    {j \in DOMAIN requests : /\ requests[j].admitted
                             /\ requests[j].caller = k[1]
                             /\ requests[j].tier = k[2]}

(* The hits s are the times of the caller's last admitted requests, f      *)
(* tells which; those that are missing have left the window at time t.     *)
Traces(s, requests, t, k, f) ==
    /\ f \in [DOMAIN s -> Mine(requests, k)]
    /\ \A i \in DOMAIN s : s[i] = requests[f[i]].at
    /\ \A i, j \in DOMAIN s : i < j => f[i] < f[j]
    /\ \A j \in Mine(requests, k) :
           (\A i \in DOMAIN s : f[i] # j) => t - requests[j].at > Window

HitsInv == \A k \in Key : \E f : Traces(hits[k], log, now, k, f)

Admitted(q) ==
    Limited(q) => \E k \in DOMAIN log :
        log[k].admitted /\ log[k].caller = q.caller /\ log[k].tier = q.route

(* A request whose body is read or that is handled was let through.        *)
PassedInv ==
    \A c \in Slots : slot[c] # Idle =>
        /\ Authorised(slot[c].request)
        /\ Admitted(slot[c].request)
        /\ slot[c].stage = "handled" =>
               slot[c].budget <= MaxBudget /\ slot[c].budget <= slot[c].asked

EdgeInv == TypeInv /\ TimesInv /\ HitsInv /\ PassedInv /\ RateIsExact

-----------------------------------------------------------------------------
(* Facts about numbers, sequences and the caller's address.                *)

(* A set of natural numbers has a least element.                           *)
LEMMA LeastNat ==
    ASSUME NEW T, T \subseteq Nat, T # {}
    PROVE  \E x \in T : \A y \in T : x <= y
<1> DEFINE Upto == {0..n : n \in T}
<1>1. Upto \subseteq FiniteSubsetsOf(Nat) /\ Upto # {}
  <2>1. \A n \in T : IsFiniteSet(0..n) /\ 0..n \subseteq Nat
    BY FS_Interval
  <2> QED BY <2>1 DEF FiniteSubsetsOf
<1>2. PICK u \in Upto : \A v \in Upto : <<v, u>> \notin StrictSubsetOrdering(Nat)
  BY <1>1, WFMin, FS_StrictSubsetOrderingWellFounded
<1>3. PICK x \in T : u = 0..x
  OBVIOUS
<1>4. ASSUME NEW y \in T, y < x PROVE FALSE
  <2>1. 0..y \in Upto
    OBVIOUS
  <2>2. 0..y \subseteq 0..x /\ x \in 0..x /\ x \notin 0..y
    BY <1>4
  <2>3. 0..y \in SUBSET Nat /\ 0..x \in SUBSET Nat /\ 0..y # 0..x
    BY <2>2
  <2> QED BY <1>2, <1>3, <2>1, <2>2, <2>3 DEF StrictSubsetOrdering
<1> QED BY <1>4

LEMMA AppendIs ==
    ASSUME NEW S, NEW s \in Seq(S), NEW e \in S
    PROVE  /\ Append(s, e) \in Seq(S)
           /\ Len(Append(s, e)) = Len(s) + 1
           /\ DOMAIN Append(s, e) = 1..(Len(s) + 1)
           /\ Append(s, e)[Len(s) + 1] = e
           /\ \A k \in 1..Len(s) : Append(s, e)[k] = s[k]
           /\ DOMAIN s = 1..Len(s) /\ Len(s) \in Nat
OBVIOUS

LEMMA SuffixIs ==
    ASSUME NEW S, NEW s \in Seq(S), NEW m \in 1..(Len(s) + 1)
    PROVE  /\ SubSeq(s, m, Len(s)) \in Seq(S)
           /\ Len(SubSeq(s, m, Len(s))) = Len(s) - m + 1
           /\ DOMAIN SubSeq(s, m, Len(s)) = 1..(Len(s) - m + 1)
           /\ \A i \in 1..(Len(s) - m + 1) : SubSeq(s, m, Len(s))[i] = s[m + i - 1]
OBVIOUS

LEMMA ConcatIs ==
    ASSUME NEW S, NEW s \in Seq(S), NEW t \in Seq(S)
    PROVE  /\ s \o t \in Seq(S)
           /\ Len(s \o t) = Len(s) + Len(t)
           /\ \A i \in 1..Len(s) : (s \o t)[i] = s[i]
           /\ \A i \in 1..Len(t) : (s \o t)[Len(s) + i] = t[i]
           /\ Len(s) \in Nat /\ Len(t) \in Nat
OBVIOUS

(* Behind its proxies the service sees each caller under an address of its *)
(* own, whatever the caller puts into X-Forwarded-For.                     *)
LEMMA CallerIsSeen == ASSUME NEW q \in Request PROVE ClientIp(q) = q.caller
<1>1. Proxies \in Seq(STRING) /\ Hops = Len(Proxies)
  BY EdgeAssumption
<1>2. CASE Proxies = << >>
  <2>1. Hops = 0
    BY <1>1, <1>2
  <2> QED BY <1>2, <2>1 DEF ClientIp, Socket
<1>3. CASE Proxies # << >>
  <2>1. PICK P \in Nat : P = Len(Proxies) /\ P >= 1 /\ Hops = P
    BY <1>1, <1>3
  <2>2. PICK u : u = q.upstream /\ (u = << >> \/ \E a \in Callers : u = <<a>>)
    BY DEF Request, Upstream
  <2>3. PICK ours : ours = SubSeq(Proxies, 1, P - 1)
    OBVIOUS
  <2>4. ours \in Seq(STRING) /\ Len(ours) = P - 1
    BY <1>1, <2>1, <2>3
  <2>5. q.caller \in Callers
    BY DEF Request
  <2>6. PICK hops : hops = u \o <<q.caller>> \o ours
    OBVIOUS
  <2>7. PICK n \in Nat : n = Len(u) /\ u \in Seq(Callers)
    <3>1. CASE u = << >>
      BY <3>1
    <3>2. CASE \E a \in Callers : u = <<a>>
      BY <3>2
    <3> QED BY <2>2, <3>1, <3>2
  <2>8. Len(hops) = n + P /\ hops[n + 1] = q.caller
    <3>0. PICK T : T = Callers \cup STRING
      OBVIOUS
    <3>1. PICK one \in Seq(T) : one = <<q.caller>>
      <4>1. PICK a \in T : a = q.caller
        BY <2>5, <3>0
      <4>2. <<a>> \in Seq(T)
        OBVIOUS
      <4> QED BY <4>1, <4>2
    <3>2. Len(one) = 1 /\ one[1] = q.caller
      BY <3>1
    <3>3. u \in Seq(T) /\ ours \in Seq(T)
      BY <2>4, <2>7, <3>0
    <3>4. PICK front : front = u \o one
      OBVIOUS
    <3>5. front \in Seq(T) /\ Len(front) = n + 1 /\ front[n + 1] = q.caller
      <4>1. front \in Seq(T) /\ Len(front) = Len(u) + Len(one)
        BY <3>1, <3>3, <3>4, ConcatIs
      <4>2. front[Len(u) + 1] = one[1]
        <5>1. 1 \in 1..Len(one)
          BY <3>2
        <5> QED BY <3>1, <3>3, <3>4, <5>1, ConcatIs
      <4> QED BY <2>7, <3>2, <4>1, <4>2
    <3>6. hops = front \o ours
      BY <2>6, <3>1, <3>4
    <3>7. Len(hops) = Len(front) + Len(ours)
      BY <3>3, <3>5, <3>6, ConcatIs
    <3>8. n + 1 \in 1..Len(front)
      BY <3>5
    <3>9. hops[n + 1] = front[n + 1]
      BY <3>3, <3>5, <3>6, <3>8, ConcatIs
    <3>10. Len(hops) = n + 1 + (P - 1)
      BY <2>4, <3>5, <3>7
    <3> QED BY <2>1, <3>5, <3>9, <3>10
  <2>9. Forwarded(q) = hops
    BY <1>3, <2>1, <2>2, <2>3, <2>6 DEF Forwarded
  <2>10. Hops > 0 /\ Len(hops) >= Hops /\ Len(hops) - Hops + 1 = n + 1
    BY <2>1, <2>8
  <2> QED BY <2>8, <2>9, <2>10 DEF ClientIp
<1> QED BY <1>2, <1>3

-----------------------------------------------------------------------------
(* The window.                                                             *)

(* _allow leaves a suffix, and everything before it is beyond the window.  *)
LEMMA RecentIs ==
    ASSUME TypeInv, NEW k \in Key
    PROVE  \E m \in 1..(Len(hits[k]) + 1) :
               /\ Recent(k) = SubSeq(hits[k], m, Len(hits[k]))
               /\ \A i \in 1..(m - 1) : now - hits[k][i] > Window
               /\ m \in DOMAIN hits[k] => now - hits[k][m] <= Window
<1> DEFINE h == hits[k]
           stay == {i \in 1..(Len(h) + 1) : i \in DOMAIN h => ~(now - h[i] > Window)}
           m == CHOOSE i \in stay : \A o \in stay : i <= o
<1>1. h \in Seq(Nat) /\ now \in Nat /\ Window \in Nat
  BY EdgeAssumption DEF TypeInv
<1>2. Len(h) \in Nat /\ DOMAIN h = 1..Len(h)
  BY <1>1
<1>3. Len(h) + 1 \in stay /\ stay \subseteq Nat
  BY <1>2
<1>4. \E i \in stay : \A o \in stay : i <= o
  BY <1>3, LeastNat
<1>5. m \in stay /\ \A o \in stay : m <= o
  BY <1>4
<1>6. Recent(k) = SubSeq(h, m, Len(h))
  BY DEF Recent
<1> HIDE DEF m
<1>7. ASSUME NEW i \in 1..(m - 1) PROVE now - h[i] > Window
  <2>1. i \in 1..(Len(h) + 1) /\ i \in DOMAIN h /\ ~(m <= i)
    BY <1>2, <1>5
  <2> QED BY <1>5, <2>1
<1>8. m \in DOMAIN h => now - h[m] <= Window
  <2>1. ASSUME m \in DOMAIN h PROVE now - h[m] <= Window
    <3>1. h[m] \in Nat /\ ~(now - h[m] > Window)
      BY <1>1, <1>5, <2>1
    <3> QED BY <1>1, <3>1
  <2> QED BY <2>1
<1> QED BY <1>5, <1>6, <1>7, <1>8

(* What is left are the admitted requests within the window, so the length *)
(* that _allow compares with the limit is their number.                    *)
LEMMA RecentTraces ==
    ASSUME TypeInv, TimesInv, HitsInv, NEW k \in Key
    PROVE  /\ Recent(k) \in Seq(Nat)
           /\ \E g : Traces(Recent(k), log, now, k, g)
           /\ Len(Recent(k)) =
                  Cardinality({j \in Mine(log, k) : now - log[j].at <= Window})
<1> DEFINE W == {j \in Mine(log, k) : now - log[j].at <= Window}
<1>1. PICK h \in Seq(Nat), L \in Nat :
          /\ h = hits[k] /\ L = Len(h) /\ DOMAIN h = 1..L
          /\ \A i \in 1..L : h[i] \in Nat
  <2>1. hits[k] \in Seq(Nat)
    BY DEF TypeInv
  <2>2. Len(hits[k]) \in Nat /\ DOMAIN hits[k] = 1..Len(hits[k])
    BY <2>1
  <2>3. \A i \in 1..Len(hits[k]) : hits[k][i] \in Nat
    BY <2>1, <2>2
  <2> QED BY <2>1, <2>2, <2>3
<1>2. PICK m \in 1..(L + 1) :
          /\ Recent(k) = SubSeq(h, m, L)
          /\ \A i \in 1..(m - 1) : now - h[i] > Window
          /\ m \in 1..L => now - h[m] <= Window
  BY <1>1, RecentIs
<1>3. PICK f : Traces(h, log, now, k, f)
  BY <1>1 DEF HitsInv
<1>4. PICK s \in Seq(Nat), n \in Nat :
          /\ s = Recent(k) /\ n = L - m + 1
          /\ Len(s) = n /\ DOMAIN s = 1..n
          /\ \A i \in 1..n : s[i] = h[m + i - 1]
  <2>1. m \in 1..(Len(h) + 1) /\ Recent(k) = SubSeq(h, m, Len(h))
    BY <1>1, <1>2
  <2>2. L - m + 1 \in Nat
    OBVIOUS
  <2>3. PICK s : s = SubSeq(h, m, Len(h))
    OBVIOUS
  <2>4. /\ s \in Seq(Nat) /\ Len(s) = L - m + 1 /\ DOMAIN s = 1..(L - m + 1)
        /\ \A i \in 1..(L - m + 1) : s[i] = h[m + i - 1]
    BY <1>1, <2>1, <2>3, SuffixIs
  <2> QED BY <2>1, <2>2, <2>3, <2>4
<1>5. /\ now \in Nat /\ Window \in Nat
      /\ \A j \in DOMAIN log : j \in Nat /\ log[j].at \in Nat
  <2>1. now \in Nat /\ Window \in Nat /\ log \in Seq(LogEntry)
    BY EdgeAssumption DEF TypeInv
  <2>2. \A j \in DOMAIN log : j \in Nat /\ log[j] \in LogEntry
    BY <2>1
  <2> QED BY <2>1, <2>2 DEF LogEntry
<1>6. /\ f \in [1..L -> Mine(log, k)]
      /\ \A i \in 1..L : h[i] = log[f[i]].at
      /\ \A i, j \in 1..L : i < j => f[i] < f[j]
      /\ \A j \in Mine(log, k) : (\A i \in 1..L : f[i] # j) => now - log[j].at > Window
  BY <1>1, <1>3 DEF Traces
<1>7. Mine(log, k) \subseteq DOMAIN log
  BY DEF Mine
<1>8. ASSUME NEW i \in 1..n
      PROVE  m + i - 1 \in 1..L /\ now - h[m + i - 1] <= Window
  <2>1. m + i - 1 \in 1..L /\ m \in 1..L /\ m <= m + i - 1
    BY <1>4
  <2>2. f[m] <= f[m + i - 1]
    <3>1. f[m] \in Nat
      BY <1>5, <1>6, <1>7, <2>1
    <3>2. m = m + i - 1 \/ m < m + i - 1
      BY <2>1
    <3>3. f[m + i - 1] \in Nat
      BY <1>5, <1>6, <1>7, <2>1
    <3>4. CASE m < m + i - 1
      <4>1. f[m] < f[m + i - 1]
        BY <1>6, <2>1, <3>4
      <4> QED BY <3>1, <3>3, <4>1
    <3>5. CASE m = m + i - 1
      BY <3>1, <3>5
    <3> QED BY <3>2, <3>4, <3>5
  <2>3. h[m] <= h[m + i - 1]
    BY <1>6, <1>7, <2>1, <2>2 DEF TimesInv
  <2>4. PICK x \in Nat, y \in Nat : x = h[m] /\ y = h[m + i - 1]
    BY <1>1, <2>1
  <2>5. now - x <= Window /\ x <= y /\ now \in Nat /\ Window \in Nat
    BY <1>2, <1>5, <2>1, <2>3, <2>4
  <2>6. now - y <= Window
    BY <2>5
  <2> QED BY <2>1, <2>4, <2>6
<1>9. PICK g : g = [i \in 1..n |-> f[m + i - 1]]
  OBVIOUS
<1>10. \A i \in 1..n : g[i] = f[m + i - 1] /\ g[i] \in Mine(log, k) /\ s[i] = log[g[i]].at
  BY <1>4, <1>6, <1>8, <1>9
<1>11. \A i \in 1..n : g[i] \in W
  BY <1>6, <1>8, <1>10
<1>12. \A i, j \in 1..n : i < j => g[i] < g[j]
  <2>1. TAKE i, j \in 1..n
  <2>2. HAVE i < j
  <2>3. m + i - 1 < m + j - 1
    BY <2>2
  <2> QED BY <1>6, <1>8, <1>10, <2>3
<1>13. ASSUME NEW j \in Mine(log, k), \A i \in 1..n : g[i] # j
       PROVE  now - log[j].at > Window
  <2>1. CASE \A i \in 1..L : f[i] # j
    BY <1>6, <2>1
  <2>2. CASE \E i \in 1..L : f[i] = j
    <3>1. PICK i \in 1..L : f[i] = j
      BY <2>2
    <3>2. CASE i >= m
      <4>1. i - m + 1 \in 1..n /\ m + (i - m + 1) - 1 = i
        BY <1>4, <3>2
      <4>2. g[i - m + 1] = f[i]
        BY <1>10, <4>1
      <4> QED BY <1>13, <3>1, <4>1, <4>2
    <3>3. CASE i < m
      <4>1. i \in 1..(m - 1)
        BY <3>3
      <4> QED BY <1>2, <1>6, <3>1, <4>1
    <3> QED BY <3>2, <3>3
  <2> QED BY <2>1, <2>2
<1>14. Traces(s, log, now, k, g)
  <2>1. g \in [DOMAIN s -> Mine(log, k)]
    BY <1>4, <1>9, <1>10
  <2> QED BY <1>4, <1>10, <1>12, <1>13, <2>1 DEF Traces
<1>15. Cardinality(W) = n
  <2>1. g \in [1..n -> W]
    BY <1>9, <1>11
  <2>2. \A i, j \in 1..n : g[i] = g[j] => i = j
    <3>1. TAKE i, j \in 1..n
    <3>2. g[i] \in Nat /\ g[j] \in Nat
      BY <1>5, <1>7, <1>10
    <3> QED BY <1>12, <3>2
  <2>3. \A j \in W : \E i \in 1..n : g[i] = j
    <3>1. TAKE j \in W
    <3>2. log[j].at \in Nat /\ ~(now - log[j].at > Window)
      BY <1>5, <1>7
    <3> QED BY <1>13, <3>2
  <2>4. g \in Bijection(1..n, W)
    BY <2>1, <2>2, <2>3 DEF Bijection, Injection, Surjection, IsInjective
  <2> QED BY <2>4, FS_CountingElements DEF ExistsBijection
<1> QED BY <1>4, <1>14, <1>15

-----------------------------------------------------------------------------
(* The steps.                                                              *)

LEMMA EdgeInit == Init => EdgeInv
<1> SUFFICES ASSUME Init PROVE EdgeInv
  OBVIOUS
<1>1. TypeInv
  BY DEF Init, TypeInv, Key
<1>2. TimesInv /\ PassedInv /\ RateIsExact
  BY DEF Init, TimesInv, PassedInv, RateIsExact
<1>3. ASSUME NEW k \in Key PROVE \E f : Traces(hits[k], log, now, k, f)
  <2>1. hits[k] = << >> /\ log = << >>
    BY <1>3 DEF Init, Key
  <2>2. Mine(log, k) = {}
    BY <2>1 DEF Mine
  <2>3. << >> \in [DOMAIN hits[k] -> Mine(log, k)]
    BY <2>1, <2>2
  <2>4. Traces(hits[k], log, now, k, << >>)
    BY <2>1, <2>2, <2>3 DEF Traces
  <2> QED BY <2>4
<1> QED BY <1>1, <1>2, <1>3 DEF EdgeInv, HitsInv

(* The rate limit's invariants depend on its own variables only.           *)
LEMMA RateStill ==
    ASSUME TimesInv, HitsInv, RateIsExact, UNCHANGED <<now, hits, log>>
    PROVE  TimesInv' /\ HitsInv' /\ RateIsExact'
<1>1. TimesInv'
  BY DEF TimesInv
<1>2. ASSUME NEW k \in Key PROVE \E f : Traces(hits'[k], log', now', k, f)
  <2>1. PICK f : Traces(hits[k], log, now, k, f)
    BY DEF HitsInv
  <2>2. Traces(hits'[k], log', now', k, f)
    BY <2>1 DEF Traces, Mine
  <2> QED BY <2>2
<1>3. HitsInv'
  BY <1>2 DEF HitsInv
<1>4. RateIsExact'
  BY DEF RateIsExact
<1> QED BY <1>1, <1>3, <1>4

LEMMA TickKeeps == ASSUME EdgeInv, Tick PROVE EdgeInv'
<1>1. /\ TypeInv /\ TimesInv /\ HitsInv /\ PassedInv /\ RateIsExact
      /\ now \in Nat /\ now' = now + 1 /\ UNCHANGED <<hits, slot, log>>
  BY DEF EdgeInv, TypeInv, Tick
<1>2. /\ Window \in Nat /\ log \in Seq(LogEntry)
      /\ \A j \in DOMAIN log : log[j] \in LogEntry
  BY <1>1, EdgeAssumption DEF TypeInv
<1>3. \A j \in DOMAIN log : log[j].at \in Nat
  BY <1>2 DEF LogEntry
<1>4. TypeInv'
  BY <1>1 DEF TypeInv
<1>5. TimesInv'
  BY <1>1, <1>3 DEF TimesInv
<1>6. ASSUME NEW k \in Key PROVE \E f : Traces(hits'[k], log', now', k, f)
  <2>1. PICK f : Traces(hits[k], log, now, k, f)
    BY <1>1 DEF HitsInv
  <2>2. Mine(log', k) = Mine(log, k) /\ Mine(log, k) \subseteq DOMAIN log
    BY <1>1 DEF Mine
  <2>3. \A j \in Mine(log, k) : now - log[j].at > Window => now' - log'[j].at > Window
    BY <1>1, <1>2, <1>3, <2>2
  <2>4. Traces(hits'[k], log', now', k, f)
    BY <1>1, <2>1, <2>2, <2>3 DEF Traces
  <2> QED BY <2>4
<1>7. HitsInv'
  BY <1>6 DEF HitsInv
<1>8. PassedInv'
  BY <1>1 DEF PassedInv, Admitted, Limited, Authorised
<1>9. RateIsExact'
  BY <1>1 DEF RateIsExact
<1> QED BY <1>4, <1>5, <1>7, <1>8, <1>9 DEF EdgeInv

(* A request of which the rate limit takes note.                           *)
LEMMA CountKeeps ==
    ASSUME TypeInv, TimesInv, HitsInv, RateIsExact,
           NEW q \in Request, Limited(q), Count(q), now' = now
    PROVE  /\ hits' \in [Key -> Seq(Nat)] /\ log' \in Seq(LogEntry)
           /\ TimesInv' /\ HitsInv' /\ RateIsExact'
           /\ \A p : Admitted(p) => Admitted(p)'
           /\ Allowed(q) => Admitted(q)'
<1>1. PICK k0 \in Key : k0 = <<q.caller, q.route>>
  BY DEF Key, Request, Limited
<1>2. q.caller \in Callers /\ q.route \in Tier /\ k0[1] = q.caller /\ k0[2] = q.route
  BY <1>1 DEF Request, Limited
<1>3. <<ClientIp(q), q.route>> = k0
  BY <1>1, CallerIsSeen
<1>4. PICK ok \in BOOLEAN : ok = Allowed(q)
  <2>1. Allowed(q) \in BOOLEAN
    BY DEF Allowed
  <2> QED BY <2>1
<1>5. PICK e : e = [caller |-> q.caller, tier |-> q.route, at |-> now, admitted |-> ok]
  OBVIOUS
<1>6. now \in Nat /\ Window \in Nat
  BY EdgeAssumption DEF TypeInv
<1>7. /\ e \in LogEntry /\ e.caller = q.caller /\ e.tier = q.route
      /\ e.at = now /\ e.admitted = ok
  BY <1>2, <1>5, <1>6 DEF LogEntry
<1>8. log \in Seq(LogEntry) /\ log' = Append(log, e)
  BY <1>4, <1>5 DEF TypeInv, Count
<1>9. PICK n \in Nat : n = Len(log) /\ DOMAIN log = 1..n
  BY <1>8
<1>10. /\ log' \in Seq(LogEntry) /\ DOMAIN log' = 1..(n + 1)
       /\ log'[n + 1] = e /\ \A j \in 1..n : log'[j] = log[j]
  BY <1>7, <1>8, <1>9, AppendIs
<1>11. \A j \in 1..n : log[j] \in LogEntry /\ log[j].at \in Nat
  <2>1. \A j \in 1..n : log[j] \in LogEntry
    BY <1>8, <1>9
  <2> QED BY <2>1 DEF LogEntry
<1>12. PICK s \in Seq(Nat), L \in Nat : s = Recent(k0) /\ L = Len(s) /\ DOMAIN s = 1..L
  <2>1. Recent(k0) \in Seq(Nat)
    BY RecentTraces
  <2> QED BY <2>1
<1>13. PICK g : Traces(s, log, now, k0, g)
  BY <1>12, RecentTraces
<1>14. L = Cardinality({j \in Mine(log, k0) : now - log[j].at <= Window})
  BY <1>12, RecentTraces
<1>15. ok <=> L < Limit[q.route]
  BY <1>3, <1>4, <1>12 DEF Allowed
<1>16. hits' = [hits EXCEPT ![k0] = IF ok THEN Append(s, now) ELSE s]
  BY <1>3, <1>4, <1>12 DEF Count
<1>17. PICK s2 : s2 = IF ok THEN Append(s, now) ELSE s
  OBVIOUS
<1>18. /\ Append(s, now) \in Seq(Nat) /\ DOMAIN Append(s, now) = 1..(L + 1)
       /\ Append(s, now)[L + 1] = now /\ \A i \in 1..L : Append(s, now)[i] = s[i]
  BY <1>6, <1>12, AppendIs
<1>19. hits' \in [Key -> Seq(Nat)] /\ hits'[k0] = s2
  BY <1>12, <1>16, <1>17, <1>18 DEF TypeInv
<1>20. \A k \in Key : k # k0 => hits'[k] = hits[k]
  BY <1>16 DEF TypeInv
<1>21. TimesInv'
  <2>1. \A j \in 1..n : log[j].at <= now
    BY <1>9 DEF TimesInv
  <2>2. \A i, j \in 1..n : i <= j => log[i].at <= log[j].at
    BY <1>9 DEF TimesInv
  <2>3. ASSUME NEW j \in 1..(n + 1), NEW i \in 1..(n + 1), i <= j
        PROVE  log'[i].at <= log'[j].at /\ log'[j].at <= now
    <3>1. CASE j = n + 1 /\ i = n + 1
      BY <1>6, <1>7, <1>10, <3>1
    <3>2. CASE j = n + 1 /\ i # n + 1
      <4>1. i \in 1..n
        BY <3>2
      <4> QED BY <1>6, <1>7, <1>10, <2>1, <3>2, <4>1
    <3>3. CASE j # n + 1
      <4>1. i \in 1..n /\ j \in 1..n
        BY <2>3, <3>3
      <4> QED BY <1>10, <2>1, <2>2, <2>3, <4>1
    <3> QED BY <3>1, <3>2, <3>3
  <2>4. \A j \in 1..(n + 1) : log'[j].at <= now
    <3>1. TAKE j \in 1..(n + 1)
    <3>2. j <= j
      OBVIOUS
    <3> QED BY <2>3, <3>2
  <2> QED BY <1>10, <2>3, <2>4 DEF TimesInv
<1>22. \A k \in Key : Mine(log', k) = IF ok /\ k = k0 THEN Mine(log, k) \cup {n + 1} ELSE Mine(log, k)
  <2>1. TAKE k \in Key
  <2>2. k = k0 <=> (q.caller = k[1] /\ q.route = k[2])
    BY <1>1 DEF Key
  <2>3. \A j \in 1..n : j \in Mine(log', k) <=> j \in Mine(log, k)
    BY <1>9, <1>10 DEF Mine
  <2>4. n + 1 \in Mine(log', k) <=> ok /\ k = k0
    BY <1>7, <1>10, <2>2 DEF Mine
  <2>5. Mine(log', k) \subseteq 1..(n + 1) /\ Mine(log, k) \subseteq 1..n
    BY <1>9, <1>10 DEF Mine
  <2>6. 1..(n + 1) = 1..n \cup {n + 1} /\ n + 1 \notin 1..n
    OBVIOUS
  <2>7. CASE ok /\ k = k0
    BY <2>3, <2>4, <2>5, <2>6, <2>7, Zenon
  <2>8. CASE ~(ok /\ k = k0)
    <3>1. \A j : j \in Mine(log', k) <=> j \in Mine(log, k)
      BY <2>3, <2>4, <2>5, <2>6, <2>8
    <3> QED BY <2>8, <3>1
  <2> QED BY <2>7, <2>8
<1>23. \A k : Mine(log, k) \subseteq 1..n
  BY <1>9 DEF Mine
<1>24. ASSUME NEW k \in Key, k # k0 PROVE \E f : Traces(hits'[k], log', now', k, f)
  <2>1. PICK f : Traces(hits[k], log, now, k, f)
    BY DEF HitsInv
  <2>2. hits'[k] = hits[k] /\ Mine(log', k) = Mine(log, k)
    BY <1>20, <1>22, <1>24
  <2>3. \A i \in DOMAIN hits[k] : f[i] \in 1..n
    BY <1>23, <2>1 DEF Traces
  <2>4. Traces(hits'[k], log', now', k, f)
    BY <1>10, <1>23, <2>1, <2>2, <2>3 DEF Traces
  <2> QED BY <2>4
<1>25. \E f : Traces(hits'[k0], log', now', k0, f)
  <2>1. /\ g \in [1..L -> Mine(log, k0)]
        /\ \A i \in 1..L : s[i] = log[g[i]].at
        /\ \A i, j \in 1..L : i < j => g[i] < g[j]
        /\ \A j \in Mine(log, k0) : (\A i \in 1..L : g[i] # j) => now - log[j].at > Window
    BY <1>12, <1>13 DEF Traces
  <2>2. \A i \in 1..L : g[i] \in 1..n
    BY <1>23, <2>1
  <2>3. CASE ~ok
    <3>1. s2 = s /\ Mine(log', k0) = Mine(log, k0)
      BY <1>17, <1>22, <2>3
    <3>2. Traces(hits'[k0], log', now', k0, g)
      BY <1>10, <1>12, <1>19, <1>23, <2>1, <2>2, <3>1 DEF Traces
    <3> QED BY <3>2
  <2>4. CASE ok
    <3>1. s2 = Append(s, now) /\ Mine(log', k0) = Mine(log, k0) \cup {n + 1}
      BY <1>17, <1>22, <2>4
    <3>2. PICK f : f = [i \in 1..(L + 1) |-> IF i = L + 1 THEN n + 1 ELSE g[i]]
      OBVIOUS
    <3>3. /\ f[L + 1] = n + 1
          /\ \A i \in 1..L : f[i] = g[i] /\ f[i] \in Mine(log, k0)
      BY <2>1, <3>2
    <3>4. f \in [1..(L + 1) -> Mine(log', k0)]
      <4>1. \A i \in 1..(L + 1) : i = L + 1 \/ i \in 1..L
        OBVIOUS
      <4>2. \A i \in 1..(L + 1) : f[i] \in Mine(log', k0)
        BY <3>1, <3>3, <4>1
      <4> QED BY <3>2, <4>2
    <3>5. \A i \in 1..(L + 1) : s2[i] = log'[f[i]].at
      <4>1. TAKE i \in 1..(L + 1)
      <4>2. CASE i = L + 1
        BY <1>7, <1>10, <1>18, <3>1, <3>3, <4>2
      <4>3. CASE i \in 1..L
        BY <1>10, <1>18, <2>1, <2>2, <3>1, <3>3, <4>3
      <4> QED BY <4>2, <4>3
    <3>6. \A i, j \in 1..(L + 1) : i < j => f[i] < f[j]
      <4>1. TAKE i, j \in 1..(L + 1)
      <4>2. HAVE i < j
      <4>3. i \in 1..L
        BY <4>2
      <4>4. CASE j = L + 1
        BY <2>2, <3>3, <4>3, <4>4
      <4>5. CASE j \in 1..L
        BY <2>1, <3>3, <4>2, <4>3, <4>5
      <4> QED BY <4>4, <4>5
    <3>7. ASSUME NEW j \in Mine(log', k0), \A i \in 1..(L + 1) : f[i] # j
          PROVE  now - log'[j].at > Window
      <4>1. j # n + 1 /\ j \in Mine(log, k0) /\ L + 1 \in 1..(L + 1)
        BY <3>1, <3>3, <3>7
      <4>2. \A i \in 1..L : g[i] # j
        BY <3>3, <3>7
      <4> QED BY <1>10, <1>23, <2>1, <4>1, <4>2
    <3>8. DOMAIN s2 = 1..(L + 1)
      BY <1>18, <3>1
    <3>9. Traces(hits'[k0], log', now', k0, f)
      BY <1>19, <3>4, <3>5, <3>6, <3>7, <3>8 DEF Traces
    <3> QED BY <3>9
  <2> QED BY <2>3, <2>4
<1>26. HitsInv'
  BY <1>24, <1>25 DEF HitsInv
<1>27. RateIsExact'
  <2> DEFINE Before(j) == {i \in 1..(j - 1) :
                              /\ log[i].admitted
                              /\ log[i].caller = log[j].caller
                              /\ log[i].tier = log[j].tier
                              /\ log[j].at - log[i].at <= Window}
             Since(j) == {i \in 1..(j - 1) :
                              /\ log'[i].admitted
                              /\ log'[i].caller = log'[j].caller
                              /\ log'[i].tier = log'[j].tier
                              /\ log'[j].at - log'[i].at <= Window}
  <2>1. ASSUME NEW j \in 1..n
        PROVE  log'[j].admitted <=> Cardinality(Since(j)) < Limit[log'[j].tier]
    <3>1. log'[j] = log[j] /\ \A i \in 1..(j - 1) : log'[i] = log[i]
      BY <1>10
    <3>2. Since(j) = Before(j)
      BY <3>1
    <3>3. log[j].admitted <=> Cardinality(Before(j)) < Limit[log[j].tier]
      BY <1>9 DEF RateIsExact
    <3> QED BY <3>1, <3>2, <3>3
  <2>2. log'[n + 1].admitted <=> Cardinality(Since(n + 1)) < Limit[log'[n + 1].tier]
    <3>1. (n + 1) - 1 = n
      OBVIOUS
    <3>2. Since(n + 1) = {i \in 1..n :
                              /\ log[i].admitted
                              /\ log[i].caller = q.caller
                              /\ log[i].tier = q.route
                              /\ now - log[i].at <= Window}
      BY <1>7, <1>10, <3>1
    <3>3. Since(n + 1) = {j \in Mine(log, k0) : now - log[j].at <= Window}
      BY <1>2, <1>9, <3>2 DEF Mine
    <3> QED BY <1>7, <1>10, <1>14, <1>15, <3>3
  <2> HIDE DEF Since
  <2>3. ASSUME NEW j \in 1..(n + 1)
        PROVE  log'[j].admitted <=> Cardinality(Since(j)) < Limit[log'[j].tier]
    <3>1. j = n + 1 \/ j \in 1..n
      OBVIOUS
    <3> QED BY <2>1, <2>2, <3>1
  <2> QED BY <1>10, <2>3 DEF RateIsExact, Since
<1>28. \A p : Admitted(p) => Admitted(p)'
  BY <1>9, <1>10 DEF Admitted, Limited
<1>29. Allowed(q) => Admitted(q)'
  <2>1. n + 1 \in DOMAIN log'
    BY <1>10
  <2> QED BY <1>4, <1>7, <1>10, <2>1 DEF Admitted
<1> QED BY <1>10, <1>19, <1>21, <1>26, <1>27, <1>28, <1>29

(* What the layers and the handler do to a connection.                     *)
LEMMA ArriveKeeps ==
    ASSUME EdgeInv, NEW c \in Slots, NEW q \in Request, Arrive(c, q)
    PROVE  EdgeInv'
<1> DEFINE pass == (Limited(q) => Allowed(q)) /\ q.declared # "exceeds" /\ Authorised(q)
           entry == [stage |-> "reading", request |-> q, received |-> 0]
<1>1. /\ TypeInv /\ TimesInv /\ HitsInv /\ PassedInv /\ RateIsExact
      /\ Count(q) /\ now' = now /\ slot[c] = Idle
      /\ slot' = [slot EXCEPT ![c] = IF pass THEN entry ELSE @]
  BY DEF EdgeInv, Arrive
<1>2. /\ hits' \in [Key -> Seq(Nat)] /\ log' \in Seq(LogEntry)
      /\ TimesInv' /\ HitsInv' /\ RateIsExact'
      /\ \A p : Admitted(p) => Admitted(p)'
      /\ pass => Admitted(q)'
  <2>1. CASE Limited(q)
    BY <1>1, <2>1, CountKeeps
  <2>2. CASE ~Limited(q)
    <3>1. UNCHANGED <<now, hits, log>>
      BY <1>1, <2>2 DEF Count
    <3>2. TimesInv' /\ HitsInv' /\ RateIsExact'
      BY <1>1, <3>1, RateStill
    <3>3. \A p : Admitted(p) => Admitted(p)'
      BY <3>1 DEF Admitted, Limited
    <3>4. Admitted(q)'
      BY <2>2 DEF Admitted, Limited
    <3> QED BY <1>1, <3>1, <3>2, <3>3, <3>4 DEF TypeInv
  <2> QED BY <2>1, <2>2
<1>3. entry \in Reading
  BY EdgeAssumption DEF Reading
<1>4. TypeInv'
  BY <1>1, <1>2, <1>3 DEF TypeInv
<1>5. PassedInv'
  <2>1. ASSUME NEW d \in Slots, NEW w, w = slot'[d], w # Idle
        PROVE  /\ Authorised(w.request)
               /\ Admitted(w.request)'
               /\ w.stage = "handled" => w.budget <= MaxBudget /\ w.budget <= w.asked
    <3>1. CASE d # c \/ ~pass
      <4>1. w = slot[d]
        BY <1>1, <2>1, <3>1 DEF TypeInv
      <4>2. /\ Authorised(w.request) /\ Admitted(w.request)
            /\ w.stage = "handled" => w.budget <= MaxBudget /\ w.budget <= w.asked
        BY <1>1, <2>1, <4>1 DEF PassedInv
      <4> QED BY <1>2, <4>2
    <3>2. CASE d = c /\ pass
      <4>1. w = entry
        BY <1>1, <2>1, <3>2 DEF TypeInv
      <4>2. w.request = q /\ w.stage # "handled"
        BY <4>1
      <4> QED BY <1>2, <3>2, <4>2
    <3> QED BY <3>1, <3>2
  <2> QED BY <2>1 DEF PassedInv, Admitted, Limited, Authorised
<1> QED BY <1>1, <1>2, <1>4, <1>5 DEF EdgeInv

(* A connection that is read, handled or answered leaves the counting as   *)
(* it is, and is served for the request it was.                            *)
LEMMA ServeKeeps ==
    ASSUME EdgeInv, NEW c \in Slots, UNCHANGED <<now, hits, log>>,
           NEW new, slot' = [slot EXCEPT ![c] = new],
           slot[c] # Idle,
           new = Idle \/ (/\ new \in Reading \cup Handled
                          /\ new.request = slot[c].request
                          /\ new.stage = "handled" =>
                                 new.budget <= MaxBudget /\ new.budget <= new.asked)
    PROVE  EdgeInv'
<1>1. /\ TypeInv /\ TimesInv /\ HitsInv /\ PassedInv /\ RateIsExact
  BY DEF EdgeInv
<1>2. TimesInv' /\ HitsInv' /\ RateIsExact'
  BY <1>1, RateStill
<1>3. new \in {Idle} \cup Reading \cup Handled
  OBVIOUS
<1>4. TypeInv'
  BY <1>1, <1>3 DEF TypeInv
<1>5. \A p : Admitted(p)' <=> Admitted(p)
  BY DEF Admitted, Limited
<1>6. ASSUME NEW d \in Slots, slot'[d] # Idle
      PROVE  /\ Authorised(slot'[d].request)
             /\ Admitted(slot'[d].request)
             /\ slot'[d].stage = "handled" =>
                    slot'[d].budget <= MaxBudget /\ slot'[d].budget <= slot'[d].asked
  <2>1. CASE d # c
    <3>1. slot'[d] = slot[d]
      BY <1>1, <2>1 DEF TypeInv
    <3> QED BY <1>1, <1>6, <3>1 DEF PassedInv
  <2>2. CASE d = c
    <3>1. slot'[d] = new
      BY <1>1, <2>2 DEF TypeInv
    <3> QED BY <1>1, <1>6, <2>2, <3>1 DEF PassedInv
  <2> QED BY <2>1, <2>2
<1>7. PassedInv'
  BY <1>6 DEF PassedInv, Admitted, Limited, Authorised
<1> QED BY <1>2, <1>4, <1>7 DEF EdgeInv

LEMMA StageIs ==
    ASSUME TypeInv, NEW c \in Slots
    PROVE  /\ slot[c].stage = "reading" => slot[c] \in Reading /\ slot[c] # Idle
           /\ slot[c].stage = "handled" => slot[c] \in Handled /\ slot[c] # Idle
BY DEF TypeInv, Reading, Handled, Idle

LEMMA ReceiveKeeps ==
    ASSUME EdgeInv, NEW c \in Slots, NEW n \in 1..(MaxBytes + 1), Receive(c, n)
    PROVE  EdgeInv'
<1>1. TypeInv /\ slot[c].stage = "reading"
  BY DEF EdgeInv, Receive
<1>2. PICK v \in Reading : v = slot[c] /\ v # Idle
  BY <1>1, StageIs
<1>3. PICK q \in Request, b \in 0..MaxBytes :
          v = [stage |-> "reading", request |-> q, received |-> b]
  BY DEF Reading
<1>4. PICK new : new = IF b + n > MaxBytes THEN Idle
                       ELSE [stage |-> "reading", request |-> q, received |-> b + n]
  OBVIOUS
<1>5. slot' = [slot EXCEPT ![c] = new] /\ UNCHANGED <<now, hits, log>>
  <2>1. [v EXCEPT !.received = @ + n]
            = [stage |-> "reading", request |-> q, received |-> b + n]
    BY <1>3
  <2>2. v.received = b
    BY <1>3
  <2>3. /\ UNCHANGED <<now, hits, log>>
        /\ slot' = IF v.received + n > MaxBytes THEN [slot EXCEPT ![c] = Idle]
                   ELSE [slot EXCEPT ![c] = [v EXCEPT !.received = @ + n]]
    BY <1>1, <1>2 DEF Receive, TypeInv
  <2> QED BY <1>4, <2>1, <2>2, <2>3
<1>6. CASE b + n > MaxBytes
  BY <1>2, <1>4, <1>5, <1>6, ServeKeeps
<1>7. CASE ~(b + n > MaxBytes)
  <2>1. b + n \in 0..MaxBytes
    BY <1>7, EdgeAssumption
  <2>2. /\ new \in Reading /\ new.request = slot[c].request
        /\ new.stage # "handled"
    BY <1>2, <1>3, <1>4, <1>7, <2>1 DEF Reading
  <2> QED BY <1>2, <1>5, <2>2, ServeKeeps
<1> QED BY <1>6, <1>7

(* The budget of a run is what its caller asks for, but never above the    *)
(* service's own.                                                          *)
LEMMA HandleKeeps ==
    ASSUME EdgeInv, NEW c \in Slots, NEW asked \in 1..(MaxBudget + 1), Handle(c, asked)
    PROVE  EdgeInv'
<1>1. TypeInv /\ slot[c].stage = "reading"
  BY DEF EdgeInv, Handle
<1>2. PICK v \in Reading : v = slot[c] /\ v # Idle
  BY <1>1, StageIs
<1>3. PICK budget \in Nat : /\ budget = IF asked > MaxBudget THEN MaxBudget ELSE asked
                            /\ budget <= MaxBudget /\ budget <= asked
  BY EdgeAssumption
<1>4. PICK new : new = [stage |-> "handled", request |-> v.request,
                        received |-> v.received, asked |-> asked, budget |-> budget]
  OBVIOUS
<1>5. slot' = [slot EXCEPT ![c] = new] /\ UNCHANGED <<now, hits, log>>
  BY <1>2, <1>3, <1>4 DEF Handle
<1>6. /\ new \in Handled /\ new.request = slot[c].request
      /\ new.budget <= MaxBudget /\ new.budget <= new.asked
  <2>1. v.request \in Request /\ v.received \in 0..MaxBytes /\ asked \in Nat
    BY EdgeAssumption DEF Reading
  <2> QED BY <1>2, <1>3, <1>4, <2>1 DEF Handled
<1> QED BY <1>2, <1>5, <1>6, ServeKeeps

LEMMA RespondKeeps ==
    ASSUME EdgeInv, NEW c \in Slots, Respond(c) PROVE EdgeInv'
<1>1. slot[c] # Idle
  BY StageIs DEF EdgeInv, Respond
<1> QED BY <1>1, ServeKeeps DEF Respond

LEMMA StutterKeeps == ASSUME EdgeInv, UNCHANGED vars PROVE EdgeInv'
<1>1. /\ TypeInv /\ TimesInv /\ HitsInv /\ PassedInv /\ RateIsExact
      /\ UNCHANGED <<now, hits, slot, log>>
  BY DEF EdgeInv, vars
<1>2. TimesInv' /\ HitsInv' /\ RateIsExact'
  BY <1>1, RateStill
<1>3. TypeInv' /\ PassedInv'
  BY <1>1 DEF TypeInv, PassedInv, Admitted, Limited, Authorised
<1> QED BY <1>2, <1>3 DEF EdgeInv

LEMMA EdgeAlways == Spec => []EdgeInv
<1>1. Init => EdgeInv
  BY EdgeInit
<1>2. EdgeInv /\ [Next]_vars => EdgeInv'
  <2> SUFFICES ASSUME EdgeInv, [Next]_vars PROVE EdgeInv'
    OBVIOUS
  <2>1. CASE Tick
    BY <2>1, TickKeeps
  <2>2. ASSUME NEW c \in Slots, NEW q \in Request, Arrive(c, q) PROVE EdgeInv'
    BY <2>2, ArriveKeeps
  <2>3. ASSUME NEW c \in Slots, NEW n \in 1..(MaxBytes + 1), Receive(c, n) PROVE EdgeInv'
    BY <2>3, ReceiveKeeps
  <2>4. ASSUME NEW c \in Slots, NEW asked \in 1..(MaxBudget + 1), Handle(c, asked)
        PROVE  EdgeInv'
    BY <2>4, HandleKeeps
  <2>5. ASSUME NEW c \in Slots, Respond(c) PROVE EdgeInv'
    BY <2>5, RespondKeeps
  <2>6. CASE UNCHANGED vars
    BY <2>6, StutterKeeps
  <2> QED BY <2>1, <2>2, <2>3, <2>4, <2>5, <2>6 DEF Next
<1> QED BY <1>1, <1>2, PTL DEF Spec

-----------------------------------------------------------------------------
(* For any proxies, limits and window: a request is refused for its rate   *)
(* exactly if its own caller used up the tier within the window.           *)
THEOREM RateExact == Spec => []RateIsExact
<1>1. EdgeInv => RateIsExact
  BY DEF EdgeInv
<1> QED BY <1>1, EdgeAlways, PTL

(* Nothing reaches a route past a layer, however requests interleave: it   *)
(* was authorised, counted, within the cap and within the budget.          *)
THEOREM HandledPassed == Spec => []HandledPassedAll
<1>1. EdgeInv => HandledPassedAll
  <2> SUFFICES ASSUME EdgeInv, NEW c \in Slots, slot[c].stage = "handled"
               PROVE  /\ Authorised(slot[c].request)
                      /\ slot[c].received <= MaxBytes
                      /\ slot[c].budget <= MaxBudget /\ slot[c].budget <= slot[c].asked
                      /\ Admitted(slot[c].request)
    BY DEF HandledPassedAll, Admitted
  <2>1. slot[c] \in Handled /\ slot[c] # Idle /\ PassedInv
    BY StageIs DEF EdgeInv
  <2>2. slot[c].received <= MaxBytes
    <3>1. slot[c].received \in 0..MaxBytes
      BY <2>1 DEF Handled
    <3> QED BY <3>1, EdgeAssumption
  <2> QED BY <2>1, <2>2 DEF PassedInv
<1> QED BY <1>1, EdgeAlways, PTL

=============================================================================
