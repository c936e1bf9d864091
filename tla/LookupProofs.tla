---------------------------- MODULE LookupProofs ----------------------------
(***************************************************************************)
(* What the model provider chain and the web search promise the lookups,   *)
(* for every number of lookups, providers, retries and queries, every time *)
(* to live and every latency.                                              *)
(***************************************************************************)
EXTENDS IndependentLookup, FiniteSetTheorems, TLAPS

Trying == {"calling", "waiting"}

Setbacks == {"transient", "fatal"}

(* The calls to provider p that count as attempts.                         *)
Asked(c, p) ==
    {j \in DOMAIN tried[c] : tried[c][j][1] = p /\ tried[c][j][2] # "repair"}

(* Everything before the provider a completion is at was given up, nothing *)
(* beyond it was called, and it was itself called as often as its attempts *)
(* say, in vain.                                                           *)
ChainInv(c) ==
    /\ \A k \in DOMAIN tried[c] : tried[c][k][1] <= provider[c]
    /\ \A p \in Usable : p < provider[c] => GivenUp(c, p)
    /\ \A p \in Usable : Cardinality(Asked(c, p)) <= Retries + 1
    /\ phase[c] = "failed" => \A p \in Usable : GivenUp(c, p)
    /\ phase[c] \in Trying =>
           Asked(c, provider[c]) = Calls(c, provider[c], "transient")
    /\ phase[c] = "calling" => Cardinality(Asked(c, provider[c])) = attempt[c]
    /\ phase[c] = "waiting" =>
           Cardinality(Asked(c, provider[c])) = attempt[c] + 1 /\ attempt[c] < Retries
    /\ phase[c] \in Trying \cup {"repairing"} => provider[c] \in Usable
    /\ phase[c] = "idle" => provider[c] = 0 /\ attempt[c] = 0

(* The calls before the m-th were set back.                                *)
Before(c, m) == \A k \in DOMAIN tried[c] : k < m => tried[c][k][2] \in Setbacks

(* The m-th call got the response.                                         *)
RespondedAt(c, m) ==
    m \in DOMAIN tried[c] /\ tried[c][m][2] = "response" /\ Before(c, m)

(* A completion without its reply has had no response, one that repairs    *)
(* has had it from its last call, and the repair at most came after it.    *)
AnswerInv(c) ==
    /\ phase[c] = "idle" => tried[c] = << >>
    /\ phase[c] \in Trying \cup {"failed"} => Before(c, Len(tried[c]) + 1)
    /\ phase[c] = "repairing" =>
           /\ RespondedAt(c, Len(tried[c]))
           /\ tried[c][Len(tried[c])][1] = provider[c]
    /\ phase[c] \in {"parsed", "unparsed"} =>
           \/ RespondedAt(c, Len(tried[c]))
           \/ /\ RespondedAt(c, Len(tried[c]) - 1)
              /\ tried[c][Len(tried[c])] = <<tried[c][Len(tried[c]) - 1][1], "repair">>

RouterInv ==
    /\ RouterTypeOK
    /\ \A c \in Callers : ChainInv(c) /\ AnswerInv(c)

(* An answer for query q as a provider may give it at time t.              *)
Timely(answer, q, t) ==
    answer \in Answer /\ answer.query = q /\ t - answer.seen <= Latency

(* A file's answer is one to its own query, as fresh as a call allows when *)
(* it was written.                                                         *)
CacheInv ==
    \A q \in Queries : cache[q] # Unusable =>
        cache[q].at <= now /\ Timely(cache[q].answer, q, cache[q].at)

(* A call under way has not outlasted its timeout; the second provider is  *)
(* asked only after the first; what was returned is as ServedIsFresh says. *)
CallInv(s) ==
    /\ since[s] <= now
    /\ asking[s] # "none" => now - since[s] <= Latency
    /\ asking[s] = "duckduckgo" /\ TavilyKey => "tavily" \in failures[s]
    /\ found[s] # Nothing =>
           \/ found[s] \in Answer /\ found[s].query = query[s]
              /\ foundAt[s] - found[s].seen <= Ttl + Latency
           \/ /\ found[s] = Outage
              /\ "duckduckgo" \in failures[s]
              /\ TavilyKey => "tavily" \in failures[s]

SearchInv ==
    /\ SearchTypeOK
    /\ CacheInv
    /\ \A s \in Searchers : CallInv(s)

(* A lookup has found something only once its search has returned.         *)
StepInv ==
    \A l \in Lookups :
        /\ step[l] # "searching" => asking[l] = "none" /\ found[l] = Nothing
        /\ asking[l] # "none" => found[l] = Nothing

LookupInv == TypeOK /\ RouterInv /\ SearchInv /\ StepInv

-----------------------------------------------------------------------------
(* Facts about numbers and sequences.                                      *)

(* A set of natural numbers has a least element.                           *)
LEMMA LeastNat ==
    ASSUME NEW T, T \subseteq Nat, T # {}
    PROVE  \E x \in T : \A y \in T : x <= y
<1> DEFINE Upto == {0..n : n \in T}
<1>1. Upto \subseteq FiniteSubsetsOf(Nat) /\ Upto # {}
  <2>1. \A n \in T : IsFiniteSet(0..n) /\ 0..n \subseteq Nat
    BY FS_Interval
  <2> QED BY <2>1 DEF FiniteSubsetsOf
<1>2. PICK u \in Upto : \A v \in Upto : <<v, u>> \notin StrictSubsetOrdering(Nat)
  BY <1>1, WFMin, FS_StrictSubsetOrderingWellFounded
<1>3. PICK x \in T : u = 0..x
  OBVIOUS
<1>4. ASSUME NEW y \in T, y < x PROVE FALSE
  <2>1. 0..y \in Upto
    OBVIOUS
  <2>2. 0..y \subseteq 0..x /\ x \in 0..x /\ x \notin 0..y
    BY <1>4
  <2>3. 0..y \in SUBSET Nat /\ 0..x \in SUBSET Nat /\ 0..y # 0..x
    BY <2>2
  <2> QED BY <1>2, <1>3, <2>1, <2>2, <2>3 DEF StrictSubsetOrdering
<1> QED BY <1>4

LEMMA AppendFacts ==
    ASSUME NEW S, NEW s \in Seq(S), NEW e \in S
    PROVE  /\ Append(s, e) \in Seq(S)
           /\ Len(Append(s, e)) = Len(s) + 1
           /\ Append(s, e)[Len(s) + 1] = e
           /\ \A k \in DOMAIN s : Append(s, e)[k] = s[k]
           /\ DOMAIN Append(s, e) = DOMAIN s \cup {Len(s) + 1}
OBVIOUS

LEMMA PositionsFinite ==
    ASSUME NEW S, NEW s \in Seq(S)
    PROVE  /\ IsFiniteSet(DOMAIN s)
           /\ Len(s) \in Nat
           /\ DOMAIN s = 1..Len(s)
           /\ Len(s) + 1 \notin DOMAIN s
BY FS_Interval

-----------------------------------------------------------------------------
(* The chain of providers.                                                 *)

(* complete() goes on with the next usable provider or, without one, ends. *)
LEMMA AdvanceCases ==
    ASSUME RouterTypeOK, NEW c \in Callers, NEW p \in Nat, Advance(c, p)
    PROVE  \/ /\ \A q \in Usable : q <= p
              /\ phase' = [phase EXCEPT ![c] = "failed"]
              /\ UNCHANGED <<provider, attempt>>
           \/ \E n \in Usable :
                 /\ n > p
                 /\ \A q \in Usable : q > p => n <= q
                 /\ phase' = [phase EXCEPT ![c] = "calling"]
                 /\ provider' = [provider EXCEPT ![c] = n]
                 /\ attempt' = [attempt EXCEPT ![c] = 0]
<1> DEFINE rest == {q \in Usable : q > p}
<1>1. Usable \subseteq Nat
  BY RouterAssumption
<1>2. CASE rest = {}
  BY <1>1, <1>2 DEF Advance
<1>3. CASE rest # {}
  <2> DEFINE n == CHOOSE q \in rest : \A o \in rest : q <= o
  <2>1. \E q \in rest : \A o \in rest : q <= o
    BY <1>1, <1>3, LeastNat
  <2>2. n \in rest /\ \A o \in rest : n <= o
    BY <2>1
  <2>3. /\ phase' = [phase EXCEPT ![c] = "calling"]
        /\ provider' = [provider EXCEPT ![c] = n]
        /\ attempt' = [attempt EXCEPT ![c] = 0]
    BY <1>3 DEF Advance
  <2> HIDE DEF n
  <2> QED BY <2>2, <2>3
<1> QED BY <1>2, <1>3

LEMMA AdvanceTypes ==
    ASSUME RouterTypeOK, NEW c \in Callers, NEW p \in Nat, Advance(c, p)
    PROVE  /\ phase' \in [Callers -> Phase]
           /\ provider' \in [Callers -> {0} \cup Usable]
           /\ attempt' \in [Callers -> 0..Retries]
<1>1. 0 \in 0..Retries
  BY RouterAssumption
<1>2. CASE /\ phase' = [phase EXCEPT ![c] = "failed"]
           /\ UNCHANGED <<provider, attempt>>
  BY <1>2 DEF RouterTypeOK, Phase
<1>3. CASE \E n \in Usable :
              /\ phase' = [phase EXCEPT ![c] = "calling"]
              /\ provider' = [provider EXCEPT ![c] = n]
              /\ attempt' = [attempt EXCEPT ![c] = 0]
  BY <1>1, <1>3 DEF RouterTypeOK, Phase
<1> QED BY <1>2, <1>3, AdvanceCases

LEMMA Logged ==
    ASSUME RouterTypeOK, NEW c \in Callers, provider[c] \in Usable,
           NEW o \in Outcomes, Log(c, o)
    PROVE  /\ tried' \in [Callers -> Seq(Usable \X Outcomes)]
           /\ Len(tried'[c]) = Len(tried[c]) + 1
           /\ tried'[c][Len(tried[c]) + 1] = <<provider[c], o>>
           /\ \A k \in DOMAIN tried[c] : tried'[c][k] = tried[c][k]
           /\ DOMAIN tried'[c] = DOMAIN tried[c] \cup {Len(tried[c]) + 1}
           /\ \A d \in Callers : d # c => tried'[d] = tried[d]
<1>1. tried[c] \in Seq(Usable \X Outcomes) /\ <<provider[c], o>> \in Usable \X Outcomes
  BY DEF RouterTypeOK
<1>2. tried'[c] = Append(tried[c], <<provider[c], o>>)
  BY DEF Log, RouterTypeOK
<1>3. tried'[c] \in Seq(Usable \X Outcomes)
  BY <1>1, <1>2, AppendFacts
<1>4. tried' \in [Callers -> Seq(Usable \X Outcomes)]
  BY <1>3 DEF Log, RouterTypeOK
<1>5. \A d \in Callers : d # c => tried'[d] = tried[d]
  BY DEF Log, RouterTypeOK
<1> QED BY <1>1, <1>2, <1>4, <1>5, AppendFacts

(* How a call changes what was asked of the providers.                     *)
LEMMA LoggedSets ==
    ASSUME RouterTypeOK, NEW c \in Callers, provider[c] \in Usable,
           NEW o \in Outcomes, Log(c, o)
    PROVE  /\ \A p, x : (p # provider[c] \/ x # o) => Calls(c, p, x)' = Calls(c, p, x)
           /\ \A p : p = provider[c] =>
                  Calls(c, p, o)' = Calls(c, p, o) \cup {Len(tried[c]) + 1}
           /\ \A p : (p # provider[c] \/ o = "repair") => Asked(c, p)' = Asked(c, p)
           /\ \A p : p = provider[c] /\ o # "repair" =>
                  Asked(c, p)' = Asked(c, p) \cup {Len(tried[c]) + 1}
<1> DEFINE n == Len(tried[c]) + 1
<1>1. /\ tried'[c][n] = <<provider[c], o>>
      /\ \A k \in DOMAIN tried[c] : tried'[c][k] = tried[c][k]
      /\ DOMAIN tried'[c] = DOMAIN tried[c] \cup {n}
  BY Logged
<1> HIDE DEF n
<1>2. \A p, x : (p # provider[c] \/ x # o) => Calls(c, p, x)' = Calls(c, p, x)
  BY <1>1 DEF Calls
<1>3. \A p : p = provider[c] => Calls(c, p, o)' = Calls(c, p, o) \cup {n}
  BY <1>1 DEF Calls
<1>4. \A p : (p # provider[c] \/ o = "repair") => Asked(c, p)' = Asked(c, p)
  BY <1>1 DEF Asked
<1>5. \A p : p = provider[c] /\ o # "repair" => Asked(c, p)' = Asked(c, p) \cup {n}
  BY <1>1 DEF Asked
<1> QED BY <1>2, <1>3, <1>4, <1>5 DEF n

(* The cardinality of what was asked of the provider being called.         *)
LEMMA AskedOnceMore ==
    ASSUME RouterTypeOK, NEW c \in Callers, NEW p \in Usable, provider[c] = p,
           NEW o \in Outcomes \ {"repair"}, Log(c, o)
    PROVE  /\ Cardinality(Asked(c, p)) \in Nat
           /\ Cardinality(Asked(c, p))' = Cardinality(Asked(c, p)) + 1
<1> DEFINE n == Len(tried[c]) + 1
<1>1. tried[c] \in Seq(Usable \X Outcomes)
  BY DEF RouterTypeOK
<1>2. IsFiniteSet(DOMAIN tried[c]) /\ n \notin DOMAIN tried[c]
  BY <1>1, PositionsFinite
<1>3. IsFiniteSet(Asked(c, p)) /\ n \notin Asked(c, p)
  BY <1>2, FS_Subset DEF Asked
<1>4. /\ Cardinality(Asked(c, p)) \in Nat
      /\ Cardinality(Asked(c, p) \cup {n}) = Cardinality(Asked(c, p)) + 1
  BY <1>3, FS_AddElement, FS_CardinalityType
<1>5. Asked(c, p)' = Asked(c, p) \cup {n}
  BY LoggedSets
<1> QED BY <1>4, <1>5

(* A provider that was given up stays so when another one is called.       *)
LEMMA GivenUpStays ==
    ASSUME RouterTypeOK, NEW c \in Callers, provider[c] \in Usable,
           NEW o \in Outcomes, Log(c, o), NEW p, p # provider[c], GivenUp(c, p)
    PROVE  GivenUp(c, p)'
BY LoggedSets DEF GivenUp

(* A completion whose variables did not change.                            *)
LEMMA CompletionUntouched ==
    ASSUME NEW c, phase'[c] = phase[c], provider'[c] = provider[c],
           attempt'[c] = attempt[c], tried'[c] = tried[c], ChainInv(c), AnswerInv(c)
    PROVE  ChainInv(c)' /\ AnswerInv(c)'
<1>1. \A p, x : Calls(c, p, x)' = Calls(c, p, x)
  BY DEF Calls
<1>2. \A p : Asked(c, p)' = Asked(c, p)
  BY DEF Asked
<1>3. \A p : GivenUp(c, p)' <=> GivenUp(c, p)
  BY <1>1 DEF GivenUp
<1>4. ChainInv(c)'
  BY <1>1, <1>2, <1>3 DEF ChainInv
<1>5. \A m : Before(c, m)' <=> Before(c, m)
  BY DEF Before
<1>6. \A m : RespondedAt(c, m)' <=> RespondedAt(c, m)
  BY <1>5 DEF RespondedAt
<1>7. AnswerInv(c)'
  BY <1>5, <1>6 DEF AnswerInv
<1> QED BY <1>4, <1>7

(* A completion at its beginning.                                          *)
Unasked(c) ==
    /\ tried[c] = << >>
    /\ provider[c] \in Nat
    /\ attempt[c] = 0
    /\ phase[c] \in {"idle", "calling", "failed"}
    /\ phase[c] = "idle" => provider[c] = 0
    /\ phase[c] = "calling" => provider[c] \in Usable
    /\ phase[c] = "failed" => Usable = {}
    /\ \A p \in Usable : p >= provider[c]

LEMMA CompletionEmpty == \A c : Unasked(c) => ChainInv(c) /\ AnswerInv(c)
<1> SUFFICES ASSUME NEW c, Unasked(c) PROVE ChainInv(c) /\ AnswerInv(c)
  OBVIOUS
<1> USE DEF Unasked
<1>1. \A p, x : Calls(c, p, x) = {}
  BY DEF Calls
<1>2. \A p : Asked(c, p) = {}
  BY DEF Asked
<1>3. Cardinality({}) = 0
  BY FS_EmptySet
<1>4. Usable \subseteq Nat /\ Retries \in Nat
  BY RouterAssumption
<1>5. ChainInv(c)
  <2>1. \A p \in Usable : Cardinality(Asked(c, p)) <= Retries + 1
    <3>1. TAKE p \in Usable
    <3>2. Asked(c, p) = {}
      BY <1>2
    <3>3. Cardinality(Asked(c, p)) = 0
      BY <1>3, <3>2
    <3>4. 0 <= Retries + 1
      BY <1>4
    <3> QED BY <3>3, <3>4
  <2>2. \A p \in Usable : ~(p < provider[c])
    <3>1. TAKE p \in Usable
    <3>2. p \in Nat /\ p >= provider[c]
      BY <1>4
    <3> QED BY <3>2
  <2>3. Asked(c, provider[c]) = {} /\ Calls(c, provider[c], "transient") = {}
    BY <1>1, <1>2
  <2>4. Cardinality(Asked(c, provider[c])) = attempt[c]
    BY <1>3, <2>3
  <2>5. DOMAIN tried[c] = {}
    OBVIOUS
  <2> QED BY <2>1, <2>2, <2>3, <2>4, <2>5 DEF ChainInv, Trying
<1>6. AnswerInv(c)
  BY DEF AnswerInv, Before, Trying
<1> QED BY <1>5, <1>6

LEMMA CompletionStarts == (\A c : Unasked(c) => ChainInv(c) /\ AnswerInv(c))'
BY CompletionEmpty, PTL

(* A call that failed for good, with what comes after it.                  *)
LEMMA MovesOn ==
    ASSUME RouterTypeOK, NEW c \in Callers, ChainInv(c), AnswerInv(c),
           phase[c] = "calling", NEW o \in Setbacks, Log(c, o),
           o = "transient" => attempt[c] = Retries,
           NEW p \in Usable, provider[c] = p, Advance(c, p)
    PROVE  RouterTypeOK' /\ ChainInv(c)' /\ AnswerInv(c)'
<1> DEFINE n == Len(tried[c]) + 1
<1>0. /\ Usable \subseteq Nat /\ Retries \in Nat /\ o \in Outcomes \ {"repair"}
      /\ attempt[c] \in Nat
  BY RouterAssumption DEF Setbacks, Outcomes, RouterTypeOK
<1>1. /\ tried' \in [Callers -> Seq(Usable \X Outcomes)]
      /\ Len(tried'[c]) = n
      /\ tried'[c][n] = <<p, o>>
      /\ \A k \in DOMAIN tried[c] : tried'[c][k] = tried[c][k]
      /\ DOMAIN tried'[c] = DOMAIN tried[c] \cup {n}
  BY <1>0, Logged
<1>2. /\ Cardinality(Asked(c, p)) = attempt[c]
      /\ Asked(c, p) = Calls(c, p, "transient")
      /\ \A k \in DOMAIN tried[c] : tried[c][k][1] <= p
      /\ \A q \in Usable : q < p => GivenUp(c, q)
      /\ \A q \in Usable : Cardinality(Asked(c, q)) <= Retries + 1
  BY DEF ChainInv, Trying
<1>3. Cardinality(Asked(c, p))' = attempt[c] + 1
  BY <1>0, <1>2, AskedOnceMore
<1>4. GivenUp(c, p)'
  <2>1. CASE o = "fatal"
    <3>1. Calls(c, p, "fatal")' = Calls(c, p, "fatal") \cup {n}
      BY <1>0, <2>1, LoggedSets
    <3> QED BY <3>1 DEF GivenUp
  <2>2. CASE o = "transient"
    <3>1. Calls(c, p, "transient")' = Calls(c, p, "transient") \cup {n}
      BY <1>0, <2>2, LoggedSets
    <3>2. Asked(c, p)' = Asked(c, p) \cup {n}
      BY <1>0, <2>2, LoggedSets
    <3>3. Cardinality(Calls(c, p, "transient"))' = Retries + 1
      BY <1>2, <1>3, <2>2, <3>1, <3>2
    <3> QED BY <3>3 DEF GivenUp
  <2> QED BY <2>1, <2>2 DEF Setbacks
<1>5. \A q \in Usable : q <= p => GivenUp(c, q)'
  BY <1>0, <1>2, <1>4, GivenUpStays
<1>6. \A q \in Usable : Cardinality(Asked(c, q))' <= Retries + 1
  <2>1. TAKE q \in Usable
  <2>2. CASE q = p
    <3>1. attempt[c] + 1 <= Retries + 1
      BY <1>0 DEF RouterTypeOK
    <3> QED BY <1>3, <2>2, <3>1
  <2>3. CASE q # p
    <3>1. Asked(c, q)' = Asked(c, q)
      BY <1>0, <2>3, LoggedSets
    <3> QED BY <1>2, <3>1
  <2> QED BY <2>2, <2>3
<1>7. \A k \in DOMAIN tried'[c] : tried'[c][k][1] <= p
  BY <1>0, <1>1, <1>2
<1>8. \A k \in DOMAIN tried'[c] : tried'[c][k][2] \in Setbacks
  <2>1. tried[c] \in Seq(Usable \X Outcomes)
    BY DEF RouterTypeOK
  <2>2. \A k \in DOMAIN tried[c] : k < Len(tried[c]) + 1
    BY <2>1, PositionsFinite
  <2>3. \A k \in DOMAIN tried[c] : tried[c][k][2] \in Setbacks
    BY <2>2 DEF AnswerInv, Before, Trying
  <2> QED BY <1>1, <2>3
<1>9. AnswerInv(c)' /\ RouterTypeOK'
  <2>1. phase'[c] \in {"failed", "calling"}
    BY <1>0, AdvanceCases DEF RouterTypeOK
  <2>2. AnswerInv(c)'
    BY <1>8, <2>1 DEF AnswerInv, Before, Trying
  <2>3. /\ phase' \in [Callers -> Phase]
        /\ provider' \in [Callers -> {0} \cup Usable]
        /\ attempt' \in [Callers -> 0..Retries]
    BY <1>0, AdvanceTypes
  <2>4. RouterTypeOK'
    BY <1>1, <2>3 DEF RouterTypeOK
  <2> QED BY <2>2, <2>4
<1>10. CASE /\ \A q \in Usable : q <= p
            /\ phase' = [phase EXCEPT ![c] = "failed"]
            /\ UNCHANGED <<provider, attempt>>
  <2>1. phase'[c] = "failed" /\ provider'[c] = p
    BY <1>10 DEF RouterTypeOK
  <2> QED BY <1>5, <1>6, <1>7, <1>9, <1>10, <2>1 DEF ChainInv, Trying
<1>11. CASE \E m \in Usable :
               /\ m > p
               /\ \A q \in Usable : q > p => m <= q
               /\ phase' = [phase EXCEPT ![c] = "calling"]
               /\ provider' = [provider EXCEPT ![c] = m]
               /\ attempt' = [attempt EXCEPT ![c] = 0]
  <2>1. PICK m \in Usable :
               /\ m > p
               /\ \A q \in Usable : q > p => m <= q
               /\ phase' = [phase EXCEPT ![c] = "calling"]
               /\ provider' = [provider EXCEPT ![c] = m]
               /\ attempt' = [attempt EXCEPT ![c] = 0]
    BY <1>11
  <2>2. phase'[c] = "calling" /\ provider'[c] = m /\ attempt'[c] = 0
    BY <2>1 DEF RouterTypeOK
  <2>3. \A k \in DOMAIN tried'[c] : tried'[c][k][1] # m
    BY <1>0, <1>7, <2>1
  <2>4. /\ \A x : Calls(c, m, x)' = {}
        /\ Asked(c, m)' = {}
    BY <2>3 DEF Calls, Asked
  <2>5. Cardinality({}) = 0
    BY FS_EmptySet
  <2>6. \A k \in DOMAIN tried'[c] : tried'[c][k][1] <= m
    <3>1. \A k \in DOMAIN tried'[c] : tried'[c][k][1] \in Nat
      BY <1>0, <1>1
    <3> QED BY <1>0, <1>7, <2>1, <3>1
  <2>7. \A q \in Usable : q < m => GivenUp(c, q)'
    BY <1>0, <1>5, <2>1
  <2>8. Asked(c, provider[c])' = {} /\ Calls(c, provider[c], "transient")' = {}
    BY <2>2, <2>3 DEF Asked, Calls
  <2>9. /\ \A k \in DOMAIN tried'[c] : tried'[c][k][1] <= provider'[c]
        /\ \A q \in Usable : q < provider'[c] => GivenUp(c, q)'
        /\ Cardinality(Asked(c, provider[c]))' = attempt'[c]
    BY <2>2, <2>5, <2>6, <2>7, <2>8
  <2> QED BY <1>6, <1>9, <2>2, <2>8, <2>9 DEF ChainInv, Trying
<1> QED BY <1>0, <1>9, <1>10, <1>11, AdvanceCases

-----------------------------------------------------------------------------
(* The steps of a completion.                                              *)

Kept(c) == RouterTypeOK' /\ ChainInv(c)' /\ AnswerInv(c)'

(* A call was answered, or an answer repaired, by the provider it is at.   *)
LEMMA Answered ==
    ASSUME RouterTypeOK, NEW c \in Callers, ChainInv(c),
           NEW p \in Usable, provider[c] = p,
           NEW o \in {"response", "repair"}, Log(c, o),
           o = "response" => Cardinality(Asked(c, p)) <= Retries,
           NEW end \in {"parsed", "unparsed", "repairing"},
           phase' = [phase EXCEPT ![c] = end], UNCHANGED <<provider, attempt>>
    PROVE  RouterTypeOK' /\ ChainInv(c)'
<1>0. Retries \in Nat /\ o \in Outcomes /\ Usable \subseteq Nat
  BY RouterAssumption DEF Outcomes
<1>1. RouterTypeOK'
  BY <1>0, Logged DEF RouterTypeOK, Phase
<1>2. phase'[c] = end /\ provider'[c] = p
  BY DEF RouterTypeOK
<1>3. \A k \in DOMAIN tried'[c] : tried'[c][k][1] <= p
  <2>1. /\ tried'[c][Len(tried[c]) + 1] = <<p, o>>
        /\ \A k \in DOMAIN tried[c] : tried'[c][k] = tried[c][k]
        /\ DOMAIN tried'[c] = DOMAIN tried[c] \cup {Len(tried[c]) + 1}
    BY <1>0, Logged
  <2>2. \A k \in DOMAIN tried[c] : tried[c][k][1] <= p
    BY DEF ChainInv
  <2>3. p <= p
    BY <1>0
  <2> QED BY <2>1, <2>2, <2>3
<1>4. \A q \in Usable : q < p => GivenUp(c, q)'
  <2> SUFFICES ASSUME NEW q \in Usable, q < p PROVE GivenUp(c, q)'
    OBVIOUS
  <2>1. GivenUp(c, q)
    BY DEF ChainInv
  <2>2. q # provider[c]
    BY <1>0
  <2> QED BY <1>0, <2>1, <2>2, GivenUpStays
<1>5. \A q \in Usable : Cardinality(Asked(c, q))' <= Retries + 1
  <2>1. TAKE q \in Usable
  <2>2. CASE q # p \/ o = "repair"
    <3>1. Asked(c, q)' = Asked(c, q)
      BY <1>0, <2>2, LoggedSets
    <3> QED BY <3>1 DEF ChainInv
  <2>3. CASE q = p /\ o = "response"
    <3>1. /\ Cardinality(Asked(c, p)) \in Nat
          /\ Cardinality(Asked(c, p))' = Cardinality(Asked(c, p)) + 1
      BY <1>0, <2>3, AskedOnceMore
    <3> QED BY <1>0, <2>3, <3>1
  <2> QED BY <2>2, <2>3
<1> QED BY <1>1, <1>2, <1>3, <1>4, <1>5 DEF ChainInv, Trying

LEMMA RespondKeeps ==
    ASSUME RouterTypeOK, NEW c \in Callers, ChainInv(c), AnswerInv(c), Respond(c)
    PROVE  Kept(c)
<1>1. PICK p \in Usable : p = provider[c]
  BY DEF Respond, ChainInv, Trying
<1>2. Log(c, "response") /\ "response" \in Outcomes /\ UNCHANGED <<provider, attempt>>
  BY DEF Respond, Outcomes
<1>3. PICK end \in {"parsed", "repairing"} : phase' = [phase EXCEPT ![c] = end]
  BY DEF Respond
<1>4. Cardinality(Asked(c, p)) <= Retries
  BY <1>1, RouterAssumption DEF Respond, ChainInv, RouterTypeOK
<1>5. RouterTypeOK' /\ ChainInv(c)'
  BY <1>1, <1>2, <1>3, <1>4, Answered
<1>6. PICK n \in Nat : n = Len(tried[c]) + 1
  BY DEF RouterTypeOK
<1>7. /\ Len(tried'[c]) = n
      /\ tried'[c][n] = <<p, "response">>
      /\ \A k \in DOMAIN tried[c] : tried'[c][k] = tried[c][k]
      /\ DOMAIN tried'[c] = DOMAIN tried[c] \cup {n}
  BY <1>1, <1>2, <1>6, Logged
<1>8. \A k \in DOMAIN tried[c] : k < n => tried[c][k][2] \in Setbacks
  BY <1>6 DEF AnswerInv, Before, Trying, Respond
<1>9. \A k \in DOMAIN tried'[c] : k < n => tried'[c][k][2] \in Setbacks
  BY <1>6, <1>7, <1>8
<1>10. RespondedAt(c, Len(tried[c]))'
  BY <1>7, <1>9 DEF RespondedAt, Before
<1>11. phase'[c] = end /\ provider'[c] = p
  BY <1>1, <1>2, <1>3 DEF RouterTypeOK
<1>12. AnswerInv(c)'
  BY <1>7, <1>10, <1>11 DEF AnswerInv, Trying
<1> QED BY <1>5, <1>12 DEF Kept

LEMMA RepairKeeps ==
    ASSUME RouterTypeOK, NEW c \in Callers, ChainInv(c), AnswerInv(c), Repair(c)
    PROVE  Kept(c)
<1>1. PICK p \in Usable : p = provider[c]
  BY DEF Repair, ChainInv
<1>2. Log(c, "repair") /\ "repair" \in Outcomes /\ UNCHANGED <<provider, attempt>>
  BY DEF Repair, Outcomes
<1>3. PICK end \in {"parsed", "unparsed"} : phase' = [phase EXCEPT ![c] = end]
  BY DEF Repair
<1>4. RouterTypeOK' /\ ChainInv(c)'
  BY <1>1, <1>2, <1>3, Answered
<1>5. PICK m \in Nat : m = Len(tried[c])
  BY DEF RouterTypeOK
<1>6. /\ Len(tried'[c]) = m + 1
      /\ tried'[c][m + 1] = <<p, "repair">>
      /\ \A k \in DOMAIN tried[c] : tried'[c][k] = tried[c][k]
      /\ DOMAIN tried'[c] = DOMAIN tried[c] \cup {m + 1}
  BY <1>1, <1>2, <1>5, Logged
<1>7. /\ m \in DOMAIN tried[c] /\ tried[c][m][2] = "response"
      /\ tried[c][m][1] = p
      /\ \A k \in DOMAIN tried[c] : k < m => tried[c][k][2] \in Setbacks
  BY <1>1, <1>5 DEF AnswerInv, RespondedAt, Before, Repair
<1>8. \A k \in DOMAIN tried'[c] : k < m => tried'[c][k][2] \in Setbacks
  BY <1>5, <1>6, <1>7
<1>9. /\ m \in DOMAIN tried'[c] /\ tried'[c][m][2] = "response"
      /\ tried'[c][m][1] = p
  BY <1>6, <1>7
<1>10. Len(tried'[c]) - 1 = m
  BY <1>6
<1>11. RespondedAt(c, Len(tried[c]) - 1)'
  BY <1>8, <1>9, <1>10 DEF RespondedAt, Before
<1>12. tried'[c][Len(tried'[c])] = <<tried'[c][Len(tried'[c]) - 1][1], "repair">>
  BY <1>6, <1>9, <1>10
<1>13. phase'[c] = end
  BY <1>3 DEF RouterTypeOK
<1>14. AnswerInv(c)'
  BY <1>11, <1>12, <1>13 DEF AnswerInv, Trying
<1> QED BY <1>4, <1>14 DEF Kept

LEMMA FatalFailureKeeps ==
    ASSUME RouterTypeOK, NEW c \in Callers, ChainInv(c), AnswerInv(c), FatalFailure(c)
    PROVE  Kept(c)
<1>1. PICK p \in Usable : p = provider[c]
  BY DEF FatalFailure, ChainInv, Trying
<1>2. phase[c] = "calling" /\ Log(c, "fatal") /\ Advance(c, p) /\ "fatal" \in Setbacks
  BY <1>1 DEF FatalFailure, Setbacks
<1> QED BY <1>1, <1>2, MovesOn DEF Kept

LEMMA TransientFailureKeeps ==
    ASSUME RouterTypeOK, NEW c \in Callers, ChainInv(c), AnswerInv(c), TransientFailure(c)
    PROVE  Kept(c)
<1>1. PICK p \in Usable : p = provider[c]
  BY DEF TransientFailure, ChainInv, Trying
<1>2. /\ phase[c] = "calling" /\ Log(c, "transient")
      /\ "transient" \in Setbacks /\ "transient" \in Outcomes \ {"repair"}
  BY DEF TransientFailure, Setbacks, Outcomes
<1>3. attempt[c] \in 0..Retries /\ Retries \in Nat
  BY RouterAssumption DEF RouterTypeOK
<1>4. CASE attempt[c] >= Retries
  <2>1. attempt[c] = Retries /\ Advance(c, p)
    BY <1>1, <1>3, <1>4 DEF TransientFailure
  <2> QED BY <1>1, <1>2, <2>1, MovesOn DEF Kept
<1>5. CASE ~(attempt[c] >= Retries)
  <2>1. phase' = [phase EXCEPT ![c] = "waiting"] /\ UNCHANGED <<provider, attempt>>
    BY <1>5 DEF TransientFailure
  <2>2. phase'[c] = "waiting" /\ provider'[c] = p /\ attempt'[c] = attempt[c]
    BY <1>1, <2>1 DEF RouterTypeOK
  <2>3. PICK n \in Nat : n = Len(tried[c]) + 1
    BY DEF RouterTypeOK
  <2>4. /\ tried' \in [Callers -> Seq(Usable \X Outcomes)]
        /\ Len(tried'[c]) = n
        /\ tried'[c][n] = <<p, "transient">>
        /\ \A k \in DOMAIN tried[c] : tried'[c][k] = tried[c][k]
        /\ DOMAIN tried'[c] = DOMAIN tried[c] \cup {n}
    BY <1>1, <1>2, <2>3, Logged
  <2>5. RouterTypeOK'
    BY <2>1, <2>4 DEF RouterTypeOK, Phase
  <2>6. /\ Cardinality(Asked(c, p)) = attempt[c]
        /\ Asked(c, p) = Calls(c, p, "transient")
    BY <1>1, <1>2 DEF ChainInv, Trying
  <2>7. /\ Asked(c, p)' = Asked(c, p) \cup {n}
        /\ Calls(c, p, "transient")' = Calls(c, p, "transient") \cup {n}
    BY <1>1, <1>2, <2>3, LoggedSets
  <2>8. Cardinality(Asked(c, p))' = attempt[c] + 1
    BY <1>1, <1>2, <2>6, AskedOnceMore
  <2>9. /\ Asked(c, provider[c])' = Asked(c, p)'
        /\ Calls(c, provider[c], "transient")' = Calls(c, p, "transient")'
    BY <2>2 DEF Asked, Calls
  <2>10. \A k \in DOMAIN tried'[c] : tried'[c][k][1] <= p
    BY <1>1, <2>4, RouterAssumption DEF ChainInv
  <2>11. \A q \in Usable : q < p => GivenUp(c, q)'
    BY <1>1, <1>2, GivenUpStays, RouterAssumption DEF ChainInv
  <2>12. \A q \in Usable : Cardinality(Asked(c, q))' <= Retries + 1
    <3>1. TAKE q \in Usable
    <3>2. CASE q = p
      BY <1>3, <2>8, <3>2
    <3>3. CASE q # p
      <4>1. Asked(c, q)' = Asked(c, q)
        BY <1>1, <1>2, <3>3, LoggedSets
      <4> QED BY <4>1 DEF ChainInv
    <3> QED BY <3>2, <3>3
  <2>13. attempt'[c] < Retries
    BY <1>3, <1>5, <2>2
  <2>14. Cardinality(Asked(c, provider[c]))' = attempt'[c] + 1
    BY <2>2, <2>8, <2>9
  <2>15. Asked(c, provider[c])' = Calls(c, provider[c], "transient")'
    BY <2>6, <2>7, <2>9
  <2>16. ChainInv(c)'
    BY <2>2, <2>10, <2>11, <2>12, <2>13, <2>14, <2>15 DEF ChainInv, Trying
  <2>17. \A k \in DOMAIN tried[c] : k < n
    BY <2>3 DEF RouterTypeOK
  <2>18. \A k \in DOMAIN tried[c] : tried[c][k][2] \in Setbacks
    BY <1>2, <2>3, <2>17 DEF AnswerInv, Before, Trying
  <2>19. \A k \in DOMAIN tried'[c] : tried'[c][k][2] \in Setbacks
    BY <1>2, <2>4, <2>18
  <2>20. AnswerInv(c)'
    BY <2>2, <2>19 DEF AnswerInv, Before, Trying
  <2> QED BY <2>5, <2>16, <2>20 DEF Kept
<1> QED BY <1>4, <1>5

LEMMA RetryKeeps ==
    ASSUME RouterTypeOK, NEW c \in Callers, ChainInv(c), AnswerInv(c), Retry(c)
    PROVE  Kept(c)
<1>1. /\ phase[c] = "waiting" /\ phase' = [phase EXCEPT ![c] = "calling"]
      /\ attempt' = [attempt EXCEPT ![c] = attempt[c] + 1]
      /\ UNCHANGED <<provider, tried>>
  BY DEF Retry
<1>2. attempt[c] \in 0..Retries /\ Retries \in Nat /\ attempt[c] < Retries
  BY <1>1, RouterAssumption DEF RouterTypeOK, ChainInv
<1>3. attempt[c] + 1 \in 0..Retries
  BY <1>2
<1>4. RouterTypeOK'
  BY <1>1, <1>3 DEF RouterTypeOK, Phase
<1>5. phase'[c] = "calling" /\ attempt'[c] = attempt[c] + 1
  BY <1>1 DEF RouterTypeOK
<1>6. \A p, x : Calls(c, p, x)' = Calls(c, p, x)
  BY <1>1 DEF Calls
<1>7. \A p : Asked(c, p)' = Asked(c, p)
  BY <1>1 DEF Asked
<1>8. \A p : GivenUp(c, p)' <=> GivenUp(c, p)
  BY <1>6 DEF GivenUp
<1>9. /\ Asked(c, provider[c])' = Asked(c, provider[c])
      /\ Calls(c, provider[c], "transient")' = Calls(c, provider[c], "transient")
  BY <1>1 DEF Asked, Calls
<1>10. ChainInv(c)'
  BY <1>1, <1>5, <1>7, <1>8, <1>9 DEF ChainInv, Trying
<1>11. \A m : Before(c, m)' <=> Before(c, m)
  BY <1>1 DEF Before
<1>12. AnswerInv(c)'
  BY <1>1, <1>5, <1>11 DEF AnswerInv, Before, Trying
<1> QED BY <1>4, <1>10, <1>12 DEF Kept

LEMMA CompleteKeeps ==
    ASSUME RouterTypeOK, NEW c \in Callers, ChainInv(c), AnswerInv(c), Complete(c)
    PROVE  Kept(c)
<1>1. /\ tried[c] = << >> /\ tried' = tried /\ Advance(c, 0)
      /\ provider[c] = 0 /\ attempt[c] = 0
  BY DEF AnswerInv, ChainInv, Complete
<1>2. RouterTypeOK'
  BY <1>1, AdvanceTypes DEF RouterTypeOK
<1>3. Usable \subseteq Nat /\ \A q \in Usable : q > 0
  BY RouterAssumption
<1>4. CASE /\ \A q \in Usable : q <= 0
           /\ phase' = [phase EXCEPT ![c] = "failed"]
           /\ UNCHANGED <<provider, attempt>>
  <2>1. Usable = {} /\ phase'[c] = "failed" /\ provider'[c] = 0 /\ attempt'[c] = 0
    BY <1>1, <1>3, <1>4 DEF RouterTypeOK
  <2>2. ChainInv(c)' /\ AnswerInv(c)'
    BY <1>1, <2>1, CompletionStarts DEF Unasked
  <2> QED BY <1>2, <2>2 DEF Kept
<1>5. CASE \E n \in Usable :
                 /\ n > 0
                 /\ \A q \in Usable : q > 0 => n <= q
                 /\ phase' = [phase EXCEPT ![c] = "calling"]
                 /\ provider' = [provider EXCEPT ![c] = n]
                 /\ attempt' = [attempt EXCEPT ![c] = 0]
  <2>1. /\ phase'[c] = "calling" /\ provider'[c] \in Usable /\ attempt'[c] = 0
        /\ \A q \in Usable : provider'[c] <= q
    BY <1>3, <1>5 DEF RouterTypeOK
  <2>2. \A q \in Usable : q >= provider'[c]
    BY <1>3, <2>1
  <2>3. ChainInv(c)' /\ AnswerInv(c)'
    BY <1>1, <1>3, <2>1, <2>2, CompletionStarts DEF Unasked
  <2> QED BY <1>2, <2>3 DEF Kept
<1> QED BY <1>1, <1>4, <1>5, AdvanceCases

LEMMA ConsumeKeeps ==
    ASSUME RouterTypeOK, NEW c \in Callers, Consume(c)
    PROVE  Kept(c)
<1>1. /\ phase'[c] = "idle" /\ provider'[c] = 0
      /\ attempt'[c] = 0 /\ tried'[c] = << >>
  BY DEF Consume, RouterTypeOK
<1>2. 0 \in 0..Retries /\ << >> \in Seq(Usable \X Outcomes)
  BY RouterAssumption
<1>3. RouterTypeOK'
  BY <1>2 DEF Consume, RouterTypeOK, Phase
<1>4. \A q \in Usable : q >= 0
  BY RouterAssumption
<1>5. ChainInv(c)' /\ AnswerInv(c)'
  BY <1>1, <1>4, CompletionStarts DEF Unasked
<1> QED BY <1>1, <1>3, <1>5 DEF Kept

RouterMove(c) == RouterStep(c) \/ Complete(c) \/ Consume(c)

(* The other completions do not notice.                                    *)
LEMMA OthersUntouched ==
    ASSUME RouterTypeOK, NEW c \in Callers, ChainInv(c), RouterMove(c),
           NEW d \in Callers, d # c
    PROVE  /\ phase'[d] = phase[d] /\ provider'[d] = provider[d]
           /\ attempt'[d] = attempt[d] /\ tried'[d] = tried[d]
<1> DEFINE Same == /\ phase'[d] = phase[d] /\ provider'[d] = provider[d]
                   /\ attempt'[d] = attempt[d] /\ tried'[d] = tried[d]
<1>1. ASSUME NEW p \in Nat, Advance(c, p)
      PROVE  phase'[d] = phase[d] /\ provider'[d] = provider[d] /\ attempt'[d] = attempt[d]
  BY <1>1, AdvanceCases DEF RouterTypeOK
<1>2. \A o : Log(c, o) => tried'[d] = tried[d]
  BY DEF Log, RouterTypeOK
<1>3. provider[c] \in Nat
  <2>1. Usable \subseteq Nat /\ 0 \in Nat
    BY RouterAssumption
  <2> QED BY <2>1 DEF RouterTypeOK
<1>4. CASE Respond(c)
  BY <1>2, <1>4 DEF Respond, RouterTypeOK
<1>5. CASE TransientFailure(c)
  BY <1>1, <1>2, <1>3, <1>5 DEF TransientFailure, RouterTypeOK
<1>6. CASE FatalFailure(c)
  BY <1>1, <1>2, <1>3, <1>6 DEF FatalFailure
<1>7. CASE Retry(c)
  BY <1>7 DEF Retry, RouterTypeOK
<1>8. CASE Repair(c)
  BY <1>2, <1>8 DEF Repair, RouterTypeOK
<1>9. CASE Complete(c)
  BY <1>1, <1>9 DEF Complete
<1>10. CASE Consume(c)
  BY <1>10 DEF Consume, RouterTypeOK
<1> QED
  BY <1>4, <1>5, <1>6, <1>7, <1>8, <1>9, <1>10 DEF RouterMove, RouterStep

LEMMA RouterMoveKeeps ==
    ASSUME RouterInv, NEW c \in Callers, RouterMove(c)
    PROVE  RouterInv'
<1>1. RouterTypeOK /\ ChainInv(c) /\ AnswerInv(c)
  BY DEF RouterInv
<1>2. Kept(c)
  BY <1>1, RespondKeeps, TransientFailureKeeps, FatalFailureKeeps, RetryKeeps,
     RepairKeeps, CompleteKeeps, ConsumeKeeps DEF RouterMove, RouterStep
<1>3. ASSUME NEW d \in Callers, d # c PROVE ChainInv(d)' /\ AnswerInv(d)'
  BY <1>1, <1>3, OthersUntouched, CompletionUntouched DEF RouterInv
<1> QED BY <1>2, <1>3 DEF RouterInv, Kept

LEMMA RouterStill == ASSUME RouterInv, UNCHANGED routerVars PROVE RouterInv'
<1>1. ASSUME NEW d \in Callers PROVE ChainInv(d)' /\ AnswerInv(d)'
  BY CompletionUntouched DEF RouterInv, routerVars
<1>2. RouterTypeOK'
  BY DEF RouterInv, RouterTypeOK, routerVars
<1> QED BY <1>1, <1>2 DEF RouterInv

-----------------------------------------------------------------------------
(* Searches and their cache.                                               *)

(* The three marks are no answers and differ.                              *)
LEMMA Marks ==
    /\ Nothing \notin Answer /\ Outage \notin Answer /\ Nothing # Outage
    /\ \A e \in Entry : e # Unusable =>
           e.answer \in Answer /\ e.at \in Nat
    /\ \A a \in Answer : a.seen \in Nat
    /\ Unusable \in Entry
BY SearchAssumption DEF Nothing, Outage, Answer, Entry, Time

LEMMA TickKeeps == ASSUME SearchInv, Tick PROVE SearchInv'
<1> USE SearchAssumption
<1>1. now \in Nat /\ now' = now + 1 /\ now' \in Time /\ MaxTime \in Nat
  BY DEF Tick, SearchInv, SearchTypeOK, Time
<1>2. SearchTypeOK'
  BY <1>1 DEF Tick, SearchInv, SearchTypeOK
<1>3. CacheInv'
  <2>1. \A q \in Queries : cache[q] # Unusable => cache[q].at \in Nat
    BY Marks DEF SearchInv, SearchTypeOK
  <2> QED BY <1>1, <2>1 DEF Tick, SearchInv, CacheInv, Timely
<1>4. ASSUME NEW s \in Searchers PROVE CallInv(s)'
  <2>1. since[s] \in Nat
    BY DEF SearchInv, SearchTypeOK, Time
  <2>2. asking[s] # "none" => now' - since[s] <= Latency
    BY <1>1, <2>1 DEF Tick
  <2>3. since[s] <= now'
    BY <1>1, <2>1 DEF SearchInv, CallInv
  <2> QED BY <2>2, <2>3 DEF SearchInv, CallInv, Tick
<1> QED BY <1>2, <1>3, <1>4 DEF SearchInv

(* Searches other than s.                                                  *)
LEMMA CallUntouched ==
    ASSUME NEW s, CallInv(s), now' = now, asking'[s] = asking[s],
           query'[s] = query[s], since'[s] = since[s], failures'[s] = failures[s],
           found'[s] = found[s], foundAt'[s] = foundAt[s]
    PROVE  CallInv(s)'
BY DEF CallInv

LEMMA CacheStill ==
    ASSUME CacheInv, UNCHANGED <<now, cache>> PROVE CacheInv'
BY DEF CacheInv, Timely

LEMMA SearchKeeps ==
    ASSUME SearchInv, NEW s \in Searchers, NEW q \in Queries, Search(s, q),
           found[s] = Nothing
    PROVE  SearchInv'
<1> USE SearchAssumption
<1>0. SearchTypeOK /\ CacheInv /\ \A z \in Searchers : CallInv(z)
  BY DEF SearchInv
<1>1. now \in Time /\ now \in Nat /\ UNCHANGED <<now, cache>>
  BY <1>0 DEF SearchTypeOK, Time, Search
<1>2. /\ query' = [query EXCEPT ![s] = q]
      /\ failures' = [failures EXCEPT ![s] = {}]
  BY DEF Search
<1>3. CASE Fresh(cache[q])
  <2>1. /\ found' = [found EXCEPT ![s] = cache[q].answer]
        /\ foundAt' = [foundAt EXCEPT ![s] = now]
        /\ asking' = [asking EXCEPT ![s] = "none"]
        /\ since' = since
    BY <1>3 DEF Search, Return
  <2>2. cache[q] \in Entry /\ cache[q] # Unusable /\ now - cache[q].at <= Ttl
    BY <1>0, <1>3 DEF SearchTypeOK, Fresh
  <2>3. PICK a \in Answer, t \in Nat : a = cache[q].answer /\ t = cache[q].at
    BY <2>2, Marks
  <2>4. a.query = q /\ t - a.seen <= Latency /\ a.seen \in Nat
    BY <1>0, <2>2, <2>3, Marks DEF CacheInv, Timely
  <2>5. now - a.seen <= Ttl + Latency
    BY <1>1, <2>2, <2>3, <2>4
  <2>6. SearchTypeOK'
    BY <1>0, <1>1, <1>2, <2>1, <2>3 DEF SearchTypeOK
  <2>7. /\ found'[s] = a /\ foundAt'[s] = now /\ asking'[s] = "none"
        /\ since'[s] = since[s] /\ query'[s] = q
    BY <1>0, <1>2, <2>1, <2>3 DEF SearchTypeOK
  <2>8. CallInv(s)'
    BY <1>0, <1>1, <2>3, <2>4, <2>5, <2>7 DEF CallInv
  <2>9. ASSUME NEW z \in Searchers, z # s PROVE CallInv(z)'
    <3>1. /\ asking'[z] = asking[z] /\ query'[z] = query[z] /\ since'[z] = since[z]
          /\ failures'[z] = failures[z] /\ found'[z] = found[z] /\ foundAt'[z] = foundAt[z]
      BY <1>0, <1>2, <2>1, <2>9 DEF SearchTypeOK
    <3> QED BY <1>0, <1>1, <3>1, CallUntouched
  <2> QED BY <1>0, <1>1, <2>6, <2>8, <2>9, CacheStill DEF SearchInv
<1>4. CASE ~Fresh(cache[q])
  <2> DEFINE first == IF TavilyKey THEN "tavily" ELSE "duckduckgo"
  <2>1. /\ asking' = [asking EXCEPT ![s] = first]
        /\ since' = [since EXCEPT ![s] = now]
        /\ UNCHANGED <<found, foundAt>>
    BY <1>4 DEF Search, Ask
  <2>2. first \in Provider /\ (first = "duckduckgo" => ~TavilyKey)
    BY DEF Provider
  <2> HIDE DEF first
  <2>3. SearchTypeOK'
    BY <1>0, <1>1, <1>2, <2>1, <2>2 DEF SearchTypeOK
  <2>4. /\ asking'[s] = first /\ since'[s] = now /\ found'[s] = Nothing
    BY <1>0, <2>1 DEF SearchTypeOK
  <2>5. now - now <= Latency /\ now <= now
    BY <1>1
  <2>6. CallInv(s)'
    BY <1>1, <2>2, <2>4, <2>5 DEF CallInv
  <2>7. ASSUME NEW z \in Searchers, z # s PROVE CallInv(z)'
    <3>1. /\ asking'[z] = asking[z] /\ query'[z] = query[z] /\ since'[z] = since[z]
          /\ failures'[z] = failures[z] /\ found'[z] = found[z] /\ foundAt'[z] = foundAt[z]
      BY <1>0, <1>2, <2>1, <2>7 DEF SearchTypeOK
    <3> QED BY <1>0, <1>1, <3>1, CallUntouched
  <2> QED BY <1>0, <1>1, <2>3, <2>6, <2>7, CacheStill DEF SearchInv
<1> QED BY <1>3, <1>4

LEMMA ProviderAnswersKeeps ==
    ASSUME SearchInv, NEW s \in Searchers, ProviderAnswers(s)
    PROVE  SearchInv'
<1> USE SearchAssumption
<1>0. SearchTypeOK /\ CacheInv /\ \A z \in Searchers : CallInv(z)
  BY DEF SearchInv
<1>1. now \in Time /\ now \in Nat /\ MaxTime \in Nat
  BY <1>0 DEF SearchTypeOK, Time
<1>2. PICK t \in since[s]..now, none \in BOOLEAN :
        LET answer == [query |-> query[s], seen |-> t, empty |-> none] IN
        WriteCache(query[s], answer) /\ Return(s, answer)
  BY DEF ProviderAnswers
<1>3. PICK q \in Queries : q = query[s]
  BY <1>0 DEF SearchTypeOK
<1>4. PICK a : a = [query |-> q, seen |-> t, empty |-> none]
  OBVIOUS
<1>5. since[s] \in Nat /\ t \in Nat /\ t <= now /\ since[s] <= t
  BY <1>0, <1>1 DEF SearchTypeOK, Time
<1>6. a \in Answer /\ a.query = q /\ a.seen = t
  BY <1>1, <1>4, <1>5 DEF Answer, Time
<1>7. now - t <= Latency
  BY <1>0, <1>1, <1>5 DEF CallInv, ProviderAnswers
<1>8. /\ asking[s] # "none" /\ UNCHANGED <<now, query, since, failures>>
  BY DEF ProviderAnswers
<1>9. PICK e \in {[answer |-> a, at |-> now], cache[q], Unusable} :
        cache' = [cache EXCEPT ![q] = e]
  BY <1>2, <1>3, <1>4 DEF WriteCache
<1>10. /\ found' = [found EXCEPT ![s] = a]
       /\ foundAt' = [foundAt EXCEPT ![s] = now]
       /\ asking' = [asking EXCEPT ![s] = "none"]
  BY <1>2, <1>3, <1>4 DEF Return
<1>11. e \in Entry
  BY <1>0, <1>1, <1>6, <1>9 DEF Entry, SearchTypeOK
<1>12. SearchTypeOK'
  BY <1>0, <1>1, <1>6, <1>8, <1>9, <1>10, <1>11 DEF SearchTypeOK
<1>13. CacheInv'
  <2>1. ASSUME NEW z \in Queries, z # q PROVE cache'[z] = cache[z]
    BY <1>0, <1>9, <2>1 DEF SearchTypeOK
  <2>2. cache'[q] = e
    BY <1>0, <1>9 DEF SearchTypeOK
  <2>3. e # Unusable => e.at <= now /\ Timely(e.answer, q, e.at)
    <3>1. CASE e = [answer |-> a, at |-> now]
      <4>1. e.answer = a /\ e.at = now /\ now <= now
        BY <1>1, <3>1
      <4> QED BY <1>6, <1>7, <4>1 DEF Timely
    <3>2. CASE e = cache[q]
      BY <1>0, <3>2 DEF CacheInv
    <3> QED BY <1>9, <3>1, <3>2
  <2>4. ASSUME NEW z \in Queries, cache'[z] # Unusable
        PROVE  cache'[z].at <= now' /\ Timely(cache'[z].answer, z, cache'[z].at)
    <3>1. CASE z = q
      BY <1>8, <2>2, <2>3, <2>4, <3>1
    <3>2. CASE z # q
      BY <1>0, <1>8, <2>1, <2>4, <3>2 DEF CacheInv
    <3> QED BY <3>1, <3>2
  <2> QED BY <2>4 DEF CacheInv, Timely
<1>14. CallInv(s)'
  <2>1. /\ found'[s] = a /\ foundAt'[s] = now /\ asking'[s] = "none"
        /\ since'[s] = since[s] /\ query'[s] = q
    BY <1>0, <1>3, <1>8, <1>10 DEF SearchTypeOK
  <2>2. now - t <= Ttl + Latency
    BY <1>1, <1>5, <1>7
  <2> QED BY <1>0, <1>6, <1>8, <2>1, <2>2 DEF CallInv
<1>15. ASSUME NEW z \in Searchers, z # s PROVE CallInv(z)'
  <2>1. /\ asking'[z] = asking[z] /\ query'[z] = query[z] /\ since'[z] = since[z]
        /\ failures'[z] = failures[z] /\ found'[z] = found[z] /\ foundAt'[z] = foundAt[z]
    BY <1>0, <1>8, <1>10, <1>15 DEF SearchTypeOK
  <2> QED BY <1>0, <1>8, <2>1, CallUntouched
<1> QED BY <1>12, <1>13, <1>14, <1>15 DEF SearchInv

LEMMA ProviderFailsKeeps ==
    ASSUME SearchInv, NEW s \in Searchers, ProviderFails(s)
    PROVE  SearchInv'
<1> USE SearchAssumption
<1>0. SearchTypeOK /\ CacheInv /\ \A z \in Searchers : CallInv(z)
  BY DEF SearchInv
<1>1. now \in Time /\ now \in Nat
  BY <1>0 DEF SearchTypeOK, Time
<1>2. PICK p \in Provider : p = asking[s]
  BY <1>0 DEF ProviderFails, SearchTypeOK
<1>3. /\ failures' = [failures EXCEPT ![s] = failures[s] \cup {p}]
      /\ UNCHANGED <<now, cache, query>>
  BY <1>2 DEF ProviderFails
<1>4. failures'[s] = failures[s] \cup {p} /\ failures' \in [Searchers -> SUBSET Provider]
  BY <1>0, <1>3 DEF SearchTypeOK
<1>5. CASE p = "tavily"
  <2>1. /\ asking' = [asking EXCEPT ![s] = "duckduckgo"]
        /\ since' = [since EXCEPT ![s] = now]
        /\ UNCHANGED <<found, foundAt>>
    BY <1>2, <1>5 DEF ProviderFails, Ask
  <2>2. SearchTypeOK'
    BY <1>0, <1>1, <1>3, <1>4, <2>1 DEF SearchTypeOK, Provider
  <2>3. /\ asking'[s] = "duckduckgo" /\ since'[s] = now
        /\ found'[s] = found[s] /\ foundAt'[s] = foundAt[s] /\ query'[s] = query[s]
    BY <1>0, <1>3, <2>1 DEF SearchTypeOK
  <2>4. now - now <= Latency /\ now <= now /\ "tavily" \in failures'[s]
    BY <1>1, <1>4, <1>5
  <2>5. CallInv(s)'
    BY <1>0, <1>3, <1>4, <2>3, <2>4 DEF CallInv
  <2>6. ASSUME NEW z \in Searchers, z # s PROVE CallInv(z)'
    <3>1. /\ asking'[z] = asking[z] /\ query'[z] = query[z] /\ since'[z] = since[z]
          /\ failures'[z] = failures[z] /\ found'[z] = found[z] /\ foundAt'[z] = foundAt[z]
      BY <1>0, <1>3, <2>1, <2>6 DEF SearchTypeOK
    <3> QED BY <1>0, <1>3, <3>1, CallUntouched
  <2> QED BY <1>0, <1>3, <2>2, <2>5, <2>6, CacheStill DEF SearchInv
<1>6. CASE p # "tavily"
  <2>0. p = "duckduckgo"
    BY <1>6 DEF Provider
  <2>1. /\ found' = [found EXCEPT ![s] = Outage]
        /\ foundAt' = [foundAt EXCEPT ![s] = now]
        /\ asking' = [asking EXCEPT ![s] = "none"]
        /\ since' = since
    BY <1>2, <1>6 DEF ProviderFails, Return
  <2>2. SearchTypeOK'
    BY <1>0, <1>1, <1>3, <1>4, <2>1 DEF SearchTypeOK
  <2>3. /\ asking'[s] = "none" /\ since'[s] = since[s] /\ found'[s] = Outage
    BY <1>0, <2>1 DEF SearchTypeOK
  <2>4. "duckduckgo" \in failures'[s] /\ (TavilyKey => "tavily" \in failures'[s])
    BY <1>0, <1>2, <1>4, <2>0 DEF CallInv
  <2>5. CallInv(s)'
    BY <1>0, <1>3, <2>3, <2>4 DEF CallInv
  <2>6. ASSUME NEW z \in Searchers, z # s PROVE CallInv(z)'
    <3>1. /\ asking'[z] = asking[z] /\ query'[z] = query[z] /\ since'[z] = since[z]
          /\ failures'[z] = failures[z] /\ found'[z] = found[z] /\ foundAt'[z] = foundAt[z]
      BY <1>0, <1>3, <2>1, <2>6 DEF SearchTypeOK
    <3> QED BY <1>0, <1>3, <3>1, CallUntouched
  <2> QED BY <1>0, <1>3, <2>2, <2>5, <2>6, CacheStill DEF SearchInv
<1> QED BY <1>5, <1>6

LEMMA DropKeeps ==
    ASSUME SearchInv, NEW s \in Searchers, Drop(s), asking[s] = "none"
    PROVE  SearchInv'
<1> USE SearchAssumption
<1>0. SearchTypeOK /\ CacheInv /\ \A z \in Searchers : CallInv(z)
  BY DEF SearchInv
<1>1. now \in Nat /\ 0 \in Time
  BY <1>0 DEF SearchTypeOK, Time
<1>2. PICK q : q = CHOOSE any \in Queries : TRUE
  OBVIOUS
<1>3. q \in Queries
  BY <1>2, LookupAssumption
<1>4. /\ query' = [query EXCEPT ![s] = q]
      /\ since' = [since EXCEPT ![s] = 0]
      /\ failures' = [failures EXCEPT ![s] = {}]
      /\ found' = [found EXCEPT ![s] = Nothing]
      /\ foundAt' = [foundAt EXCEPT ![s] = 0]
      /\ UNCHANGED <<now, cache, asking>>
  BY <1>2 DEF Drop
<1>5. SearchTypeOK'
  BY <1>0, <1>1, <1>3, <1>4 DEF SearchTypeOK
<1>6. /\ since'[s] = 0 /\ found'[s] = Nothing /\ asking'[s] = "none"
  BY <1>0, <1>4 DEF SearchTypeOK
<1>7. CallInv(s)'
  BY <1>1, <1>4, <1>6 DEF CallInv
<1>8. ASSUME NEW z \in Searchers, z # s PROVE CallInv(z)'
  <2>1. /\ asking'[z] = asking[z] /\ query'[z] = query[z] /\ since'[z] = since[z]
        /\ failures'[z] = failures[z] /\ found'[z] = found[z] /\ foundAt'[z] = foundAt[z]
    BY <1>0, <1>4, <1>8 DEF SearchTypeOK
  <2> QED BY <1>0, <1>4, <2>1, CallUntouched
<1> QED BY <1>0, <1>4, <1>5, <1>7, <1>8, CacheStill DEF SearchInv

LEMMA SearchStill == ASSUME SearchInv, UNCHANGED searchVars PROVE SearchInv'
<1>1. ASSUME NEW z \in Searchers PROVE CallInv(z)'
  BY CallUntouched DEF SearchInv, searchVars
<1>2. SearchTypeOK'
  BY DEF SearchInv, SearchTypeOK, searchVars
<1> QED BY <1>1, <1>2, CacheStill DEF SearchInv, searchVars

-----------------------------------------------------------------------------
(* The lookups.                                                            *)

LEMMA LookupInit == Init => LookupInv
<1> SUFFICES ASSUME Init PROVE LookupInv
  OBVIOUS
<1> USE RouterAssumption, SearchAssumption, LookupAssumption
<1>1. 0 \in 0..Retries /\ 0 \in Time /\ << >> \in Seq(Usable \X Outcomes)
  BY DEF Time
<1>2. PICK q : q = CHOOSE any \in Queries : TRUE
  OBVIOUS
<1>3. q \in Queries
  BY <1>2
<1>4. RouterTypeOK
  BY <1>1 DEF Init, RouterInit, RouterTypeOK, Phase
<1>5. query = [s \in Searchers |-> q]
  BY <1>2 DEF Init, SearchInit
<1>6. SearchTypeOK
  BY <1>1, <1>3, <1>5, Marks DEF Init, SearchInit, SearchTypeOK
<1>7. \A c \in Callers : Unasked(c)
  BY DEF Init, RouterInit, Unasked
<1>8. CacheInv
  BY DEF Init, SearchInit, CacheInv
<1>9. \A s \in Searchers : CallInv(s)
  BY DEF Init, SearchInit, CallInv
<1>10. TypeOK /\ StepInv
  BY <1>4, <1>6 DEF Init, SearchInit, TypeOK, StepInv, Lookups
<1> QED
  BY <1>4, <1>6, <1>7, <1>8, <1>9, <1>10, CompletionEmpty
  DEF LookupInv, RouterInv, SearchInv

(* The two services keep what they promise, whoever is served.             *)
LEMMA ServicesKeep ==
    ASSUME LookupInv, [Next]_vars
    PROVE  RouterInv' /\ SearchInv'
<1>0. RouterInv /\ SearchInv /\ StepInv
  BY DEF LookupInv
<1>1. Callers = Searchers /\ Lookups = Callers
  BY LookupAssumption DEF Lookups
<1>2. ASSUME NEW l \in Lookups, Verify(l) PROVE RouterInv' /\ SearchInv'
  <2>1. RouterMove(l) /\ UNCHANGED searchVars
    BY <1>2 DEF Verify, RouterMove
  <2> QED BY <1>0, <1>1, <2>1, RouterMoveKeeps, SearchStill
<1>3. ASSUME NEW l \in Lookups, SearchFor(l) PROVE RouterInv' /\ SearchInv'
  <2>1. RouterMove(l)
    BY <1>3 DEF SearchFor, RouterMove
  <2>2. PICK q \in Queries : Search(l, q)
    BY <1>3 DEF SearchFor
  <2>3. found[l] = Nothing
    BY <1>0, <1>3 DEF StepInv, SearchFor
  <2> QED BY <1>0, <1>1, <2>1, <2>2, <2>3, RouterMoveKeeps, SearchKeeps
<1>4. ASSUME NEW l \in Lookups, Judge(l) PROVE RouterInv' /\ SearchInv'
  <2>1. RouterMove(l) \/ UNCHANGED routerVars
    BY <1>4 DEF Judge, RouterMove
  <2>2. Drop(l) /\ asking[l] = "none"
    BY <1>4 DEF Judge
  <2> QED BY <1>0, <1>1, <2>1, <2>2, RouterMoveKeeps, RouterStill, DropKeeps
<1>5. ASSUME NEW l \in Lookups, Report(l) PROVE RouterInv' /\ SearchInv'
  <2>1. RouterMove(l) /\ UNCHANGED searchVars
    BY <1>5 DEF Report, RouterMove
  <2> QED BY <1>0, <1>1, <2>1, RouterMoveKeeps, SearchStill
<1>6. ASSUME NEW l \in Lookups, Model(l) PROVE RouterInv' /\ SearchInv'
  <2>1. RouterMove(l) /\ UNCHANGED searchVars
    BY <1>6 DEF Model, RouterMove
  <2> QED BY <1>0, <1>1, <2>1, RouterMoveKeeps, SearchStill
<1>7. ASSUME NEW l \in Lookups, Web(l) PROVE RouterInv' /\ SearchInv'
  <2>1. UNCHANGED routerVars /\ SearchStep(l)
    BY <1>7 DEF Web
  <2> QED BY <1>0, <1>1, <2>1, RouterStill, ProviderAnswersKeeps, ProviderFailsKeeps
          DEF SearchStep
<1>8. CASE Tick /\ UNCHANGED <<step, reply, routerVars>>
  <2>1. Tick /\ UNCHANGED routerVars
    BY <1>8
  <2> QED BY <1>0, <2>1, TickKeeps, RouterStill
<1>9. CASE UNCHANGED vars
  <2>1. UNCHANGED routerVars /\ UNCHANGED searchVars
    BY <1>9 DEF vars
  <2> QED BY <1>0, <2>1, RouterStill, SearchStill
<1> QED BY <1>2, <1>3, <1>4, <1>5, <1>6, <1>7, <1>8, <1>9 DEF Next, Own, Done

(* Where a lookup is tells whether it searches or has results.             *)
LEMMA StepsKeep ==
    ASSUME LookupInv, [Next]_vars
    PROVE  /\ step' \in [Lookups -> {"idle", "rewriting", "searching", "judging", "done"}]
           /\ reply' \in [Lookups -> {"none", "unverifiable", "judged"}]
           /\ StepInv'
<1> USE LookupAssumption
<1> DEFINE Steps == {"idle", "rewriting", "searching", "judging", "done"}
           Replies == {"none", "unverifiable", "judged"}
           Good == step' \in [Lookups -> Steps] /\ reply' \in [Lookups -> Replies] /\ StepInv'
<1>0. /\ step \in [Lookups -> Steps] /\ reply \in [Lookups -> Replies]
      /\ asking \in [Lookups -> Provider \cup {"none"}] /\ DOMAIN found = Lookups
      /\ StepInv
  BY DEF LookupInv, TypeOK, SearchTypeOK, Lookups
<1>1. ASSUME NEW l \in Lookups, Verify(l) PROVE Good
  <2>1. UNCHANGED <<asking, found, reply>> /\ step' = [step EXCEPT ![l] = "rewriting"]
        /\ step[l] = "idle"
    BY <1>1 DEF Verify, searchVars, Goto
  <2> QED BY <1>0, <2>1 DEF StepInv
<1>2. ASSUME NEW l \in Lookups, SearchFor(l) PROVE Good
  <2>1. PICK q \in Queries : Search(l, q)
    BY <1>2 DEF SearchFor
  <2>2. step' = [step EXCEPT ![l] = "searching"] /\ UNCHANGED reply
        /\ step[l] = "rewriting"
    BY <1>2 DEF SearchFor, Goto
  <2>3. \A d \in Lookups : d # l => asking'[d] = asking[d] /\ found'[d] = found[d]
    BY <1>0, <2>1 DEF Search, Return, Ask
  <2>4. asking'[l] = "none" \/ found'[l] = Nothing
    BY <1>0, <2>1, <2>2 DEF Search, Return, Ask, StepInv
  <2> QED BY <1>0, <2>2, <2>3, <2>4 DEF StepInv
<1>3. ASSUME NEW l \in Lookups, Judge(l) PROVE Good
  <2>1. /\ asking[l] = "none" /\ UNCHANGED asking
        /\ found' = [found EXCEPT ![l] = Nothing]
    BY <1>3 DEF Judge, Drop
  <2>2. \E s \in {"done", "judging"} : step' = [step EXCEPT ![l] = s]
    BY <1>3 DEF Judge, Goto
  <2>3. reply' = reply \/ reply' = [reply EXCEPT ![l] = "unverifiable"]
    BY <1>3 DEF Judge
  <2> QED BY <1>0, <2>1, <2>2, <2>3 DEF StepInv
<1>4. ASSUME NEW l \in Lookups, Report(l) PROVE Good
  <2>1. /\ UNCHANGED <<asking, found>> /\ step' = [step EXCEPT ![l] = "done"]
        /\ step[l] = "judging"
        /\ \E x \in Replies : reply' = [reply EXCEPT ![l] = x]
    BY <1>4 DEF Report, searchVars, Goto
  <2> QED BY <1>0, <2>1 DEF StepInv
<1>5. ASSUME NEW l \in Lookups, Web(l) PROVE Good
  <2>1. UNCHANGED <<step, reply>> /\ asking[l] # "none"
    BY <1>5 DEF Web, SearchStep, ProviderAnswers, ProviderFails
  <2>2. \A d \in Lookups : d # l => asking'[d] = asking[d] /\ found'[d] = found[d]
    BY <1>0, <1>5 DEF Web, SearchStep, ProviderAnswers, ProviderFails, Return, Ask
  <2>3. asking'[l] = "none" \/ found'[l] = found[l]
    BY <1>0, <1>5 DEF Web, SearchStep, ProviderAnswers, ProviderFails, Return, Ask
  <2> QED BY <1>0, <2>1, <2>2, <2>3 DEF StepInv
<1>6. CASE UNCHANGED <<step, reply, asking, found>>
  BY <1>0, <1>6 DEF StepInv
<1>7. ASSUME NEW l \in Lookups, Model(l) PROVE UNCHANGED <<step, reply, asking, found>>
  BY <1>7 DEF Model, searchVars
<1>8. CASE Tick /\ UNCHANGED <<step, reply, routerVars>>
  BY <1>6, <1>8 DEF Tick
<1>9. CASE UNCHANGED vars
  BY <1>6, <1>9 DEF vars, searchVars
<1> QED
  BY <1>1, <1>2, <1>3, <1>4, <1>5, <1>6, <1>7, <1>8, <1>9 DEF Next, Own, Done

LEMMA LookupAlways == Spec => []LookupInv
<1>1. LookupInv /\ [Next]_vars => LookupInv'
  <2> SUFFICES ASSUME LookupInv, [Next]_vars PROVE LookupInv'
    OBVIOUS
  <2>1. RouterInv' /\ SearchInv'
    BY ServicesKeep
  <2>2. TypeOK' /\ StepInv'
    BY <2>1, StepsKeep DEF TypeOK, RouterInv, SearchInv
  <2> QED BY <2>1, <2>2 DEF LookupInv
<1> QED BY <1>1, LookupInit, PTL DEF Spec

(* Every variable of the lookups and of both services keeps its type.      *)
THEOREM LookupTypes == Spec => []TypeOK
<1>1. LookupInv => TypeOK
  BY DEF LookupInv
<1> QED BY <1>1, LookupAlways, PTL

(* For any chain, any set of providers with a key and any number of        *)
(* retries: complete() asks a provider only when all before it were given  *)
(* up for cause, and raises LLMError only when all were.                   *)
THEOREM ChainFollowed == Spec => []ChainIsFollowed
<1>1. LookupInv => ChainIsFollowed
  <2> SUFFICES ASSUME LookupInv, NEW c \in Callers, NEW k \in DOMAIN tried[c],
                      NEW p \in Usable
               PROVE  /\ p < tried[c][k][1] => GivenUp(c, p)
                      /\ Cardinality(Asked(c, p)) <= Retries + 1
                      /\ phase[c] = "failed" => GivenUp(c, p)
    BY DEF ChainIsFollowed, Asked, LookupInv, RouterInv, ChainInv
  <2>1. ChainInv(c) /\ RouterTypeOK
    BY DEF LookupInv, RouterInv
  <2>2. /\ p \in Nat /\ tried[c][k][1] \in Nat /\ provider[c] \in Nat
        /\ tried[c][k][1] <= provider[c]
    <3>1. Usable \subseteq Nat /\ 0 \in Nat
      BY RouterAssumption
    <3> QED BY <2>1, <3>1 DEF ChainInv, RouterTypeOK
  <2>3. p < tried[c][k][1] => p < provider[c]
    BY <2>2
  <2> QED BY <2>1, <2>3 DEF ChainInv
<1> QED BY <1>1, LookupAlways, PTL

(* For any chain: a provider's response is followed by one repair at most, *)
(* asked of the same provider, and complete() returns it.                  *)
THEOREM ResponseFinal == Spec => []ResponseIsFinal
<1>1. LookupInv => ResponseIsFinal
  <2> SUFFICES ASSUME LookupInv, NEW c \in Callers, NEW k \in DOMAIN tried[c],
                      tried[c][k][2] = "response"
               PROVE  /\ Len(tried[c]) <= k + 1
                      /\ Len(tried[c]) = k + 1 =>
                             tried[c][k + 1] = <<tried[c][k][1], "repair">>
                      /\ phase[c] # "failed"
    BY DEF ResponseIsFinal
  <2>1. /\ AnswerInv(c) /\ phase[c] \in Phase
        /\ tried[c] \in Seq(Usable \X Outcomes)
    BY DEF LookupInv, RouterInv, RouterTypeOK
  <2>2. PICK n \in Nat : n = Len(tried[c]) /\ DOMAIN tried[c] = 1..n
    BY <2>1
  <2>3. ASSUME NEW m, Before(c, m) PROVE ~(k < m)
    BY <2>3 DEF Before, Setbacks
  <2>4. phase[c] \in {"repairing", "parsed", "unparsed"}
    BY <2>1, <2>2, <2>3 DEF AnswerInv, Phase, Trying
  <2>5. CASE RespondedAt(c, n)
    <3>1. k = n
      BY <2>2, <2>3, <2>5 DEF RespondedAt
    <3> QED BY <2>2, <2>4, <3>1
  <2>6. CASE /\ RespondedAt(c, n - 1)
             /\ tried[c][n] = <<tried[c][n - 1][1], "repair">>
    <3>1. k # n
      BY <2>6
    <3>2. ~(k < n - 1)
      BY <2>3, <2>6 DEF RespondedAt
    <3>3. k = n - 1
      BY <2>2, <3>1, <3>2
    <3> QED BY <2>2, <2>4, <2>6, <3>3
  <2> QED BY <2>1, <2>2, <2>4, <2>5, <2>6 DEF AnswerInv
<1> QED BY <1>1, LookupAlways, PTL

(* For any time to live, any latency and any number of concurrent searches *)
(* that overwrite each other's files: what search() returns is an answer   *)
(* to the query it was asked, no staler than one call allows the cache.    *)
THEOREM ServedFresh == Spec => []ServedIsFresh
<1>1. LookupInv => ServedIsFresh
  BY Marks DEF LookupInv, SearchInv, CallInv, ServedIsFresh
<1> QED BY <1>1, LookupAlways, PTL

=============================================================================
