------------------------------ MODULE WebSearch ------------------------------
(***************************************************************************)
(* attest/search.py: search(), with its two providers and the cache on     *)
(* disk.  A search reads the cache; without a usable entry it asks Tavily  *)
(* (if it has a key) and then DuckDuckGo, and writes the first answer to   *)
(* the cache.  Only the providers' calls suspend.  What the web says       *)
(* changes with time, so an answer is told by its query, by the moment the *)
(* provider saw it and by whether it was empty.                            *)
(***************************************************************************)
EXTENDS Integers

CONSTANTS
    Searchers,   \* tasks that search, one query at a time each
    Queries,     \* the pairs of query and k
    TavilyKey,   \* whether tavily_api_key is set
    Ttl,         \* search_cache_ttl_seconds
    Latency,     \* longest a provider's call takes (its client's timeout)
    MaxTime      \* bound: the clock

ASSUME SearchAssumption ==
    /\ TavilyKey \in BOOLEAN
    /\ Ttl \in Nat
    /\ Latency \in Nat
    /\ MaxTime \in Nat

VARIABLES
    now,       \* the clock
    cache,     \* the file of each query
    asking,    \* the provider each search waits for
    query,     \* its query
    since,     \* when it asked this provider
    failures,  \* the providers that failed it
    found,     \* what it returned, while its caller uses that
    foundAt    \* (history) when it returned

searchVars == <<now, cache, asking, query, since, failures, found, foundAt>>

Time == 0..MaxTime

Provider == {"tavily", "duckduckgo"}

Answer == [query : Queries, seen : Time, empty : BOOLEAN]

(* The empty list search() returns when every provider failed.             *)
Outage == [seen |-> -1, empty |-> TRUE]

Nothing == [seen |-> -1, empty |-> FALSE]

(* No file, one in the old format, or one that cannot be read.             *)
Unusable == [answer |-> Outage, at |-> -1]

Entry == [answer : Answer, at : Time] \cup {Unusable}

SearchInit ==
    /\ now = 0
    /\ cache = [q \in Queries |-> Unusable]
    /\ asking = [s \in Searchers |-> "none"]
    /\ query = [s \in Searchers |-> CHOOSE q \in Queries : TRUE]
    /\ since = [s \in Searchers |-> 0]
    /\ failures = [s \in Searchers |-> {}]
    /\ found = [s \in Searchers |-> Nothing]
    /\ foundAt = [s \in Searchers |-> 0]

(* Time passes, but no call outlasts its timeout.                          *)
Tick ==
    /\ now < MaxTime
    /\ \A s \in Searchers : asking[s] # "none" => now - since[s] < Latency
    /\ now' = now + 1
    /\ UNCHANGED <<cache, asking, query, since, failures, found, foundAt>>

Return(s, result) ==
    /\ found' = [found EXCEPT ![s] = result]
    /\ foundAt' = [foundAt EXCEPT ![s] = now]
    /\ asking' = [asking EXCEPT ![s] = "none"]

Ask(s, p) ==
    /\ asking' = [asking EXCEPT ![s] = p]
    /\ since' = [since EXCEPT ![s] = now]
    /\ UNCHANGED <<found, foundAt>>

(* Defective variant: a cache that never expires.                          *)
FreshForever(e) == e # Unusable

(* _read_cache: an entry is served up to and including the TTL.            *)
Fresh(e) == e # Unusable /\ now - e.at <= Ttl

(* A hit returns at once; a miss asks the first provider.                  *)
Search(s, q) ==
    /\ asking[s] = "none"
    /\ query' = [query EXCEPT ![s] = q]
    /\ failures' = [failures EXCEPT ![s] = {}]
    /\ IF Fresh(cache[q])
       THEN Return(s, cache[q].answer) /\ UNCHANGED since
       ELSE Ask(s, IF TavilyKey THEN "tavily" ELSE "duckduckgo")
    /\ UNCHANGED <<now, cache>>

(* _write_cache: stamped with the time of the write. A failed write leaves *)
(* the old file, or one that cannot be read.                               *)
WriteCache(q, answer) ==
    \E e \in {[answer |-> answer, at |-> now], cache[q], Unusable} :
        cache' = [cache EXCEPT ![q] = e]

ProviderAnswers(s) ==
    /\ asking[s] # "none"
    /\ \E t \in since[s]..now, none \in BOOLEAN :
          LET answer == [query |-> query[s], seen |-> t, empty |-> none] IN
          /\ WriteCache(query[s], answer)
          /\ Return(s, answer)
    /\ UNCHANGED <<now, query, since, failures>>

(* Defective variant: after the last provider the first is asked again.    *)
ProviderFailsForever(s) ==
    /\ asking[s] # "none"
    /\ failures' = [failures EXCEPT ![s] = @ \cup {asking[s]}]
    /\ Ask(s, IF asking[s] = "tavily" THEN "duckduckgo" ELSE "tavily")
    /\ UNCHANGED <<now, cache, query>>

(* The next provider is asked; after the last one, nothing is returned and *)
(* nothing is cached.                                                      *)
ProviderFails(s) ==
    /\ asking[s] # "none"
    /\ failures' = [failures EXCEPT ![s] = @ \cup {asking[s]}]
    /\ IF asking[s] = "tavily" THEN Ask(s, "duckduckgo")
       ELSE Return(s, Outage) /\ UNCHANGED since
    /\ UNCHANGED <<now, cache, query>>

(* The caller is done with what it found.                                  *)
Drop(s) ==
    /\ query' = [query EXCEPT ![s] = CHOOSE q \in Queries : TRUE]
    /\ since' = [since EXCEPT ![s] = 0]
    /\ failures' = [failures EXCEPT ![s] = {}]
    /\ found' = [found EXCEPT ![s] = Nothing]
    /\ foundAt' = [foundAt EXCEPT ![s] = 0]
    /\ UNCHANGED <<now, cache, asking>>

SearchStep(s) == ProviderAnswers(s) \/ ProviderFails(s)

-----------------------------------------------------------------------------
(* Properties.                                                             *)

SearchTypeOK ==
    /\ now \in Time
    /\ cache \in [Queries -> Entry]
    /\ asking \in [Searchers -> Provider \cup {"none"}]
    /\ query \in [Searchers -> Queries]
    /\ since \in [Searchers -> Time]
    /\ failures \in [Searchers -> SUBSET Provider]
    /\ found \in [Searchers -> Answer \cup {Outage, Nothing}]
    /\ foundAt \in [Searchers -> Time]

(* What a search returns is a provider's answer to its own query, seen no  *)
(* longer ago than the TTL and one call, although searches for one query   *)
(* overwrite each other's entries in any order; only when every provider   *)
(* has failed this very search does it return nothing without an answer,   *)
(* so an outage is not remembered.                                         *)
ServedIsFresh ==
    \A s \in Searchers : found[s] # Nothing =>
        \/ /\ found[s] # Outage
           /\ found[s].query = query[s]
           /\ foundAt[s] - found[s].seen <= Ttl + Latency
        \/ /\ found[s] = Outage
           /\ "duckduckgo" \in failures[s]
           /\ TavilyKey => "tavily" \in failures[s]

=============================================================================
