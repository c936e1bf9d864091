# ATTEST in TLA+

Specifications of ATTEST, the service that verifies the answers of a retrieval
pipeline claim by claim: what its components do at every point where they can be
suspended, fail or be interleaved, the properties that make them correct, the
TLC runs that check these on small instances, and TLAPS proofs of the central
ones for every value of the constants. Paths below are relative to `src/`.

## 1. The system

A host program (SDK) posts an observation, the query, the answer and the
retrieved chunks, to the API. The API answers 202 and verifies in a background
task: the *orchestrator* stores the run, decomposes the answer into claims, has
each claim judged by up to three *verifiers*, merges the votes in the
*reconciler*, saves every result in the *trace store* and tells the *event bus*,
which clients follow over server-sent events. The dashboard page does not: it
polls the trace. Everything but the store's
client (worker threads) and the SDK's worker (a thread in the host) runs on one
asyncio event loop, so a component can be interleaved with others exactly at
its `await`s.

| Component | State | Operations | Talks to | Hard part | What makes it correct |
|---|---|---|---|---|---|
| Orchestrator `attest/orchestrator.py` | per run: position, claims, total cost, votes, verdicts so far | `run` from `create_run` to `finalize_run`, `_abort_run`, `_score` | store, decomposer, verifiers, prober hook, bus | store calls that fail anywhere, also after they were applied; crash between two inserts; several runs at once; the budget is compared before calls of unknown cost | one terminal event, always and last; what is announced is stored and explained by its votes; scores equal the rows; budget overshoot bounded |
| Trace store `attest/store.py`, `migrations/001_init.sql` | tables runs, chunks, claims, verifications, probes | insert and update per table, `finalize_run`, `list_runs`, `get_run_detail` | Supabase through threads | each call is its own transaction; keys refuse duplicates and orphans | rows form a prefix of the claims, parents first |
| Reconciler `attest/reconciler.py` | none | `reconcile` | – | precedence, missing votes, the two fractions | the verdict is the top vote; a missing vote never condemns |
| Entailment verifier `attest/verifiers/entailment.py` | none | `verify` | model providers | outage, unparsable answers | an outage certifies nothing |
| Prober `attest/verifiers/prober.py`, `mutations.py` | `last_probes`, one object for all runs | `verify` | entailment verifier, model providers | three concurrent mutations, some of which fail; shared state read after the call | FRAGILE and GROUNDED are earned; a run saves its own probes |
| Independent verifier `attest/verifiers/independent.py` | none | `verify` | search, model providers | two judges that disagree, thin evidence | STALE needs a grounded claim and two sources |
| Decomposer `attest/verifiers/decomposer.py` | none | `decompose` | model providers | – | – |
| Event bus `attest/api/stream.py` | replay buffer, subscriber queues, end time of each run | `publish`, `subscribe`, `unsubscribe`, `_evict_expired`, one generator per connection | orchestrator, clients | joining while events are published, full buffers, slots, expiry, clients that go away | a stream is an unbroken tail of the run's events and ends exactly at the terminal one |
| Host SDK `attest/sdk/` | current client; per client an event loop, a bounded queue, a drop counter | `init`, `observe`, `wrap`, `trace`, `submit`, `_enqueue`, `_consume` | host threads, API | threads handing over to a loop, overflow, re-`init`, failing posts | kept in order, once, overflow loses the oldest and is counted |
| Routes `attest/api/routes.py` | cached store, search and prober | `observe`, `get_probes_hook`, `_run_in_background`, reading routes | orchestrator, store, bus | one prober for all requests | see orchestrator |
| Edge `attest/api/security.py`, `main.py` | hits per client and tier | client IP, token, body cap, rate limit | routes | sliding window, bodies of undeclared length, order of the layers | refused exactly beyond the limit; a route sees only what passed all layers |
| Provider chain `attest/llm.py` | none across calls | `complete`, `_call_with_retry` | providers | retry, fallback, repair | bounded calls, first answer wins |
| Web search `attest/search.py` | cache files with a time stamp | `search` | providers | TTL, corrupt entries, concurrent writers | nothing older than the TTL is served |
| Dashboard `dashboard/attest-dashboard.html` | run id field, the panel; per call of `ask`, `verifyExternal` or `load` a request and what was rendered | post, poll, list, load | routes | polls that overtake the run's row, flows that share the page, failing polls, a server that dies | what a polling page renders only goes forward |
| Benchmark `bench/` | cursors of the sampler; semaphore; records of each example | `stratified_sample`, `run_benchmark`, `run_example`, `build_eval_units`, `confusion_counts`, `bootstrap_ci`, the findings of the report | decomposer, verifiers, reconciler | buckets that run out, bounded concurrency, examples that fail halfway, abstaining claims | no type dominates the sample; an example is reported whole or not at all; configurations are scored on the same units |
| Configuration, demo corpus, row level security, scripts | – | – | – | – | – |

The hazards behind the fourth and fifth columns, with their source lines and
the properties that cover them, are listed in `PROJECT.json` under `hazards`.

## 2. Modules

```
RunLifecycle            what a run promises             (abstract)
   ^ refined by
Orchestrator            runs, store rows, events        EXTENDS Reconciler
   MCOrchestrator       instances                       OrchestratorProofs
   TraceReader          GET /runs/{id}                  EXTENDS Orchestrator
      Dashboard         the page and its routes         EXTENDS TraceReader
         MCDashboard    instances                       StoreProofs
Reconciler              reconcile()
Verification            one claim through the verifiers EXTENDS Reconciler
                                                        VerificationProofs
Sampler                 stratified_sample()
   BenchScore           verdicts to confusion counts    EXTENDS Reconciler, Sampler
      BenchRunner       run_benchmark()                 EXTENDS BenchScore
         BenchReport    F1, intervals, findings         EXTENDS BenchRunner
            MCBenchRunner  instances                    BenchProofs
EventBus                bus and SSE connections         MCEventBus, EventBusProofs
SdkClient               the SDK's worker                MCSdkClient, SdkProofs
LlmRouter               complete()
WebSearch               search() and its cache
   IndependentLookup    lookups sharing both            EXTENDS LlmRouter, WebSearch
                                                        LookupProofs
Edge                    what a request passes           MCEdge, EdgeProofs
```

Definitions marked "Defective variant" in a comment are deliberately wrong forms
of the definition that follows them. No specification uses them. Each is the
bug one property is there for, and putting it in place of the definition makes
TLC find that property violated (`PROJECT.json`, `mutants`).

### Orchestrator

A step goes from one `await` of `run()` to the next: one call to the store or a
verifier with the synchronous code that follows. `pc[r]` names the call a run is
suspended in.

| Action | Code |
|---|---|
| `Accept`, `Start` | `POST /observe` answers 202; the task begins and publishes `run.started` |
| `CreateRun`, `MarkSkipped`, `MarkRunning`, `SaveChunks` | the first `try` block; `sample()` is either outcome |
| `Decompose`, `DecomposeRaises`, `FailDecompose` | the second `try` block and its handler, whose own store call is unguarded |
| `SaveResolved`, `SaveBudgetExceeded` | claims the decomposer settled; claims without budget |
| `RunEntailment`, `ProberReturns`, `IndependentReturns` | the first pass, then `gather` of the second; the two return in any order, or raise |
| `SaveClaim`, `SaveVerification`, `CollectProbes`, `SaveProbe` | persistence of a claim, with `get_probes` in between; events as they are emitted |
| `Finalize`, `Abort` | `finalize_run` with the scores; `_abort_run` |
| `Crash` | the process dies with all its tasks; nothing resumes a run |

A store call has three outcomes: applied, failed, or *late*: applied, but
reported as failed (a timeout after the commit). The tables are functions of
run and claim; an update of a run without a row does nothing, as an SQL `UPDATE`
does; the keys of `probes` refuse duplicates and orphans. Claim and verification
ids are fresh UUIDs made by the caller (`uuid4`), so their inserts never collide;
probe ids are made by the prober, so the same probe can be inserted twice when
`last_probes` is shared.

`last_probes` is one variable for all runs because `routes.py` caches one
prober. Costs are small integers, compared and added as the code does.
Rationale texts, latencies, the chunk rows and the events' payloads beyond
claim number, verdict and status are left out; no property reads them.

`RunLifecycle` is the abstract promise: the status column moves only forward,
at most one terminal event, `run.completed` only together with the row it
reports, and the row is frozen once the terminal event is out. `Orchestrator`
implements it with `row <- status` and `announced` read off the event log.

### Verification

One claim, from the entailment call to `reconcile()`. A step is one answer of a
model or of the search; the same question asked twice may get two answers. An
`Answer` carries a verdict and whether it is *degraded*, that is whether no judge
stands behind it. The prober asks for its own baseline, generates three
mutations and re-verifies those it has; the independent verifier searches,
judges, and passes the STALE gate. The check of evidence spans leaves the
verdict alone and is left out, as is the wording of mutations and queries.

### EventBus

The *k*-th event of a run is the number *k*. `publish` (with the eviction it
starts with) and `subscribe` (eviction, replay and registration) are single
steps because neither suspends; each connection's generator steps when it takes
an event, ends or is cancelled. Time is the action `Expire`: the TTL of a
finished run has passed. A run is said to publish nothing after a terminal
event, which is `TerminalOnceAndLast` of `Orchestrator`. Heartbeats change no
state.

### SdkClient

Host threads enter `observe`, `wrap` or `trace`, and on the way out may hand an
observation over to the client installed by then; a callback on that client's
loop enqueues it; the consumer posts one at a time. `StartClient` is `init()`,
which may leave the SDK without a client; every client keeps its own loop and
queue, and a consumer without `httpx` ends at once. Observations are numbered.
`wire` holds the posts the backend may still get to: a client that timed out has
gone on (`Attempt`) while its post may yet start a run (`Observe`) or be lost or
refused (`Lose`). `HostExits` ends the host with its daemon threads; the backend
goes on.

### TraceReader

The trace a client fetches, read by one query for the row, one for the claims
and one per claim for its verifications, interleaved with every step of
`Orchestrator`. `stage[g]` is the query request `g` waits for, or its answer; a
query that fails ends it with 503, a run without a row with 404. The queries for
chunks and probes are left out.

### Dashboard

A flow is one call of `ask()`, `verifyExternal()` or `load()`: `posting` its
request, seeing the 202 (`Accepted`), `polling` or `loading` a trace through
`TraceReader`, rendering what comes (`TakeDetail`) or ending with an error
(`TakeFailure`). `Route` is the request at the server, whose background task is the
run that `Accept` queues. The disabled buttons do not keep suggestions and keys
from starting another `ask()` or `load()`, so only `verifyExternal()` excludes
itself. What is left of a rendered trace is its status and its claims. How often a
flow polls is left open. `ServerCrash` is the crash of `Orchestrator` together
with the requests under way.

### LlmRouter, WebSearch, IndependentLookup

`LlmRouter` is `complete()`: a step is the outcome of one provider's call
(`Respond`, `TransientFailure`, `FatalFailure`), the end of a sleep (`Retry`) or
the repair of an answer that does not parse. `tried` is a history of the calls.
`WebSearch` is `search()`: an answer is told by its query and by the moment the
web was looked at, a cache entry by its answer and the time it was written;
`Unusable` stands for no file, one without a stamp and one that does not parse.
A write may fail and leave either the old file or an unreadable one. A clock
advances between steps, but no call outlasts its client's timeout.
`IndependentLookup` composes the two as `independent.py` does: rewrite the claim,
search, judge. Lookups of several runs share the cache.

### Edge

The layers in the order `main.py` stacks them. `Arrive` is what a request passes
without suspending: the address it is counted for (`ClientIp`, read from the
right end of a header to which each of our proxies appends the address it was
called from), the window of its tier (`Allowed`, `Count`), the declared length
and the token. `Receive` counts the body while it streams; `Handle` is the route
with the clamp of the budget. `log` is a history of the requests counted or
refused. `EdgeAssumption` has `trusted_proxy_hops` equal the number of proxies,
as its documentation demands.

### Sampler

`stratified_sample()`; a step is one pass through its inner loop, for one bucket.
`Shuffled` is what the seed makes of each bucket: any order of its examples.
`Type` is the dataset as parsed.

### BenchScore, BenchRunner, BenchReport

`BenchRunner` is `run_benchmark()`: one task per example, all of them waiting for
the semaphore in order (`Acquire`). A task decomposes its answer once and takes
every claim through four rounds, the baseline's call and then three times the
orchestrator's sequence with different verifiers in the second pass; a step is
one call with the code that follows it. `Leave` is the end of a task on either
path, with the permit given back; `Fail` the exception that `_bounded` turns into
no records. `Report` is `gather`. A verifier that raises is a missing vote, and
the baseline's judge degrades to UNSUPPORTED by itself. Each round asks entailment
anew, so two configurations may get different answers about one claim.
`BenchScore` is what follows: `Predicted`, `OrAggregate`, `Units`, `Confusion`. The
overlap of a claim's span with an annotated one is any outcome where there are
annotated spans. Costs and latencies, which the records carry along, are left out.
`BenchReport` is what the report says of the units: F1 and the percentiles of its
resampled values as exact fractions, the finding on the prober and the cases that
every configuration got wrong. `Draws` is what the seed draws for the resampling,
the same for every configuration.

### Reconciler

`Reconcile`, `Driver`, `Confidence` and `Disagreement` as operators on a function
from verifiers to votes. Fractions are pairs of integers. `Orchestrator` and
`Verification` use `Reconcile` unchanged.

## 3. Runs

| Run | Shows | Instance |
|---|---|---|
| `orchestrator_one_run` | ten properties of a run, refinement of `RunLifecycle` and termination among them | 1 run, ≤ 3 claims, ≤ 2 probes, budget 3, calls of cost ≤ 2, 2 store faults, 1 crash |
| `orchestrator_shared_prober` | violation: a run saves another's probes | 2 runs, no faults |
| `event_bus` | streams under overflow, expiry, slot limits | 2 runs, 3 clients, 2 slots, buffer of 2, 3 events |
| `verification` | what each verdict guarantees | ≤ 3 search results, every claim and configuration |
| `verification_degraded_probe` | violation: an outage counts as a flip | 1 search result |
| `sdk_client` | order, drops, progress of the SDK, one run per observation | 2 threads, 2 clients, queue of 2, 3 observations |
| `independent_lookup` | the provider chain is followed, searches are fresh, lookups end | 2 lookups of one query, chain of 3 with no key for the second, 1 retry, TTL 1, calls ≤ 1, clock to 3 |
| `dashboard` | a trace that says complete is; a polling page sees its run go forward | 1 run of ≤ 2 claims, 2 flows of any kind, 1 crash, flows symmetric |
| `dashboard_early_poll` | violation: the first poll is told the run does not exist | 1 run, 1 flow |
| `edge` | who is admitted, and with what | 2 callers, 2 proxies, limits of 2, 1 and 1, window of 1, clock to 3, 3 counted requests, cap of 1 |
| `bench` | the sample is spread; what is reported is whole, paired, in order and comparable; the benchmark ends | 1 or 3 of 4 RAGTruth examples of two types with ≤ 1 claim, or 1 or 2 HaluEval examples with ≤ 2, semaphore of 2 |
| `bench_prober_gain` | violation: a loss is reported as a gain | see `BenchProberGain.cfg` |

**Why the bounds are enough.** Three claims are the fewest with a claim before,
at and after the one where the budget ends (`BudgetIsFinal`, `RowsInOrder`), and
with costs up to 2 against a budget of 3 the budget is missed, met and overshot.
Two probes make a first `SaveProbe`, after which one is left, and a last. Two faults
are one for the call that starts an abort and one for the abort itself; nothing
calls the store after that. One crash ends every task, and no run starts
anything new afterwards that a second would reach differently. The outcomes of
the verifiers in `MCOrchestrator` hold a raise, a free answer and a paid one
each, and votes that change the merged verdict; `Verification` covers all votes.
In `EventBus` three events overflow a buffer of two, three clients exceed two
slots, and the second run exists to evict the first one's history. Three search
results allow fewer, exactly and more than the two sources STALE needs. In
`SdkClient` a queue of two and three observations fill and overflow it, and two
clients and two threads allow a hand-over that began under one client to end at
the next. In `IndependentLookup` two lookups of one query write its cache entry in
either order; the clock passes a slow call, the TTL of what it stored and one
tick more; a chain of three has a provider to skip, one to fall back to and an
end, and one retry separates the first attempt from the last. In `Dashboard`
two claims make a last one, whose verifications may be missing, and one before
it, whose may not, and the run can overtake a poll between any two of its
queries; two flows are one that follows the run and one that joins it, leaves it
or comes after it. The server may crash once, and any query of a poll may fail;
store faults of the run are left to `orchestrator_one_run`, since to a reader a run
that stopped looks like one that has not gone on yet. The sample of one or three of
four RAGTruth examples, one of one type and three of another, ends in the middle of
a round, and with an exhausted type. In `BenchRunner` a semaphore of two
makes a third example wait for either of the others to end or fail; the first of two
claims (HaluEval) may be settled, judged or the last before a failure, and two claims
of a response are the fewest of which one can abstain. Its votes are the fewest with
which all four configurations can object to a unit that is not hallucinated, which is
what makes a case of the disagreement analysis (`CasesAreErrors`), while a configuration
can also agree or abstain: the baseline always objects, entailment objects or gives no
vote, the prober agrees, the independent verifier is undecided. That the baseline may
miss a hallucination that the others miss too would take both of its answers and four
times the states; the theorem `CasesListed` covers every vote. `bench_prober_gain` has one
example of at most two claims, of which the resampling may draw any pair.
In `Edge` the window ends (at distance 2) before the clock does, the first hits
of a caller at 0 and a later one fall on both sides of its end and on it, and
two callers, two tiers with a limit of one and one of two show what is not to be
mixed up.

**Deadlock** is checked everywhere except in `sdk_client`, where the bound on
observations ends the host. `AllEnded` and `Decided` are the states in which the
orchestrator and a verification are done, `Done` the one of all lookups,
`Reported` the one of a benchmark.

## 4. Properties

*Orchestrator.* `TerminalOnceAndLast`, `QuietAfterTerminal`: a client that reads
until the terminal event and then fetches the trace gets all of it, in its final
form (another run that took its probes for its own may still save them, and nothing
else). `VerifiedIsPersisted`: what
`claim.verified` says is in the claims table, and the verification rows explain
it. `CompleteIsWhole`: the scores in a complete row are those of its claim rows,
although the code computes them from memory; also after a crash and after a late
answer. `RowsInOrder`: what a crash leaves behind is a prefix, and every row has its
parents; a probe follows the prober's verification, unless another run saves it at
the claim the run is at (`Forestalled`). `OvershootBounded`
and `BudgetIsFinal`: the budget. `EveryRunEnds`: liveness. `LifecycleSpec`: refinement;
among other things `run.completed` is published only with the row it reports.

*Verification.* `StaleIsCorroborated`, `FragileIsEarned`, `GroundedSurvived`: what
must have been answered, by whom, for each of these verdicts.
`OutageCertifiesNothing`: with the judge down in the first pass or as the prober asks
for its own baseline, no claim comes out GROUNDED, FRAGILE or UNVERIFIABLE, whatever
the other of the two and the probes say, nor STALE in the first case.

*EventBus.* `StreamIsTail`: no loss, duplicate or swap between replay and live
events, and the replay is as long as the limit allows. `EndsAtTerminal`,
`SlotsAreHeld`, `StreamsEnd`.

*Dashboard.* `DetailIsWhole`: although put together from separate reads, a
detail whose row says complete has every claim the row counts with the votes
that explain it. The order of the queries is what makes it so: the row is read
first, and a row is complete only when its claims are. `PollsMoveForward`: of what
one flow renders, the status never goes back, no claim disappears or changes, and
the run does not turn into an unknown one, although each poll is put together anew
while the run writes and the server may die.

*IndependentLookup.* `ChainIsFollowed`: a provider is asked only after those before
it were given up for cause, and `LLMError` means all were. `ResponseIsFinal`: a
response is repaired at most once, by the provider that gave it. `ServedIsFresh`:
what a search returns was seen at most a TTL and one call ago, and an outage is
never served from the cache. `LookupsEnd`.

*Edge.* `RateIsExact`: a request is refused exactly if its own caller used up its
tier's limit within the window, both directions. `HandledPassedAll`: what a route
handles was authorised, admitted, within the cap and clamped.

*Bench.* `SampleIsSpread`: the sample has as many examples as asked for, none twice,
and no type is ahead, by more than one, of one that has examples left. `CasesAreErrors`:
what the disagreement analysis lists is an error in the matrix of each configuration. `ReportIsPaired`: the report has one record per claim and configuration of
each finished example, in order, and nothing of one that failed, however late.
`UnitsAreComparable`: every configuration is scored on the same units with the
same truths, the confusion counts account for each once, and a unit is abstained
on only if none of its claims was decided. `TypeOK` includes that the permits are
those not in use. `BenchEnds`.

*SdkClient.* `KeptInOrder` (what was not dropped is posted, on its way or waiting,
in the order it was accepted, and nothing else is), `DropsAreCounted`, `OldestGoFirst`. `AtMostOneRun`: a post that timed out at the
client and still reaches the backend makes one run, not two. `EachIsAttempted`:
except what is left when the host exits.

A type invariant is checked where it carries a bound (queues, buffers, permits);
`Verification`'s, `TypeInv`, is proved instead (section 5).

**Fairness.** `Orchestrator`: weak fairness of every run's steps, since the event
loop resumes a task whose call has answered, and the clients of the store, the
providers and the search have timeouts, so every call answers; nothing is assumed
of requests and crashes. `IndependentLookup`: likewise for every lookup, its
providers' calls, which have timeouts, and its sleeps, which are finite; nothing
is assumed of the clock or of new lookups. `BenchRunner`: the steps of loading
and sampling, every task of an example, and `gather`, by the same argument.
`EventBus`: the loop resumes a generator that has an
event or is cancelled; nothing is assumed of publishers, of time or of clients.
`SdkClient`: the worker's loop runs its callbacks and its consumer, and a post
ends within `timeout_s`; nothing is assumed of hosts, of `init` and of
`WorkerUp`, which the code waits for only two seconds.

## 5. Proofs

Eight modules hold theorems. Each is proved for every value of the constants that
satisfies the assumption of its module (the constants are numbers and sets of the
right type and limits are positive), with no further hypothesis.

*Orchestrator*, for any number of runs, claims, probes, faults and crashes, any
budget and costs, and any outcomes of the verifiers:

- `TypeCorrect`. `TypeOK` alone is not inductive: that `idx` stays in range, that
  `claims[r][idx[r]]` exists and that `Head(probeQ[r])` is a probe depend on
  where the task is. `InLoop` adds that inside the loop body the index is that
  of a claim and that a run saving probes has one. There is one lemma per group
  of actions for `TypeOK'` and one step per action for `InLoop'`.
- `TerminalEvents` proves `TerminalOnceAndLast` and `ReturnsAnnounced`. The
  strengthening `AnnouncedInv` says that a log has at most one terminal event,
  at its end, and has one exactly when the task has returned. So a run that
  publishes is never one that has closed its stream. Lemmas on appending to a
  quiet sequence carry the argument.
- `Overshoot` proves `OvershootBounded`. The bound is not inductive, since the
  prober's cost is added after the budget was compared. `CostInv` adds that as
  long as the prober is still running the cost is below the budget. It fails if
  the independent verifier reported a cost too: then two costs would be added to
  one comparison.
- `CompleteRowsAreWhole` (`StoreProofs`) proves `CompleteIsWhole`. The scores come
  from memory and the rows from inserts that may have been applied or not, so the
  strengthening `RowsMatch` ties the two together along the loop: the remembered
  verdicts are those of the rows before the current claim, a claim whose row was
  just saved has the verdict of its votes, and only a task past its loop has a
  complete row. The step of `Finalize` needs that as many places of the remembered
  list as of the rows hold a given verdict (`ScoresAgree`); another run's step
  leaves all of it alone (`OthersUntouched`).
- `VerdictsAreExplained` and `BudgetNeverFrees` (`StoreProofs`) prove
  `VerifiedIsPersisted` and `BudgetIsFinal` from one invariant, `AllExplained`. What was
  announced lies behind the loop's index, where no row changes any more (`Told`);
  ahead of the index there are no rows, and at it the votes saved so far are
  those in memory, the missing ones exactly those of `todo` (`Filled`); a run that
  gave a claim up is past its budget and is not inside a verification
  (`Thrifty`). Neither property is inductive without `Filled`: an announcement
  says that the saved votes reconcile to the verdict, which was computed from the
  votes in memory.
- `ImplementsLifecycle` proves `LifecycleSpec`. `StatusInv` relates the position
  of a task to the status of its row. Every step of an open run is a stutter,
  an `Advance`, a `Complete` or a `Fail` of the abstract specification.

*Reconciler*, for any votes: `ReconcileIsTopVote` (the verdict is a vote cast and none
outranks it), `LostVoteNeverCondemns` (the verdict on some of the votes ranks
no higher than on all of them: an outage or a spent budget does not make a
verdict worse), `FractionsInRange` and `ConfidentIffUnanimous`.

*Verification*, for any number of search results, any configuration and any
answers: `StaleNeedsSources`, `FragileNeedsProbe`, `GroundedNeedsAll` and
`OutageIsSafe` prove the four properties the run checks. None is inductive, as the
verdict is decided long after the answers it rests on. `VerificationInv` records
what each vote rests on at the moment it is cast and that it stays so:
`EntailmentInv` (the second pass comes after the first, a degraded answer is
UNSUPPORTED), `ProberInv` (the vote is what baseline and probes say),
`IndependentInv` (only this verifier says STALE, with a grounded claim and the
sources), `DecisionInv` (the verdict is `Reconcile` of final votes). The theorems then
follow from `ReconcileIsTopVote`: a verdict is one of the votes, and the objections
would outrank it.

*EventBus*, for any runs, clients, events and limits: `BusTypeCorrect`,
`StreamsAreTails`, `StreamsEndAtTerminal`, `SlotsDoNotLeak`. `StreamIsTail` needs
`HistoryInv`, that a replay buffer itself is the newest interval of the run's
events and not shorter than the limit allows unless it was evicted, and
`SlotsInv`, that publish reaches exactly the attached connections. That what was
received and what is queued make one interval is preserved by moving the head of
the queue (`MoveHead`).

*SdkClient*, for any host threads, clients and observations and any queue size:
`SdkTypeCorrect`, `NoSecondRun`, `LossIsCounted`, `LossIsOldest`. The invariant `SdkInv`
says that a client's queue and the callbacks behind it are the tail of what its
loop accepted (`TailKept`), that no observation is accepted twice, by whichever
client (`Distinct`, `HeldOnce`), and that whatever was dropped, posted or verified
has left its queue (`SentOnce`). So what is dropped or posted next was never
dropped or posted before.

`NothingIsLost` proves `KeptInOrder`. Its strengthening `SentInOrder` speaks of what a
loop has got rid of: what it posted or is posting lies, in order, at increasing places
among the first elements it accepted, and the places in between are those of
the dropped. Overflow moves one place from the queue to the dropped, a post one to
the posted, so the two halves, this one and `TailKept`, always meet.

*Runs that share the prober.* `RowsOrdered` and `QuietAfterTheEnd` (`StoreProofs`) prove
`RowsInOrder` and `QuietAfterTerminal` for any number of runs, with the prober enabled
in all of them, as it is by default. Since `routes.py` keeps one prober, a run may save
the probes of another run (section 6): of one that has ended, or of a claim whose
verification by the prober is not saved yet. Both properties name exactly this
exception and no other. With one run neither can occur, so `orchestrator_one_run` checks
the strict forms; with two both do, and neither property holds without its
exception. `Ordered` says that the rows ahead of the loop are empty and those behind it
whole. `ProbesJudged` follows a probe from the prober to the table: the prober has
judged the claim of every probe that it or a run still holds (`Held`, `Judged`), a saved
one moreover has its claim's row and, failing the verification, a second run that
uses the prober (`Filed`). Three facts keep it so. A run's vote of the prober outlives
its claim as the saved verification (`Keeps`, from `AllExplained`), so a probe that waits in another
run's queue, for however long, still belongs to a judged claim; a run saves probes only
once its own verification is saved (`Voting`, `VerificationSaved`), so its own probes are never early; and a
probe enters memory only as the prober judges (`HeldChange`).

*TraceReader and Dashboard*, for any number of runs, flows, store faults and
crashes (`StoreProofs`, over `PageSpec`): `DetailsAreWhole` proves `DetailIsWhole` and
`PagesMoveForward` proves `PollsMoveForward`. A detail is put together from reads at
different moments, so the invariant (`FlowInv`) relates what a flow has read so far to
the tables now: the row it read is no further on than the row, the claims it read
are still there and unchanged, and the votes it read of a claim behind the last
one are the final ones. It holds because rows are only added and completed
(`RunKept`), which `AllExplained` and `RowsMatch` give. What was rendered earlier is then
never ahead of what is read next.

*LlmRouter, WebSearch and IndependentLookup*, for any number of lookups, any chain,
retries, time to live and interleaving (`LookupProofs`): `LookupTypes`, `ChainFollowed`,
`ResponseFinal` and `ServedFresh`. `ChainInv` ties the position in the chain to the calls
made: every usable provider before the current one was given up, for a fatal
failure or for all its retries, and the attempts are as many as the calls of the
current one. `AnswerInv` says that before a response there were only setbacks and after
it at most one repair, by the same provider. For the searches, an entry of the cache
was written no more than one call after it was seen (`CacheInv`), a call under way
has not outlasted its timeout, and an outage was given only after every usable
provider had failed (`CallInv`).

*Edge*, for any callers, proxies, limits and window (`EdgeProofs`): `RateExact` proves
`RateIsExact`. The middleware throws old hits away, the property counts in the whole
history: `HitsInv` says that the hits kept for a caller and tier are, in order, admitted
requests of theirs in the history, and that those missing have left the window.
`HandledPassed` proves `HandledPassedAll` from `PassedInv`: a request past the middleware
is authorised and, if its route is limited, some request of its caller and tier
was admitted; one that is handled also has its budget clamped.

*Sampler and benchmark* (`BenchProofs`). For any dataset, seed and number asked for,
`SampleSpread` proves `SampleIsSpread`. It speaks of the finished sample only; `SampleInv` adds
what holds during the rounds: of each bucket a prefix was taken, each example once
(`TakenInOrder`, `Counted`), a bucket with examples left is at most the one example of
this round behind (`Even`), and a round that has taken nothing has met exhausted
buckets only (`Spent`), so that the sampler stops early only when all are.

For any semaphore, verdicts, failures and order of completion, `BenchTypes` and
`ReportPaired` prove `TypeOK`, with its count of the permits, and `ReportIsPaired`. `BenchInv`
gives for each task the records it has written as a function of where it stands
(`TaskOk`): the *k*-th record is about claim `1 + (k - 1) \div 4` and configuration
`1 + (k - 1) % 4`, of which a task at claim *i* and round *r* has `4 * (i - 1) + (r - 1)`. The
report is the concatenation of all records; that what a function makes of a
concatenation is the concatenation of what it makes of the parts is
`FlattenMapped`, proved along `FlattenSeq`.

`UnitsCompared` proves `UnitsAreComparable`. The report falls into blocks of four
(`ReportBlocks`), each about a claim of its own, with one record per configuration; so
filtering by a configuration takes one place of every block (`KeptFourth`), the
same claims in the same order for each, and a record of a configuration about a given
claim is the one its unit was made of, which is why a unit abstains exactly if none
of its claims was decided. `Accounted` splits the units into the six cells of a
confusion matrix. `CasesListed` proves `CasesAreErrors`: the cases lie at distinct places of the
baseline's units (`KeptTakes`), and the same places of another configuration's units hold
errors of the same kind.

Where a proof follows a recursive function of the model or of the community
modules (`Kept`, `FlattenSeq`), it first shows that the function exists on its finite
domain and then argues from a least counterexample (`LeastNat`), since the
library's induction theorems take an operator as a parameter.

Every safety invariant and action property that a passing run checks is also the
property of a theorem. Only model-checked are the liveness properties
(`EveryRunEnds`, `StreamsEnd`, `EachIsAttempted`, `LookupsEnd`, `BenchEnds`), which rest on
fairness and so on ENABLED, out of the prover's reach, and what the runs with a
violation show. What the interval of F1 is (`Percentile`, `Interval`, with a sorted
sequence of the library) is only evaluated.

## 6. Where the code and its documentation disagree

Each is a run that TLC ends with a counterexample.

- `OwnProbes`, run `orchestrator_shared_prober`. `attest/api/routes.py:113-117`
  calls reading `last_probes` safe because claims are processed sequentially.
  That holds within a run; the prober is shared by all.
- `FlipsAreJudged`, run `verification_degraded_probe`. The comment on
  `EXPECTED_FLIP_TARGETS` (`prober.py:77-83`) wants degraded re-verifications not
  to count as flips; the entailment verifier degrades to a flip target.

- `PollFindsRun`, run `dashboard_early_poll`. `attest/api/routes.py:368` has callers
  poll `GET /runs/{run_id}` once they have the 202; the row is inserted by the
  background task after that, and `jget()` of the page throws on the 404 of a poll
  that comes first, which ends the flow with an error.
- `GainIsReal`, run `bench_prober_gain`. `bench/report.py:101-104` wants it said
  "explicitly and prominently" when the prober shows no measurable F1 gain. The
  code asks only whether the two intervals overlap (`:250`), so a full system that
  is measurably worse than the one without the prober is reported as "a measurable
  F1 gain" (`:261`).

Met while reading, without a run:

- `attest/orchestrator.py:178` says `run` never raises and `:148-151` that
  `run.error` must always be emitted. The handler of a failed decomposition
  (`:222`) awaits the store first, unguarded (`FailDecompose`). The shipped
  `decompose()` answers with no claims to the failures it foresees, so the handler
  is hardly ever reached.
- `README.md:58` defines CONTRADICTED by the retrieved context, and the rationale
  of thin evidence defers to the grounding assessment (`independent.py:160-167`); the
  independent vote stays CONTRADICTED, on a single source, and outranks GROUNDED.
- `independent.py:17-19` says the claim's own words never reach `search()`, while
  `_neutral_query` falls back to them when the rewrite fails.
- The independent verifier reports no cost, so its calls are not budgeted (the
  models have it so).
- A client that comes after a finished run's history was evicted gets heartbeats
  only, which `stream.py` documents by pointing to `GET /runs/{run_id}`.
- `security.py:221` says "fixed-window" of a sliding one.
- The page's `pollRun()` does not stop on the status `skipped`; with the shipped sample
  rate of 1.0 it never meets it. Two flows of one page render into the same panel,
  an older one over a newer; the page polls and does not use the event stream.
- The docstring of `stratified_sample` says "proportionally"; the code goes round the
  types, equally for each.
- `build_report` prints the number of examples asked for, discards the number of
  fragile claims (an undefined rate shows as 0.000), and a HaluEval response without
  claims is scored in no configuration.

## 7. Not modelled, and why

Configuration is constant over a run. The demo's retrieval and corpus builder
compute over text files, and `run_demo.py` is a script over the SDK; the row level
policies and the repository scripts have no behaviour over time. Text processing
(repair of anchor spans, evidence spans, prompts, rationales) is data: its results
appear as any answer a model may give. Pydantic validation, the HTTP server and the
database are external and appear as their outcomes. Response headers and CORS keep
no state. Of the page, forms and layout are left out; of the benchmark, the
download and parsing of the dataset files, costs, latencies, the secondary rates
and the rendering of the report, which are data processing over the records.

## 8. Plan

1. *Done:* `Reconciler`, `RunLifecycle`, `Orchestrator`, `EventBus`,
   `Verification`, `SdkClient`; `LlmRouter` and `WebSearch`, composed in
   `IndependentLookup`; `TraceReader`, extended to the page in `Dashboard`; `Edge`;
   `Sampler`, `BenchScore`, `BenchRunner` and `BenchReport`; the proofs of section 5.
2. *Done:* a theorem for every safety invariant and action property of the passing
   runs.
3. Lemmas worth having beyond the runs' properties: that the prober's fragility is
   monotone in the probes that did not flip, that `Percentile` lies between the
   least and the greatest value, and that a run without a second one beside it saves only
   probes of its own (`OwnProbes`).
