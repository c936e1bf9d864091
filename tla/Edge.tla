-------------------------------- MODULE Edge --------------------------------
(***************************************************************************)
(* attest/api/security.py and main.py: what a request passes on its way to *)
(* a route.  From the outside in: the rate limit, the cap on the body,     *)
(* authentication, and for POST /observe the clamp of the budget.  The     *)
(* layers take their decisions without suspending; only reading the body   *)
(* suspends, message by message.                                           *)
(***************************************************************************)
EXTENDS Integers, Sequences, FiniteSets

CONSTANTS
    Slots,       \* connections that serve one request after the other
    Callers,     \* addresses of callers
    Proxies,     \* the proxies in front of the service, from the outside in
    Hops,        \* trusted_proxy_hops
    Limit,       \* requests per window, for each tier
    Window,      \* 60 seconds
    ApiKey,      \* whether attest_api_key is set
    MaxBytes,    \* max_request_bytes
    MaxBudget,   \* max_budget_usd
    MaxTime,     \* bound: the clock
    MaxRequests  \* bound: requests that are counted

Tier == {"read", "write", "expensive"}

(* TRUSTED_PROXY_HOPS "must match reality".                                *)
ASSUME EdgeAssumption ==
    /\ Proxies \in Seq(STRING)
    /\ Hops = Len(Proxies)
    /\ Limit \in [Tier -> Nat]
    /\ {Window, MaxBytes, MaxBudget, MaxTime, MaxRequests} \subseteq Nat

VARIABLES
    now,    \* time.monotonic()
    hits,   \* RateLimitMiddleware._hits
    slot,   \* the request each connection serves
    log     \* (history) the requests that were counted or refused for rate

vars == <<now, hits, slot, log>>

(* Routes by what the layers make of them: paths open to everyone (and     *)
(* preflights), the event streams, and the three tiers; of the writes only *)
(* POST /observe is modelled.                                              *)
Route == {"public", "stream"} \cup Tier

(* What X-Forwarded-For holds before our own proxies add to it, such as    *)
(* the entry of a proxy on the caller's side.                              *)
Upstream == {<< >>} \cup {<<a>> : a \in Callers}

(* What a request declares of its body: a length within the cap or beyond  *)
(* it, or none (a chunked body, or a header that is no number).            *)
Request == [caller : Callers, upstream : Upstream, route : Route,
            token : BOOLEAN, declared : {"fits", "exceeds", "none"}]

Idle == [stage |-> "idle"]

Init ==
    /\ now = 0
    /\ hits = [k \in Callers \X Tier |-> << >>]
    /\ slot = [c \in Slots |-> Idle]
    /\ log = << >>

Tick ==
    /\ now < MaxTime
    /\ now' = now + 1
    /\ UNCHANGED <<hits, slot, log>>

-----------------------------------------------------------------------------
(* What the service sees of the caller: every proxy appends the address it *)
(* was called from to X-Forwarded-For, after whatever is there already.    *)
Forwarded(q) ==
    IF Proxies = << >> THEN q.upstream
    ELSE q.upstream \o <<q.caller>> \o SubSeq(Proxies, 1, Len(Proxies) - 1)

Socket(q) == IF Proxies = << >> THEN q.caller ELSE Proxies[Len(Proxies)]

(* Defective variant: the first entry is taken for the caller's.           *)
FirstHop(q) ==
    IF Hops > 0 /\ Forwarded(q) # << >> THEN Forwarded(q)[1] ELSE Socket(q)

(* client_ip: counted from the right, where our own proxies wrote.         *)
ClientIp(q) ==
    LET hops == Forwarded(q) IN
    IF Hops > 0 /\ Len(hops) >= Hops THEN hops[Len(hops) - Hops + 1]
    ELSE Socket(q)

(* The hits of a client after _allow has taken those beyond the window off *)
(* the front, up to the first that is not.                                 *)
Recent(k) ==
    LET old(i) == now - hits[k][i] > Window
        stay == {i \in 1..(Len(hits[k]) + 1) : i \in DOMAIN hits[k] => ~old(i)}
        first == CHOOSE i \in stay : \A o \in stay : i <= o
    IN  SubSeq(hits[k], first, Len(hits[k]))

Limited(q) == q.route \in Tier

Allowed(q) == Len(Recent(<<ClientIp(q), q.route>>)) < Limit[q.route]

(* RateLimitMiddleware: a hit is counted if the request goes on.           *)
Count(q) ==
    IF ~Limited(q) THEN UNCHANGED <<hits, log>>
    ELSE LET k == <<ClientIp(q), q.route>> IN
         /\ Len(log) < MaxRequests
         /\ hits' = [hits EXCEPT ![k] =
                        IF Allowed(q) THEN Append(Recent(k), now) ELSE Recent(k)]
         /\ log' = Append(log, [caller |-> q.caller, tier |-> q.route,
                                at |-> now, admitted |-> Allowed(q)])

(* BearerAuthMiddleware.                                                   *)
Authorised(q) == ~ApiKey \/ q.route = "public" \/ q.token

(* 429, 413 or 401: refused without a word to the route. Otherwise its     *)
(* handler begins to read the body.                                        *)
Arrive(c, q) ==
    /\ slot[c] = Idle
    /\ Count(q)
    /\ slot' = [slot EXCEPT ![c] =
                   IF (Limited(q) => Allowed(q)) /\ q.declared # "exceeds" /\ Authorised(q)
                   THEN [stage |-> "reading", request |-> q, received |-> 0]
                   ELSE @]
    /\ UNCHANGED now

(* Defective variant: a declared length is trusted, and only it is checked. *)
ReceiveUncounted(c, n) ==
    /\ slot[c].stage = "reading"
    /\ slot[c].request.declared = "fits" => slot[c].received + n <= MaxBytes
    /\ slot[c].received <= MaxBytes
    /\ slot' = [slot EXCEPT ![c].received = @ + n]
    /\ UNCHANGED <<now, hits, log>>

(* MaxBodySizeMiddleware.counting_receive: a message of the body. The one  *)
(* that exceeds the cap never reaches the route; the request ends there.   *)
Receive(c, n) ==
    /\ slot[c].stage = "reading"
    /\ slot[c].request.declared = "fits" => slot[c].received + n <= MaxBytes
    /\ slot' = IF slot[c].received + n > MaxBytes
               THEN [slot EXCEPT ![c] = Idle]
               ELSE [slot EXCEPT ![c].received = @ + n]
    /\ UNCHANGED <<now, hits, log>>

(* The body is complete and the handler runs: POST /observe clamps the     *)
(* budget the body asks for and leaves the run to a background task        *)
(* (Orchestrator!Accept). The other routes have no budget.                 *)
Handle(c, asked) ==
    /\ slot[c].stage = "reading"
    /\ slot[c].request.route # "write" => asked = 1
    /\ slot' = [slot EXCEPT ![c] =
                   [stage |-> "handled", request |-> @.request,
                    received |-> @.received, asked |-> asked,
                    budget |-> IF asked > MaxBudget THEN MaxBudget ELSE asked]]
    /\ UNCHANGED <<now, hits, log>>

Respond(c) ==
    /\ slot[c].stage = "handled"
    /\ slot' = [slot EXCEPT ![c] = Idle]
    /\ UNCHANGED <<now, hits, log>>

Next ==
    \/ Tick
    \/ \E c \in Slots : \/ \E q \in Request : Arrive(c, q)
                        \/ \E n \in 1..(MaxBytes + 1) : Receive(c, n)
                        \/ \E asked \in 1..(MaxBudget + 1) : Handle(c, asked)
                        \/ Respond(c)

Spec == Init /\ [][Next]_vars

-----------------------------------------------------------------------------
(* Properties.                                                             *)

(* A request is refused for its rate exactly if as many of its caller and  *)
(* tier as the limit allows were admitted in the 60 seconds before it,     *)
(* both ends included: whatever X-Forwarded-For held before our proxies,   *)
(* whatever the other tiers see, and whatever was refused.                 *)
RateIsExact ==
    \A k \in DOMAIN log :
        log[k].admitted <=>
            Cardinality({j \in 1..(k - 1) :
                            /\ log[j].admitted
                            /\ log[j].caller = log[k].caller
                            /\ log[j].tier = log[k].tier
                            /\ log[k].at - log[j].at <= Window})
                < Limit[log[k].tier]

(* What a route handles passed every layer: it was authorised, counted and *)
(* admitted, its handler was given no more than the cap of the body, and   *)
(* the run it starts may spend what it asks for and the service allows.    *)
HandledPassedAll ==
    \A c \in Slots : slot[c].stage = "handled" =>
        LET q == slot[c].request IN
        /\ Authorised(q)
        /\ slot[c].received <= MaxBytes
        /\ slot[c].budget <= MaxBudget /\ slot[c].budget <= slot[c].asked
        /\ Limited(q) => \E k \in DOMAIN log :
               log[k].admitted /\ log[k].caller = q.caller /\ log[k].tier = q.route

=============================================================================
