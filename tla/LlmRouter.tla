------------------------------ MODULE LlmRouter ------------------------------
(***************************************************************************)
(* attest/llm.py: complete(), the entry of every call to a language model. *)
(* Providers are tried in the order of a chain; a transient failure is     *)
(* retried with the same provider, any other failure moves on to the next, *)
(* and an answer that does not parse is repaired by one more call to the   *)
(* provider that gave it.  Completions share no state, so every caller     *)
(* runs by itself; its caller moves it on by Complete and Consume.  A step *)
(* ends where the task is suspended: in a provider's call or in a sleep,   *)
(* whose length (the provider's hint, or a growing delay) is left out.     *)
(***************************************************************************)
EXTENDS Integers, Sequences, FiniteSets

CONSTANTS
    Callers,   \* tasks that complete prompts, one at a time each
    Chain,     \* length of _PROVIDER_CHAIN
    Usable,    \* the providers that have an API key and a model
    Retries    \* llm_transient_retries

ASSUME RouterAssumption ==
    /\ Chain \in Nat
    /\ Usable \subseteq 1..Chain
    /\ Retries \in Nat

VARIABLES
    phase,     \* where each completion is
    provider,  \* the provider it is at
    attempt,   \* retries used with this provider
    tried      \* (history) the calls it made, with their outcomes

routerVars == <<phase, provider, attempt, tried>>

(* parsed, unparsed and failed are its ends: a result with parsed set, one *)
(* with parsed = None, and LLMError.                                       *)
Phase == {"idle", "calling", "waiting", "repairing", "parsed", "unparsed", "failed"}

InCall == {"calling", "waiting", "repairing"}

Replied == {"parsed", "unparsed", "failed"}

Outcomes == {"response", "transient", "fatal", "repair"}

RouterInit ==
    /\ phase = [c \in Callers |-> "idle"]
    /\ provider = [c \in Callers |-> 0]
    /\ attempt = [c \in Callers |-> 0]
    /\ tried = [c \in Callers |-> << >>]

Log(c, outcome) == tried' = [tried EXCEPT ![c] = Append(@, <<provider[c], outcome>>)]

(* Defective variant: a provider without a key ends the search for one.    *)
AdvanceToNext(c, p) ==
    IF p + 1 \in Usable
    THEN /\ phase' = [phase EXCEPT ![c] = "calling"]
         /\ provider' = [provider EXCEPT ![c] = p + 1]
         /\ attempt' = [attempt EXCEPT ![c] = 0]
    ELSE /\ phase' = [phase EXCEPT ![c] = "failed"]
         /\ UNCHANGED <<provider, attempt>>

(* The next usable provider after p is called; without one, LLMError.      *)
Advance(c, p) ==
    LET rest == {q \in Usable : q > p} IN
    IF rest = {}
    THEN /\ phase' = [phase EXCEPT ![c] = "failed"]
         /\ UNCHANGED <<provider, attempt>>
    ELSE /\ phase' = [phase EXCEPT ![c] = "calling"]
         /\ provider' = [provider EXCEPT ![c] =
                            CHOOSE q \in rest : \A o \in rest : q <= o]
         /\ attempt' = [attempt EXCEPT ![c] = 0]

(* complete() up to its first suspension.                                  *)
Complete(c) ==
    /\ phase[c] = "idle"
    /\ Advance(c, 0)
    /\ UNCHANGED tried

(* The provider answers: with text that parses, after the local clean-up   *)
(* at most, or with text to be repaired.                                   *)
Respond(c) ==
    /\ phase[c] = "calling"
    /\ Log(c, "response")
    /\ \E next \in {"parsed", "repairing"} : phase' = [phase EXCEPT ![c] = next]
    /\ UNCHANGED <<provider, attempt>>

(* Defective variant: one retry too many.                                  *)
TransientFailureOnceMore(c) ==
    /\ phase[c] = "calling"
    /\ Log(c, "transient")
    /\ IF attempt[c] > Retries THEN Advance(c, provider[c])
       ELSE /\ phase' = [phase EXCEPT ![c] = "waiting"]
            /\ UNCHANGED <<provider, attempt>>

(* A rate limit or a capacity blip is slept on while retries are left.     *)
TransientFailure(c) ==
    /\ phase[c] = "calling"
    /\ Log(c, "transient")
    /\ IF attempt[c] >= Retries THEN Advance(c, provider[c])
       ELSE /\ phase' = [phase EXCEPT ![c] = "waiting"]
            /\ UNCHANGED <<provider, attempt>>

FatalFailure(c) ==
    /\ phase[c] = "calling"
    /\ Log(c, "fatal")
    /\ Advance(c, provider[c])

Retry(c) ==
    /\ phase[c] = "waiting"
    /\ phase' = [phase EXCEPT ![c] = "calling"]
    /\ attempt' = [attempt EXCEPT ![c] = @ + 1]
    /\ UNCHANGED <<provider, tried>>

(* Defective variant: an answer beyond repair is asked of the next one.    *)
RepairOrAdvance(c) ==
    /\ phase[c] = "repairing"
    /\ Log(c, "repair")
    /\ \/ phase' = [phase EXCEPT ![c] = "parsed"] /\ UNCHANGED <<provider, attempt>>
       \/ Advance(c, provider[c])

(* The repair call parses, does not parse, or fails: the result stands.    *)
Repair(c) ==
    /\ phase[c] = "repairing"
    /\ Log(c, "repair")
    /\ \E end \in {"parsed", "unparsed"} : phase' = [phase EXCEPT ![c] = end]
    /\ UNCHANGED <<provider, attempt>>

(* The caller has its reply; nothing of the completion remains.            *)
Consume(c) ==
    /\ phase[c] \in Replied
    /\ phase' = [phase EXCEPT ![c] = "idle"]
    /\ provider' = [provider EXCEPT ![c] = 0]
    /\ attempt' = [attempt EXCEPT ![c] = 0]
    /\ tried' = [tried EXCEPT ![c] = << >>]

RouterStep(c) ==
    Respond(c) \/ TransientFailure(c) \/ FatalFailure(c) \/ Retry(c) \/ Repair(c)

-----------------------------------------------------------------------------
(* Properties.                                                             *)

RouterTypeOK ==
    /\ phase \in [Callers -> Phase]
    /\ provider \in [Callers -> {0} \cup Usable]
    /\ attempt \in [Callers -> 0..Retries]
    /\ tried \in [Callers -> Seq(Usable \X Outcomes)]

(* The calls a completion made to provider p with this outcome.            *)
Calls(c, p, outcome) == {k \in DOMAIN tried[c] : tried[c][k] = <<p, outcome>>}

(* Provider p was given up for cause: it refused, or it kept failing for   *)
(* all the attempts it had.                                                *)
GivenUp(c, p) ==
    \/ Calls(c, p, "fatal") # {}
    \/ Cardinality(Calls(c, p, "transient")) = Retries + 1

(* A provider is asked only when every usable one before it was given up,  *)
(* never more often than it has attempts, and a completion fails only when *)
(* every usable provider was given up: no key that is set is left untried. *)
ChainIsFollowed ==
    \A c \in Callers :
        /\ \A k \in DOMAIN tried[c] : \A p \in Usable :
               /\ p < tried[c][k][1] => GivenUp(c, p)
               /\ Cardinality({j \in DOMAIN tried[c] :
                      tried[c][j][1] = p /\ tried[c][j][2] # "repair"}) <= Retries + 1
        /\ phase[c] = "failed" => \A p \in Usable : GivenUp(c, p)

(* Once a provider has responded, its response is final: at most one call  *)
(* follows, the repair, to the same provider, and the reply is no failure. *)
ResponseIsFinal ==
    \A c \in Callers : \A k \in DOMAIN tried[c] :
        tried[c][k][2] = "response" =>
            /\ Len(tried[c]) <= k + 1
            /\ Len(tried[c]) = k + 1 => tried[c][k + 1] = <<tried[c][k][1], "repair">>
            /\ phase[c] # "failed"

=============================================================================
