------------------------------- MODULE Sampler -------------------------------
(***************************************************************************)
(* bench/datasets.py, stratified_sample: the examples of a benchmark are   *)
(* drawn from the buckets of a dataset, one per hallucination type, in     *)
(* turn, so that no type dominates.  A step is one pass through the body   *)
(* of the inner loop.                                                      *)
(***************************************************************************)
EXTENDS Naturals, Sequences, FiniteSets

CONSTANTS
    Dataset,   \* the datasets there are
    Buckets,   \* for each, how many types its examples have
    Type,      \* for each, the types of its examples, in the file's order
    Shuffled,  \* for each, the examples of each type, as the seed shuffles them
    Wanted     \* the numbers of examples that may be asked for

Pool(d) == 1..Len(Type[d])

Name(d) == 1..Buckets[d]

ASSUME SamplerAssumption ==
    /\ Wanted \subseteq Nat
    /\ Buckets \in [Dataset -> Nat]
    /\ \A d \in Dataset : Type[d] \in Seq(Name(d))
    /\ Shuffled \in [Dataset -> Seq(Seq(Nat))]
    /\ \A d \in Dataset :
          /\ DOMAIN Shuffled[d] = Name(d)
          /\ \A b \in Name(d) : LET list == Shuffled[d][b] IN
                /\ \A i, j \in DOMAIN list : list[i] = list[j] => i = j
                /\ {list[i] : i \in DOMAIN list} = {x \in Pool(d) : Type[d][x] = b}

VARIABLES
    dataset,     \* the one this benchmark is run on
    wanted,      \* n
    turn,        \* the bucket whose turn it is, in the order of their names
    cursor,      \* how many were taken from each
    progressed,  \* whether this round has taken any
    sample,      \* the examples taken
    drawn        \* whether stratified_sample has returned

asked == <<dataset, wanted>>
sampleVars == <<asked, turn, cursor, progressed, sample, drawn>>

SampleInit ==
    /\ dataset \in Dataset
    /\ wanted \in Wanted
    /\ turn = 1
    /\ cursor = [b \in Name(dataset) |-> 0]
    /\ progressed = FALSE
    /\ sample = << >>
    /\ drawn = FALSE

(* Defective variant: the head of the file.                                *)
TakeFirst ==
    /\ ~drawn
    /\ sample' = [x \in 1..(IF wanted < Len(Type[dataset]) THEN wanted
                            ELSE Len(Type[dataset])) |-> x]
    /\ drawn' = TRUE
    /\ UNCHANGED <<asked, turn, cursor, progressed>>

(* Not more examples than are wanted: all of them, in the file's order.    *)
TakeAll ==
    /\ ~drawn
    /\ wanted >= Len(Type[dataset])
    /\ sample' = [x \in Pool(dataset) |-> x]
    /\ drawn' = TRUE
    /\ UNCHANGED <<asked, turn, cursor, progressed>>

Drawing ==
    /\ ~drawn
    /\ wanted < Len(Type[dataset])

(* The next example of the bucket whose turn it is, if it has any left.    *)
Draw ==
    /\ Drawing
    /\ turn \in Name(dataset)
    /\ Len(sample) < wanted
    /\ LET list == Shuffled[dataset][turn] IN
       IF cursor[turn] < Len(list)
       THEN /\ sample' = Append(sample, list[cursor[turn] + 1])
            /\ cursor' = [cursor EXCEPT ![turn] = @ + 1]
            /\ progressed' = TRUE
       ELSE UNCHANGED <<sample, cursor, progressed>>
    /\ turn' = turn + 1
    /\ UNCHANGED <<asked, drawn>>

(* The end of a round, or enough: another round unless there are enough,   *)
(* or this one has found all buckets exhausted.                            *)
EndRound ==
    /\ Drawing
    /\ turn \notin Name(dataset) \/ Len(sample) >= wanted
    /\ drawn' = (Len(sample) >= wanted \/ ~progressed)
    /\ turn' = 1
    /\ progressed' = FALSE
    /\ UNCHANGED <<asked, cursor, sample>>

SampleNext == TakeAll \/ Draw \/ EndRound

SampleSpec == SampleInit /\ [][SampleNext]_sampleVars

-----------------------------------------------------------------------------
(* Properties.                                                             *)

Size(b) == Cardinality({x \in Pool(dataset) : Type[dataset][x] = b})

Taken(b) == Cardinality({k \in DOMAIN sample : Type[dataset][sample[k]] = b})

(* The sample has as many examples as were asked for, or all there are; no *)
(* example twice; and a type has at most one more than any other type that *)
(* still has examples left: the largest bucket does not dominate.          *)
SampleIsSpread ==
    drawn =>
        /\ Len(sample) = IF wanted < Len(Type[dataset]) THEN wanted
                         ELSE Len(Type[dataset])
        /\ \A k \in DOMAIN sample : sample[k] \in Pool(dataset)
        /\ \A j, k \in DOMAIN sample : sample[j] = sample[k] => j = k
        /\ \A a, b \in Name(dataset) :
              Taken(a) < Size(a) => Taken(b) <= Taken(a) + 1

=============================================================================
