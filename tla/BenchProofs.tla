----------------------------- MODULE BenchProofs -----------------------------
(***************************************************************************)
(* The benchmark, for every dataset, seed, number of examples, limit of    *)
(* concurrency, answer and failure: the sample is spread over the types;   *)
(* run_benchmark loses no permit and its report is whole and paired; the   *)
(* four configurations are scored on the same units, and the cases of the  *)
(* disagreement analysis are errors in each of their matrices.             *)
(***************************************************************************)
EXTENDS BenchReport, FiniteSetTheorems, SequenceTheorems, TLAPS

List(b) == Shuffled[dataset][b]

Left(b) == cursor[b] < Len(List(b))

Few == wanted < Len(Type[dataset])

SampleTypeOK ==
    /\ dataset \in Dataset
    /\ wanted \in Nat
    /\ turn \in 1..(Buckets[dataset] + 1)
    /\ cursor \in [Name(dataset) -> Nat]
    /\ \A b \in Name(dataset) : cursor[b] <= Len(List(b))
    /\ progressed \in BOOLEAN
    /\ sample \in Seq(Pool(dataset))
    /\ drawn \in BOOLEAN

(* Of each bucket the first cursor[b] examples were taken, each once, and  *)
(* nothing else was.                                                       *)
TakenInOrder ==
    /\ \A k \in DOMAIN sample : \E b \in Name(dataset) :
          \E i \in 1..cursor[b] : sample[k] = List(b)[i]
    /\ \A b \in Name(dataset) : \A i \in 1..cursor[b] :
          \E k \in DOMAIN sample : sample[k] = List(b)[i]
    /\ \A j, k \in DOMAIN sample : sample[j] = sample[k] => j = k
    /\ Len(sample) <= wanted

Counted == \A b \in Name(dataset) : Taken(b) = cursor[b]

(* A bucket with examples left is behind no other by more than the one     *)
(* example that the other may have had in this round already.              *)
Even ==
    \A a, b \in Name(dataset) : Left(a) =>
        /\ cursor[b] <= cursor[a] + 1
        /\ ~drawn =>
              /\ (a < turn <=> b < turn) => cursor[b] <= cursor[a]
              /\ a < turn /\ b >= turn => cursor[b] + 1 <= cursor[a]

(* A round that has taken nothing has met exhausted buckets only.          *)
Spent == ~drawn /\ ~progressed => \A b \in Name(dataset) : b < turn => ~Left(b)

Enough == drawn => Len(sample) = wanted

SampleInv ==
    /\ SampleTypeOK
    /\ Few => TakenInOrder /\ Counted /\ Even /\ Spent /\ Enough
    /\ ~Few /\ drawn => sample = [x \in Pool(dataset) |-> x]

-----------------------------------------------------------------------------
(* The assumption, for the dataset at hand.                                *)
LEMMA ListFacts ==
    ASSUME dataset \in Dataset, NEW b \in Name(dataset)
    PROVE  /\ List(b) \in Seq(Nat)
           /\ Len(List(b)) \in Nat
           /\ DOMAIN List(b) = 1..Len(List(b))
           /\ \A i, j \in 1..Len(List(b)) : List(b)[i] = List(b)[j] => i = j
           /\ \A i \in 1..Len(List(b)) : /\ List(b)[i] \in Pool(dataset)
                                         /\ Type[dataset][List(b)[i]] = b
           /\ \A x \in Pool(dataset) : Type[dataset][x] = b =>
                 \E i \in 1..Len(List(b)) : List(b)[i] = x
<1>1. List(b) \in Seq(Nat)
  <2>1. Shuffled[dataset] \in Seq(Seq(Nat)) /\ DOMAIN Shuffled[dataset] = Name(dataset)
    BY SamplerAssumption
  <2>2. b \in 1..Len(Shuffled[dataset])
    BY <2>1, LenProperties
  <2> QED BY <2>1, <2>2, ElementOfSeq DEF List
<1>2. Len(List(b)) \in Nat /\ DOMAIN List(b) = 1..Len(List(b))
  BY <1>1, LenProperties
<1>3. /\ \A i, j \in DOMAIN List(b) : List(b)[i] = List(b)[j] => i = j
      /\ {List(b)[i] : i \in DOMAIN List(b)}
             = {x \in Pool(dataset) : Type[dataset][x] = b}
  BY SamplerAssumption DEF List
<1>4. \A i \in DOMAIN List(b) : List(b)[i] \in {x \in Pool(dataset) : Type[dataset][x] = b}
  BY <1>3
<1>5. \A x \in {x \in Pool(dataset) : Type[dataset][x] = b} :
          \E i \in DOMAIN List(b) : List(b)[i] = x
  BY <1>3
<1> QED BY <1>1, <1>2, <1>3, <1>4, <1>5

LEMMA PoolFacts ==
    ASSUME dataset \in Dataset
    PROVE  /\ Len(Type[dataset]) \in Nat
           /\ Buckets[dataset] \in Nat
           /\ \A x \in Pool(dataset) : Type[dataset][x] \in Name(dataset)
           /\ IsFiniteSet(Pool(dataset))
           /\ Cardinality(Pool(dataset)) = Len(Type[dataset])
<1>1. Type[dataset] \in Seq(Name(dataset)) /\ Buckets[dataset] \in Nat
  BY SamplerAssumption
<1>2. Len(Type[dataset]) \in Nat
  BY <1>1, LenProperties
<1>3. \A x \in Pool(dataset) : Type[dataset][x] \in Name(dataset)
  BY <1>1, ElementOfSeq DEF Pool
<1>4. /\ IsFiniteSet(1..Len(Type[dataset]))
      /\ Cardinality(1..Len(Type[dataset])) = Len(Type[dataset])
  BY <1>2, FS_Interval
<1> QED BY <1>1, <1>2, <1>3, <1>4 DEF Pool

(* A bucket's size is that of its list.                                    *)
LEMMA SizeIsLen ==
    ASSUME dataset \in Dataset, NEW b \in Name(dataset)
    PROVE  Size(b) = Len(List(b))
<1> DEFINE S == {x \in Pool(dataset) : Type[dataset][x] = b}
           n == Len(List(b))
<1>1. IsFiniteSet(1..n) /\ Cardinality(1..n) = n
  <2>1. n \in Int /\ n >= 0
    BY ListFacts
  <2> HIDE DEF n
  <2>2. IsFiniteSet(1..n) /\ Cardinality(1..n) = IF 1 > n THEN 0 ELSE n - 1 + 1
    BY <2>1, FS_Interval
  <2> QED BY <2>1, <2>2
<1>2. List(b) \in Bijection(1..n, S)
  <2>1. List(b) \in [1..n -> S]
    BY ListFacts, LenProperties
  <2>2. \A i, j \in 1..n : List(b)[i] = List(b)[j] => i = j
    BY ListFacts
  <2>3. \A x \in S : \E i \in 1..n : List(b)[i] = x
    BY ListFacts
  <2> QED BY <2>1, <2>2, <2>3 DEF Bijection, Injection, Surjection, IsInjective
<1> QED BY <1>1, <1>2, FS_Bijection DEF ExistsBijection, Size

-----------------------------------------------------------------------------
LEMMA SampleStart == SampleInit => SampleInv
<1> SUFFICES ASSUME SampleInit PROVE SampleInv
  OBVIOUS
<1> USE DEF SampleInit
<1>1. Len(sample) = 0 /\ DOMAIN sample = {} /\ sample \in Seq(Pool(dataset))
  BY EmptySeq, LenProperties
<1>2. wanted \in Nat
  BY SamplerAssumption
<1>3. SampleTypeOK
  <2>1. Buckets[dataset] \in Nat
    BY PoolFacts
  <2>2. \A b \in Name(dataset) : 0 <= Len(List(b))
    BY ListFacts
  <2>3. turn \in 1..(Buckets[dataset] + 1)
    BY <2>1
  <2> QED BY <1>1, <1>2, <2>2, <2>3 DEF SampleTypeOK
<1>4. TakenInOrder
  BY <1>1, <1>2 DEF TakenInOrder
<1>5. Counted
  <2> SUFFICES ASSUME NEW b \in Name(dataset) PROVE Taken(b) = 0
    BY DEF Counted
  <2>1. {k \in DOMAIN sample : Type[dataset][sample[k]] = b} = {}
    BY <1>1
  <2> QED BY <2>1, FS_EmptySet DEF Taken
<1>6. Even
  <2> SUFFICES ASSUME NEW a \in Name(dataset), NEW b \in Name(dataset) PROVE
        /\ cursor[b] <= cursor[a] + 1
        /\ cursor[b] <= cursor[a]
        /\ a >= turn
    BY DEF Even, Name
  <2> QED BY DEF Name
<1>7. Spent /\ Enough
  BY DEF Spent, Enough, Name
<1> QED BY <1>3, <1>4, <1>5, <1>6, <1>7 DEF SampleInv

LEMMA TakeAllKeeps == SampleInv /\ TakeAll => SampleInv'
<1> SUFFICES ASSUME SampleInv, TakeAll PROVE SampleInv'
  OBVIOUS
<1>1. dataset' = dataset /\ wanted' = wanted /\ ~Few /\ ~Few'
  BY PoolFacts DEF TakeAll, asked, Few, SampleInv, SampleTypeOK
<1>2. sample' \in Seq(Pool(dataset))
  <2>1. Len(Type[dataset]) \in Nat
    BY PoolFacts DEF SampleInv, SampleTypeOK
  <2> QED BY <2>1, IsASeq DEF TakeAll, Pool
<1>3. SampleTypeOK'
  BY <1>1, <1>2 DEF TakeAll, SampleInv, SampleTypeOK, List
<1> QED BY <1>1, <1>3 DEF TakeAll, SampleInv, Pool

-----------------------------------------------------------------------------
(* The step that takes an example.                                         *)

LEMMA TakeKeeps ==
    ASSUME SampleInv, Draw, Left(turn)
    PROVE  SampleInv'
<1> DEFINE x == List(turn)[cursor[turn] + 1]
<1>1. /\ dataset' = dataset /\ wanted' = wanted /\ Few /\ Few'
      /\ drawn' = drawn /\ ~drawn /\ progressed' = TRUE
      /\ turn \in Name(dataset) /\ turn' = turn + 1
      /\ Len(sample) < wanted
      /\ sample' = Append(sample, x)
      /\ cursor' = [cursor EXCEPT ![turn] = @ + 1]
  BY DEF Draw, Drawing, asked, Few, Left, List
<1>2. /\ SampleTypeOK /\ TakenInOrder /\ Counted /\ Even
  BY <1>1 DEF SampleInv
<1>3. /\ dataset \in Dataset
      /\ Len(sample) \in Nat /\ DOMAIN sample = 1..Len(sample)
      /\ \A b \in Name(dataset) : cursor[b] \in Nat /\ List(b)' = List(b)
      /\ Buckets[dataset] \in Nat /\ turn \in Nat
  BY <1>1, <1>2, LenProperties, PoolFacts DEF SampleTypeOK, List, Name
<1>4. cursor[turn] + 1 \in 1..Len(List(turn))
  BY <1>1, <1>3, ListFacts DEF Left
<1>5. x \in Pool(dataset) /\ Type[dataset][x] = turn
  BY <1>1, <1>3, <1>4, ListFacts
<1>6. /\ sample' \in Seq(Pool(dataset))
      /\ Len(sample') = Len(sample) + 1
      /\ DOMAIN sample' = 1..(Len(sample) + 1)
      /\ \A k \in DOMAIN sample : sample'[k] = sample[k]
      /\ sample'[Len(sample) + 1] = x
  BY <1>1, <1>2, <1>3, <1>5, LenProperties, AppendProperties DEF SampleTypeOK
<1>7. \A k \in DOMAIN sample : sample[k] # x
  <2> SUFFICES ASSUME NEW k \in DOMAIN sample, sample[k] = x PROVE FALSE
    OBVIOUS
  <2>1. PICK b \in Name(dataset) : \E i \in 1..cursor[b] : sample[k] = List(b)[i]
    BY <1>2 DEF TakenInOrder
  <2>2. PICK i \in 1..cursor[b] : sample[k] = List(b)[i]
    BY <2>1
  <2>3. i \in 1..Len(List(b))
    BY <1>2, <1>3, ListFacts DEF SampleTypeOK
  <2>4. b = turn
    BY <1>3, <1>5, <2>2, <2>3, ListFacts
  <2>5. i = cursor[turn] + 1
    <3>1. \A m, n \in 1..Len(List(turn)) : List(turn)[m] = List(turn)[n] => m = n
      BY <1>1, <1>3, ListFacts
    <3>2. List(turn)[i] = List(turn)[cursor[turn] + 1]
      BY <2>2, <2>4
    <3> QED BY <1>4, <2>3, <2>4, <3>1, <3>2
  <2> QED BY <1>3, <2>2, <2>4, <2>5
<1>8. SampleTypeOK'
  <2>1. \A b \in Name(dataset) : cursor'[b] <= Len(List(b))
    BY <1>1, <1>2, <1>3, <1>4, ListFacts DEF SampleTypeOK
  <2>2. turn' \in 1..(Buckets[dataset] + 1)
    BY <1>1, <1>3 DEF Name
  <2>3. cursor' \in [Name(dataset) -> Nat]
    BY <1>1, <1>2, <1>3 DEF SampleTypeOK
  <2> QED BY <1>1, <1>2, <1>3, <1>6, <2>1, <2>2, <2>3 DEF SampleTypeOK, Name
<1>9. TakenInOrder'
  <2>1. \A b \in Name(dataset) : cursor[b] <= cursor'[b]
    BY <1>1, <1>2, <1>3 DEF SampleTypeOK
  <2>2. ASSUME NEW k \in DOMAIN sample' PROVE
            \E b \in Name(dataset) : \E i \in 1..cursor'[b] : sample'[k] = List(b)[i]
    <3>1. CASE k \in DOMAIN sample
      <4>1. PICK b \in Name(dataset) : \E i \in 1..cursor[b] : sample[k] = List(b)[i]
        BY <1>2, <3>1 DEF TakenInOrder
      <4>2. PICK i \in 1..cursor[b] : sample[k] = List(b)[i]
        BY <4>1
      <4>3. i \in 1..cursor'[b]
        BY <1>1, <1>2, <1>3, <2>1, <4>2 DEF SampleTypeOK
      <4> QED BY <1>6, <3>1, <4>2, <4>3
    <3>2. CASE k = Len(sample) + 1
      <4>1. cursor'[turn] = cursor[turn] + 1
        BY <1>1, <1>2 DEF SampleTypeOK
      <4>2. cursor[turn] + 1 \in 1..cursor'[turn]
        BY <1>1, <1>3, <4>1
      <4> QED BY <1>1, <1>6, <3>2, <4>2
    <3> QED BY <1>3, <1>6, <3>1, <3>2
  <2>3. ASSUME NEW b \in Name(dataset), NEW i \in 1..cursor'[b] PROVE
            \E k \in DOMAIN sample' : sample'[k] = List(b)[i]
    <3>1. CASE i \in 1..cursor[b]
      <4>1. PICK k \in DOMAIN sample : sample[k] = List(b)[i]
        BY <1>2, <3>1 DEF TakenInOrder
      <4>2. k \in DOMAIN sample'
        BY <1>3, <1>6
      <4> QED BY <1>6, <4>1, <4>2
    <3>2. CASE i \notin 1..cursor[b]
      <4>1. b = turn /\ i = cursor[turn] + 1
        BY <1>1, <1>2, <1>3, <3>2 DEF SampleTypeOK
      <4>2. Len(sample) + 1 \in DOMAIN sample'
        BY <1>3, <1>6
      <4> QED BY <1>6, <4>1, <4>2
    <3> QED BY <3>1, <3>2
  <2>4. ASSUME NEW j \in DOMAIN sample', NEW k \in DOMAIN sample',
               sample'[j] = sample'[k]
        PROVE  j = k
    BY <1>2, <1>3, <1>6, <1>7, <2>4 DEF TakenInOrder
  <2>5. Len(sample') <= wanted'
    BY <1>1, <1>2, <1>3, <1>6 DEF SampleTypeOK
  <2>6. \A b \in Name(dataset)' : b \in Name(dataset) /\ List(b)' = List(b)
    BY <1>1, <1>3
  <2>7. \A k \in (DOMAIN sample)' : \E b \in Name(dataset)' :
            \E i \in (1..cursor[b])' : sample'[k] = List(b)'[i]
    BY <1>1, <2>2, <2>6
  <2>8. \A b \in Name(dataset)' : \A i \in (1..cursor[b])' :
            \E k \in (DOMAIN sample)' : sample'[k] = List(b)'[i]
    BY <1>1, <2>3, <2>6
  <2> QED BY <2>4, <2>5, <2>7, <2>8 DEF TakenInOrder
<1>10. Counted'
  <2> SUFFICES ASSUME NEW b \in Name(dataset) PROVE Taken(b)' = cursor'[b]
    BY <1>1 DEF Counted
  <2> DEFINE old == {k \in DOMAIN sample : Type[dataset][sample[k]] = b}
             new == {k \in DOMAIN sample' : Type[dataset][sample'[k]] = b}
  <2>1. IsFiniteSet(old) /\ Len(sample) + 1 \notin old
    <3>1. IsFiniteSet(DOMAIN sample) /\ old \in SUBSET DOMAIN sample
      BY <1>3, FS_Interval
    <3>2. IsFiniteSet(old)
      BY <3>1, FS_Subset
    <3> QED BY <1>3, <3>2
  <2>2. Cardinality(old) = cursor[b]
    BY <1>2 DEF Counted, Taken
  <2>3. CASE b = turn
    <3>1. new = old \cup {Len(sample) + 1}
      BY <1>3, <1>5, <1>6, <2>3
    <3>2. Cardinality(new) = Cardinality(old) + 1
      BY <2>1, <3>1, FS_AddElement
    <3> QED BY <1>1, <1>2, <2>2, <2>3, <3>2 DEF SampleTypeOK, Taken
  <2>4. CASE b # turn
    <3>1. new = old
      BY <1>3, <1>5, <1>6, <2>4
    <3> QED BY <1>1, <1>2, <2>2, <2>4, <3>1 DEF SampleTypeOK, Taken
  <2> QED BY <2>3, <2>4
<1>11. Even'
  <2> SUFFICES ASSUME NEW a \in Name(dataset), NEW b \in Name(dataset), Left(a)'
               PROVE  /\ cursor'[b] <= cursor'[a] + 1
                      /\ (a < turn + 1 <=> b < turn + 1) => cursor'[b] <= cursor'[a]
                      /\ a < turn + 1 /\ b >= turn + 1 => cursor'[b] + 1 <= cursor'[a]
    BY <1>1 DEF Even
  <2>1. \A c \in Name(dataset) :
            cursor'[c] = IF c = turn THEN cursor[c] + 1 ELSE cursor[c]
    BY <1>1, <1>2 DEF SampleTypeOK
  <2>2. Left(a)
    BY <1>1, <1>3, <2>1, ListFacts DEF Left
  <2>3. \A c, d \in {a, b, turn} : Left(c) =>
            /\ cursor[d] <= cursor[c] + 1
            /\ (c < turn <=> d < turn) => cursor[d] <= cursor[c]
            /\ c < turn /\ d >= turn => cursor[d] + 1 <= cursor[c]
    BY <1>1, <1>2 DEF Even
  <2>4. a \in Nat /\ b \in Nat /\ cursor[a] \in Nat /\ cursor[b] \in Nat
        /\ cursor[turn] \in Nat
    BY <1>1, <1>3 DEF Name
  <2> QED BY <1>3, <2>1, <2>2, <2>3, <2>4
<1>12. Spent' /\ Enough'
  BY <1>1 DEF Spent, Enough
<1> QED BY <1>1, <1>8, <1>9, <1>10, <1>11, <1>12 DEF SampleInv

(* What was taken is a matter of the sample and the cursors.               *)
LEMMA TakenFrame ==
    ASSUME dataset' = dataset, wanted' = wanted, sample' = sample, cursor' = cursor,
           TakenInOrder, Counted
    PROVE  TakenInOrder' /\ Counted'
<1>1. \A b : List(b)' = List(b) /\ Taken(b)' = Taken(b)
  BY DEF List, Taken
<1>2. TakenInOrder'
  <2>1. \A k \in DOMAIN sample : \E b \in Name(dataset) :
            \E i \in 1..cursor[b] : sample[k] = List(b)'[i]
    BY <1>1 DEF TakenInOrder
  <2>2. \A b \in Name(dataset) : \A i \in 1..cursor[b] :
            \E k \in DOMAIN sample : sample[k] = List(b)'[i]
    BY <1>1 DEF TakenInOrder
  <2> QED BY <2>1, <2>2 DEF TakenInOrder
<1>3. Counted'
  BY <1>1 DEF Counted
<1> QED BY <1>2, <1>3

(* The step that finds a bucket exhausted.                                 *)
LEMMA SkipKeeps ==
    ASSUME SampleInv, Draw, ~Left(turn)
    PROVE  SampleInv'
<1>1. /\ dataset' = dataset /\ wanted' = wanted /\ Few /\ Few'
      /\ drawn' = drawn /\ ~drawn /\ progressed' = progressed
      /\ turn \in Name(dataset) /\ turn' = turn + 1
      /\ sample' = sample /\ cursor' = cursor
  BY DEF Draw, Drawing, asked, Few, Left, List
<1>2. /\ SampleTypeOK /\ TakenInOrder /\ Counted /\ Even /\ Spent /\ Enough
  BY <1>1 DEF SampleInv
<1>3. /\ Buckets[dataset] \in Nat /\ turn \in Nat
      /\ \A b \in Name(dataset) : b \in Nat /\ cursor[b] \in Nat
  <2>1. dataset \in Dataset /\ cursor \in [Name(dataset) -> Nat]
    BY <1>2 DEF SampleTypeOK
  <2>2. Buckets[dataset] \in Nat
    BY <2>1, PoolFacts
  <2>3. \A b \in Name(dataset) : b \in Nat
    BY <2>2 DEF Name
  <2> QED BY <1>1, <2>1, <2>2, <2>3
<1>4. SampleTypeOK'
  <2>1. turn + 1 \in 1..(Buckets[dataset] + 1)
    BY <1>1, <1>3 DEF Name
  <2>2. /\ Name(dataset)' = Name(dataset) /\ Pool(dataset)' = Pool(dataset)
        /\ \A b : Len(List(b))' = Len(List(b))
    BY <1>1 DEF Name, Pool, List
  <2> QED BY <1>1, <1>2, <2>1, <2>2 DEF SampleTypeOK
<1>5. TakenInOrder' /\ Counted'
  BY <1>1, <1>2, TakenFrame
<1>6. Even'
  <2> SUFFICES ASSUME NEW a \in Name(dataset), NEW b \in Name(dataset), Left(a)'
               PROVE  /\ cursor[b] <= cursor[a] + 1
                      /\ (a < turn + 1 <=> b < turn + 1) => cursor[b] <= cursor[a]
                      /\ a < turn + 1 /\ b >= turn + 1 => cursor[b] + 1 <= cursor[a]
    BY <1>1 DEF Even
  <2>1. Left(a) /\ a # turn
    BY <1>1 DEF Left, List
  <2>2. /\ cursor[b] <= cursor[a] + 1
        /\ (a < turn <=> b < turn) => cursor[b] <= cursor[a]
        /\ a < turn /\ b >= turn => cursor[b] + 1 <= cursor[a]
    BY <1>1, <1>2, <2>1 DEF Even
  <2> QED BY <1>3, <2>1, <2>2
<1>7. Spent'
  <2> SUFFICES ASSUME ~progressed, NEW b \in Name(dataset), b < turn + 1
               PROVE  ~Left(b)
    BY <1>1 DEF Spent, Left, List
  <2>1. CASE b < turn
    BY <1>1, <1>2, <2>1 DEF Spent
  <2>2. CASE b = turn
    BY <2>2
  <2> QED BY <1>3, <2>1, <2>2
<1>8. Enough'
  BY <1>1, <1>2 DEF Enough
<1> QED BY <1>1, <1>4, <1>5, <1>6, <1>7, <1>8 DEF SampleInv

(* When every bucket is exhausted, every example has been taken.           *)
LEMMA AllTaken ==
    ASSUME SampleTypeOK, TakenInOrder, \A b \in Name(dataset) : ~Left(b)
    PROVE  Len(Type[dataset]) <= Len(sample)
<1>1. Len(sample) \in Nat /\ sample \in [1..Len(sample) -> Pool(dataset)]
  BY LenProperties DEF SampleTypeOK
<1>2. ASSUME NEW x \in Pool(dataset) PROVE \E k \in 1..Len(sample) : sample[k] = x
  <2> DEFINE b == Type[dataset][x]
  <2>1. b \in Name(dataset)
    BY PoolFacts DEF SampleTypeOK
  <2>2. PICK i \in 1..Len(List(b)) : List(b)[i] = x
    BY <2>1, ListFacts DEF SampleTypeOK
  <2>3. cursor[b] \in Nat /\ Len(List(b)) \in Nat /\ ~(cursor[b] < Len(List(b)))
    BY <2>1, ListFacts DEF SampleTypeOK, Left
  <2>4. i \in 1..cursor[b]
    BY <2>2, <2>3
  <2>5. PICK k \in DOMAIN sample : sample[k] = List(b)[i]
    BY <2>1, <2>4 DEF TakenInOrder
  <2> QED BY <1>1, <2>2, <2>5
<1>3. sample \in Surjection(1..Len(sample), Pool(dataset))
  BY <1>1, <1>2 DEF Surjection
<1>4. IsFiniteSet(1..Len(sample)) /\ Cardinality(1..Len(sample)) = Len(sample)
  BY <1>1, FS_Interval
<1>5. Cardinality(Pool(dataset)) <= Len(sample)
  BY <1>3, <1>4, FS_Surjection
<1> QED BY <1>5, PoolFacts DEF SampleTypeOK

LEMMA EndRoundKeeps == SampleInv /\ EndRound => SampleInv'
<1> SUFFICES ASSUME SampleInv, EndRound PROVE SampleInv'
  OBVIOUS
<1>1. /\ dataset' = dataset /\ wanted' = wanted /\ Few /\ Few' /\ ~drawn
      /\ turn' = 1 /\ progressed' = FALSE
      /\ sample' = sample /\ cursor' = cursor
      /\ drawn' = (Len(sample) >= wanted \/ ~progressed)
      /\ turn \notin Name(dataset) \/ Len(sample) >= wanted
  BY DEF EndRound, Drawing, asked, Few
<1>2. /\ SampleTypeOK /\ TakenInOrder /\ Counted /\ Even /\ Spent /\ Enough
  BY <1>1 DEF SampleInv
<1>3. /\ Buckets[dataset] \in Nat /\ turn \in Nat
      /\ Len(sample) \in Nat /\ wanted \in Nat /\ Len(Type[dataset]) \in Nat
      /\ \A b \in Name(dataset) : b \in Nat /\ b >= 1 /\ cursor[b] \in Nat
  <2>1. Buckets[dataset] \in Nat /\ Len(Type[dataset]) \in Nat
    BY <1>2, PoolFacts DEF SampleTypeOK
  <2>2. \A b \in Name(dataset) : b \in Nat /\ b >= 1 /\ cursor[b] \in Nat
    BY <1>2, <2>1 DEF SampleTypeOK, Name
  <2>3. turn \in Nat /\ wanted \in Nat /\ Len(sample) \in Nat
    BY <1>2, <2>1, LenProperties DEF SampleTypeOK
  <2> QED BY <2>1, <2>2, <2>3
<1>4. \/ Len(sample) >= wanted
      \/ \A b \in Name(dataset) : b < turn
  BY <1>1, <1>2, <1>3 DEF SampleTypeOK, Name
<1>5. SampleTypeOK'
  <2>1. \A b \in Name(dataset) : List(b)' = List(b) /\ cursor[b] <= Len(List(b))
    BY <1>1, <1>2 DEF SampleTypeOK, List
  <2>2. 1 \in 1..(Buckets[dataset] + 1)
    BY <1>3
  <2>3. drawn' \in BOOLEAN /\ progressed' \in BOOLEAN
    BY <1>1
  <2> QED BY <1>1, <1>2, <2>1, <2>2, <2>3 DEF SampleTypeOK
<1>6. TakenInOrder' /\ Counted'
  BY <1>1, <1>2, TakenFrame
<1>7. Even'
  <2> SUFFICES ASSUME NEW a \in Name(dataset), NEW b \in Name(dataset), Left(a)
               PROVE  /\ cursor[b] <= cursor[a] + 1
                      /\ ~drawn' => cursor[b] <= cursor[a] /\ ~(a < 1)
    BY <1>1, <1>3 DEF Even, Left, List
  <2>1. /\ cursor[b] <= cursor[a] + 1
        /\ (a < turn <=> b < turn) => cursor[b] <= cursor[a]
    BY <1>1, <1>2 DEF Even
  <2>2. ASSUME ~drawn' PROVE a < turn /\ b < turn
    <3>1. ~(Len(sample) >= wanted)
      BY ONLY <1>1, <2>2
    <3> QED BY <1>4, <3>1
  <2>3. a \in Nat /\ a >= 1
    BY <1>3
  <2> QED BY <2>1, <2>2, <2>3
<1>8. Spent'
  BY <1>1, <1>3 DEF Spent
<1>9. Enough'
  <2> SUFFICES ASSUME drawn' PROVE Len(sample) = wanted
    BY <1>1 DEF Enough
  <2>1. CASE Len(sample) >= wanted
    BY <1>2, <1>3, <2>1 DEF TakenInOrder
  <2>2. CASE ~(Len(sample) >= wanted)
    <3>1. \A b \in Name(dataset) : ~Left(b)
      BY <1>1, <1>2, <1>4, <2>2 DEF Spent
    <3>2. Len(Type[dataset]) <= Len(sample)
      BY <1>2, <3>1, AllTaken
    <3> QED BY <1>1, <1>3, <2>2, <3>2 DEF Few
  <2> QED BY <2>1, <2>2
<1> QED BY <1>1, <1>5, <1>6, <1>7, <1>8, <1>9 DEF SampleInv

-----------------------------------------------------------------------------
LEMMA SpreadFromInv == SampleInv => SampleIsSpread
<1> SUFFICES ASSUME SampleInv, drawn PROVE SampleIsSpread
  BY DEF SampleIsSpread
<1>1. SampleTypeOK /\ wanted \in Nat /\ Len(Type[dataset]) \in Nat
  BY PoolFacts DEF SampleInv, SampleTypeOK
<1>2. \A k \in DOMAIN sample : sample[k] \in Pool(dataset)
  BY <1>1, ElementOfSeq, LenProperties DEF SampleTypeOK
<1>3. CASE Few
  <2>1. TakenInOrder /\ Counted /\ Even /\ Enough
    BY <1>3 DEF SampleInv
  <2>2. ASSUME NEW a \in Name(dataset), NEW b \in Name(dataset), Taken(a) < Size(a)
        PROVE  Taken(b) <= Taken(a) + 1
    <3>1. Left(a)
      BY <1>1, <2>1, <2>2, SizeIsLen DEF SampleTypeOK, Counted, Left
    <3> QED BY <2>1, <3>1 DEF Counted, Even
  <2> QED
    BY <1>2, <1>3, <2>1, <2>2 DEF SampleIsSpread, Few, TakenInOrder, Enough
<1>4. CASE ~Few
  <2>1. sample = [x \in Pool(dataset) |-> x]
    BY <1>4 DEF SampleInv
  <2>2. DOMAIN sample = Pool(dataset) /\ \A x \in Pool(dataset) : sample[x] = x
    BY <2>1
  <2>3. Len(sample) = Len(Type[dataset])
    <3>1. Len(sample) \in Nat /\ DOMAIN sample = 1..Len(sample)
      BY <1>1, LenProperties DEF SampleTypeOK
    <3>2. 1..Len(sample) = 1..Len(Type[dataset])
      BY <2>2, <3>1 DEF Pool
    <3> QED BY <1>1, <3>1, <3>2
  <2>4. ASSUME NEW a \in Name(dataset) PROVE Taken(a) = Size(a)
    <3>1. {k \in DOMAIN sample : Type[dataset][sample[k]] = a}
              = {x \in Pool(dataset) : Type[dataset][x] = a}
      BY <2>2
    <3> QED BY <3>1 DEF Taken, Size
  <2>5. \A a \in Name(dataset) : Size(a) \in Nat
    BY <1>1, SizeIsLen, ListFacts DEF SampleTypeOK
  <2>6. ASSUME NEW a \in Name(dataset), Taken(a) < Size(a) PROVE FALSE
    BY <2>4, <2>5, <2>6
  <2> QED
    BY <1>2, <1>4, <2>2, <2>3, <2>6 DEF SampleIsSpread, Few
<1> QED BY <1>3, <1>4

LEMMA SampleStep == SampleInv /\ [SampleNext]_sampleVars => SampleInv'
<1> SUFFICES ASSUME SampleInv, [SampleNext]_sampleVars PROVE SampleInv'
  OBVIOUS
<1>1. CASE TakeAll
  BY <1>1, TakeAllKeeps
<1>2. CASE Draw
  BY <1>2, TakeKeeps, SkipKeeps
<1>3. CASE EndRound
  BY <1>3, EndRoundKeeps
<1>4. CASE UNCHANGED sampleVars
  BY <1>4 DEF sampleVars, asked, SampleInv, SampleTypeOK, TakenInOrder, Counted,
     Taken, Even, Left, List, Spent, Enough, Few
<1> QED BY <1>1, <1>2, <1>3, <1>4 DEF SampleNext

(* Whatever the dataset, the seed and the number asked for: the sample has *)
(* that many examples, none twice, and no type dominates.                  *)
THEOREM SampleSpread == SampleSpec => []SampleIsSpread
BY SampleStart, SampleStep, SpreadFromInv, PTL DEF SampleSpec

-----------------------------------------------------------------------------
(* Numbers, and the concatenation of sequences.                            *)

(* A set of natural numbers has a least element.                           *)
LEMMA LeastNat ==
    ASSUME NEW T, T \subseteq Nat, T # {}
    PROVE  \E x \in T : \A y \in T : x <= y
<1> DEFINE Upto == {0..n : n \in T}
<1>1. Upto \subseteq FiniteSubsetsOf(Nat) /\ Upto # {}
  <2>1. \A n \in T : IsFiniteSet(0..n) /\ 0..n \subseteq Nat
    BY FS_Interval
  <2> QED BY <2>1 DEF FiniteSubsetsOf
<1>2. PICK u \in Upto : \A v \in Upto : <<v, u>> \notin StrictSubsetOrdering(Nat)
  BY <1>1, WFMin, FS_StrictSubsetOrderingWellFounded
<1>3. PICK x \in T : u = 0..x
  OBVIOUS
<1>4. ASSUME NEW y \in T, y < x PROVE FALSE
  <2>1. 0..y \in Upto
    OBVIOUS
  <2>2. 0..y \subseteq 0..x /\ x \in 0..x /\ x \notin 0..y
    BY <1>4
  <2>3. 0..y \in SUBSET Nat /\ 0..x \in SUBSET Nat /\ 0..y # 0..x
    BY <2>2
  <2> QED BY <1>2, <1>3, <2>1, <2>2, <2>3 DEF StrictSubsetOrdering
<1> QED BY <1>4

(* f is the concatenation of the first sequences of s, for each number of  *)
(* them.                                                                   *)
Flattens(f, s, n) ==
    f = [i \in 1..n |-> IF i = 1 THEN s[i] ELSE f[i - 1] \o s[i]]

LEMMA FlattensExists ==
    ASSUME NEW S, NEW n \in Nat, NEW s \in [1..n -> Seq(S)]
    PROVE  \A m \in 0..n : \E f : Flattens(f, s, m)
<1> DEFINE Bad == {m \in 0..n : ~\E f : Flattens(f, s, m)}
<1> SUFFICES ASSUME Bad # {} PROVE FALSE
  OBVIOUS
<1>1. PICK m \in Bad : \A y \in Bad : m <= y
  <2>1. Bad \subseteq Nat
    OBVIOUS
  <2> HIDE DEF Bad
  <2> QED BY <2>1, LeastNat
<1>2. CASE m = 0
  <2>1. Flattens([i \in 1..0 |-> <<>>], s, 0)
    BY DEF Flattens
  <2> QED BY <1>2, <2>1
<1>3. CASE m # 0
  <2>1. m \in 0..n /\ m - 1 \in 0..n /\ ~(m <= m - 1) /\ m \in 1..n
    BY <1>3
  <2>a. m - 1 \notin Bad
    <3> HIDE DEF Bad
    <3> QED BY <1>1, <2>1, Zenon
  <2>2. PICK f : Flattens(f, s, m - 1)
    BY <2>1, <2>a
  <2> DEFINE last == IF m = 1 THEN s[m] ELSE f[m - 1] \o s[m]
             g == [i \in 1..m |-> IF i = m THEN last ELSE f[i]]
  <2>3. Flattens(g, s, m)
    <3>1. g = [i \in 1..m |-> IF i = 1 THEN s[i] ELSE g[i - 1] \o s[i]]
      <4> SUFFICES ASSUME NEW i \in 1..m
                   PROVE  g[i] = IF i = 1 THEN s[i] ELSE g[i - 1] \o s[i]
        OBVIOUS
      <4>1. CASE i = m /\ m = 1
        BY <4>1
      <4>2. CASE i = m /\ m # 1
        <5>1. m - 1 \in 1..m /\ m - 1 # m
          BY <4>2
        <5>2. g[m - 1] = f[m - 1]
          BY <5>1
        <5> QED BY <4>2, <5>2
      <4>3. CASE i # m
        <5>1. i \in 1..(m - 1)
          BY <4>3
        <5>2. f[i] = IF i = 1 THEN s[i] ELSE f[i - 1] \o s[i]
          BY <2>2, <5>1 DEF Flattens
        <5>3. i # 1 => i - 1 \in 1..m /\ i - 1 # m
          OBVIOUS
        <5>4. i # 1 => g[i - 1] = f[i - 1]
          BY <5>3
        <5>5. g[i] = f[i]
          BY <4>3
        <5> HIDE DEF g, last
        <5> QED BY <5>2, <5>4, <5>5
      <4> QED BY <4>1, <4>2, <4>3
    <3> HIDE DEF g
    <3> QED BY <3>1 DEF Flattens
  <2> QED BY <2>1, <2>3
<1> QED BY <1>2, <1>3

LEMMA FlattenIs ==
    ASSUME NEW S, NEW s \in Seq(Seq(S)), s # << >>
    PROVE  \E f : Flattens(f, s, Len(s)) /\ FlattenSeq(s) = f[Len(s)]
<1>1. Len(s) \in Nat /\ Len(s) # 0 /\ s \in [1..Len(s) -> Seq(S)]
  OBVIOUS
<1>2. \E f : Flattens(f, s, Len(s))
  BY <1>1, FlattensExists
<1> DEFINE g == CHOOSE f : f = [i \in 1..Len(s) |-> IF i = 1 THEN s[i] ELSE f[i - 1] \o s[i]]
<1>3. Flattens(g, s, Len(s))
  BY <1>2, Zenon DEF Flattens
<1>4. FlattenSeq(s) = g[Len(s)]
  BY <1>1, Zenon DEF FlattenSeq
<1> QED BY <1>3, <1>4

Keyed(S, T, key) == key \in [S -> T]

(* What a function makes of the elements of a sequence.                    *)
Mapped(key, s) == [k \in 1..Len(s) |-> key[s[k]]]

LEMMA MappedIs ==
    ASSUME NEW S, NEW T, NEW key \in [S -> T], NEW s \in Seq(S)
    PROVE  /\ Mapped(key, s) \in Seq(T)
           /\ Len(Mapped(key, s)) = Len(s)
           /\ \A k \in 1..Len(s) : Mapped(key, s)[k] = key[s[k]]
<1>1. Len(s) \in Nat /\ \A k \in 1..Len(s) : key[s[k]] \in T
  OBVIOUS
<1>2. Mapped(key, s) \in [1..Len(s) -> T]
  BY <1>1 DEF Mapped
<1>3. Mapped(key, s) \in Seq(T) /\ DOMAIN Mapped(key, s) = 1..Len(s)
  BY <1>1, <1>2
<1>4. Len(Mapped(key, s)) = Len(s)
  BY <1>1, <1>3, LenProperties
<1> QED BY <1>3, <1>4 DEF Mapped

LEMMA MappedConcat ==
    ASSUME NEW S, NEW T, NEW key, Keyed(S, T, key), NEW s \in Seq(S), NEW t \in Seq(S)
    PROVE  Mapped(key, s \o t) = Mapped(key, s) \o Mapped(key, t)
<1> SUFFICES ASSUME key \in [S -> T]
             PROVE  Mapped(key, s \o t) = Mapped(key, s) \o Mapped(key, t)
  BY DEF Keyed
<1>1. PICK m \in Nat, n \in Nat : m = Len(s) /\ n = Len(t)
  OBVIOUS
<1>2. PICK u \in Seq(T), v \in Seq(T) : u = Mapped(key, s) /\ v = Mapped(key, t)
  BY MappedIs
<1>3. /\ Len(u) = m /\ \A k \in 1..m : u[k] = key[s[k]]
      /\ Len(v) = n /\ \A k \in 1..n : v[k] = key[t[k]]
  BY <1>1, <1>2, MappedIs
<1>4. PICK w \in Seq(S) : w = s \o t
  <2>1. s \o t \in Seq(S)
    BY ConcatProperties
  <2> QED BY <2>1
<1>5. Len(w) = m + n /\ \A k \in 1..m : w[k] = s[k]
  BY <1>1, <1>4
<1>a. ASSUME NEW k \in 1..n PROVE m + k \in 1..(m + n) /\ w[m + k] = t[k] /\ (u \o v)[m + k] = v[k]
  <2>1. m + k \in 1..(m + n) /\ ~(m + k <= m) /\ (m + k) - m = k
    OBVIOUS
  <2>2. (s \o t)[m + k] = t[k]
    BY <1>1, <2>1
  <2>3. (u \o v)[m + k] = v[k]
    <3>1. Len(u) = m /\ Len(v) = n
      BY <1>3
    <3>2. (u \o v)[m + k] = IF m + k <= m THEN u[m + k] ELSE v[(m + k) - m]
      BY <2>1, <3>1, ConcatProperties
    <3> QED BY <2>1, <3>2
  <2> QED BY <1>4, <2>1, <2>2, <2>3
<1>6. u \o v \in Seq(T) /\ Len(u \o v) = m + n
  BY <1>3, ConcatProperties
<1>7. \A k \in 1..m : (u \o v)[k] = u[k]
  BY <1>3
<1>8. ASSUME NEW k \in 1..(m + n) PROVE (u \o v)[k] = key[w[k]]
  <2>1. CASE k \in 1..m
    BY <1>3, <1>5, <1>7, <2>1
  <2>2. CASE k \notin 1..m
    <3>1. PICK l \in 1..n : k = m + l
      <4>1. k - m \in 1..n /\ k = m + (k - m)
        BY <2>2
      <4> QED BY <4>1
    <3> QED BY <1>3, <1>a, <3>1, Zenon
  <2> QED BY <2>1, <2>2
<1>9. u \o v = [k \in 1..(m + n) |-> (u \o v)[k]]
  <2>1. DOMAIN (u \o v) = 1..(m + n)
    BY <1>6
  <2>2. PICK x \in Seq(T) : x = u \o v
    BY <1>6
  <2>3. x = [k \in DOMAIN x |-> x[k]]
    OBVIOUS
  <2> QED BY <2>1, <2>2, <2>3
<1>10. u \o v = [k \in 1..(m + n) |-> key[w[k]]]
  BY <1>8, <1>9, Zenon
<1> QED BY <1>2, <1>4, <1>5, <1>10 DEF Mapped

EachMapped(S, T, key, s, t) ==
    /\ key \in [S -> T]
    /\ s \in Seq(Seq(S))
    /\ t = [i \in 1..Len(s) |-> Mapped(key, s[i])]

(* The concatenation of what key makes of some sequences is what it makes  *)
(* of their concatenation.                                                 *)
LEMMA FlattenMapped ==
    ASSUME NEW S, NEW T, NEW key, NEW s, NEW t, EachMapped(S, T, key, s, t)
    PROVE  /\ FlattenSeq(s) \in Seq(S)
           /\ FlattenSeq(t) = Mapped(key, FlattenSeq(s))
<1> SUFFICES ASSUME key \in [S -> T], s \in Seq(Seq(S)),
                    t = [i \in 1..Len(s) |-> Mapped(key, s[i])]
             PROVE  FlattenSeq(s) \in Seq(S) /\ FlattenSeq(t) = Mapped(key, FlattenSeq(s))
  BY DEF EachMapped
<1>c. \A a, b \in Seq(S) : Mapped(key, a \o b) = Mapped(key, a) \o Mapped(key, b)
  <2>1. Keyed(S, T, key)
    BY DEF Keyed
  <2> QED BY <2>1, MappedConcat
<1>1. PICK n \in Nat : n = Len(s)
  OBVIOUS
<1>2. \A i \in 1..n : s[i] \in Seq(S) /\ t[i] = Mapped(key, s[i])
  BY <1>1
<1>3. t \in Seq(Seq(T)) /\ Len(t) = n
  <2>1. ASSUME NEW i \in 1..n PROVE t[i] \in Seq(T)
    <3>1. PICK u \in Seq(S) : u = s[i]
      BY <1>2
    <3>2. Mapped(key, u) \in Seq(T)
      BY MappedIs
    <3> QED BY <1>2, <3>1, <3>2
  <2>2. t \in [1..n -> Seq(T)]
    BY <1>1, <2>1
  <2>3. t \in Seq(Seq(T)) /\ DOMAIN t = 1..n
    BY <2>2
  <2> QED BY <2>3, LenProperties
<1>4. CASE n = 0
  <2>1. s = << >> /\ t = << >>
    BY <1>1, <1>3, <1>4, EmptySeq
  <2>2. FlattenSeq(s) = s /\ FlattenSeq(t) = t
    BY <1>1, <1>3, <1>4, Zenon DEF FlattenSeq
  <2>3. << >> \in Seq(S) /\ Mapped(key, << >>) = << >>
    BY DEF Mapped
  <2> QED BY <2>1, <2>2, <2>3, Zenon
<1>5. CASE n # 0
  <2>1. s # << >> /\ t # << >>
    BY <1>1, <1>3, <1>5
  <2>2. PICK f : Flattens(f, s, n) /\ FlattenSeq(s) = f[n]
    BY <1>1, <2>1, FlattenIs
  <2>3. PICK g : Flattens(g, t, n) /\ FlattenSeq(t) = g[n]
    BY <1>3, <2>1, FlattenIs
  <2> DEFINE Good(m) == f[m] \in Seq(S) /\ g[m] = Mapped(key, f[m])
             Bad == {m \in 1..n : ~Good(m)}
  <2>4. /\ 1 \in 1..n => f[1] = s[1] /\ g[1] = t[1]
        /\ \A i \in 1..n : i # 1 => f[i] = f[i - 1] \o s[i] /\ g[i] = g[i - 1] \o t[i]
    <3>1. \A i \in 1..n : f[i] = IF i = 1 THEN s[i] ELSE f[i - 1] \o s[i]
      BY <2>2 DEF Flattens
    <3>2. \A i \in 1..n : g[i] = IF i = 1 THEN t[i] ELSE g[i - 1] \o t[i]
      BY <2>3 DEF Flattens
    <3> QED BY <3>1, <3>2
  <2>5. Bad = {}
    <3> SUFFICES ASSUME Bad # {} PROVE FALSE
      OBVIOUS
    <3>1. PICK m \in Bad : \A y \in Bad : m <= y
      <4>1. Bad \subseteq Nat
        OBVIOUS
      <4> HIDE DEF Bad
      <4> QED BY <4>1, LeastNat
    <3>2. m \in 1..n /\ ~Good(m)
      OBVIOUS
    <3>3. CASE m = 1
      <4>1. f[1] = s[1] /\ g[1] = t[1] /\ 1 \in 1..n
        BY <2>4, <3>2, <3>3
      <4> QED BY <1>2, <3>2, <3>3, <4>1
    <3>4. CASE m # 1
      <4>1. m - 1 \in 1..n /\ ~(m <= m - 1)
        BY <3>2, <3>4
      <4>2. m - 1 \notin Bad
        <5> HIDE DEF Bad
        <5> QED BY <3>1, <4>1, Zenon
      <4>3. Good(m - 1)
        BY <4>1, <4>2
      <4>4. f[m] = f[m - 1] \o s[m] /\ g[m] = g[m - 1] \o t[m]
        BY <2>4, <3>2, <3>4
      <4>5. PICK a \in Seq(S), b \in Seq(S) : a = f[m - 1] /\ b = s[m]
        BY <1>2, <3>2, <4>3
      <4>6. f[m] = a \o b /\ g[m] = Mapped(key, a) \o Mapped(key, b)
        BY <1>2, <3>2, <4>3, <4>4, <4>5
      <4>7. a \o b \in Seq(S) /\ g[m] = Mapped(key, a \o b)
        <5>1. Mapped(key, a \o b) = Mapped(key, a) \o Mapped(key, b)
          BY <1>c, Zenon
        <5>2. a \o b \in Seq(S)
          BY ConcatProperties
        <5> QED BY <4>6, <5>1, <5>2
      <4> QED BY <3>2, <4>6, <4>7
    <3> QED BY <3>3, <3>4
  <2>6. Good(n)
    <3>1. n \in 1..n
      BY <1>5
    <3> QED BY <2>5, <3>1
  <2> QED BY <2>2, <2>3, <2>6, Zenon
<1> QED BY <1>4, <1>5

-----------------------------------------------------------------------------
(* What an example has been asked when its task has come to some place.    *)

Claim == [resolved : BOOLEAN, overlaps : BOOLEAN]

(* The k-th record of an example.                                          *)
Nth(e, k) == <<e, 1 + ((k - 1) \div 4), AllConfigs[1 + ((k - 1) % 4)]>>

Asked(e, cs, rs) ==
    \A k \in 1..Len(rs) :
       /\ <<rs[k].example, rs[k].claim, rs[k].config>> = Nth(e, k)
       /\ rs[k].overlaps = cs[1 + ((k - 1) \div 4)].overlaps

Recorded(e, cs, rs, n) ==
    /\ rs \in Seq(Record)
    /\ Len(rs) = n
    /\ Asked(e, cs, rs)

TaskOk(e, st, cs, i, r, rs) ==
    /\ st \in {"semaphore", "decompose", "failed"} => rs = << >>
    /\ st \in {"judge", "entailment", "second"} =>
           i \in 1..Len(cs) /\ Len(rs) = 4 * (i - 1) + (r - 1)
    /\ st = "judge" => r = 1
    /\ st = "done" => Len(rs) = 4 * Len(cs)
    /\ Asked(e, cs, rs)

TasksOk ==
    \A e \in Tasks : TaskOk(e, stage[e], claims[e], at[e], round[e], records[e])

Typed(st, cs, i, r, v, t) ==
    /\ st \in Stage
    /\ cs \in Seq(Claim)
    /\ i \in Nat \ {0}
    /\ r \in 1..4
    /\ v \in Votes
    /\ t \in SUBSET {"prober", "independent"}

Busy(st) == IF st \in InFlight THEN 1 ELSE 0

Placed(st, cs, i, r, v, t, rs, e) ==
    /\ stage' = [stage EXCEPT ![e] = st]
    /\ claims' = [claims EXCEPT ![e] = cs]
    /\ at' = [at EXCEPT ![e] = i]
    /\ round' = [round EXCEPT ![e] = r]
    /\ votes' = [votes EXCEPT ![e] = v]
    /\ todo' = [todo EXCEPT ![e] = t]
    /\ records' = [records EXCEPT ![e] = rs]
    /\ permits' = permits + Busy(stage[e]) - Busy(st)
    /\ UNCHANGED result

Loaded ==
    /\ sample \in Seq(Nat)
    /\ phase # "sampling" => drawn

AtEnd ==
    IF phase = "reported"
    THEN /\ \A e \in Example : stage[e] \in {"done", "failed"}
         /\ report = FlattenSeq(records)
    ELSE report = << >>

BenchInv == TypeOK /\ TasksOk /\ Loaded /\ AtEnd

-----------------------------------------------------------------------------
LEMMA ConfigFacts ==
    /\ Len(AllConfigs) = 4
    /\ \A k \in 1..4 : AllConfigs[k] \in BenchConfig
BY DEF AllConfigs, BenchConfig

(* k - 1 = 4 * quotient + remainder.                                       *)
LEMMA Quarters ==
    ASSUME NEW k \in Nat \ {0}
    PROVE  /\ (k - 1) \div 4 \in Nat
           /\ (k - 1) % 4 \in 0..3
           /\ k - 1 = 4 * ((k - 1) \div 4) + ((k - 1) % 4)
OBVIOUS

LEMMA QuartersShift ==
    ASSUME NEW a \in Nat, NEW b \in Nat
    PROVE  /\ (4 * a + b) \div 4 = a + (b \div 4)
           /\ (4 * a + b) % 4 = b % 4
OBVIOUS

LEMMA NthIs ==
    ASSUME NEW e, NEW i \in Nat \ {0}, NEW r \in 1..4
    PROVE  /\ (4 * (i - 1) + (r - 1)) \div 4 = i - 1
           /\ Nth(e, 4 * (i - 1) + r) = <<e, i, AllConfigs[r]>>
<1>1. /\ (4 * (i - 1) + (r - 1)) \div 4 = i - 1
      /\ (4 * (i - 1) + (r - 1)) % 4 = r - 1
  OBVIOUS
<1>2. (4 * (i - 1) + r) - 1 = 4 * (i - 1) + (r - 1)
  OBVIOUS
<1>3. 1 + (i - 1) = i /\ 1 + (r - 1) = r
  OBVIOUS
<1> QED BY <1>1, <1>2, <1>3 DEF Nth

-----------------------------------------------------------------------------
(* One task takes a step.                                                  *)

LEMMA TasksFinite == Loaded => IsFiniteSet(Tasks)
<1> SUFFICES ASSUME Loaded PROVE IsFiniteSet(Tasks)
  OBVIOUS
<1>1. PICK n \in Nat : n = Len(sample) /\ Example = 1..n
  BY LenProperties DEF Loaded, Example
<1>2. IsFiniteSet(1..n) /\ IsFiniteSet({})
  BY FS_Interval, FS_EmptySet
<1> QED BY <1>1, <1>2 DEF Tasks

Flying == {e \in Tasks : stage[e] \in InFlight}

LEMMA PermitsKept ==
    ASSUME TypeOK, Loaded, NEW e \in Tasks, NEW st,
           stage' = [stage EXCEPT ![e] = st], Tasks' = Tasks,
           permits' = permits + Busy(stage[e]) - Busy(st),
           st \in InFlight => stage[e] \in InFlight \/ permits > 0
    PROVE  /\ permits' = Concurrency - Cardinality(Flying')
           /\ permits' \in 0..Concurrency
<1>1. IsFiniteSet(Flying) /\ Cardinality(Flying) \in Nat /\ Concurrency \in Nat
  <2>1. Flying \in SUBSET Tasks
    BY DEF Flying
  <2>2. IsFiniteSet(Flying)
    BY <2>1, TasksFinite, FS_Subset
  <2> QED BY <2>2, FS_CardinalityType, BenchAssumption
<1>2. permits = Concurrency - Cardinality(Flying) /\ permits \in 0..Concurrency
  BY DEF TypeOK, Flying
<1>3. Flying' = IF st \in InFlight THEN Flying \cup {e} ELSE Flying \ {e}
  <2>1. \A d \in Tasks : stage'[d] = IF d = e THEN st ELSE stage[d]
    BY DEF TypeOK
  <2> QED BY <2>1 DEF Flying
<1>4. e \in Flying <=> stage[e] \in InFlight
  BY DEF Flying
<1>5. /\ IsFiniteSet(Flying')
      /\ Cardinality(Flying') = Cardinality(Flying) - Busy(stage[e]) + Busy(st)
  <2>1. CASE st \in InFlight
    BY <1>1, <1>3, <1>4, <2>1, FS_AddElement DEF Busy
  <2>2. CASE st \notin InFlight
    BY <1>1, <1>3, <1>4, <2>2, FS_RemoveElement DEF Busy
  <2> QED BY <2>1, <2>2
<1>6. PICK c \in Nat, k \in Nat, m \in Nat, old \in {0, 1}, new \in {0, 1} :
          /\ c = Concurrency /\ k = Cardinality(Flying) /\ m = Cardinality(Flying')
          /\ old = Busy(stage[e]) /\ new = Busy(st)
  BY <1>1, <1>5, FS_CardinalityType DEF Busy
<1>7. /\ permits = c - k /\ permits' = permits + old - new /\ m = k - old + new
      /\ c - k \in 0..c /\ (new = 1 => old = 1 \/ c - k > 0)
  BY <1>2, <1>5, <1>6 DEF Busy
<1> QED BY <1>6, <1>7

LEMMA StepKeeps ==
    ASSUME BenchInv, NEW e \in Tasks, stage[e] \notin {"done", "failed"},
           NEW st, NEW cs, NEW i, NEW r, NEW v, NEW t, NEW rs \in Seq(Record),
           Placed(st, cs, i, r, v, t, rs, e), Typed(st, cs, i, r, v, t),
           TaskOk(e, st, cs, i, r, rs),
           st \in InFlight => stage[e] \in InFlight \/ permits > 0
    PROVE  BenchInv'
<1>1. /\ phase' = phase /\ report' = report /\ sample' = sample /\ drawn' = drawn
      /\ Tasks' = Tasks /\ Example' = Example /\ Record' = Record
  BY DEF Placed, result, sampleVars, Tasks, Example, Record
<1>2. \A d \in Tasks :
          /\ stage'[d] = IF d = e THEN st ELSE stage[d]
          /\ claims'[d] = IF d = e THEN cs ELSE claims[d]
          /\ at'[d] = IF d = e THEN i ELSE at[d]
          /\ round'[d] = IF d = e THEN r ELSE round[d]
          /\ records'[d] = IF d = e THEN rs ELSE records[d]
  BY DEF BenchInv, TypeOK, Placed
<1>3. TypeOK'
  <2>1. permits' = Concurrency - Cardinality(Flying') /\ permits' \in 0..Concurrency
    BY <1>1, PermitsKept DEF BenchInv, Placed
  <2>2. /\ stage' \in [Tasks -> Stage] /\ claims' \in [Tasks -> Seq(Claim)]
        /\ at' \in [Tasks -> Nat \ {0}]
    BY DEF BenchInv, TypeOK, Placed, Typed, Claim
  <2>3. /\ round' \in [Tasks -> 1..Len(AllConfigs)] /\ votes' \in [Tasks -> Votes]
        /\ todo' \in [Tasks -> SUBSET {"prober", "independent"}]
    BY ConfigFacts DEF BenchInv, TypeOK, Placed, Typed
  <2>4. records' \in [Tasks -> Seq(Record)]
    BY DEF BenchInv, TypeOK, Placed
  <2> QED BY <1>1, <2>1, <2>2, <2>3, <2>4 DEF BenchInv, TypeOK, Flying, Claim
<1>4. TasksOk'
  <2> SUFFICES ASSUME NEW d \in Tasks
               PROVE  TaskOk(d, stage'[d], claims'[d], at'[d], round'[d], records'[d])
    BY <1>1 DEF TasksOk
  <2>1. CASE d = e
    BY <1>2, <2>1
  <2>2. CASE d # e
    BY <1>2, <2>2 DEF BenchInv, TasksOk
  <2> QED BY <2>1, <2>2
<1>5. Loaded'
  BY <1>1 DEF BenchInv, Loaded
<1>6. AtEnd'
  <2>1. e \in Example
    BY DEF Tasks
  <2> QED BY <1>1, <2>1 DEF BenchInv, AtEnd
<1> QED BY <1>3, <1>4, <1>5, <1>6 DEF BenchInv

-----------------------------------------------------------------------------
(* The records a task writes.                                              *)

LEMMA ScoredIs ==
    ASSUME NEW e \in Example, NEW i \in Nat \ {0}, NEW c \in Claim, NEW r \in 1..4,
           NEW v \in Verdict
    PROVE  Scored(e, i, c, AllConfigs[r], v) \in Record
BY ConfigFacts DEF Scored, Record, Claim

LEMMA OneMore ==
    ASSUME NEW e \in Example, NEW cs \in Seq(Claim), NEW i \in 1..Len(cs),
           NEW r \in 1..4, NEW v \in Verdict,
           NEW rs, Recorded(e, cs, rs, 4 * (i - 1) + (r - 1))
    PROVE  Recorded(e, cs, Append(rs, Scored(e, i, cs[i], AllConfigs[r], v)), 4 * (i - 1) + r)
<1> SUFFICES ASSUME rs \in Seq(Record), Asked(e, cs, rs), Len(rs) = 4 * (i - 1) + (r - 1),
                    NEW all, all = Append(rs, Scored(e, i, cs[i], AllConfigs[r], v))
             PROVE  all \in Seq(Record) /\ Len(all) = 4 * (i - 1) + r /\ Asked(e, cs, all)
  BY DEF Recorded
<1>1. PICK x \in Record : x = Scored(e, i, cs[i], AllConfigs[r], v)
  <2>1. cs[i] \in Claim /\ i \in Nat \ {0}
    BY ElementOfSeq
  <2> QED BY <2>1, ScoredIs
<1>2. PICK n \in Nat : n = Len(rs) /\ n = 4 * (i - 1) + (r - 1)
  BY LenProperties
<1>3. /\ all \in Seq(Record) /\ Len(all) = n + 1
      /\ all[n + 1] = x /\ \A k \in 1..n : all[k] = rs[k]
  BY <1>1, <1>2
<1>4. n + 1 = 4 * (i - 1) + r /\ n \div 4 = i - 1 /\ (n + 1) - 1 = n /\ 1 + (i - 1) = i
  BY <1>2
<1>5. Nth(e, n + 1) = <<e, i, AllConfigs[r]>>
  <2>1. i \in Nat \ {0}
    BY LenProperties
  <2>2. Nth(e, 4 * (i - 1) + r) = <<e, i, AllConfigs[r]>>
    BY <2>1, NthIs
  <2> QED BY <1>4, <2>2
<1>6. ASSUME NEW k \in 1..(n + 1)
      PROVE  /\ <<all[k].example, all[k].claim, all[k].config>> = Nth(e, k)
             /\ all[k].overlaps = cs[1 + ((k - 1) \div 4)].overlaps
  <2>1. CASE k = n + 1
    <3>1. all[k] = x /\ 1 + ((k - 1) \div 4) = i
      BY <1>3, <1>4, <2>1
    <3>2. /\ x.example = e /\ x.claim = i /\ x.config = AllConfigs[r]
          /\ x.overlaps = cs[i].overlaps
      BY <1>1 DEF Scored
    <3> QED BY <1>5, <2>1, <3>1, <3>2
  <2>2. CASE k # n + 1
    <3>1. k \in 1..Len(rs) /\ all[k] = rs[k]
      BY <1>2, <1>3, <2>2
    <3> QED BY <3>1 DEF Asked
  <2> QED BY <2>1, <2>2
<1> QED BY <1>3, <1>4, <1>6 DEF Asked

(* The records of claims i to n - 1.                                       *)
Follow(sh, e, cs, i, n) ==
    \A k \in 1..(4 * (n - i)) :
       /\ <<sh[k].example, sh[k].claim>> = <<e, i + ((k - 1) \div 4)>>
       /\ sh[k].config = AllConfigs[1 + ((k - 1) % 4)]
       /\ sh[k].overlaps = cs[i + ((k - 1) \div 4)].overlaps

LEMMA SharedIs ==
    ASSUME NEW e \in Example, NEW cs \in Seq(Claim), NEW i \in Nat \ {0},
           NEW n \in Nat, i <= n, n <= Len(cs) + 1
    PROVE  /\ Shared(e, cs, i, n) \in Seq(Record)
           /\ Len(Shared(e, cs, i, n)) = 4 * (n - i)
           /\ Follow(Shared(e, cs, i, n), e, cs, i, n)
<1>1. PICK w \in Nat, m \in Nat : w = n - i /\ m = 4 * w
  OBVIOUS
<1> DEFINE x(k) == Scored(e, i + ((k - 1) \div 4), cs[i + ((k - 1) \div 4)],
                          AllConfigs[1 + ((k - 1) % 4)], "UNVERIFIABLE")
<1>2. Shared(e, cs, i, n) = [k \in 1..m |-> x(k)]
  BY <1>1, ConfigFacts DEF Shared
<1>3. ASSUME NEW k \in 1..m PROVE x(k) \in Record
  <2>1. PICK q \in Nat, r \in 0..3 :
           q = (k - 1) \div 4 /\ r = (k - 1) % 4 /\ k - 1 = 4 * q + r
    BY Quarters
  <2>2. q < w
    BY <1>1, <2>1
  <2>3. i + q \in 1..Len(cs) /\ i + q \in Nat \ {0} /\ 1 + r \in 1..4
    BY <1>1, <2>2, LenProperties
  <2>4. cs[i + q] \in Claim
    BY <2>3, ElementOfSeq
  <2>5. "UNVERIFIABLE" \in Verdict
    BY DEF Verdict
  <2>6. Scored(e, i + q, cs[i + q], AllConfigs[1 + r], "UNVERIFIABLE") \in Record
    BY <2>3, <2>4, <2>5, ScoredIs
  <2> QED BY <2>1, <2>6
<1>4. \A k \in 1..m : /\ <<x(k).example, x(k).claim>> = <<e, i + ((k - 1) \div 4)>>
                      /\ x(k).config = AllConfigs[1 + ((k - 1) % 4)]
                      /\ x(k).overlaps = cs[i + ((k - 1) \div 4)].overlaps
  BY DEF Scored
<1> HIDE DEF x
<1>5. [k \in 1..m |-> x(k)] \in [1..m -> Record]
  BY <1>3
<1>6. /\ Shared(e, cs, i, n) \in Seq(Record)
      /\ DOMAIN Shared(e, cs, i, n) = 1..m
      /\ \A k \in 1..m : Shared(e, cs, i, n)[k] = x(k)
  BY <1>2, <1>5
<1>7. Len(Shared(e, cs, i, n)) = m
  BY <1>6, LenProperties
<1>8. Follow(Shared(e, cs, i, n), e, cs, i, n)
  BY <1>1, <1>4, <1>6 DEF Follow
<1> QED BY <1>1, <1>6, <1>7, <1>8

LEMMA ManyMore ==
    ASSUME NEW e \in Example, NEW cs \in Seq(Claim), NEW i \in Nat \ {0},
           NEW n \in Nat, i <= n, n <= Len(cs) + 1,
           NEW rs, Recorded(e, cs, rs, 4 * (i - 1))
    PROVE  Recorded(e, cs, rs \o Shared(e, cs, i, n), 4 * (n - 1))
<1> SUFFICES ASSUME rs \in Seq(Record), Asked(e, cs, rs), Len(rs) = 4 * (i - 1),
                    NEW all, all = rs \o Shared(e, cs, i, n)
             PROVE  all \in Seq(Record) /\ Len(all) = 4 * (n - 1) /\ Asked(e, cs, all)
  BY DEF Recorded
<1>1. PICK sh \in Seq(Record) : /\ sh = Shared(e, cs, i, n) /\ Len(sh) = 4 * (n - i)
                                /\ Follow(sh, e, cs, i, n)
  BY SharedIs
<1>2. PICK a \in Nat, b \in Nat, m \in Nat, p \in Nat :
          a = i - 1 /\ b = n - i /\ m = 4 * a /\ p = 4 * b
  OBVIOUS
<1>3. Len(rs) = m /\ Len(sh) = p /\ m + p = 4 * (n - 1)
  BY <1>1, <1>2, SharedIs
<1>4. all \in Seq(Record) /\ Len(all) = m + p
  BY <1>1, <1>3, ConcatProperties
<1>5. \A k \in 1..m : all[k] = rs[k]
  BY <1>1, <1>3
<1>6. ASSUME NEW l \in 1..p PROVE all[m + l] = sh[l]
  <2>1. m + l \in 1..(m + p) /\ ~(m + l <= m) /\ (m + l) - m = l
    OBVIOUS
  <2>2. all = rs \o sh /\ Len(rs) = m /\ Len(sh) = p
    BY <1>1, <1>3
  <2>3. PICK R : R = Record
    OBVIOUS
  <2>4. rs \in Seq(R) /\ sh \in Seq(R)
    BY <2>3
  <2>5. (rs \o sh)[m + l] = IF m + l <= m THEN rs[m + l] ELSE sh[(m + l) - m]
    BY <2>1, <2>2, <2>4, ConcatProperties
  <2> QED BY <2>1, <2>2, <2>5
<1>7. ASSUME NEW k \in 1..(m + p)
      PROVE  /\ <<all[k].example, all[k].claim, all[k].config>> = Nth(e, k)
             /\ all[k].overlaps = cs[1 + ((k - 1) \div 4)].overlaps
  <2>1. CASE k \in 1..m
    <3>1. all[k] = rs[k] /\ k \in 1..Len(rs)
      BY <1>3, <1>5, <2>1
    <3> QED BY <3>1 DEF Asked
  <2>2. CASE k \notin 1..m
    <3>1. PICK l \in 1..p : k = m + l
      <4>1. k - m \in 1..p /\ k = m + (k - m)
        BY <2>2
      <4> QED BY <4>1
    <3>2. /\ (k - 1) \div 4 = a + ((l - 1) \div 4)
          /\ (k - 1) % 4 = (l - 1) % 4
      <4>1. l - 1 \in Nat /\ k - 1 = 4 * a + (l - 1)
        BY <1>2, <3>1
      <4> QED BY <4>1, QuartersShift
    <3>3. (l - 1) \div 4 \in Nat
      BY Quarters
    <3>4. i + ((l - 1) \div 4) = 1 + ((k - 1) \div 4)
      BY <1>2, <3>2, <3>3
    <3>5. l \in 1..(4 * (n - i))
      BY <1>2
    <3>6. /\ <<sh[l].example, sh[l].claim>> = <<e, i + ((l - 1) \div 4)>>
          /\ sh[l].config = AllConfigs[1 + ((l - 1) % 4)]
          /\ sh[l].overlaps = cs[i + ((l - 1) \div 4)].overlaps
      BY <1>1, <3>5 DEF Follow
    <3> QED BY <1>6, <3>1, <3>2, <3>4, <3>6 DEF Nth
  <2> QED BY <2>1, <2>2
<1> QED BY <1>3, <1>4, <1>7 DEF Asked

-----------------------------------------------------------------------------
(* The steps of a task.                                                    *)

LEMMA TaskTypes ==
    ASSUME TypeOK, NEW e \in Tasks
    PROVE  /\ Typed(stage[e], claims[e], at[e], round[e], votes[e], todo[e])
           /\ records[e] \in Seq(Record)
           /\ e \in Example
BY ConfigFacts DEF TypeOK, Typed, Tasks, Claim

LEMMA NothingVoted == NoVotes \in Votes
BY DEF NoVotes, Votes

LEMMA Ends ==
    ASSUME BenchInv, NEW e \in Tasks, stage[e] \in InFlight,
           NEW cs \in Seq(Claim), NEW end \in {"done", "failed"}, NEW rs \in Seq(Record),
           TaskOk(e, end, cs, 1, 1, rs),
           Leave(e, end, rs), claims' = [claims EXCEPT ![e] = cs], UNCHANGED result
    PROVE  BenchInv'
<1>1. Placed(end, cs, 1, 1, NoVotes, {}, rs, e)
  <2>1. permits + 1 = permits + Busy(stage[e]) - Busy(end)
    <3>1. Busy(stage[e]) = 1 /\ Busy(end) = 0 /\ permits \in Int
      BY BenchAssumption DEF Busy, InFlight, BenchInv, TypeOK
    <3> QED BY <3>1
  <2> QED BY <2>1 DEF Placed, Leave
<1>2. Typed(end, cs, 1, 1, NoVotes, {})
  BY NothingVoted DEF Typed, Stage
<1>3. stage[e] \notin {"done", "failed"} /\ end \notin InFlight
  BY DEF InFlight
<1> QED BY <1>1, <1>2, <1>3, StepKeeps

LEMMA Stays ==
    ASSUME BenchInv, NEW e \in Tasks, stage[e] \in InFlight,
           NEW st \in InFlight, NEW cs, NEW i, NEW r, NEW v, NEW t, NEW rs \in Seq(Record),
           Typed(st, cs, i, r, v, t), TaskOk(e, st, cs, i, r, rs),
           stage' = [stage EXCEPT ![e] = st], claims' = [claims EXCEPT ![e] = cs],
           at' = [at EXCEPT ![e] = i], round' = [round EXCEPT ![e] = r],
           votes' = [votes EXCEPT ![e] = v], todo' = [todo EXCEPT ![e] = t],
           records' = [records EXCEPT ![e] = rs], permits' = permits, UNCHANGED result
    PROVE  BenchInv'
<1>1. permits = permits + Busy(stage[e]) - Busy(st)
  <2>1. Busy(stage[e]) = 1 /\ Busy(st) = 1 /\ permits \in Int
    BY BenchAssumption DEF Busy, BenchInv, TypeOK
  <2> QED BY <2>1
<1>2. Placed(st, cs, i, r, v, t, rs, e)
  BY <1>1 DEF Placed
<1>3. stage[e] \notin {"done", "failed"}
  BY DEF InFlight
<1> QED BY <1>2, <1>3, StepKeeps

LEMMA GoKeeps ==
    ASSUME BenchInv, NEW e \in Tasks, stage[e] \in InFlight,
           NEW cs \in Seq(Claim), NEW i \in Nat \ {0}, i <= Len(cs) + 1,
           NEW rs \in Seq(Record), Asked(e, cs, rs), Len(rs) = 4 * (i - 1),
           Go(e, cs, i, rs), claims' = [claims EXCEPT ![e] = cs], UNCHANGED result
    PROVE  BenchInv'
<1> DEFINE open == {j \in i..Len(cs) : ~cs[j].resolved}
           next == IF open = {} THEN Len(cs) + 1
                   ELSE CHOOSE j \in open : \A o \in open : j <= o
           upto == rs \o Shared(e, cs, i, next)
<1>0. Len(cs) \in Nat /\ e \in Example
  BY LenProperties, TaskTypes DEF BenchInv
<1>1. CASE open = {}
  <2>1. PICK n \in Nat : n = Len(cs) + 1
    BY <1>0
  <2>2. PICK all : all = rs \o Shared(e, cs, i, n)
    OBVIOUS
  <2>3. all \in Seq(Record) /\ Len(all) = 4 * (n - 1) /\ Asked(e, cs, all)
    <3>1. i <= n /\ n <= Len(cs) + 1
      BY <2>1
    <3>2. Recorded(e, cs, rs, 4 * (i - 1))
      BY DEF Recorded
    <3>3. Recorded(e, cs, rs \o Shared(e, cs, i, n), 4 * (n - 1))
      BY <1>0, <3>1, <3>2, ManyMore
    <3> QED BY <2>2, <3>3 DEF Recorded
  <2>4. Leave(e, "done", all)
    BY <1>1, <2>1, <2>2 DEF Go
  <2>5. TaskOk(e, "done", cs, 1, 1, all)
    BY <1>0, <2>1, <2>3 DEF TaskOk
  <2> QED BY <2>3, <2>4, <2>5, Ends
<1>2. CASE open # {}
  <2>1. PICK n \in open : n = next
    <3>1. open \subseteq Nat
      BY <1>0
    <3> HIDE DEF open
    <3>2. \E j \in open : \A o \in open : j <= o
      BY <1>2, <3>1, LeastNat
    <3> QED BY <1>2, <3>2
  <2>2. n \in Nat \ {0} /\ i <= n /\ n <= Len(cs) + 1 /\ n \in 1..Len(cs)
    BY <1>0
  <2>3. PICK all : all = rs \o Shared(e, cs, i, n)
    OBVIOUS
  <2>4. all \in Seq(Record) /\ Len(all) = 4 * (n - 1) /\ Asked(e, cs, all)
    <3>1. Recorded(e, cs, rs, 4 * (i - 1))
      BY DEF Recorded
    <3>2. Recorded(e, cs, rs \o Shared(e, cs, i, n), 4 * (n - 1))
      BY <1>0, <2>2, <3>1, ManyMore
    <3> QED BY <2>3, <3>2 DEF Recorded
  <2>5. /\ stage' = [stage EXCEPT ![e] = "judge"] /\ at' = [at EXCEPT ![e] = n]
        /\ round' = [round EXCEPT ![e] = 1] /\ votes' = [votes EXCEPT ![e] = NoVotes]
        /\ todo' = [todo EXCEPT ![e] = {}] /\ records' = [records EXCEPT ![e] = all]
        /\ permits' = permits
    BY <1>2, <2>1, <2>3 DEF Go
  <2>6. TaskOk(e, "judge", cs, n, 1, all)
    BY <2>2, <2>4 DEF TaskOk
  <2>7. Typed("judge", cs, n, 1, NoVotes, {}) /\ "judge" \in InFlight
    BY <2>2, NothingVoted DEF Typed, Stage, InFlight
  <2> QED BY <2>4, <2>5, <2>6, <2>7, Stays
<1> QED BY <1>1, <1>2

LEMMA WriteKeeps ==
    ASSUME BenchInv, NEW e \in Tasks, stage[e] \in {"judge", "second"},
           NEW v \in Verdict, Write(e, v), UNCHANGED <<claims, result>>
    PROVE  BenchInv'
<1>1. PICK cs \in Seq(Claim), i \in Nat \ {0}, r \in 1..4, rs \in Seq(Record) :
          cs = claims[e] /\ i = at[e] /\ r = round[e] /\ rs = records[e]
  BY TaskTypes DEF BenchInv, Typed
<1>2. /\ i \in 1..Len(cs) /\ Len(rs) = 4 * (i - 1) + (r - 1) /\ Asked(e, cs, rs)
      /\ e \in Example /\ stage[e] \in InFlight
  BY <1>1, TaskTypes DEF BenchInv, TasksOk, TaskOk, InFlight
<1>3. PICK all : all = Append(rs, Scored(e, i, cs[i], AllConfigs[r], v))
  OBVIOUS
<1>4. all \in Seq(Record) /\ Len(all) = 4 * (i - 1) + r /\ Asked(e, cs, all)
  <2>1. Recorded(e, cs, rs, 4 * (i - 1) + (r - 1))
    BY <1>2 DEF Recorded
  <2>2. Recorded(e, cs, Append(rs, Scored(e, i, cs[i], AllConfigs[r], v)), 4 * (i - 1) + r)
    BY <1>2, <2>1, OneMore
  <2> QED BY <1>3, <2>2 DEF Recorded
<1>5. claims' = [claims EXCEPT ![e] = cs]
  BY <1>1 DEF BenchInv, TypeOK
<1>6. CASE r = 4
  <2>1. Go(e, cs, i + 1, all)
    BY <1>1, <1>3, <1>6, ConfigFacts DEF Write
  <2>2. i + 1 \in Nat \ {0} /\ i + 1 <= Len(cs) + 1 /\ Len(all) = 4 * ((i + 1) - 1)
    BY <1>2, <1>4, <1>6, LenProperties
  <2> QED BY <1>2, <1>4, <1>5, <2>1, <2>2, GoKeeps
<1>7. CASE r # 4
  <2>1. /\ stage' = [stage EXCEPT ![e] = "entailment"]
        /\ round' = [round EXCEPT ![e] = r + 1]
        /\ votes' = [votes EXCEPT ![e] = NoVotes] /\ todo' = [todo EXCEPT ![e] = {}]
        /\ records' = [records EXCEPT ![e] = all] /\ permits' = permits /\ at' = at
    BY <1>1, <1>3, <1>7, ConfigFacts DEF Write, BenchInv, TypeOK
  <2>2. at' = [at EXCEPT ![e] = i]
    BY <1>1, <2>1 DEF BenchInv, TypeOK
  <2>3. r + 1 \in 1..4 /\ (r + 1) - 1 = r
    BY <1>7
  <2>4. TaskOk(e, "entailment", cs, i, r + 1, all)
    BY <1>2, <1>4, <2>3 DEF TaskOk
  <2>5. Typed("entailment", cs, i, r + 1, NoVotes, {}) /\ "entailment" \in InFlight
    BY <2>3, NothingVoted DEF Typed, Stage, InFlight
  <2> QED BY <1>2, <1>4, <1>5, <2>1, <2>2, <2>4, <2>5, Stays
<1> QED BY <1>6, <1>7

LEMMA ReconcileType ==
    ASSUME NEW ballot \in Votes
    PROVE  Reconcile(ballot) \in Verdict
<1> DEFINE S == {ballot[u] : u \in Ran(ballot)}
<1>1. Rank \in [Verdict -> 0..5] /\ S \subseteq Verdict
  BY DEF Rank, Verdict, Votes, Ran
<1>2. CASE Ran(ballot) = {}
  BY <1>2 DEF Reconcile, Verdict
<1>3. CASE Ran(ballot) # {}
  <2>1. PICK n \in {Rank[v] : v \in S} : \A m \in {Rank[v] : v \in S} : n <= m
    <3>1. {Rank[v] : v \in S} \subseteq Nat /\ {Rank[v] : v \in S} # {}
      BY <1>1, <1>3
    <3> HIDE DEF S
    <3> QED BY <3>1, LeastNat
  <2>2. \E v \in S : \A u \in Ran(ballot) : Rank[v] <= Rank[ballot[u]]
    BY <2>1
  <2>3. Reconcile(ballot) \in S
    BY <1>3, <2>2 DEF Reconcile
  <2> QED BY <1>1, <2>3
<1> QED BY <1>2, <1>3

LEMMA AcquireKeeps == ASSUME BenchInv, NEW e \in Tasks, Acquire(e) PROVE BenchInv'
<1>1. PICK cs, i, r, v, t, rs :
          /\ rs \in Seq(Record)
          /\ cs = claims[e] /\ i = at[e] /\ r = round[e]
          /\ v = votes[e] /\ t = todo[e] /\ rs = records[e]
  BY TaskTypes DEF BenchInv
<1>2. Typed("decompose", cs, i, r, v, t)
  BY <1>1, TaskTypes DEF BenchInv, Typed, Stage
<1>3. TaskOk(e, "decompose", cs, i, r, rs)
  BY <1>1 DEF BenchInv, TasksOk, TaskOk, Acquire
<1>4. Placed("decompose", cs, i, r, v, t, rs, e)
  <2>1. permits' = permits + Busy(stage[e]) - Busy("decompose")
    <3>1. Busy(stage[e]) = 0 /\ Busy("decompose") = 1 /\ permits \in Int
      BY BenchAssumption DEF Busy, InFlight, BenchInv, TypeOK, Acquire
    <3> QED BY <3>1 DEF Acquire
  <2> QED BY <1>1, <2>1 DEF Acquire, Placed, place, BenchInv, TypeOK
<1> QED BY <1>1, <1>2, <1>3, <1>4, StepKeeps DEF Acquire

LEMMA DecomposeKeeps == ASSUME BenchInv, NEW e \in Tasks, Decompose(e) PROVE BenchInv'
<1>1. PICK n \in 0..MaxClaims[dataset] : \E cs \in [1..n -> Claims(e)] :
          claims' = [claims EXCEPT ![e] = cs] /\ Go(e, cs, 1, << >>)
  BY DEF Decompose
<1>2. PICK cs \in [1..n -> Claims(e)] :
          claims' = [claims EXCEPT ![e] = cs] /\ Go(e, cs, 1, << >>)
  BY <1>1
<1>3. cs \in Seq(Claim)
  <2>1. Claims(e) \subseteq Claim
    BY DEF Claims, Claim
  <2>2. n \in Nat
    <3>1. n \in Int /\ 0 <= n
      OBVIOUS
    <3> QED BY <3>1
  <2> QED BY <2>1, <2>2
<1>4. << >> \in Seq(Record) /\ Len(<< >>) = 0 /\ Asked(e, cs, << >>)
  BY DEF Asked
<1>5. 1 <= Len(cs) + 1 /\ Len(<< >>) = 4 * (1 - 1) /\ 1 \in Nat \ {0}
  BY <1>3, LenProperties
<1>6. stage[e] \in InFlight /\ UNCHANGED result
  BY DEF Decompose, InFlight
<1> QED BY <1>2, <1>3, <1>4, <1>5, <1>6, GoKeeps

LEMMA JudgeKeeps == ASSUME BenchInv, NEW e \in Tasks, Judge(e) PROVE BenchInv'
<1>1. PICK v \in BaselineVerdicts : Write(e, v)
  BY DEF Judge
<1>2. v \in Verdict
  BY BenchAssumption
<1> QED BY <1>1, <1>2, WriteKeeps DEF Judge

LEMMA EntailKeeps == ASSUME BenchInv, NEW e \in Tasks, Entail(e) PROVE BenchInv'
<1>1. PICK cs, i, r, u, rs :
          /\ rs \in Seq(Record)
          /\ cs = claims[e] /\ i = at[e] /\ r = round[e] /\ u = votes[e] /\ rs = records[e]
  BY TaskTypes DEF BenchInv
<1>2. PICK v \in EntailmentVotes : votes' = [votes EXCEPT ![e]["entailment"] = v]
  BY DEF Entail
<1>3. PICK w : w = [u EXCEPT !["entailment"] = v]
  OBVIOUS
<1>4. PICK t : t = Uses[AllConfigs[round[e]]]
  OBVIOUS
<1>5. w \in Votes
  BY <1>1, <1>3, TaskTypes, BenchAssumption DEF BenchInv, Typed, Votes
<1>6. t \in SUBSET {"prober", "independent"}
  <2>1. AllConfigs[r] \in BenchConfig
    BY <1>1, TaskTypes, ConfigFacts DEF BenchInv, Typed
  <2> QED BY <1>1, <1>4, <2>1 DEF Uses, BenchConfig
<1>7. Typed("second", cs, i, r, w, t) /\ "second" \in InFlight /\ stage[e] \in InFlight
  BY <1>1, <1>5, <1>6, TaskTypes DEF BenchInv, Typed, Stage, InFlight, Entail
<1>8. TaskOk(e, "second", cs, i, r, rs)
  BY <1>1 DEF BenchInv, TasksOk, TaskOk, Entail
<1>9. votes' = [votes EXCEPT ![e] = w]
  BY <1>1, <1>2, <1>3 DEF BenchInv, TypeOK
<1>10. /\ stage' = [stage EXCEPT ![e] = "second"] /\ claims' = [claims EXCEPT ![e] = cs]
       /\ at' = [at EXCEPT ![e] = i] /\ round' = [round EXCEPT ![e] = r]
       /\ todo' = [todo EXCEPT ![e] = t] /\ records' = [records EXCEPT ![e] = rs]
       /\ permits' = permits /\ UNCHANGED result
  BY <1>1, <1>4 DEF Entail, BenchInv, TypeOK
<1> QED BY <1>1, <1>7, <1>8, <1>9, <1>10, Stays

LEMMA ReturnKeeps ==
    ASSUME BenchInv, NEW e \in Tasks, NEW u \in {"prober", "independent"},
           NEW possible, possible \subseteq Verdict \cup {NoVote}, Return(e, u, possible)
    PROVE  BenchInv'
<1>1. PICK v \in possible :
          LET now == [votes[e] EXCEPT ![u] = v] IN
          IF todo[e] = {u} THEN Write(e, Reconcile(now))
          ELSE /\ votes' = [votes EXCEPT ![e] = now]
               /\ todo' = [todo EXCEPT ![e] = @ \ {u}]
               /\ UNCHANGED <<permits, stage, at, round, records>>
  BY DEF Return
<1>2. PICK now : now = [votes[e] EXCEPT ![u] = v]
  OBVIOUS
<1>3. now \in Votes
  BY <1>2, TaskTypes DEF BenchInv, Typed, Votes, Verifier
<1>4. stage[e] = "second" /\ UNCHANGED <<claims, result>>
  BY DEF Return
<1>5. CASE todo[e] = {u}
  <2>1. Write(e, Reconcile(now)) /\ Reconcile(now) \in Verdict
    BY <1>1, <1>2, <1>3, <1>5, ReconcileType
  <2> QED BY <1>4, <2>1, WriteKeeps
<1>6. CASE todo[e] # {u}
  <2>1. PICK cs, i, r, t, rs :
            /\ rs \in Seq(Record)
            /\ cs = claims[e] /\ i = at[e] /\ r = round[e]
            /\ t = todo[e] \ {u} /\ rs = records[e]
    BY TaskTypes DEF BenchInv
  <2>2. /\ votes' = [votes EXCEPT ![e] = now] /\ todo' = [todo EXCEPT ![e] = t]
        /\ permits' = permits /\ UNCHANGED result
    BY <1>1, <1>2, <1>4, <1>6, <2>1
  <2>3. /\ stage' = [stage EXCEPT ![e] = "second"] /\ claims' = [claims EXCEPT ![e] = cs]
        /\ at' = [at EXCEPT ![e] = i] /\ round' = [round EXCEPT ![e] = r]
        /\ records' = [records EXCEPT ![e] = rs]
    BY <1>1, <1>4, <1>6, <2>1 DEF BenchInv, TypeOK
  <2>4. Typed("second", cs, i, r, now, t) /\ "second" \in InFlight
    BY <1>3, <1>4, <2>1, TaskTypes DEF BenchInv, Typed, InFlight
  <2>5. TaskOk(e, "second", cs, i, r, rs)
    BY <1>4, <2>1 DEF BenchInv, TasksOk, TaskOk
  <2> QED BY <1>4, <2>1, <2>2, <2>3, <2>4, <2>5, Stays
<1> QED BY <1>5, <1>6

LEMMA FailKeeps == ASSUME BenchInv, NEW e \in Tasks, Fail(e) PROVE BenchInv'
<1>1. PICK cs \in Seq(Claim) : cs = claims[e]
  BY TaskTypes DEF BenchInv, Typed
<1>2. claims' = [claims EXCEPT ![e] = cs] /\ UNCHANGED result /\ Leave(e, "failed", << >>)
  BY <1>1 DEF Fail, BenchInv, TypeOK
<1>3. << >> \in Seq(Record) /\ TaskOk(e, "failed", cs, 1, 1, << >>)
  BY DEF TaskOk, Asked
<1>4. stage[e] \in InFlight
  BY DEF Fail, InFlight
<1> QED BY <1>2, <1>3, <1>4, Ends

LEMMA TaskKeeps == ASSUME BenchInv, NEW e \in Tasks, Task(e) PROVE BenchInv'
<1>1. ProberVotes \subseteq Verdict \cup {NoVote} /\ IndependentVotes \subseteq Verdict \cup {NoVote}
  BY BenchAssumption
<1>2. CASE ProberReturns(e)
  BY <1>1, <1>2, ReturnKeeps DEF ProberReturns
<1>3. CASE IndependentReturns(e)
  BY <1>1, <1>3, ReturnKeeps DEF IndependentReturns
<1> QED BY <1>2, <1>3, AcquireKeeps, DecomposeKeeps, JudgeKeeps, EntailKeeps, FailKeeps DEF Task

-----------------------------------------------------------------------------
(* The benchmark.                                                          *)

LEMMA NoTask == \A S : << >> \in [{} -> S]
OBVIOUS

LEMMA NoFlight == ASSUME \A e \in Tasks : stage[e] = "semaphore" PROVE Cardinality(Flying) = 0
<1>1. Flying = {}
  BY DEF Flying, InFlight
<1> QED BY <1>1, FS_EmptySet

LEMMA BenchStart == Init => BenchInv
<1> SUFFICES ASSUME Init PROVE BenchInv
  OBVIOUS
<1>1. Tasks = {} /\ phase = "sampling" /\ report = << >> /\ sample = << >>
  BY DEF Init, SampleInit, Tasks
<1>2. Cardinality(Flying) = 0
  BY <1>1, NoFlight
<1>3. permits = Concurrency - Cardinality(Flying) /\ permits \in 0..Concurrency
  BY <1>2, BenchAssumption DEF Init
<1>4. TypeOK
  <2>1. /\ stage \in [Tasks -> Stage] /\ claims \in [Tasks -> Seq(Claim)]
        /\ at \in [Tasks -> Nat \ {0}] /\ round \in [Tasks -> 1..Len(AllConfigs)]
    BY <1>1, NoTask DEF Init
  <2>2. /\ votes \in [Tasks -> Votes] /\ records \in [Tasks -> Seq(Record)]
        /\ todo \in [Tasks -> SUBSET {"prober", "independent"}]
    BY <1>1, NoTask DEF Init
  <2> QED BY <1>1, <1>3, <2>1, <2>2 DEF TypeOK, Flying, Claim
<1> QED BY <1>1, <1>4 DEF BenchInv, TasksOk, Loaded, AtEnd

LEMMA LoadKeeps == ASSUME BenchInv, SampleInv', LoadDataset PROVE BenchInv'
<1>1. ~drawn
  BY DEF LoadDataset, SampleNext, TakeAll, Draw, EndRound, Drawing
<1>2. /\ phase = "sampling" /\ phase' = "sampling" /\ report = << >> /\ report' = << >>
      /\ Tasks = {} /\ Tasks' = {}
      /\ UNCHANGED <<permits, stage, claims, at, round, votes, todo, records>>
  BY <1>1 DEF BenchInv, Loaded, AtEnd, LoadDataset, Tasks, place
<1>3. Flying' = Flying
  BY <1>2 DEF Flying
<1>4. TypeOK'
  <2>1. permits' = Concurrency - Cardinality(Flying') /\ permits' \in 0..Concurrency
    BY <1>2, <1>3 DEF BenchInv, TypeOK, Flying
  <2>2. /\ stage' \in [Tasks' -> Stage] /\ claims' \in [Tasks' -> Seq(Claim)]
        /\ at' \in [Tasks' -> Nat \ {0}] /\ round' \in [Tasks' -> 1..Len(AllConfigs)]
        /\ votes' \in [Tasks' -> Votes]
        /\ todo' \in [Tasks' -> SUBSET {"prober", "independent"}]
    BY <1>2 DEF BenchInv, TypeOK, Claim
  <2>3. records' \in [Tasks' -> Seq(Record')]
    <3>1. records \in [{} -> Seq(Record)]
      BY <1>2 DEF BenchInv, TypeOK
    <3> QED BY <1>2, <3>1
  <2> QED BY <1>2, <2>1, <2>2, <2>3 DEF TypeOK, Flying, Claim
<1>5. sample' \in Seq(Nat)
  <2>1. sample' \in Seq(Pool(dataset')) /\ Pool(dataset') \subseteq Nat
    BY DEF SampleInv, SampleTypeOK, Pool
  <2> QED BY <2>1
<1> QED BY <1>2, <1>4, <1>5 DEF BenchInv, TasksOk, Loaded, AtEnd

LEMMA RunKeeps == ASSUME BenchInv, RunBenchmark PROVE BenchInv'
<1>1. /\ phase' = "running" /\ report = << >> /\ report' = << >> /\ Tasks = {}
      /\ Tasks' = Example /\ Example' = Example /\ Record' = Record
      /\ sample' = sample /\ drawn' = drawn /\ drawn /\ permits' = permits
  BY DEF RunBenchmark, BenchInv, AtEnd, Tasks, Example, Record, sampleVars
<1>2. /\ stage' = [e \in Example |-> "semaphore"] /\ claims' = [e \in Example |-> << >>]
      /\ at' = [e \in Example |-> 1] /\ round' = [e \in Example |-> 1]
      /\ votes' = [e \in Example |-> NoVotes] /\ todo' = [e \in Example |-> {}]
      /\ records' = [e \in Example |-> << >>]
  BY DEF RunBenchmark
<1>3. permits = Concurrency /\ Concurrency \in Nat
  <2>1. Cardinality(Flying) = 0
    BY <1>1, NoFlight
  <2>2. permits = Concurrency - Cardinality(Flying)
    BY DEF BenchInv, TypeOK, Flying
  <2> QED BY <2>1, <2>2, BenchAssumption
<1>4. Cardinality(Flying') = 0
  <2>1. Flying' = {}
    BY <1>1, <1>2 DEF Flying, InFlight
  <2> QED BY <2>1, FS_EmptySet
<1>5. TypeOK'
  <2>1. permits' = Concurrency - Cardinality(Flying') /\ permits' \in 0..Concurrency
    BY <1>1, <1>3, <1>4
  <2>2. /\ stage' \in [Tasks' -> Stage] /\ claims' \in [Tasks' -> Seq(Claim)]
        /\ at' \in [Tasks' -> Nat \ {0}] /\ round' \in [Tasks' -> 1..Len(AllConfigs)]
    BY <1>1, <1>2, ConfigFacts DEF Stage
  <2>3. /\ votes' \in [Tasks' -> Votes] /\ records' \in [Tasks' -> Seq(Record')]
        /\ todo' \in [Tasks' -> SUBSET {"prober", "independent"}]
    BY <1>1, <1>2, NothingVoted
  <2> QED BY <1>1, <2>1, <2>2, <2>3 DEF TypeOK, Flying, Claim
<1>6. TasksOk'
  BY <1>1, <1>2 DEF TasksOk, TaskOk, Asked
<1> QED BY <1>1, <1>5, <1>6 DEF BenchInv, Loaded, AtEnd

(* What a record is about.                                                 *)
About == [r \in Record |-> <<r.example, r.claim, r.config>>]

Question == Example \X (Nat \ {0}) \X BenchConfig

LEMMA Keys == About \in [Record -> Question]
BY DEF About, Question, Record

LEMMA RecordsAre ==
    ASSUME BenchInv, phase # "sampling"
    PROVE  /\ records \in Seq(Seq(Record))
           /\ Len(records) = Len(sample)
           /\ Example = 1..Len(sample)
<1>1. PICK n \in Nat : n = Len(sample) /\ Example = 1..n
  BY LenProperties DEF BenchInv, Loaded, Example
<1>2. records \in [1..n -> Seq(Record)]
  BY <1>1 DEF BenchInv, TypeOK, Tasks
<1>3. records \in Seq(Seq(Record)) /\ DOMAIN records = 1..n
  BY <1>2
<1> QED BY <1>1, <1>3, LenProperties

LEMMA ReportKeeps == ASSUME BenchInv, Report PROVE BenchInv'
<1>1. /\ phase = "running" /\ phase' = "reported" /\ report' = FlattenSeq(records)
      /\ \A e \in Example : stage[e] \in {"done", "failed"}
      /\ sample' = sample /\ drawn' = drawn
      /\ Tasks = Example /\ Tasks' = Example /\ Example' = Example /\ Record' = Record
      /\ UNCHANGED <<permits, stage, claims, at, round, votes, todo, records>>
  BY DEF Report, Tasks, Example, Record, sampleVars, place
<1>2. FlattenSeq(records) \in Seq(Record)
  <2>1. PICK s \in Seq(Seq(Record)) : s = records
    BY <1>1, RecordsAre
  <2>2. EachMapped(Record, Question, About, s, [i \in 1..Len(s) |-> Mapped(About, s[i])])
    BY Keys DEF EachMapped
  <2>3. FlattenSeq(s) \in Seq(Record)
    BY <2>2, FlattenMapped
  <2> QED BY <2>1, <2>3
<1>3. Flying' = Flying
  BY <1>1 DEF Flying
<1>4. TypeOK'
  BY <1>1, <1>2, <1>3 DEF BenchInv, TypeOK, Flying
<1> QED BY <1>1, <1>4 DEF BenchInv, TasksOk, Loaded, AtEnd

LEMMA StutterKeeps == ASSUME BenchInv, UNCHANGED vars PROVE BenchInv'
<1>1. /\ Tasks' = Tasks /\ Example' = Example /\ Record' = Record
      /\ UNCHANGED <<permits, stage, claims, at, round, votes, todo, records, phase, report>>
      /\ UNCHANGED <<sample, drawn>>
  BY DEF vars, place, result, sampleVars, Tasks, Example, Record
<1>2. Flying' = Flying
  BY <1>1 DEF Flying
<1>3. TypeOK'
  BY <1>1, <1>2 DEF BenchInv, TypeOK, Flying
<1> QED BY <1>1, <1>3 DEF BenchInv, TasksOk, Loaded, AtEnd

LEMMA BenchStep == BenchInv /\ SampleInv' /\ [Next]_vars => BenchInv'
<1> SUFFICES ASSUME BenchInv, SampleInv', [Next]_vars PROVE BenchInv'
  OBVIOUS
<1>1. ASSUME NEW e \in DOMAIN stage, Task(e) PROVE BenchInv'
  <2>1. DOMAIN stage = Tasks
    BY DEF BenchInv, TypeOK
  <2> QED BY <1>1, <2>1, TaskKeeps
<1>2. CASE Reported
  BY <1>2, StutterKeeps DEF Reported
<1> QED BY <1>1, <1>2, LoadKeeps, RunKeeps, ReportKeeps, StutterKeeps DEF Next

LEMMA AlwaysSampled == Spec => []SampleInv
<1>1. Init => SampleInv
  BY SampleStart DEF Init
<1>2. [Next]_vars => [SampleNext]_sampleVars
  BY DEF Next, LoadDataset, RunBenchmark, Report, Reported, Task, Acquire, Decompose,
     Judge, Entail, ProberReturns, IndependentReturns, Return, Fail, vars, result
<1> QED BY <1>1, <1>2, SampleStep, PTL DEF Spec

LEMMA AlwaysBench == Spec => []BenchInv
BY BenchStart, BenchStep, AlwaysSampled, PTL DEF Spec

(* The semaphore of run_benchmark: in every state, with any number of      *)
(* examples and failures, the permits are those not in use, so no more     *)
(* than Concurrency examples are in flight and none is lost.               *)
THEOREM BenchTypes == Spec => []TypeOK
<1>1. BenchInv => TypeOK
  BY DEF BenchInv
<1> QED BY <1>1, AlwaysBench, PTL

(* The sample that the benchmark runs on is spread over the types.         *)
THEOREM BenchSampleSpread == Spec => []SampleIsSpread
BY AlwaysSampled, SpreadFromInv, PTL

(* Each example's part of the report is what was expected of it.           *)
LEMMA PartsAre ==
    ASSUME BenchInv, phase = "reported", NEW e \in Example, NEW want,
           want = IF e \in {d \in Example : stage[d] = "done"}
                  THEN [k \in 1..(4 * Len(claims[e])) |->
                           <<e, 1 + (k - 1) \div 4, AllConfigs[1 + ((k - 1) % 4)]>>]
                  ELSE << >>
    PROVE  want = Mapped(About, records[e])
<1>1. /\ TaskOk(e, stage[e], claims[e], at[e], round[e], records[e])
      /\ stage[e] \in {"done", "failed"}
  BY DEF BenchInv, TasksOk, AtEnd, Tasks
<1>2. PICK rs \in Seq(Record), cs \in Seq(Claim) : rs = records[e] /\ cs = claims[e]
  BY TaskTypes DEF BenchInv, Typed, Tasks
<1>3. CASE stage[e] = "done"
  <2>1. Len(rs) = 4 * Len(cs) /\ Asked(e, cs, rs)
    BY <1>1, <1>2, <1>3 DEF TaskOk
  <2>2. \A k \in 1..Len(rs) : rs[k] \in Record
    OBVIOUS
  <2>3. \A k \in 1..Len(rs) : About[rs[k]] = Nth(e, k)
    BY <2>1, <2>2 DEF About, Asked
  <2>4. want = [k \in 1..Len(rs) |-> Nth(e, k)]
    BY <1>2, <1>3, <2>1 DEF Nth
  <2> QED BY <1>2, <2>3, <2>4 DEF Mapped
<1>4. CASE stage[e] = "failed"
  <2>1. rs = << >>
    BY <1>1, <1>2, <1>4 DEF TaskOk
  <2>2. Mapped(About, << >>) = << >>
    BY DEF Mapped
  <2>3. want = << >>
    BY <1>4
  <2> QED BY <1>2, <2>1, <2>2, <2>3
<1> QED BY <1>1, <1>3, <1>4

(* However the tasks interleave and whichever fail: the report is complete *)
(* and paired. A failed example leaves nothing behind, a finished one has  *)
(* one record per claim and configuration, in the order of its claims.     *)
THEOREM ReportPaired == Spec => []ReportIsPaired
<1>1. BenchInv => ReportIsPaired
  <2> SUFFICES ASSUME BenchInv, phase = "reported" PROVE ReportIsPaired
    BY DEF ReportIsPaired
  <2> DEFINE Finished == {e \in Example : stage[e] = "done"}
             Expected(e) == [k \in 1..(4 * Len(claims[e])) |->
                                <<e, 1 + (k - 1) \div 4, AllConfigs[1 + ((k - 1) % 4)]>>]
             parts == [e \in Example |-> IF e \in Finished THEN Expected(e) ELSE << >>]
             answered == [k \in DOMAIN report |->
                             <<report[k].example, report[k].claim, report[k].config>>]
  <2>1. PICK s \in Seq(Seq(Record)), n \in Nat :
           s = records /\ n = Len(s) /\ Example = 1..n
    BY RecordsAre, LenProperties
  <2>2. \A e \in 1..n : parts[e] = Mapped(About, s[e])
    BY <2>1, PartsAre
  <2>3. parts = [e \in 1..Len(s) |-> Mapped(About, s[e])]
    <3>1. parts = [e \in 1..n |-> parts[e]]
      BY <2>1
    <3> HIDE DEF parts
    <3> QED BY <2>1, <2>2, <3>1
  <2>4. FlattenSeq(parts) = Mapped(About, FlattenSeq(s))
    <3> HIDE DEF parts
    <3>1. EachMapped(Record, Question, About, s, parts)
      BY <2>3, Keys DEF EachMapped
    <3> QED BY <3>1, FlattenMapped
  <2>5. PICK rep \in Seq(Record) : rep = report
    BY DEF BenchInv, TypeOK
  <2>6. rep = FlattenSeq(s)
    BY <2>1, <2>5 DEF BenchInv, AtEnd
  <2>7. answered = Mapped(About, rep)
    <3>1. DOMAIN rep = 1..Len(rep) /\ \A k \in 1..Len(rep) : rep[k] \in Record
      BY LenProperties
    <3>2. \A k \in 1..Len(rep) :
             About[rep[k]] = <<rep[k].example, rep[k].claim, rep[k].config>>
      BY <3>1 DEF About
    <3> QED BY <2>5, <3>1, <3>2 DEF Mapped
  <2>8. answered = FlattenSeq(parts)
    BY <2>4, <2>6, <2>7, Zenon
  <2> QED BY <2>8, Zenon DEF ReportIsPaired
<1> QED BY <1>1, AlwaysBench, PTL

-----------------------------------------------------------------------------
(* What a loop that skips some elements keeps.                             *)

(* u is what is kept of the beginnings of s.                               *)
Keeps(u, s, places, n) ==
    u = [k \in 0..n |-> IF k = 0 THEN << >>
                        ELSE IF k \in places THEN Append(u[k - 1], s[k]) ELSE u[k - 1]]

LEMMA KeepsExists ==
    ASSUME NEW n \in Nat, NEW s, NEW places
    PROVE  \A m \in 0..n : \E u : Keeps(u, s, places, m)
<1> DEFINE Bad == {m \in 0..n : ~\E u : Keeps(u, s, places, m)}
<1> SUFFICES ASSUME Bad # {} PROVE FALSE
  OBVIOUS
<1>1. PICK m \in Bad : \A y \in Bad : m <= y
  <2>1. Bad \subseteq Nat
    OBVIOUS
  <2> HIDE DEF Bad
  <2> QED BY <2>1, LeastNat
<1>2. CASE m = 0
  <2> DEFINE g == [k \in 0..0 |-> << >>]
  <2>1. g = [k \in 0..0 |-> IF k = 0 THEN << >>
                ELSE IF k \in places THEN Append(g[k - 1], s[k]) ELSE g[k - 1]]
    <3>1. \A k \in 0..0 : k = 0
      OBVIOUS
    <3> QED BY <3>1
  <2> HIDE DEF g
  <2>2. Keeps(g, s, places, 0)
    BY <2>1 DEF Keeps
  <2> QED BY <1>2, <2>2
<1>3. CASE m # 0
  <2>1. m \in 0..n /\ m - 1 \in 0..n /\ ~(m <= m - 1) /\ m \in 1..n
    BY <1>3
  <2>a. m - 1 \notin Bad
    <3> HIDE DEF Bad
    <3> QED BY <1>1, <2>1, Zenon
  <2>2. PICK u : Keeps(u, s, places, m - 1)
    BY <2>1, <2>a
  <2> DEFINE last == IF m \in places THEN Append(u[m - 1], s[m]) ELSE u[m - 1]
             g == [i \in 0..m |-> IF i = m THEN last ELSE u[i]]
  <2>3. g = [k \in 0..m |-> IF k = 0 THEN << >>
                ELSE IF k \in places THEN Append(g[k - 1], s[k]) ELSE g[k - 1]]
    <3> SUFFICES ASSUME NEW k \in 0..m
                 PROVE  g[k] = IF k = 0 THEN << >>
                               ELSE IF k \in places THEN Append(g[k - 1], s[k]) ELSE g[k - 1]
      OBVIOUS
    <3>1. CASE k = m
      <4>1. m - 1 \in 0..m /\ m - 1 # m
        BY <2>1
      <4>2. g[m - 1] = u[m - 1]
        BY <4>1
      <4>3. g[k] = last /\ k # 0
        BY <1>3, <3>1
      <4> HIDE DEF g
      <4> QED BY <3>1, <4>2, <4>3
    <3>2. CASE k # m
      <4>1. k \in 0..(m - 1)
        BY <2>1, <3>2
      <4>2. u[k] = IF k = 0 THEN << >>
                   ELSE IF k \in places THEN Append(u[k - 1], s[k]) ELSE u[k - 1]
        BY <2>2, <4>1 DEF Keeps
      <4>3. k # 0 => k - 1 \in 0..m /\ k - 1 # m
        BY <3>2
      <4>4. k # 0 => g[k - 1] = u[k - 1]
        BY <4>3
      <4>5. g[k] = u[k]
        BY <3>2
      <4> HIDE DEF g, last
      <4> QED BY <4>2, <4>4, <4>5
    <3> QED BY <3>1, <3>2
  <2> HIDE DEF g
  <2>4. Keeps(g, s, places, m)
    BY <2>3 DEF Keeps
  <2> QED BY <2>1, <2>4
<1> QED BY <1>2, <1>3

Builds(u, s, places, n) ==
    /\ u[0] = << >>
    /\ \A k \in 1..n : u[k] = IF k \in places THEN Append(u[k - 1], s[k]) ELSE u[k - 1]

LEMMA KeptIs ==
    ASSUME NEW n \in Nat, NEW s, n = Len(s), NEW places
    PROVE  \E u : Kept(s, places) = u[n] /\ Builds(u, s, places, n)
<1>1. \E u : Keeps(u, s, places, n)
  <2>1. \A m \in 0..n : \E u : Keeps(u, s, places, m)
    BY KeepsExists
  <2>2. n \in 0..n
    OBVIOUS
  <2> QED BY <2>1, <2>2
<1> DEFINE g == CHOOSE u : u = [k \in 0..n |-> IF k = 0 THEN << >>
                   ELSE IF k \in places THEN Append(u[k - 1], s[k]) ELSE u[k - 1]]
<1>2. g = [k \in 0..n |-> IF k = 0 THEN << >>
              ELSE IF k \in places THEN Append(g[k - 1], s[k]) ELSE g[k - 1]]
  BY <1>1, Zenon DEF Keeps
<1>3. Kept(s, places) = g[n]
  BY Zenon DEF Kept
<1> HIDE DEF g
<1>4. g[0] = << >>
  <2>1. 0 \in 0..n
    OBVIOUS
  <2> QED BY <1>2, <2>1
<1>5. ASSUME NEW k \in 1..n
      PROVE  g[k] = IF k \in places THEN Append(g[k - 1], s[k]) ELSE g[k - 1]
  <2>1. k \in 0..n /\ k # 0
    OBVIOUS
  <2> QED BY <1>2, <2>1
<1> QED BY <1>3, <1>4, <1>5 DEF Builds

(* t is taken from s, at places among those of from, each at most once.  *)
Takes(t, s, from, pos, n) ==
    /\ Len(t) = n
    /\ pos \in [1..n -> from]
    /\ \A k \in 1..n : t[k] = s[pos[k]]
    /\ \A j, k \in 1..n : pos[j] = pos[k] => j = k

LEMMA TakesOneMore ==
    ASSUME NEW S, NEW s \in Seq(S), NEW t \in Seq(S), NEW m \in 1..Len(s), NEW places,
           m \in places, NEW n \in Nat, NEW pos, Takes(t, s, places \cap (1..(m - 1)), pos, n)
    PROVE  /\ Append(t, s[m]) \in Seq(S)
           /\ \E p : Takes(Append(t, s[m]), s, places \cap (1..m), p, n + 1)
<1>1. PICK x \in S : x = s[m]
  OBVIOUS
<1>2. PICK a \in Seq(S) : a = Append(t, x)
  <2>1. Append(t, x) \in Seq(S)
    OBVIOUS
  <2> QED BY <2>1
<1>3. Len(t) = n /\ pos \in [1..n -> places \cap (1..(m - 1))]
      /\ (\A k \in 1..n : t[k] = s[pos[k]])
      /\ (\A j, k \in 1..n : pos[j] = pos[k] => j = k)
  BY DEF Takes
<1>4. Len(a) = n + 1 /\ a[n + 1] = x /\ \A k \in 1..n : a[k] = t[k]
  BY <1>2, <1>3
<1>5. PICK p : /\ p \in [1..(n + 1) -> places \cap (1..m)]
               /\ p[n + 1] = m /\ \A k \in 1..n : p[k] = pos[k]
  <2> DEFINE f == [k \in 1..(n + 1) |-> IF k = n + 1 THEN m ELSE pos[k]]
  <2>1. ASSUME NEW k \in 1..(n + 1) PROVE f[k] \in places \cap (1..m)
    <3>1. CASE k = n + 1
      BY <3>1
    <3>2. CASE k # n + 1
      <4>1. k \in 1..n
        BY <3>2
      <4>2. pos[k] \in places \cap (1..(m - 1))
        BY <1>3, <4>1
      <4> QED BY <3>2, <4>2
    <3> QED BY <3>1, <3>2
  <2>2. f \in [1..(n + 1) -> places \cap (1..m)]
    <3>1. f = [k \in 1..(n + 1) |-> f[k]]
      OBVIOUS
    <3> HIDE DEF f
    <3> QED BY <2>1, <3>1
  <2>3. f[n + 1] = m /\ \A k \in 1..n : f[k] = pos[k]
    OBVIOUS
  <2> HIDE DEF f
  <2> QED BY <2>2, <2>3
<1>6. \A k \in 1..(n + 1) : a[k] = s[p[k]]
  <2> SUFFICES ASSUME NEW k \in 1..(n + 1) PROVE a[k] = s[p[k]]
    OBVIOUS
  <2>1. k = n + 1 \/ k \in 1..n
    OBVIOUS
  <2> QED BY <1>1, <1>3, <1>4, <1>5, <2>1
<1>7. \A k \in 1..n : p[k] # m
  BY <1>3, <1>5
<1>8. \A j, k \in 1..(n + 1) : p[j] = p[k] => j = k
  <2> SUFFICES ASSUME NEW j \in 1..(n + 1), NEW k \in 1..(n + 1), p[j] = p[k] PROVE j = k
    OBVIOUS
  <2>1. (k = n + 1 \/ k \in 1..n) /\ (j = n + 1 \/ j \in 1..n)
    OBVIOUS
  <2> QED BY <1>3, <1>5, <1>7, <2>1
<1>9. Takes(a, s, places \cap (1..m), p, n + 1)
  BY <1>4, <1>5, <1>6, <1>8 DEF Takes
<1> QED BY <1>1, <1>2, <1>9

LEMMA KeptTakes ==
    ASSUME NEW S, NEW s \in Seq(S), NEW places
    PROVE  /\ Kept(s, places) \in Seq(S)
           /\ \E n, pos : n \in Nat /\ Takes(Kept(s, places), s, places \cap (1..Len(s)), pos, n)
<1>1. PICK l \in Nat : l = Len(s)
  OBVIOUS
<1>p. PICK u : Kept(s, places) = u[l] /\ Builds(u, s, places, l)
  BY <1>1, KeptIs
<1>2. /\ Kept(s, places) = u[l] /\ u[0] = << >>
      /\ \A k \in 1..l : u[k] = IF k \in places THEN Append(u[k - 1], s[k]) ELSE u[k - 1]
  BY <1>p DEF Builds
<1> DEFINE Good(m) == /\ u[m] \in Seq(S)
                      /\ \E n, pos : n \in Nat /\ Takes(u[m], s, places \cap (1..m), pos, n)
           Bad == {m \in 0..l : ~Good(m)}
<1>3. Bad = {}
  <2> SUFFICES ASSUME Bad # {} PROVE FALSE
    OBVIOUS
  <2>1. PICK m \in Bad : \A y \in Bad : m <= y
    <3>1. Bad \subseteq Nat
      OBVIOUS
    <3> HIDE DEF Bad
    <3> QED BY <3>1, LeastNat
  <2>2. m \in 0..l /\ ~Good(m)
    OBVIOUS
  <2>3. CASE m = 0
    <3>1. u[m] \in Seq(S) /\ Len(u[m]) = 0
      <4>1. u[m] = << >>
        BY <1>2, <2>3
      <4> QED BY <4>1, EmptySeq
    <3>2. Takes(u[m], s, places \cap (1..m), [k \in 1..0 |-> 0], 0)
      BY <3>1 DEF Takes
    <3> QED BY <2>2, <3>1, <3>2
  <2>4. CASE m # 0
    <3>1. m \in 1..l /\ m - 1 \in 0..l /\ ~(m <= m - 1) /\ m \in 1..Len(s)
      BY <1>1, <2>2, <2>4
    <3>2. m - 1 \notin Bad
      <4> HIDE DEF Bad
      <4> QED BY <2>1, <3>1, Zenon
    <3>3. Good(m - 1)
      BY <3>1, <3>2
    <3>4. PICK n, pos : n \in Nat /\ Takes(u[m - 1], s, places \cap (1..(m - 1)), pos, n)
      BY <3>3
    <3>5. PICK t \in Seq(S) : t = u[m - 1]
      BY <3>3
    <3>6. CASE m \in places
      <4>1. u[m] = Append(t, s[m])
        BY <1>2, <3>1, <3>5, <3>6
      <4>2. Takes(t, s, places \cap (1..(m - 1)), pos, n)
        BY <3>4, <3>5
      <4>3. /\ Append(t, s[m]) \in Seq(S)
            /\ \E p : Takes(Append(t, s[m]), s, places \cap (1..m), p, n + 1)
        BY <3>1, <3>4, <3>6, <4>2, TakesOneMore
      <4>4. n + 1 \in Nat
        BY <3>4
      <4> QED BY <2>2, <4>1, <4>3, <4>4
    <3>7. CASE m \notin places
      <4>1. u[m] = t
        BY <1>2, <3>1, <3>5, <3>7
      <4>2. places \cap (1..m) = places \cap (1..(m - 1))
        BY <3>1, <3>7
      <4> QED BY <2>2, <3>3, <3>5, <4>1, <4>2
    <3> QED BY <3>6, <3>7
  <2> QED BY <2>3, <2>4
<1>4. Good(l)
  <2>1. l \in 0..l
    OBVIOUS
  <2> QED BY <1>3, <2>1
<1> QED BY <1>1, <1>2, <1>4

(* One place of every four.                                                *)
Fourth(s, places, N, r) ==
    /\ Len(s) = 4 * N
    /\ \A m \in 1..N, q \in 1..4 : 4 * (m - 1) + q \in places <=> q = r

EveryFourth(t, s, N, r) == Len(t) = N /\ \A m \in 1..N : t[m] = s[4 * (m - 1) + r]

LEMMA KeptFourth ==
    ASSUME NEW S, NEW s \in Seq(S), NEW N \in Nat, NEW r \in 1..4, NEW places,
           Fourth(s, places, N, r)
    PROVE  Kept(s, places) \in Seq(S) /\ EveryFourth(Kept(s, places), s, N, r)
<1>1. PICK l \in Nat : l = Len(s) /\ l = 4 * N
  BY DEF Fourth
<1>p. PICK u : Kept(s, places) = u[l] /\ Builds(u, s, places, l)
  BY <1>1, KeptIs
<1>2. /\ Kept(s, places) = u[l] /\ u[0] = << >>
      /\ \A k \in 1..l : u[k] = IF k \in places THEN Append(u[k - 1], s[k]) ELSE u[k - 1]
  BY <1>p DEF Builds
<1> DEFINE Good(n) == /\ u[4 * n] \in Seq(S) /\ Len(u[4 * n]) = n
                      /\ \A m \in 1..n : u[4 * n][m] = s[4 * (m - 1) + r]
           Bad == {n \in 0..N : ~Good(n)}
<1>3. Bad = {}
  <2> SUFFICES ASSUME Bad # {} PROVE FALSE
    OBVIOUS
  <2>1. PICK n \in Bad : \A y \in Bad : n <= y
    <3>1. Bad \subseteq Nat
      OBVIOUS
    <3> HIDE DEF Bad
    <3> QED BY <3>1, LeastNat
  <2>2. n \in 0..N /\ ~Good(n)
    OBVIOUS
  <2>3. CASE n = 0
    <3>1. u[4 * n] = << >>
      BY <1>2, <2>3
    <3>2. u[4 * n] \in Seq(S) /\ Len(u[4 * n]) = 0
      BY <3>1, EmptySeq
    <3> QED BY <2>2, <2>3, <3>2
  <2>4. CASE n # 0
    <3>1. n - 1 \in 0..N /\ ~(n <= n - 1) /\ n \in 1..N /\ (n - 1) + 1 = n
      BY <2>2, <2>4
    <3>2. n - 1 \notin Bad
      <4> HIDE DEF Bad
      <4> QED BY <2>1, <3>1, Zenon
    <3>3. Good(n - 1)
      BY <3>1, <3>2
    <3>4. PICK b \in Nat, e \in Nat : b = 4 * (n - 1) /\ e = 4 * n /\ e = b + 4
      BY <3>1
    <3>5. PICK t \in Seq(S) : t = u[b]
      BY <3>3, <3>4
    <3>6. Len(t) = n - 1 /\ \A m \in 1..(n - 1) : t[m] = s[4 * (m - 1) + r]
      BY <3>3, <3>4, <3>5
    <3>7. \A q \in 1..4 : b + q \in 1..l /\ (b + q \in places <=> q = r)
      <4> SUFFICES ASSUME NEW q \in 1..4 PROVE b + q \in 1..l /\ (b + q \in places <=> q = r)
        OBVIOUS
      <4>1. 4 * (n - 1) + q \in places <=> q = r
        BY <3>1 DEF Fourth
      <4>2. b + q \in 1..l
        BY <1>1, <3>1, <3>4
      <4> QED BY <3>4, <4>1, <4>2
    <3>8. /\ u[b + 1] = IF r = 1 THEN Append(t, s[b + 1]) ELSE t
          /\ u[b + 2] = IF r = 2 THEN Append(u[b + 1], s[b + 2]) ELSE u[b + 1]
          /\ u[b + 3] = IF r = 3 THEN Append(u[b + 2], s[b + 3]) ELSE u[b + 2]
          /\ u[b + 4] = IF r = 4 THEN Append(u[b + 3], s[b + 4]) ELSE u[b + 3]
      <4>1. /\ (b + 1) - 1 = b /\ (b + 2) - 1 = b + 1
            /\ (b + 3) - 1 = b + 2 /\ (b + 4) - 1 = b + 3
        OBVIOUS
      <4>2. ASSUME NEW q \in 1..4
            PROVE  u[b + q] = IF q = r THEN Append(u[(b + q) - 1], s[b + q]) ELSE u[(b + q) - 1]
        BY <1>2, <3>7
      <4>3. u[b + 1] = IF r = 1 THEN Append(t, s[b + 1]) ELSE t
        BY <3>5, <4>1, <4>2
      <4>4. u[b + 2] = IF r = 2 THEN Append(u[b + 1], s[b + 2]) ELSE u[b + 1]
        BY <4>1, <4>2
      <4>5. u[b + 3] = IF r = 3 THEN Append(u[b + 2], s[b + 3]) ELSE u[b + 2]
        BY <4>1, <4>2
      <4>6. u[b + 4] = IF r = 4 THEN Append(u[b + 3], s[b + 4]) ELSE u[b + 3]
        BY <4>1, <4>2
      <4> QED BY <4>3, <4>4, <4>5, <4>6
    <3>9. u[b + 4] = Append(t, s[b + r])
      <4>1. r = 1 \/ r = 2 \/ r = 3 \/ r = 4
        OBVIOUS
      <4> QED BY <3>8, <4>1
    <3>10. PICK x \in S : x = s[b + r]
      <4>1. b + r \in 1..Len(s)
        BY <1>1, <3>7
      <4> QED BY <4>1, ElementOfSeq
    <3>11. PICK a \in Seq(S) : a = Append(t, x)
      <4>1. Append(t, x) \in Seq(S)
        OBVIOUS
      <4> QED BY <4>1
    <3>12. Len(a) = n /\ a[n] = x /\ \A m \in 1..(n - 1) : a[m] = t[m]
      BY <3>1, <3>6, <3>11
    <3>13. \A m \in 1..n : a[m] = s[4 * (m - 1) + r]
      <4> SUFFICES ASSUME NEW m \in 1..n PROVE a[m] = s[4 * (m - 1) + r]
        OBVIOUS
      <4>1. m = n \/ m \in 1..(n - 1)
        BY <3>1
      <4> QED BY <3>4, <3>6, <3>10, <3>12, <4>1
    <3>14. u[4 * n] = a
      BY <3>4, <3>9, <3>10, <3>11
    <3> QED BY <2>2, <3>12, <3>13, <3>14
  <2> QED BY <2>3, <2>4
<1>4. Good(N)
  <2>1. N \in 0..N
    OBVIOUS
  <2> QED BY <1>3, <2>1
<1> QED BY <1>1, <1>2, <1>4 DEF EveryFourth

-----------------------------------------------------------------------------
(* The report in blocks of four.                                           *)

(* What a claim's four records have in common.                             *)
Topic(r) == <<r.example, r.claim, r.overlaps>>

(* s has a block for each q[m]: its records in the four configurations, in *)
(* this order. No two blocks are about the same claim.                     *)
Blocks(s, q, N) ==
    /\ s \in Seq(Record)
    /\ Len(s) = 4 * N
    /\ q \in [1..N -> Example \X (Nat \ {0}) \X BOOLEAN]
    /\ \A m \in 1..N, r \in 1..4 :
          /\ Topic(s[4 * (m - 1) + r]) = q[m]
          /\ s[4 * (m - 1) + r].config = AllConfigs[r]
    /\ \A m, k \in 1..N : q[m][1] = q[k][1] /\ q[m][2] = q[k][2] => m = k

(* They are about examples up to e.                                        *)
Upto(q, N, e) == \A m \in 1..N : q[m][1] <= e

(* What one task leaves.                                                   *)
LEMMA PartBlocks ==
    ASSUME BenchInv, phase = "reported", NEW e \in Example
    PROVE  \E N, q : N \in Nat /\ Blocks(records[e], q, N) /\ \A m \in 1..N : q[m][1] = e
<1>1. /\ TaskOk(e, stage[e], claims[e], at[e], round[e], records[e])
      /\ stage[e] \in {"done", "failed"}
  BY DEF BenchInv, TasksOk, AtEnd, Tasks
<1>2. PICK rs \in Seq(Record), cs \in Seq(Claim) : rs = records[e] /\ cs = claims[e]
  BY TaskTypes DEF BenchInv, Typed, Tasks
<1>3. CASE stage[e] = "failed"
  <2>1. rs = << >>
    BY <1>1, <1>2, <1>3 DEF TaskOk
  <2> DEFINE q == [m \in 1..0 |-> << >>]
  <2>2. Blocks(rs, q, 0) /\ \A m \in 1..0 : q[m][1] = e
    <3>1. Len(rs) = 4 * 0
      BY <2>1
    <3>2. \A m \in 1..0 : FALSE
      OBVIOUS
    <3>3. q \in [1..0 -> Example \X (Nat \ {0}) \X BOOLEAN]
      BY <3>2
    <3> HIDE DEF q
    <3> QED BY <3>1, <3>2, <3>3 DEF Blocks
  <2> HIDE DEF q
  <2>3. 0 \in Nat
    OBVIOUS
  <2> QED BY <1>2, <2>2, <2>3
<1>4. CASE stage[e] = "done"
  <2>1. Len(rs) = 4 * Len(cs) /\ Asked(e, cs, rs)
    BY <1>1, <1>2, <1>4 DEF TaskOk
  <2>2. PICK N \in Nat : N = Len(cs)
    BY LenProperties
  <2> DEFINE q == [m \in 1..N |-> <<e, m, cs[m].overlaps>>]
  <2>3. q \in [1..N -> Example \X (Nat \ {0}) \X BOOLEAN]
    <3>1. \A m \in 1..N : cs[m] \in Claim
      BY <2>2, ElementOfSeq
    <3>2. \A m \in 1..N : cs[m].overlaps \in BOOLEAN
      BY <3>1 DEF Claim
    <3> QED BY <3>2
  <2>4. ASSUME NEW m \in 1..N, NEW r \in 1..4
        PROVE  /\ Topic(rs[4 * (m - 1) + r]) = q[m]
               /\ rs[4 * (m - 1) + r].config = AllConfigs[r]
    <3>1. PICK k \in Nat : k = 4 * (m - 1) + r /\ k \in 1..Len(rs) /\ k - 1 = 4 * (m - 1) + (r - 1)
      BY <2>1, <2>2
    <3>2. m \in Nat \ {0} /\ 1 + (m - 1) = m
      OBVIOUS
    <3>3. Nth(e, k) = <<e, m, AllConfigs[r]>> /\ (k - 1) \div 4 = m - 1
      BY <3>1, <3>2, NthIs
    <3>4. /\ <<rs[k].example, rs[k].claim, rs[k].config>> = Nth(e, k)
          /\ rs[k].overlaps = cs[1 + ((k - 1) \div 4)].overlaps
      BY <2>1, <3>1 DEF Asked
    <3> QED BY <3>1, <3>2, <3>3, <3>4 DEF Topic
  <2>5. \A m \in 1..N : q[m][1] = e /\ q[m][2] = m
    OBVIOUS
  <2> HIDE DEF q
  <2>6. Blocks(rs, q, N)
    BY <2>1, <2>2, <2>3, <2>4, <2>5 DEF Blocks
  <2> QED BY <1>2, <2>2, <2>5, <2>6
<1> QED BY <1>1, <1>3, <1>4

(* One task's blocks after those of the tasks before it.                   *)
LEMMA MoreBlocks ==
    ASSUME NEW a, NEW p, NEW M \in Nat, Blocks(a, p, M),
           NEW b, NEW q, NEW N \in Nat, Blocks(b, q, N),
           NEW e \in Nat, Example \subseteq Nat, Upto(p, M, e - 1),
           \A m \in 1..N : q[m][1] = e
    PROVE  \E w : Blocks(a \o b, w, M + N) /\ Upto(w, M + N, e)
<1> DEFINE w == [m \in 1..(M + N) |-> IF m <= M THEN p[m] ELSE q[m - M]]
           T == Example \X (Nat \ {0}) \X BOOLEAN
<1>1. /\ p \in [1..M -> T] /\ q \in [1..N -> T]
      /\ a \in Seq(Record) /\ b \in Seq(Record) /\ Len(a) = 4 * M /\ Len(b) = 4 * N
  BY DEF Blocks
<1>2. PICK s \in Seq(Record) :
         /\ s = a \o b /\ Len(s) = 4 * (M + N)
         /\ \A k \in 1..(4 * (M + N)) : s[k] = IF k <= 4 * M THEN a[k] ELSE b[k - 4 * M]
  <2>1. a \o b \in Seq(Record) /\ Len(a \o b) = 4 * M + 4 * N
    <3>1. PICK S : S = Record
      OBVIOUS
    <3>2. a \in Seq(S) /\ b \in Seq(S)
      BY <1>1, <3>1
    <3>3. a \o b \in Seq(S) /\ Len(a \o b) = Len(a) + Len(b)
      BY <3>2, ConcatProperties
    <3> QED BY <1>1, <3>1, <3>3
  <2>2. ASSUME NEW k \in 1..(4 * (M + N))
        PROVE  (a \o b)[k] = IF k <= 4 * M THEN a[k] ELSE b[k - 4 * M]
    <3>1. k \in 1..(Len(a) + Len(b))
      BY <1>1
    <3>2. PICK S : S = Record
      OBVIOUS
    <3>3. a \in Seq(S) /\ b \in Seq(S)
      BY <1>1, <3>2
    <3>4. (a \o b)[k] = IF k <= Len(a) THEN a[k] ELSE b[k - Len(a)]
      BY <3>1, <3>3, ConcatProperties
    <3> QED BY <1>1, <3>4
  <2>3. 4 * M + 4 * N = 4 * (M + N)
    OBVIOUS
  <2> QED BY <2>1, <2>2, <2>3
<1>b. /\ \A m \in 1..M, r \in 1..4 : /\ Topic(a[4 * (m - 1) + r]) = p[m]
                                    /\ a[4 * (m - 1) + r].config = AllConfigs[r]
      /\ \A m \in 1..N, r \in 1..4 : /\ Topic(b[4 * (m - 1) + r]) = q[m]
                                    /\ b[4 * (m - 1) + r].config = AllConfigs[r]
      /\ \A m, k \in 1..M : p[m][1] = p[k][1] /\ p[m][2] = p[k][2] => m = k
      /\ \A m, k \in 1..N : q[m][1] = q[k][1] /\ q[m][2] = q[k][2] => m = k
  BY DEF Blocks
<1>3. ASSUME NEW m \in 1..(M + N)
      PROVE  \/ m \in 1..M /\ w[m] = p[m]
             \/ /\ m - M \in 1..N /\ w[m] = q[m - M]
                /\ ~(m <= M)
  OBVIOUS
<1>4. w \in [1..(M + N) -> T]
  <2>1. \A m \in 1..(M + N) : w[m] \in T
    BY <1>1, <1>3
  <2> HIDE DEF T
  <2> QED BY <2>1
<1>5. ASSUME NEW m \in 1..(M + N), NEW r \in 1..4
      PROVE  /\ Topic(s[4 * (m - 1) + r]) = w[m]
             /\ s[4 * (m - 1) + r].config = AllConfigs[r]
  <2>1. 4 * (m - 1) + r \in 1..(4 * (M + N))
    OBVIOUS
  <2>2. CASE m \in 1..M
    <3>1. w[m] = p[m] /\ s[4 * (m - 1) + r] = a[4 * (m - 1) + r]
      <4>1. 4 * (m - 1) + r <= 4 * M /\ m <= M
        BY <2>2
      <4> QED BY <1>2, <2>1, <4>1
    <3>2. Topic(a[4 * (m - 1) + r]) = p[m] /\ a[4 * (m - 1) + r].config = AllConfigs[r]
      BY <1>b, <2>2
    <3> QED BY <3>1, <3>2
  <2>3. CASE m \notin 1..M
    <3>1. PICK k \in 1..N : k = m - M
      BY <2>3
    <3>2. /\ ~(4 * (m - 1) + r <= 4 * M)
          /\ (4 * (m - 1) + r) - 4 * M = 4 * (k - 1) + r
      BY <2>3, <3>1
    <3>3. w[m] = q[k] /\ s[4 * (m - 1) + r] = b[4 * (k - 1) + r]
      <4>1. s[4 * (m - 1) + r] = b[(4 * (m - 1) + r) - 4 * M]
        BY <1>2, <2>1, <3>2
      <4>2. ~(m <= M)
        BY <2>3
      <4> QED BY <3>1, <3>2, <4>1, <4>2
    <3>4. Topic(b[4 * (k - 1) + r]) = q[k] /\ b[4 * (k - 1) + r].config = AllConfigs[r]
      BY <1>b
    <3> QED BY <3>3, <3>4
  <2> QED BY <2>2, <2>3
<1>6. /\ \A m \in 1..M : p[m][1] \in Nat /\ p[m][1] <= e - 1
      /\ \A m \in 1..N : q[m][1] = e
  <2>1. \A m \in 1..M : p[m][1] \in Example
    BY <1>1
  <2> QED BY <2>1 DEF Upto
<1>7. Upto(w, M + N, e)
  <2> SUFFICES ASSUME NEW m \in 1..(M + N) PROVE w[m][1] <= e
    BY DEF Upto
  <2> HIDE DEF w
  <2> QED BY <1>3, <1>6
<1>8. ASSUME NEW m \in 1..(M + N), NEW k \in 1..(M + N),
             w[m][1] = w[k][1], w[m][2] = w[k][2]
      PROVE  m = k
  <2> HIDE DEF w
  <2>1. CASE m \in 1..M /\ k \in 1..M
    <3>1. w[m] = p[m] /\ w[k] = p[k]
      BY <1>3, <2>1
    <3> QED BY <1>8, <2>1, <3>1 DEF Blocks
  <2>2. CASE m \notin 1..M /\ k \notin 1..M
    <3>1. /\ m - M \in 1..N /\ k - M \in 1..N
          /\ w[m] = q[m - M] /\ w[k] = q[k - M]
      BY <1>3, <2>2
    <3>2. PICK x \in 1..N, y \in 1..N : x = m - M /\ y = k - M
      BY <3>1
    <3>3. q[x][1] = q[y][1] /\ q[x][2] = q[y][2]
      BY <1>8, <3>1, <3>2
    <3>4. x = y
      BY <1>b, <3>3
    <3> QED BY <3>2, <3>4
  <2>3. CASE m \in 1..M /\ k \notin 1..M
    <3>1. w[m] = p[m] /\ k - M \in 1..N /\ w[k] = q[k - M]
      BY <1>3, <2>3
    <3> QED BY <1>6, <1>8, <2>3, <3>1
  <2>4. CASE m \notin 1..M /\ k \in 1..M
    <3>1. w[k] = p[k] /\ m - M \in 1..N /\ w[m] = q[m - M]
      BY <1>3, <2>4
    <3> QED BY <1>6, <1>8, <2>4, <3>1
  <2> QED BY <2>1, <2>2, <2>3, <2>4
<1> HIDE DEF w, T
<1>9. Blocks(s, w, M + N)
  BY <1>2, <1>4, <1>5, <1>8 DEF Blocks, T
<1> QED BY <1>2, <1>7, <1>9

(* The whole report.                                                       *)
LEMMA ReportBlocks ==
    ASSUME BenchInv, phase = "reported"
    PROVE  \E N, q : N \in Nat /\ Blocks(report, q, N)
<1>1. PICK s \in Seq(Seq(Record)), n \in Nat :
         s = records /\ n = Len(s) /\ Example = 1..n /\ report = FlattenSeq(s)
  BY RecordsAre, LenProperties DEF BenchInv, AtEnd
<1>2. CASE n = 0
  <2>1. s = << >>
    BY <1>1, <1>2, EmptySeq
  <2>2. report = << >>
    BY <1>1, <2>1, Zenon DEF FlattenSeq
  <2> DEFINE q == [m \in 1..0 |-> << >>]
  <2>3. Blocks(report, q, 0)
    <3>1. report \in Seq(Record) /\ Len(report) = 4 * 0
      BY <2>2
    <3>2. \A m \in 1..0 : FALSE
      OBVIOUS
    <3>3. q \in [1..0 -> Example \X (Nat \ {0}) \X BOOLEAN]
      BY <3>2
    <3> HIDE DEF q
    <3> QED BY <3>1, <3>2, <3>3 DEF Blocks
  <2> HIDE DEF q
  <2> QED BY <2>3
<1>3. CASE n # 0
  <2>1. PICK f : Flattens(f, s, Len(s)) /\ FlattenSeq(s) = f[Len(s)]
    <3>1. s # << >>
      BY <1>1, <1>3
    <3> QED BY <3>1, FlattenIs
  <2>2. \A i \in 1..n : f[i] = IF i = 1 THEN s[i] ELSE f[i - 1] \o s[i]
    BY <1>1, <2>1 DEF Flattens
  <2> DEFINE Good(m) == \E N, q : N \in Nat /\ Blocks(f[m], q, N) /\ Upto(q, N, m)
             Bad == {m \in 1..n : ~Good(m)}
  <2>3. Bad = {}
    <3> SUFFICES ASSUME Bad # {} PROVE FALSE
      OBVIOUS
    <3>1. PICK m \in Bad : \A y \in Bad : m <= y
      <4>1. Bad \subseteq Nat
        OBVIOUS
      <4> HIDE DEF Bad
      <4> QED BY <4>1, LeastNat
    <3>2. m \in 1..n /\ ~Good(m) /\ m \in Example
      BY <1>1
    <3>3. PICK K, t : K \in Nat /\ Blocks(s[m], t, K) /\ \A k \in 1..K : t[k][1] = m
      BY <1>1, <3>2, PartBlocks
    <3>4. CASE m = 1
      <4>1. f[m] = s[m]
        BY <2>2, <3>2, <3>4
      <4>2. Upto(t, K, m)
        BY <3>2, <3>3 DEF Upto
      <4> QED BY <3>2, <3>3, <4>1, <4>2
    <3>5. CASE m # 1
      <4>1. m - 1 \in 1..n /\ ~(m <= m - 1) /\ m \in Nat
        BY <3>2, <3>5
      <4>2. m - 1 \notin Bad
        <5> HIDE DEF Bad
        <5> QED BY <3>1, <4>1, Zenon
      <4>3. PICK M, p : M \in Nat /\ Blocks(f[m - 1], p, M) /\ Upto(p, M, m - 1)
        BY <4>1, <4>2
      <4>4. f[m] = f[m - 1] \o s[m]
        BY <2>2, <3>2, <3>5
      <4>5. Example \subseteq Nat
        BY <1>1
      <4>6. \E w : Blocks(f[m - 1] \o s[m], w, M + K) /\ Upto(w, M + K, m)
        BY <3>3, <4>1, <4>3, <4>5, MoreBlocks
      <4>7. M + K \in Nat
        BY <3>3, <4>3
      <4> QED BY <3>2, <4>4, <4>6, <4>7
    <3> QED BY <3>4, <3>5
  <2>4. Good(n)
    <3>1. n \in 1..n
      BY <1>3
    <3> QED BY <2>3, <3>1
  <2>5. f[n] = report
    BY <1>1, <2>1
  <2> QED BY <2>4, <2>5
<1> QED BY <1>2, <1>3

-----------------------------------------------------------------------------
(* The units of the configurations.                                        *)

Label == {"positive", "negative", "abstain"}

Unit == [example : Example, claim : Nat, truth : BOOLEAN, predicted : Label]

Decided(c, u) ==
    \E k \in DOMAIN report :
       /\ report[k].config = c /\ report[k].example = u.example
       /\ u.claim \in {0, report[k].claim}
       /\ report[k].verdict # "UNVERIFIABLE"

(* The units of configuration c, on the questions asks.                    *)
Scoring(units, asks, L, c) ==
    /\ units \in Seq(Unit)
    /\ Len(units) = L
    /\ \A k \in 1..L : <<units[k].example, units[k].claim, units[k].truth>> = asks[k]
    /\ \A k \in 1..L : units[k].predicted = "abstain" <=> ~Decided(c, units[k])

(* The records of configuration c, the r-th of every block.                *)
Mine(c) == Kept(report, {k \in DOMAIN report : report[k].config = c})

Chosen(t, q, N, r, c) ==
    /\ r \in 1..4 /\ AllConfigs[r] = c
    /\ t \in Seq(Record) /\ Len(t) = N
    /\ \A m \in 1..N : t[m] = report[4 * (m - 1) + r] /\ Topic(t[m]) = q[m]

LEMMA ConfigsDiffer ==
    /\ \A c \in BenchConfig : \E r \in 1..4 : AllConfigs[r] = c
    /\ \A r, p \in 1..4 : AllConfigs[r] = AllConfigs[p] => r = p
<1>1. /\ AllConfigs[1] = "baseline" /\ AllConfigs[2] = "minus_prober"
      /\ AllConfigs[3] = "minus_independent" /\ AllConfigs[4] = "full"
  BY DEF AllConfigs
<1>2. \A c \in BenchConfig : \E r \in 1..4 : AllConfigs[r] = c
  BY <1>1 DEF BenchConfig
<1>3. ASSUME NEW r \in 1..4, NEW p \in 1..4, AllConfigs[r] = AllConfigs[p] PROVE r = p
  <2>1. (r = 1 \/ r = 2 \/ r = 3 \/ r = 4) /\ (p = 1 \/ p = 2 \/ p = 3 \/ p = 4)
    OBVIOUS
  <2> QED BY <1>1, <1>3, <2>1
<1> QED BY <1>2, <1>3

(* A place of the report lies in one of its blocks.                        *)
LEMMA InBlock ==
    ASSUME NEW N \in Nat, NEW k \in 1..(4 * N)
    PROVE  \E m \in 1..N, r \in 1..4 : k = 4 * (m - 1) + r
<1>1. PICK d \in Nat, p \in 0..3 : d = (k - 1) \div 4 /\ k - 1 = 4 * d + p
  BY Quarters
<1>2. PICK m \in 1..N, r \in 1..4 : m = d + 1 /\ r = p + 1
  <2>1. d + 1 \in 1..N /\ p + 1 \in 1..4
    BY <1>1
  <2> QED BY <2>1
<1>3. k = 4 * (m - 1) + r
  BY <1>1, <1>2
<1> QED BY <1>3

LEMMA MineIs ==
    ASSUME NEW N \in Nat, NEW q, Blocks(report, q, N), NEW c \in BenchConfig
    PROVE  \E r \in 1..4 : Chosen(Mine(c), q, N, r, c)
<1>1. PICK s \in Seq(Record) : s = report /\ Len(s) = 4 * N
  BY DEF Blocks
<1>2. PICK r \in 1..4 : AllConfigs[r] = c
  BY ConfigsDiffer
<1>3. PICK places : places = {k \in DOMAIN s : s[k].config = c}
  OBVIOUS
<1>4. ASSUME NEW m \in 1..N, NEW p \in 1..4
      PROVE  4 * (m - 1) + p \in places <=> p = r
  <2>1. PICK k \in 1..Len(s) : k = 4 * (m - 1) + p
    <3>1. 4 * (m - 1) + p \in 1..Len(s)
      BY <1>1
    <3> QED BY <3>1
  <2>2. s[k].config = AllConfigs[p]
    BY <1>1, <2>1 DEF Blocks
  <2>3. k \in DOMAIN s
    OBVIOUS
  <2>4. k \in places <=> AllConfigs[p] = c
    BY <1>3, <2>2, <2>3
  <2> QED BY <1>2, <2>1, <2>4, ConfigsDiffer
<1>5. Fourth(s, places, N, r)
  BY <1>1, <1>4 DEF Fourth
<1>6. /\ Kept(s, places) \in Seq(Record) /\ Len(Kept(s, places)) = N
      /\ \A m \in 1..N : Kept(s, places)[m] = s[4 * (m - 1) + r]
  <2>1. PICK S : S = Record
    OBVIOUS
  <2>2. s \in Seq(S)
    BY <2>1
  <2>3. Kept(s, places) \in Seq(S) /\ EveryFourth(Kept(s, places), s, N, r)
    BY <1>5, <2>2, KeptFourth
  <2> QED BY <2>1, <2>3 DEF EveryFourth
<1>7. PICK t : t = Mine(c) /\ t = Kept(s, places)
  BY <1>1, <1>3 DEF Mine
<1>8. ASSUME NEW m \in 1..N PROVE t[m] = report[4 * (m - 1) + r] /\ Topic(t[m]) = q[m]
  <2>1. t[m] = report[4 * (m - 1) + r]
    BY <1>1, <1>6, <1>7
  <2>2. Topic(report[4 * (m - 1) + r]) = q[m]
    BY DEF Blocks
  <2> QED BY <2>1, <2>2
<1>9. Chosen(t, q, N, r, c)
  BY <1>2, <1>6, <1>7, <1>8 DEF Chosen
<1> QED BY <1>7, <1>9

(* What the report holds of configuration c.                               *)
LEMMA OfConfig ==
    ASSUME NEW N \in Nat, NEW q, Blocks(report, q, N), NEW c \in BenchConfig,
           NEW t, NEW r, Chosen(t, q, N, r, c)
    PROVE  /\ \A k \in DOMAIN report : report[k].config = c => \E m \in 1..N : report[k] = t[m]
           /\ \A m \in 1..N : t[m].config = c /\ \E k \in DOMAIN report : report[k] = t[m]
<1>1. PICK s \in Seq(Record) : s = report /\ Len(s) = 4 * N /\ DOMAIN s = 1..(4 * N)
  BY DEF Blocks
<1>2. r \in 1..4 /\ AllConfigs[r] = c /\ \A m \in 1..N : t[m] = s[4 * (m - 1) + r]
  BY <1>1 DEF Chosen
<1>3. \A m \in 1..N, p \in 1..4 : s[4 * (m - 1) + p].config = AllConfigs[p]
  BY <1>1 DEF Blocks
<1>4. ASSUME NEW k \in 1..(4 * N), s[k].config = c PROVE \E m \in 1..N : s[k] = t[m]
  <2>1. PICK m \in 1..N, p \in 1..4 : k = 4 * (m - 1) + p
    BY InBlock
  <2>2. s[4 * (m - 1) + p].config = AllConfigs[p]
    BY <1>3
  <2>3. p = r
    BY <1>2, <1>4, <2>1, <2>2, ConfigsDiffer
  <2> QED BY <1>2, <2>1, <2>3
<1>5. ASSUME NEW m \in 1..N PROVE t[m].config = c /\ \E k \in DOMAIN s : s[k] = t[m]
  <2>1. 4 * (m - 1) + r \in 1..(4 * N)
    BY <1>2
  <2>2. t[m] = s[4 * (m - 1) + r]
    BY <1>2
  <2>3. s[4 * (m - 1) + r].config = AllConfigs[r]
    BY <1>2, <1>3
  <2> QED BY <1>1, <1>2, <2>1, <2>2, <2>3
<1> QED BY <1>1, <1>4, <1>5

LEMMA LabelOf ==
    ASSUME NEW v \in Verdict
    PROVE  Predicted(v) \in Label /\ (Predicted(v) = "abstain" <=> v = "UNVERIFIABLE")
BY DEF Predicted, Label, Verdict

(* RAGTruth: one unit per claim.                                           *)
LEMMA ClaimUnits ==
    ASSUME NEW N \in Nat, NEW q, Blocks(report, q, N), NEW c \in BenchConfig,
           dataset = "ragtruth"
    PROVE  Scoring(Units(report, c), q, N, c)
<1>1. PICK r, t : r \in 1..4 /\ t = Mine(c) /\ Chosen(t, q, N, r, c)
  BY MineIs
<1>2. t \in Seq(Record) /\ Len(t) = N /\ DOMAIN t = 1..N /\ \A m \in 1..N : Topic(t[m]) = q[m]
  BY <1>1 DEF Chosen
<1>3. PICK u : u = Units(report, c)
  OBVIOUS
<1>4. u = [k \in 1..N |-> [example |-> t[k].example, claim |-> t[k].claim,
                           truth |-> t[k].overlaps, predicted |-> Predicted(t[k].verdict)]]
  BY <1>1, <1>2, <1>3 DEF Units, Mine
<1>5. ASSUME NEW k \in 1..N
      PROVE  /\ u[k].example = t[k].example /\ u[k].claim = t[k].claim
             /\ u[k].truth = t[k].overlaps /\ u[k].predicted = Predicted(t[k].verdict)
             /\ u[k].claim # 0 /\ u[k] \in Unit
  <2>1. t[k] \in Record
    BY <1>2, ElementOfSeq
  <2>2. /\ t[k].example \in Example /\ t[k].claim \in Nat \ {0}
        /\ t[k].overlaps \in BOOLEAN /\ t[k].verdict \in Verdict
    BY <2>1 DEF Record
  <2>3. Predicted(t[k].verdict) \in Label
    BY <2>2, LabelOf
  <2>4. u[k] = [example |-> t[k].example, claim |-> t[k].claim,
                truth |-> t[k].overlaps, predicted |-> Predicted(t[k].verdict)]
    BY <1>4
  <2> QED BY <2>2, <2>3, <2>4 DEF Unit
<1>6. u \in Seq(Unit) /\ Len(u) = N
  <2>1. u \in [1..N -> Unit] /\ DOMAIN u = 1..N
    BY <1>4, <1>5
  <2>2. u \in Seq(Unit)
    BY <2>1
  <2> QED BY <2>1, <2>2, LenProperties
<1>7. \A k \in 1..N : <<u[k].example, u[k].claim, u[k].truth>> = q[k]
  BY <1>2, <1>5 DEF Topic
<1>8. ASSUME NEW k \in 1..N PROVE u[k].predicted = "abstain" <=> ~Decided(c, u[k])
  <2>1. u[k].predicted = "abstain" <=> t[k].verdict = "UNVERIFIABLE"
    <3>1. t[k] \in Record
      BY <1>2, ElementOfSeq
    <3> QED BY <1>5, <3>1, LabelOf DEF Record
  <2>2. ASSUME t[k].verdict # "UNVERIFIABLE" PROVE Decided(c, u[k])
    <3>1. PICK j \in DOMAIN report : report[j] = t[k] /\ t[k].config = c
      BY <1>1, OfConfig
    <3> QED BY <1>5, <2>2, <3>1 DEF Decided
  <2>3. ASSUME Decided(c, u[k]) PROVE t[k].verdict # "UNVERIFIABLE"
    <3>1. PICK j \in DOMAIN report :
             /\ report[j].config = c /\ report[j].example = u[k].example
             /\ u[k].claim \in {0, report[j].claim}
             /\ report[j].verdict # "UNVERIFIABLE"
      BY <2>3 DEF Decided
    <3>2. PICK m \in 1..N : report[j] = t[m]
      BY <1>1, <3>1, OfConfig
    <3>3. t[m].example = t[k].example /\ t[m].claim = t[k].claim
      BY <1>5, <3>1, <3>2
    <3>4. q[m][1] = q[k][1] /\ q[m][2] = q[k][2]
      BY <1>2, <3>3 DEF Topic
    <3>5. m = k
      BY <3>4 DEF Blocks
    <3> QED BY <3>1, <3>2, <3>5
  <2> QED BY <2>1, <2>2, <2>3
<1> QED BY <1>3, <1>6, <1>7, <1>8 DEF Scoring

(* HaluEval: one unit per response that has a claim.                       *)
Answered(q, N) ==
    Kept([e \in Example |-> e], {e \in Example : {k \in 1..N : q[k][1] = e} # {}})

Asks(q, N) ==
    [n \in 1..Len(Answered(q, N)) |->
        <<Answered(q, N)[n], 0, IsHallucinated(Answered(q, N)[n])>>]

LEMMA AnsweredIs ==
    ASSUME BenchInv, NEW N \in Nat, NEW q
    PROVE  /\ Answered(q, N) \in Seq(Example)
           /\ \A n \in 1..Len(Answered(q, N)) : \E k \in 1..N : q[k][1] = Answered(q, N)[n]
<1>1. PICK l \in Nat : Example = 1..l
  BY LenProperties DEF BenchInv, Loaded, Example
<1>2. PICK s : s = [e \in Example |-> e]
  OBVIOUS
<1>3. s \in Seq(Example) /\ Len(s) = l
  <2>1. s \in [1..l -> Example] /\ DOMAIN s = 1..l
    BY <1>1, <1>2
  <2>2. s \in Seq(Example)
    BY <2>1
  <2> QED BY <2>1, <2>2, LenProperties
<1>4. PICK places : places = {e \in Example : {k \in 1..N : q[k][1] = e} # {}}
  OBVIOUS
<1>5. PICK a : a = Answered(q, N) /\ a = Kept(s, places)
  BY <1>2, <1>4 DEF Answered
<1>6. PICK S : S = Example
  OBVIOUS
<1>7. a \in Seq(S) /\ \E n, pos : n \in Nat /\ Takes(a, s, places \cap (1..Len(s)), pos, n)
  <2>1. s \in Seq(S)
    BY <1>3, <1>6
  <2> QED BY <1>5, <2>1, KeptTakes
<1>8. PICK n, pos : n \in Nat /\ Takes(a, s, places \cap (1..Len(s)), pos, n)
  BY <1>7
<1>9. ASSUME NEW k \in 1..n PROVE a[k] \in places
  <2>1. a[k] = s[pos[k]] /\ pos[k] \in places \cap (1..Len(s))
    BY <1>8 DEF Takes
  <2>2. s[pos[k]] = pos[k]
    BY <1>1, <1>2, <1>3, <2>1
  <2> QED BY <2>1, <2>2
<1>10. Len(a) = n
  BY <1>8 DEF Takes
<1>11. \A k \in 1..n : \E j \in 1..N : q[j][1] = a[k]
  BY <1>4, <1>9
<1> QED BY <1>5, <1>6, <1>7, <1>10, <1>11

LEMMA Aggregated ==
    ASSUME NEW P \in SUBSET Label, P # {}
    PROVE  OrAggregate(P) \in Label /\ (OrAggregate(P) = "abstain" <=> P = {"abstain"})
BY DEF OrAggregate, Label

Aggregates(answered, mine) ==
    [n \in DOMAIN answered |->
        [example |-> answered[n], claim |-> 0, truth |-> IsHallucinated(answered[n]),
         predicted |-> OrAggregate({Predicted(mine[k].verdict) :
                            k \in {j \in DOMAIN mine : mine[j].example = answered[n]}})]]

LEMMA UnitsAggregate ==
    ASSUME dataset # "ragtruth", NEW c
    PROVE  Units(report, c)
             = Aggregates(Kept([e \in Example |-> e],
                               {e \in Example : {k \in DOMAIN Mine(c) : Mine(c)[k].example = e} # {}}),
                          Mine(c))
BY DEF Units, Mine, Aggregates

LEMMA ResponseUnits ==
    ASSUME BenchInv, NEW N \in Nat, NEW q, Blocks(report, q, N), NEW c \in BenchConfig,
           dataset # "ragtruth"
    PROVE  Scoring(Units(report, c), Asks(q, N), Len(Answered(q, N)), c)
<1>1. PICK r, t : r \in 1..4 /\ t = Mine(c) /\ Chosen(t, q, N, r, c)
  BY MineIs
<1>2. t \in Seq(Record) /\ Len(t) = N /\ DOMAIN t = 1..N /\ \A m \in 1..N : Topic(t[m]) = q[m]
  BY <1>1 DEF Chosen
<1>3. \A m \in 1..N : t[m].example = q[m][1]
  BY <1>2 DEF Topic
<1>f. /\ \A k \in DOMAIN report : report[k].config = c => \E m \in 1..N : report[k] = t[m]
      /\ \A m \in 1..N : t[m].config = c /\ \E k \in DOMAIN report : report[k] = t[m]
  BY <1>1, OfConfig
<1> DEFINE Of(e) == {k \in 1..N : t[k].example = e}
           Labels(e) == {Predicted(t[k].verdict) : k \in Of(e)}
<1>4. \A e \in Example : Of(e) = {k \in 1..N : q[k][1] = e}
  BY <1>3
<1>5. PICK a \in Seq(Example) : /\ a = Answered(q, N)
                                /\ \A n \in 1..Len(a) : \E k \in 1..N : q[k][1] = a[n]
  BY AnsweredIs
<1>6. {e \in Example : Of(e) # {}} = {e \in Example : {k \in 1..N : q[k][1] = e} # {}}
  BY <1>4
<1>7. a = Kept([e \in Example |-> e], {e \in Example : Of(e) # {}})
  BY <1>5, <1>6 DEF Answered
<1>8. PICK L \in Nat : L = Len(a) /\ DOMAIN a = 1..L
  BY LenProperties
<1>9. PICK u : u = Units(report, c)
  OBVIOUS
<1>10. u = [n \in 1..L |-> [example |-> a[n], claim |-> 0, truth |-> IsHallucinated(a[n]),
                            predicted |-> OrAggregate(Labels(a[n]))]]
  <2>1. {e \in Example : {k \in DOMAIN t : t[k].example = e} # {}} = {e \in Example : Of(e) # {}}
    BY <1>2
  <2>2. u = Aggregates(Kept([e \in Example |-> e],
                            {e \in Example : {k \in DOMAIN t : t[k].example = e} # {}}), t)
    BY <1>1, <1>9, UnitsAggregate
  <2>3. u = Aggregates(a, t)
    <3> HIDE DEF Of
    <3> QED BY <1>7, <2>1, <2>2
  <2> QED BY <1>2, <1>8, <2>3 DEF Aggregates
<1>11. ASSUME NEW n \in 1..L
       PROVE  /\ a[n] \in Example /\ Labels(a[n]) \in SUBSET Label /\ Labels(a[n]) # {}
              /\ Labels(a[n]) = {"abstain"}
                    <=> \A k \in 1..N : t[k].example = a[n] => t[k].verdict = "UNVERIFIABLE"
  <2>1. a[n] \in Example
    BY <1>8, ElementOfSeq
  <2>2. \A k \in 1..N : t[k].verdict \in Verdict
    <3>1. \A k \in 1..N : t[k] \in Record
      BY <1>2, ElementOfSeq
    <3> QED BY <3>1 DEF Record
  <2>3. \A k \in 1..N : /\ Predicted(t[k].verdict) \in Label
                        /\ Predicted(t[k].verdict) = "abstain" <=> t[k].verdict = "UNVERIFIABLE"
    BY <2>2, LabelOf
  <2>4. \E k \in 1..N : t[k].example = a[n]
    BY <1>3, <1>5, <1>8
  <2> QED BY <2>1, <2>3, <2>4
<1> HIDE DEF Labels, Of
<1>12. ASSUME NEW n \in 1..L
       PROVE  /\ u[n].example = a[n] /\ u[n].claim = 0 /\ u[n].truth = IsHallucinated(a[n])
              /\ u[n].predicted = OrAggregate(Labels(a[n]))
              /\ u[n] \in Unit
  <2>1. OrAggregate(Labels(a[n])) \in Label
    BY <1>11, Aggregated
  <2>2. IsHallucinated(a[n]) \in BOOLEAN
    BY DEF IsHallucinated
  <2> QED BY <1>10, <1>11, <2>1, <2>2 DEF Unit
<1>13. u \in Seq(Unit) /\ Len(u) = L
  <2>1. u \in [1..L -> Unit] /\ DOMAIN u = 1..L
    BY <1>10, <1>12
  <2>2. u \in Seq(Unit)
    BY <2>1
  <2> QED BY <2>1, <2>2, LenProperties
<1>14. \A n \in 1..L : <<u[n].example, u[n].claim, u[n].truth>> = Asks(q, N)[n]
  BY <1>5, <1>8, <1>12 DEF Asks
<1>15. ASSUME NEW n \in 1..L PROVE u[n].predicted = "abstain" <=> ~Decided(c, u[n])
  <2>1. u[n].predicted = "abstain" <=>
           \A k \in 1..N : t[k].example = a[n] => t[k].verdict = "UNVERIFIABLE"
    <3>1. OrAggregate(Labels(a[n])) = "abstain" <=> Labels(a[n]) = {"abstain"}
      BY <1>11, Aggregated
    <3> QED BY <1>11, <1>12, <3>1
  <2>2. ASSUME NEW k \in 1..N, t[k].example = a[n], t[k].verdict # "UNVERIFIABLE"
        PROVE  Decided(c, u[n])
    <3>1. PICK j \in DOMAIN report : report[j] = t[k] /\ t[k].config = c
      BY <1>f
    <3> QED BY <1>12, <2>2, <3>1 DEF Decided
  <2>3. ASSUME Decided(c, u[n])
        PROVE  \E k \in 1..N : t[k].example = a[n] /\ t[k].verdict # "UNVERIFIABLE"
    <3>1. PICK j \in DOMAIN report :
             /\ report[j].config = c /\ report[j].example = u[n].example
             /\ report[j].verdict # "UNVERIFIABLE"
      BY <2>3 DEF Decided
    <3>2. PICK m \in 1..N : report[j] = t[m]
      BY <1>f, <3>1
    <3> QED BY <1>12, <3>1, <3>2
  <2> QED BY <2>1, <2>2, <2>3
<1> QED BY <1>5, <1>8, <1>9, <1>13, <1>14, <1>15 DEF Scoring

(* All configurations are scored on the same questions.                    *)
LEMMA UnitsScored ==
    ASSUME BenchInv, phase = "reported"
    PROVE  \E L, asks : L \in Nat /\ \A c \in BenchConfig : Scoring(Units(report, c), asks, L, c)
<1>1. PICK N, q : N \in Nat /\ Blocks(report, q, N)
  BY ReportBlocks
<1>2. CASE dataset = "ragtruth"
  <2>1. \A c \in BenchConfig : Scoring(Units(report, c), q, N, c)
    BY <1>1, <1>2, ClaimUnits
  <2> QED BY <1>1, <2>1
<1>3. CASE dataset # "ragtruth"
  <2>1. \A c \in BenchConfig : Scoring(Units(report, c), Asks(q, N), Len(Answered(q, N)), c)
    BY <1>1, <1>3, ResponseUnits
  <2>2. Len(Answered(q, N)) \in Nat
    BY <1>1, AnsweredIs, LenProperties
  <2> QED BY <2>1, <2>2
<1> QED BY <1>2, <1>3

(* A confusion matrix accounts for every unit once.                        *)
Count(units, predicted, truth) ==
    Cardinality({k \in DOMAIN units : units[k].predicted = predicted
                                      /\ units[k].truth = truth})

LEMMA ConfusionIs ==
    ASSUME NEW units
    PROVE  /\ Confusion(units).tp = Count(units, "positive", TRUE)
           /\ Confusion(units).fp = Count(units, "positive", FALSE)
           /\ Confusion(units).fn = Count(units, "negative", TRUE)
           /\ Confusion(units).tn = Count(units, "negative", FALSE)
           /\ Confusion(units).abstained
                = Count(units, "abstain", TRUE) + Count(units, "abstain", FALSE)
BY DEF Confusion, Count

LEMMA TwoParts ==
    ASSUME NEW S, NEW A, NEW B, IsFiniteSet(S), A \cup B = S, A \cap B = {}
    PROVE  /\ IsFiniteSet(A) /\ IsFiniteSet(B)
           /\ Cardinality(A) \in Nat /\ Cardinality(B) \in Nat
           /\ Cardinality(S) = Cardinality(A) + Cardinality(B)
<1>1. IsFiniteSet(A) /\ IsFiniteSet(B)
  BY FS_Subset
<1>2. /\ Cardinality(A) \in Nat /\ Cardinality(B) \in Nat
      /\ Cardinality({}) = 0
  BY <1>1, FS_CardinalityType, FS_EmptySet
<1>3. Cardinality(A \cup B) = Cardinality(A) + Cardinality(B) - Cardinality(A \cap B)
  BY <1>1, FS_Union
<1>4. PICK a \in Nat, b \in Nat : a = Cardinality(A) /\ b = Cardinality(B)
  BY <1>2
<1>5. Cardinality(S) = a + b - 0
  BY <1>2, <1>3, <1>4
<1> QED BY <1>1, <1>4, <1>5

LEMMA Accounted ==
    ASSUME NEW units \in Seq(Unit)
    PROVE  LET n == Confusion(units)
           IN  n.tp + n.fp + n.fn + n.tn + n.abstained = Len(units)
<1>1. PICK L \in Nat : L = Len(units) /\ DOMAIN units = 1..L
  BY LenProperties
<1>2. \A k \in 1..L : units[k].predicted \in Label /\ units[k].truth \in BOOLEAN
  <2>1. \A k \in 1..L : units[k] \in Unit
    BY <1>1, ElementOfSeq
  <2> QED BY <2>1 DEF Unit
<1> DEFINE Of(p, b) == {k \in 1..L : units[k].predicted = p /\ units[k].truth = b}
           All(b) == {k \in 1..L : units[k].truth = b}
           Rest(b) == Of("negative", b) \cup Of("abstain", b)
<1>3. IsFiniteSet(1..L) /\ Cardinality(1..L) = L
  <2>1. IsFiniteSet(1..L) /\ Cardinality(1..L) = IF 1 > L THEN 0 ELSE L - 1 + 1
    BY FS_Interval
  <2> QED BY <2>1
<1>4. /\ All(TRUE) \cup All(FALSE) = 1..L /\ All(TRUE) \cap All(FALSE) = {}
  BY <1>2
<1>5. ASSUME NEW b \in BOOLEAN
      PROVE  /\ Of("positive", b) \cup Rest(b) = All(b) /\ Of("positive", b) \cap Rest(b) = {}
             /\ Of("negative", b) \cap Of("abstain", b) = {}
  BY <1>2 DEF Label
<1>6. \A p, b : Count(units, p, b) = Cardinality(Of(p, b))
  BY <1>1 DEF Count
<1> HIDE DEF Of, All
<1>7. /\ IsFiniteSet(All(TRUE)) /\ IsFiniteSet(All(FALSE))
      /\ Cardinality(All(TRUE)) \in Nat /\ Cardinality(All(FALSE)) \in Nat
      /\ L = Cardinality(All(TRUE)) + Cardinality(All(FALSE))
  <2>1. PICK S, A, B : S = 1..L /\ A = All(TRUE) /\ B = All(FALSE)
    OBVIOUS
  <2>2. IsFiniteSet(S) /\ A \cup B = S /\ A \cap B = {}
    BY <1>3, <1>4, <2>1
  <2>3. /\ IsFiniteSet(A) /\ IsFiniteSet(B)
        /\ Cardinality(A) \in Nat /\ Cardinality(B) \in Nat
        /\ Cardinality(S) = Cardinality(A) + Cardinality(B)
    BY <2>2, TwoParts
  <2> QED BY <1>3, <2>1, <2>3
<1>8. ASSUME NEW b \in BOOLEAN
      PROVE  /\ \A p \in Label : Cardinality(Of(p, b)) \in Nat
             /\ Cardinality(All(b)) = Cardinality(Of("positive", b))
                  + Cardinality(Of("negative", b)) + Cardinality(Of("abstain", b))
  <2>1. IsFiniteSet(All(b))
    BY <1>7
  <2>2. /\ IsFiniteSet(Rest(b)) /\ Cardinality(Of("positive", b)) \in Nat
        /\ Cardinality(Rest(b)) \in Nat
        /\ Cardinality(All(b)) = Cardinality(Of("positive", b)) + Cardinality(Rest(b))
    BY <1>5, <2>1, TwoParts
  <2>3. /\ Cardinality(Of("negative", b)) \in Nat /\ Cardinality(Of("abstain", b)) \in Nat
        /\ Cardinality(Rest(b)) = Cardinality(Of("negative", b)) + Cardinality(Of("abstain", b))
    BY <1>5, <2>2, TwoParts
  <2> QED BY <2>2, <2>3 DEF Label
<1>9. PICK a \in Nat, b \in Nat, c \in Nat, d \in Nat, e \in Nat, f \in Nat :
         /\ a = Count(units, "positive", TRUE) /\ b = Count(units, "positive", FALSE)
         /\ c = Count(units, "negative", TRUE) /\ d = Count(units, "negative", FALSE)
         /\ e = Count(units, "abstain", TRUE) /\ f = Count(units, "abstain", FALSE)
         /\ L = (a + c + e) + (b + d + f)
  <2>1. \A p \in Label, x \in BOOLEAN : Count(units, p, x) \in Nat
    BY <1>6, <1>8
  <2>2. PICK x \in Nat, y \in Nat :
           x = Cardinality(All(TRUE)) /\ y = Cardinality(All(FALSE)) /\ L = x + y
    BY <1>7
  <2>3. /\ x = Count(units, "positive", TRUE) + Count(units, "negative", TRUE)
                + Count(units, "abstain", TRUE)
        /\ y = Count(units, "positive", FALSE) + Count(units, "negative", FALSE)
                + Count(units, "abstain", FALSE)
    BY <1>6, <1>8, <2>2
  <2> QED BY <2>1, <2>2, <2>3 DEF Label
<1>10. /\ Confusion(units).tp = a /\ Confusion(units).fp = b /\ Confusion(units).fn = c
       /\ Confusion(units).tn = d /\ Confusion(units).abstained = e + f
  BY <1>9, ConfusionIs
<1>11. Confusion(units).tp + Confusion(units).fp + Confusion(units).fn
          + Confusion(units).tn + Confusion(units).abstained = a + b + c + d + (e + f)
  BY <1>10
<1>12. a + b + c + d + (e + f) = L
  <2>1. L = (a + c + e) + (b + d + f)
    BY <1>9
  <2> QED BY <2>1
<1> QED BY <1>1, <1>11, <1>12

(* The four columns of the benchmark's main table are comparable, for any  *)
(* dataset, answers and failures: each configuration is scored on the same *)
(* units with the same truths, each unit once, and abstains only on those  *)
(* it has no verdict on.                                                   *)
THEOREM UnitsCompared == Spec => []UnitsAreComparable
<1>1. BenchInv => UnitsAreComparable
  <2> SUFFICES ASSUME BenchInv, phase = "reported" PROVE UnitsAreComparable
    BY DEF UnitsAreComparable
  <2>1. PICK L, asks : L \in Nat /\ \A c \in BenchConfig : Scoring(Units(report, c), asks, L, c)
    BY UnitsScored
  <2> DEFINE Questions(c) == [k \in DOMAIN Units(report, c) |->
                                 <<Units(report, c)[k].example, Units(report, c)[k].claim,
                                   Units(report, c)[k].truth>>]
  <2>2. ASSUME NEW c \in BenchConfig
        PROVE  /\ DOMAIN Units(report, c) = 1..L /\ Units(report, c) \in Seq(Unit)
               /\ Questions(c) = [k \in 1..L |-> asks[k]]
    <3>1. PICK u \in Seq(Unit) : u = Units(report, c) /\ Scoring(u, asks, L, c)
      BY <2>1 DEF Scoring
    <3>2. DOMAIN u = 1..L
      BY <3>1, LenProperties DEF Scoring
    <3>3. \A k \in 1..L : <<u[k].example, u[k].claim, u[k].truth>> = asks[k]
      BY <3>1 DEF Scoring
    <3>4. Questions(c) = [k \in 1..L |-> <<u[k].example, u[k].claim, u[k].truth>>]
      BY <3>1, <3>2
    <3>5. [k \in 1..L |-> <<u[k].example, u[k].claim, u[k].truth>>] = [k \in 1..L |-> asks[k]]
      BY <3>3
    <3> QED BY <3>1, <3>2, <3>4, <3>5
  <2>3. "full" \in BenchConfig
    BY DEF BenchConfig
  <2>4. ASSUME NEW c \in BenchConfig
        PROVE  /\ Questions(c) = Questions("full")
               /\ LET n == Confusion(Units(report, c))
                  IN  n.tp + n.fp + n.fn + n.tn + n.abstained = Len(Units(report, c))
               /\ \A k \in DOMAIN Units(report, c) :
                     Units(report, c)[k].predicted = "abstain"
                        <=> ~Decided(c, Units(report, c)[k])
    <3>1. Questions(c) = Questions("full")
      <4> HIDE DEF Questions
      <4> QED BY <2>2, <2>3
    <3>2. LET n == Confusion(Units(report, c))
          IN  n.tp + n.fp + n.fn + n.tn + n.abstained = Len(Units(report, c))
      BY <2>2, Accounted
    <3>3. \A k \in 1..L : Units(report, c)[k].predicted = "abstain"
                             <=> ~Decided(c, Units(report, c)[k])
      BY <2>1 DEF Scoring
    <3> QED BY <2>2, <3>1, <3>2, <3>3
  <2> QED BY <2>4 DEF UnitsAreComparable, Decided
<1> QED BY <1>1, AlwaysBench, PTL

-----------------------------------------------------------------------------
(* The disagreement analysis.                                              *)

Unanimous(all) ==
    {k \in DOMAIN Units(all, "baseline") : \A c \in BenchConfig :
        LET Alike == {v \in Range(Units(all, c)) :
                         /\ v.example = Units(all, "baseline")[k].example
                         /\ v.claim = Units(all, "baseline")[k].claim}
        IN  Alike # {} /\ \A v \in Alike : Wrong(v)}

LEMMA CasesAre == \A all : Cases(all) = Kept(Units(all, "baseline"), Unanimous(all))
BY DEF Cases, Unanimous

(* The cases with truth b are, each at a place of its own, errors of c.    *)
LEMMA CasesCounted ==
    ASSUME BenchInv, phase = "reported", NEW c \in BenchConfig, NEW b \in BOOLEAN,
           NEW label, label = IF b THEN "negative" ELSE "positive"
    PROVE  /\ Cases(report) \in Seq(Unit)
           /\ Cardinality({k \in DOMAIN Cases(report) : Cases(report)[k].truth = b})
                <= Count(Units(report, c), label, b)
<1>1. PICK L, asks : L \in Nat /\ \A d \in BenchConfig : Scoring(Units(report, d), asks, L, d)
  BY UnitsScored
<1>2. PICK s, u : /\ s = Units(report, "baseline") /\ u = Units(report, c)
                  /\ Scoring(s, asks, L, "baseline") /\ Scoring(u, asks, L, c)
  BY <1>1 DEF BenchConfig
<1>3. /\ s \in Seq(Unit) /\ u \in Seq(Unit) /\ Len(s) = L /\ Len(u) = L
      /\ DOMAIN s = 1..L /\ DOMAIN u = 1..L
      /\ \A k \in 1..L : s[k].example = u[k].example /\ s[k].claim = u[k].claim
                         /\ s[k].truth = u[k].truth
  <2>1. \A k \in 1..L : <<s[k].example, s[k].claim, s[k].truth>>
                           = <<u[k].example, u[k].claim, u[k].truth>>
    BY <1>2 DEF Scoring
  <2>2. s \in Seq(Unit) /\ u \in Seq(Unit) /\ Len(s) = L /\ Len(u) = L
    BY <1>2 DEF Scoring
  <2> QED BY <2>1, <2>2, LenProperties
<1>4. PICK places, t : /\ places = Unanimous(report) /\ t = Cases(report)
                       /\ t = Kept(s, places)
  BY <1>2, CasesAre
<1>5. ASSUME NEW k \in 1..L, k \in places, u[k].truth = b PROVE u[k].predicted = label
  <2>1. u[k] \in Range(u)
    BY <1>3 DEF Range
  <2>2. Wrong(u[k])
    BY <1>2, <1>3, <1>4, <1>5, <2>1 DEF Unanimous
  <2> QED BY <1>5, <2>2 DEF Wrong
<1>6. PICK n, pos : n \in Nat /\ Takes(t, s, places \cap (1..Len(s)), pos, n)
  <2>1. PICK S : S = Unit
    OBVIOUS
  <2>2. s \in Seq(S)
    BY <1>3, <2>1
  <2> QED BY <1>4, <2>2, KeptTakes
<1>7. t \in Seq(Unit)
  <2>1. PICK S : S = Unit
    OBVIOUS
  <2>2. s \in Seq(S)
    BY <1>3, <2>1
  <2>3. t \in Seq(S)
    BY <1>4, <2>2, KeptTakes
  <2> QED BY <2>1, <2>3
<1>8. /\ Len(t) = n /\ DOMAIN t = 1..n
      /\ \A k \in 1..n : pos[k] \in places /\ pos[k] \in 1..L /\ t[k] = s[pos[k]]
      /\ \A j, k \in 1..n : pos[j] = pos[k] => j = k
  <2>1. /\ Len(t) = n /\ pos \in [1..n -> places \cap (1..L)]
        /\ \A k \in 1..n : t[k] = s[pos[k]]
        /\ \A j, k \in 1..n : pos[j] = pos[k] => j = k
    BY <1>3, <1>6 DEF Takes
  <2> QED BY <1>7, <2>1, LenProperties
<1>9. PICK A, B : /\ A = {k \in 1..n : t[k].truth = b}
                  /\ B = {k \in 1..L : u[k].predicted = label /\ u[k].truth = b}
  OBVIOUS
<1>10. PICK f : f = [k \in A |-> pos[k]]
  OBVIOUS
<1>11. f \in Injection(A, B)
  <2>1. ASSUME NEW k \in A PROVE f[k] \in B
    <3>1. k \in 1..n /\ t[k].truth = b /\ f[k] = pos[k]
      BY <1>9, <1>10
    <3>2. pos[k] \in 1..L /\ pos[k] \in places /\ t[k] = s[pos[k]]
      BY <1>8, <3>1
    <3>3. u[pos[k]].truth = b
      BY <1>3, <3>1, <3>2
    <3> QED BY <1>5, <1>9, <3>1, <3>2, <3>3
  <2>2. f \in [A -> B]
    BY <1>10, <2>1
  <2>3. \A j, k \in A : f[j] = f[k] => j = k
    BY <1>8, <1>9, <1>10
  <2> QED BY <2>2, <2>3 DEF Injection, IsInjective
<1>12. IsFiniteSet(B)
  <2>1. IsFiniteSet(1..L)
    BY <1>1, FS_Interval
  <2>2. B \in SUBSET (1..L)
    BY <1>9
  <2> QED BY <2>1, <2>2, FS_Subset
<1>13. Cardinality(A) <= Cardinality(B)
  BY <1>11, <1>12, FS_Injection
<1>14. Cardinality(B) = Count(u, label, b)
  BY <1>3, <1>9 DEF Count
<1>15. {k \in DOMAIN Cases(report) : Cases(report)[k].truth = b} = A
  BY <1>4, <1>8, <1>9
<1> QED BY <1>2, <1>4, <1>7, <1>13, <1>14, <1>15

(* The disagreement analysis matches units by their key, the main table    *)
(* counts each configuration by itself: for any answers, every case listed *)
(* is an error in the matrix of each configuration.                        *)
THEOREM CasesListed == Spec => []CasesAreErrors
<1>1. BenchInv => CasesAreErrors
  <2> SUFFICES ASSUME BenchInv, phase = "reported", NEW c \in BenchConfig,
                      NEW t, t = Cases(report), NEW m, m = Confusion(Units(report, c))
               PROVE  /\ Cardinality({k \in DOMAIN t : t[k].truth}) <= m.fn
                      /\ Len(t) - Cardinality({k \in DOMAIN t : t[k].truth}) <= m.fp
    BY DEF CasesAreErrors
  <2>1. t \in Seq(Unit)
    BY CasesCounted
  <2>2. PICK n \in Nat : n = Len(t) /\ DOMAIN t = 1..n
    BY <2>1, LenProperties
  <2>3. PICK A, B : A = {k \in 1..n : t[k].truth = TRUE} /\ B = {k \in 1..n : t[k].truth = FALSE}
    OBVIOUS
  <2>4. \A k \in 1..n : t[k].truth \in BOOLEAN
    <3>1. \A k \in 1..n : t[k] \in Unit
      BY <2>1, <2>2, ElementOfSeq
    <3> QED BY <3>1 DEF Unit
  <2>5. Cardinality(A) <= m.fn
    <3>1. Cardinality({k \in DOMAIN t : t[k].truth = TRUE}) <= Count(Units(report, c), "negative", TRUE)
      BY CasesCounted
    <3> QED BY <2>2, <2>3, <3>1, ConfusionIs
  <2>6. Cardinality(B) <= m.fp
    <3>1. Cardinality({k \in DOMAIN t : t[k].truth = FALSE}) <= Count(Units(report, c), "positive", FALSE)
      BY CasesCounted
    <3> QED BY <2>2, <2>3, <3>1, ConfusionIs
  <2>7. /\ Cardinality(A) \in Nat /\ Cardinality(B) \in Nat
        /\ n = Cardinality(A) + Cardinality(B)
    <3>1. PICK S : S = 1..n
      OBVIOUS
    <3>2. IsFiniteSet(S) /\ Cardinality(S) = n
      <4>1. IsFiniteSet(1..n) /\ Cardinality(1..n) = IF 1 > n THEN 0 ELSE n - 1 + 1
        BY FS_Interval
      <4> QED BY <3>1, <4>1
    <3>3. A \cup B = S /\ A \cap B = {}
      BY <2>3, <2>4, <3>1
    <3>4. /\ Cardinality(A) \in Nat /\ Cardinality(B) \in Nat
          /\ Cardinality(S) = Cardinality(A) + Cardinality(B)
      BY <3>2, <3>3, TwoParts
    <3> QED BY <3>2, <3>4
  <2>8. {k \in DOMAIN t : t[k].truth} = A
    BY <2>2, <2>3, <2>4
  <2>9. PICK a \in Nat, d \in Nat : a = Cardinality(A) /\ d = Cardinality(B) /\ Len(t) = a + d
    BY <2>2, <2>7
  <2>10. Len(t) - a = d
    BY <2>9
  <2> QED BY <2>5, <2>6, <2>8, <2>9, <2>10
<1> QED BY <1>1, AlwaysBench, PTL

=============================================================================
