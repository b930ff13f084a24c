------------------------ MODULE UsageReports_proofs ------------------------
(***************************************************************************)
(* Proofs about UsageReports, for any set of calls, keys and tenants.      *)
(***************************************************************************)
EXTENDS UsageReports, FiniteSetTheorems, FunctionTheorems, TLAPS

(* The order of two numbers does not change with the origin. *)
LEMMA Shifted ==
    ASSUME NEW a \in Int, NEW b \in Int, NEW x \in Int, a <= b
    PROVE  a - x <= b - x /\ b - x \in Int
  OBVIOUS

-----------------------------------------------------------------------------
(* Sums over finite sets.                                                  *)

(* What holds of a subset as soon as it holds of its proper subsets holds of the
   whole set: a smallest subset it fails for cannot be. *)
LEMMA SubsetInduction ==
    ASSUME NEW S, IsFiniteSet(S), NEW Good,
           \A T \in SUBSET S : (\A U \in SUBSET T : U # T => U \in Good) => T \in Good
    PROVE  S \in Good
<1> DEFINE bad == (SUBSET S) \ Good
<1>1. IsWellFoundedOn(StrictSubsetOrdering(S), SUBSET S)
  BY FS_StrictSubsetOrderingWellFounded, FS_FiniteSubsetsOfFinite
<1>2. ASSUME bad # {} PROVE FALSE
  <2>1. bad \subseteq SUBSET S
    OBVIOUS
  <2>2. PICK T \in bad : \A U \in bad : <<U, T>> \notin StrictSubsetOrdering(S)
    <3> HIDE DEF bad
    <3> QED
      BY <1>1, <1>2, <2>1, WFMin
  <2>3. \A U \in SUBSET T : U # T => <<U, T>> \in StrictSubsetOrdering(S)
    BY <2>1, <2>2 DEF StrictSubsetOrdering
  <2>4. \A U \in SUBSET T : U # T => U \in Good
    <3> SUFFICES ASSUME NEW U \in SUBSET T, U # T, U \notin Good PROVE FALSE
      OBVIOUS
    <3>1. U \in bad
      BY <2>1, <2>2
    <3>2. QED
      BY <2>2, <2>3, <3>1
  <2>5. T \in SUBSET S /\ T \notin Good
    BY <2>2
  <2>6. QED
    BY <2>4, <2>5
<1>3. QED
  BY <1>2

(* The same, one element at a time. *)
LEMMA ElementInduction ==
    ASSUME NEW S, IsFiniteSet(S), NEW Good, {} \in Good,
           \A T \in SUBSET S : \A x \in T : T \ {x} \in Good => T \in Good
    PROVE  S \in Good
<1>1. \A T \in SUBSET S : (\A U \in SUBSET T : U # T => U \in Good) => T \in Good
  <2> SUFFICES ASSUME NEW T \in SUBSET S, \A U \in SUBSET T : U # T => U \in Good
               PROVE  T \in Good
    OBVIOUS
  <2>1. CASE T = {}
    BY <2>1
  <2>2. CASE T # {}
    <3>1. PICK x \in T : TRUE
      BY <2>2
    <3>2. T \ {x} \in SUBSET T /\ T \ {x} # T
      BY <3>1
    <3>3. QED
      BY <3>1, <3>2
  <2>3. QED
    BY <2>1, <2>2
<1>2. QED
  BY <1>1, SubsetInduction

-----------------------------------------------------------------------------
(* The recursion of a sum, over the subsets of a set. *)
First(T) == CHOOSE x \in T : TRUE

SumsOn(f, S, sums) ==
    sums = [T \in SUBSET S |-> IF T = {} THEN 0 ELSE f[First(T)] + sums[T \ {First(T)}]]

LEMMA FirstIsIn ==
    ASSUME NEW T, T # {}
    PROVE  First(T) \in T /\ T \ {First(T)} \in SUBSET T /\ T \ {First(T)} # T
  BY DEF First

LEMMA SumsAt ==
    ASSUME NEW f, NEW S, NEW sums, SumsOn(f, S, sums), NEW T \in SUBSET S
    PROVE  sums[T] = IF T = {} THEN 0 ELSE f[First(T)] + sums[T \ {First(T)}]
<1>1. DOMAIN sums = SUBSET S
  BY DEF SumsOn
<1>2. QED
  BY DEF SumsOn

(* A table of sums over a part is a part of the table over the whole; ... *)
LEMMA SumsAgree ==
    ASSUME NEW f, NEW S, IsFiniteSet(S), NEW g, SumsOn(f, S, g),
           NEW T \in SUBSET S, NEW h, SumsOn(f, T, h)
    PROVE  g[T] = h[T]
<1> DEFINE good == {U \in SUBSET T : g[U] = h[U]}
<1>1. ASSUME NEW U \in SUBSET T, \A V \in SUBSET U : V # U => V \in good
      PROVE  U \in good
  <2>1. g[U] = IF U = {} THEN 0 ELSE f[First(U)] + g[U \ {First(U)}]
    BY SumsAt
  <2>2. h[U] = IF U = {} THEN 0 ELSE f[First(U)] + h[U \ {First(U)}]
    BY SumsAt
  <2>3. U # {} => g[U \ {First(U)}] = h[U \ {First(U)}]
    BY <1>1, FirstIsIn
  <2>4. QED
    BY <2>1, <2>2, <2>3
<1>2. IsFiniteSet(T)
  BY FS_Subset
<1>3. T \in good
  <2> HIDE DEF good
  <2> QED
    BY <1>1, <1>2, SubsetInduction
<1>4. QED
  BY <1>3

(* ... so the tables of all proper subsets make up the next one: there is one
   for every finite set. *)
LEMMA SumsExist ==
    ASSUME NEW f, NEW S, IsFiniteSet(S)
    PROVE  \E sums : SumsOn(f, S, sums)
<1> DEFINE good == {T \in SUBSET S : \E sums : SumsOn(f, T, sums)}
           sumOf(T) == (CHOOSE sums : SumsOn(f, T, sums))[T]
<1>1. ASSUME NEW T \in SUBSET S, \A U \in SUBSET T : U # T => U \in good
      PROVE  T \in good
  <2> DEFINE next(U) == IF U = {} THEN 0 ELSE f[First(U)] + sumOf(U \ {First(U)})
             sums == [U \in SUBSET T |-> next(U)]
  <2>1. ASSUME NEW U \in SUBSET T, U # T
        PROVE  sumOf(U) = next(U)
    <3>1. PICK g : g = CHOOSE h : SumsOn(f, U, h)
      OBVIOUS
    <3>2. SumsOn(f, U, g)
      BY <1>1, <2>1, <3>1
    <3>3. g[U] = IF U = {} THEN 0 ELSE f[First(U)] + g[U \ {First(U)}]
      BY <3>2, SumsAt
    <3>4. ASSUME U # {} PROVE g[U \ {First(U)}] = sumOf(U \ {First(U)})
      <4> DEFINE V == U \ {First(U)}
      <4>1. V \in SUBSET U /\ V \in SUBSET T /\ V # T
        BY <2>1, <3>4, FirstIsIn
      <4>2. PICK h : h = CHOOSE sm : SumsOn(f, V, sm)
        OBVIOUS
      <4>3. SumsOn(f, V, h)
        BY <1>1, <4>1, <4>2
      <4>4. IsFiniteSet(U)
        BY FS_Subset
      <4>5. g[V] = h[V]
        BY <3>2, <4>1, <4>3, <4>4, SumsAgree
      <4>6. QED
        BY <4>2, <4>5
    <3>5. QED
      BY <3>1, <3>3, <3>4
  <2>2. ASSUME NEW U \in SUBSET T, U # {}
        PROVE  sums[U \ {First(U)}] = sumOf(U \ {First(U)})
    <3>1. U \ {First(U)} \in SUBSET T /\ U \ {First(U)} # T
      BY <2>2, FirstIsIn
    <3>2. QED
      BY <2>1, <3>1
  <2>3. \A U \in SUBSET T :
          next(U) = IF U = {} THEN 0 ELSE f[First(U)] + sums[U \ {First(U)}]
    <3> HIDE DEF sumOf, sums
    <3> QED
      BY <2>2
  <2>4. SumsOn(f, T, sums)
    <3> HIDE DEF next
    <3> QED
      BY <2>3 DEF SumsOn
  <2>5. QED
    BY <2>4
<1>2. S \in good
  <2> HIDE DEF good
  <2> QED
    BY <1>1, SubsetInduction
<1>3. QED
  BY <1>2

LEMMA SumUnfolds ==
    ASSUME NEW f, NEW S
    PROVE  SumFunctionOnSet(f, S) = (CHOOSE sums : SumsOn(f, S, sums))[S]
  BY DEF SumFunctionOnSet, FoldFunctionOnSet, MapThenFoldSet, SumsOn, First

(* The recursion itself, which the definition of a fold only names. *)
LEMMA SumRecursion ==
    ASSUME NEW f, NEW S, IsFiniteSet(S)
    PROVE  SumFunctionOnSet(f, S)
             = IF S = {} THEN 0 ELSE f[First(S)] + SumFunctionOnSet(f, S \ {First(S)})
<1>1. PICK g : g = CHOOSE sums : SumsOn(f, S, sums)
  OBVIOUS
<1>2. SumsOn(f, S, g)
  BY <1>1, SumsExist
<1>3. SumFunctionOnSet(f, S) = IF S = {} THEN 0 ELSE f[First(S)] + g[S \ {First(S)}]
  BY <1>1, <1>2, SumsAt, SumUnfolds
<1>4. ASSUME S # {} PROVE g[S \ {First(S)}] = SumFunctionOnSet(f, S \ {First(S)})
  <2> DEFINE T == S \ {First(S)}
  <2>1. T \in SUBSET S /\ IsFiniteSet(T)
    BY FS_Subset
  <2>2. PICK h : h = CHOOSE sums : SumsOn(f, T, sums)
    OBVIOUS
  <2>3. SumsOn(f, T, h)
    BY <2>1, <2>2, SumsExist
  <2>4. g[T] = h[T]
    BY <1>2, <2>1, <2>3, SumsAgree
  <2>5. QED
    BY <2>2, <2>4, SumUnfolds
<1>5. QED
  BY <1>3, <1>4

-----------------------------------------------------------------------------
(* A sum is the same for functions that agree on the set. *)
LEMMA SumExtensional ==
    ASSUME NEW S, IsFiniteSet(S), NEW f, NEW g, \A x \in S : f[x] = g[x]
    PROVE  SumFunctionOnSet(f, S) = SumFunctionOnSet(g, S)
<1> DEFINE good == {T \in SUBSET S : SumFunctionOnSet(f, T) = SumFunctionOnSet(g, T)}
<1>1. ASSUME NEW T \in SUBSET S, \A U \in SUBSET T : U # T => U \in good
      PROVE  T \in good
  <2>1. IsFiniteSet(T)
    BY FS_Subset
  <2>2. /\ SumFunctionOnSet(f, T)
             = IF T = {} THEN 0 ELSE f[First(T)] + SumFunctionOnSet(f, T \ {First(T)})
        /\ SumFunctionOnSet(g, T)
             = IF T = {} THEN 0 ELSE g[First(T)] + SumFunctionOnSet(g, T \ {First(T)})
    BY <2>1, SumRecursion
  <2>3. T # {} => /\ f[First(T)] = g[First(T)]
                  /\ SumFunctionOnSet(f, T \ {First(T)}) = SumFunctionOnSet(g, T \ {First(T)})
    BY <1>1, FirstIsIn
  <2>4. QED
    BY <2>2, <2>3
<1>2. S \in good
  <2> HIDE DEF good
  <2> QED
    BY <1>1, SubsetInduction
<1>3. QED
  BY <1>2

LEMMA SumType ==
    ASSUME NEW S, IsFiniteSet(S), NEW f, \A x \in S : f[x] \in Int
    PROVE  SumFunctionOnSet(f, S) \in Int
<1> DEFINE good == {T \in SUBSET S : SumFunctionOnSet(f, T) \in Int}
<1>1. ASSUME NEW T \in SUBSET S, \A U \in SUBSET T : U # T => U \in good
      PROVE  T \in good
  <2>1. IsFiniteSet(T)
    BY FS_Subset
  <2>2. SumFunctionOnSet(f, T)
          = IF T = {} THEN 0 ELSE f[First(T)] + SumFunctionOnSet(f, T \ {First(T)})
    BY <2>1, SumRecursion
  <2>3. T # {} => f[First(T)] \in Int /\ SumFunctionOnSet(f, T \ {First(T)}) \in Int
    BY <1>1, FirstIsIn
  <2>4. QED
    BY <2>2, <2>3
<1>2. S \in good
  <2> HIDE DEF good
  <2> QED
    BY <1>1, SubsetInduction
<1>3. QED
  BY <1>2

(* Any element may be taken first. *)
LEMMA SumTakes ==
    ASSUME NEW S, IsFiniteSet(S), NEW f, \A x \in S : f[x] \in Int, NEW e \in S
    PROVE  /\ SumFunctionOnSet(f, S) = f[e] + SumFunctionOnSet(f, S \ {e})
           /\ SumFunctionOnSet(f, S) \in Int /\ SumFunctionOnSet(f, S \ {e}) \in Int
<1> DEFINE sum(T) == SumFunctionOnSet(f, T)
           good == {T \in SUBSET S : \A x \in T : sum(T) = f[x] + sum(T \ {x})}
<1>1. \A T \in SUBSET S : sum(T) \in Int
  BY FS_Subset, SumType
<1>2. ASSUME NEW T \in SUBSET S, \A U \in SUBSET T : U # T => U \in good
      PROVE  T \in good
  <2> SUFFICES ASSUME NEW x \in T PROVE sum(T) = f[x] + sum(T \ {x})
    OBVIOUS
  <2> DEFINE c == First(T)
  <2>1. c \in T /\ T # {}
    BY FirstIsIn
  <2>2. sum(T) = f[c] + sum(T \ {c})
    <3>1. IsFiniteSet(T)
      BY FS_Subset
    <3>2. QED
      BY <2>1, <3>1, SumRecursion
  <2>3. CASE x = c
    BY <2>2, <2>3
  <2>4. CASE x # c
    <3>1. T \ {c} \in good /\ T \ {x} \in good
      BY <1>2, <2>1
    <3>2. sum(T \ {c}) = f[x] + sum((T \ {c}) \ {x})
      BY <2>4, <3>1
    <3>3. sum(T \ {x}) = f[c] + sum((T \ {x}) \ {c})
      BY <2>1, <2>4, <3>1
    <3>4. (T \ {c}) \ {x} = (T \ {x}) \ {c}
      OBVIOUS
    <3>5. PICK rest \in Int : rest = sum((T \ {x}) \ {c})
      BY <1>1
    <3>6. f[x] \in Int /\ f[c] \in Int
      BY <2>1
    <3>7. sum((T \ {c}) \ {x}) = rest
      BY <3>4, <3>5
    <3> HIDE DEF sum, c
    <3>8. QED
      BY <2>2, <3>2, <3>3, <3>5, <3>6, <3>7
  <2>5. QED
    BY <2>3, <2>4
<1>3. S \in good
  <2> HIDE DEF good
  <2> QED
    BY <1>2, SubsetInduction
<1>4. QED
  BY <1>1, <1>3

LEMMA SumOfNothing ==
    ASSUME NEW f
    PROVE  SumFunctionOnSet(f, {}) = 0
  BY SumRecursion, FS_EmptySet

(* Sums of natural numbers: they are one, and those of a part are no larger. *)
LEMMA SumOfPart ==
    ASSUME NEW S, IsFiniteSet(S), NEW f, \A x \in S : f[x] \in Nat, NEW T \in SUBSET S
    PROVE  /\ SumFunctionOnSet(f, S) \in Nat /\ SumFunctionOnSet(f, T) \in Nat
           /\ SumFunctionOnSet(f, T) <= SumFunctionOnSet(f, S)
<1> DEFINE sum(U) == SumFunctionOnSet(f, U)
           good == {U \in SUBSET S : /\ sum(U \cap T) \in Nat /\ sum(U) \in Nat
                                     /\ sum(U \cap T) <= sum(U)}
<1>1. {} \in good
  BY SumOfNothing
<1>2. ASSUME NEW U \in SUBSET S, NEW x \in U, U \ {x} \in good PROVE U \in good
  <2>1. IsFiniteSet(U) /\ IsFiniteSet(U \cap T)
    BY FS_Subset
  <2>2. sum(U) = f[x] + sum(U \ {x})
    BY <2>1, SumTakes
  <2>3. CASE x \in T
    <3>1. sum(U \cap T) = f[x] + sum((U \cap T) \ {x})
      BY <2>1, <2>3, SumTakes
    <3>2. (U \cap T) \ {x} = (U \ {x}) \cap T
      OBVIOUS
    <3>3. QED
      BY <1>2, <2>2, <3>1, <3>2
  <2>4. CASE x \notin T
    <3>1. U \cap T = (U \ {x}) \cap T
      BY <2>4
    <3>2. QED
      BY <1>2, <2>2, <3>1
  <2>5. QED
    BY <2>3, <2>4
<1>3. S \in good
  <2> HIDE DEF good
  <2> QED
    BY <1>1, <1>2, ElementInduction
<1>4. S \cap T = T
  OBVIOUS
<1>5. QED
  BY <1>3, <1>4

(* Counting group by group. *)
KeyedIn(D, key, G) == {d \in D : key[d] \in G}

Keyed(D, key, g) == KeyedIn(D, key, {g})

(* The sizes of the groups sum up to the size of what was grouped. *)
LEMMA SumOfGroups ==
    ASSUME NEW D, IsFiniteSet(D), NEW key, NEW G, IsFiniteSet(G),
           NEW f, \A g \in G : f[g] = Cardinality(Keyed(D, key, g))
    PROVE  SumFunctionOnSet(f, G) = Cardinality(KeyedIn(D, key, G))
<1> DEFINE some(H) == KeyedIn(D, key, H)
           good == {H \in SUBSET G : SumFunctionOnSet(f, H) = Cardinality(some(H))}
<1>1. {} \in good
  <2>1. some({}) = {}
    BY DEF KeyedIn
  <2>2. QED
    BY <2>1, SumOfNothing, FS_EmptySet
<1>2. ASSUME NEW H \in SUBSET G, NEW g \in H, H \ {g} \in good PROVE H \in good
  <2> DEFINE one == some({g})
             rest == some(H \ {g})
  <2>1. \A T \in SUBSET D : IsFiniteSet(T) /\ Cardinality(T) \in Nat
    BY FS_Subset, FS_CardinalityType
  <2>2. one \cup rest = some(H) /\ one \cap rest = {}
    BY DEF KeyedIn
  <2>3. Cardinality(some(H)) = Cardinality(one) + Cardinality(rest)
    <3>1. one \in SUBSET D /\ rest \in SUBSET D
      BY DEF KeyedIn
    <3> HIDE DEF one, rest, some
    <3>2. Cardinality(one \cup rest)
             = Cardinality(one) + Cardinality(rest) - Cardinality(one \cap rest)
      BY <2>1, <3>1, FS_Union
    <3>3. Cardinality(one \cap rest) = 0
      BY <2>2, FS_EmptySet
    <3>4. Cardinality(one) \in Nat /\ Cardinality(rest) \in Nat
      BY <2>1, <3>1
    <3>5. Cardinality(one \cup rest) = Cardinality(some(H))
      BY <2>2
    <3>6. QED
      BY <3>2, <3>3, <3>4, <3>5
  <2>4. SumFunctionOnSet(f, H) = f[g] + SumFunctionOnSet(f, H \ {g})
    <3>1. IsFiniteSet(H)
      BY FS_Subset
    <3>2. ASSUME NEW h \in H PROVE f[h] \in Int
      <4>1. Keyed(D, key, h) \in SUBSET D
        BY DEF Keyed, KeyedIn
      <4>2. Cardinality(Keyed(D, key, h)) \in Nat
        BY <2>1, <4>1
      <4>3. QED
        BY <4>2
    <3>3. QED
      BY <3>1, <3>2, SumTakes
  <2>5. f[g] = Cardinality(one)
    BY DEF Keyed
  <2>6. QED
    BY <1>2, <2>3, <2>4, <2>5
<1>3. G \in good
  <2> HIDE DEF good
  <2> QED
    BY <1>1, <1>2, ElementInduction
<1>4. QED
  BY <1>3

(* There are no more values than arguments. *)
LEMMA RangeFinite ==
    ASSUME NEW f, IsFiniteSet(DOMAIN f)
    PROVE  IsFiniteSet(Range(f))
<1> DEFINE g == [x \in DOMAIN f |-> f[x]]
<1>1. g \in Surjection(DOMAIN f, Range(f))
  BY DEF Surjection, Range
<1>2. QED
  BY <1>1, FS_Surjection

USE ReportsAssumption, CallsAssumption, DocumentsAssumption

-----------------------------------------------------------------------------
(* Helpers of the model.                                                   *)

(* What Max and Min choose from a pair. *)
LEMMA MaxMinOfPair ==
    ASSUME NEW a \in Int, NEW b \in Int
    PROVE  /\ Max({a, b}) = IF a >= b THEN a ELSE b
           /\ Min({a, b}) = IF a <= b THEN a ELSE b
<1>1. Max({a, b}) = IF a >= b THEN a ELSE b
  BY DEF Max
<1>2. Min({a, b}) = IF a <= b THEN a ELSE b
  BY DEF Min
<1>3. QED
  BY <1>1, <1>2

LEMMA ClampValue ==
    ASSUME NEW low \in Int, NEW x \in Int, NEW high \in Int
    PROVE  Clamp(low, x, high) = IF high <= x
                                 THEN IF low >= high THEN low ELSE high
                                 ELSE IF low >= x THEN low ELSE x
<1>1. Min({x, high}) = IF x <= high THEN x ELSE high
  BY MaxMinOfPair
<1>2. PICK m \in Int : m = Min({x, high})
  BY <1>1
<1>3. Max({low, m}) = IF low >= m THEN low ELSE m
  BY MaxMinOfPair
<1>4. QED
  BY <1>1, <1>2, <1>3 DEF Clamp

(* The length of an interval. *)
LEMMA IntervalLength ==
    ASSUME NEW a \in Int, NEW b \in Int
    PROVE  /\ IsFiniteSet(a..b)
           /\ a > b => Cardinality(a..b) = 0
           /\ a <= b => Cardinality(a..b) = b - a + 1
<1>1. IsFiniteSet(a..b) /\ Cardinality(a..b) = IF a > b THEN 0 ELSE b - a + 1
  BY FS_Interval, Zenon
<1>2. QED
  BY <1>1

LogStages == {"items", "owners", "count", "log"}

BreakdownStages == {"groups", "trend", "totals", "labels", "breakdown"}

SummaryStages == {"rows", "summary"}

TelemetryStages == {"base", "split", "codes", "series", "telemetry"}

(* Setting fields of a record. *)
LEMMA UpdateFields ==
    ASSUME NEW r, NEW fields
    PROVE  /\ DOMAIN Update(r, fields) = DOMAIN r \cup DOMAIN fields
           /\ \A f \in DOMAIN fields : Update(r, fields)[f] = fields[f]
           /\ \A f \in DOMAIN r \ DOMAIN fields : Update(r, fields)[f] = r[f]
  BY DEF Update

LEMMA StageOfUpdate ==
    ASSUME NEW r, NEW fields, "stage" \in DOMAIN fields
    PROVE  "stage" \in DOMAIN Update(r, fields) /\ Update(r, fields).stage = fields.stage
  BY DEF Update

-----------------------------------------------------------------------------
(* Documents.                                                              *)

(* The document of an event: which of its fields depend on what. *)
LEMMA DocumentFields ==
    ASSUME NEW c \in Calls, c.id # Null, NEW p \in Int
    PROVE  /\ Document(c, p).id = c.id /\ c.id \in Int
           /\ Document(c, p).sub = Or(c.sub, Unknown)
           /\ Document(c, p).ts = IF c.ts = Null THEN p ELSE c.at
           /\ Document(c, p).ts \in Int
           /\ Document(c, p).pk = <<Document(c, p).sub, MonthOf(Document(c, p).ts)>>
           /\ Document(c, p).source = IF Priced(c.aiu) THEN "copilot_usage" ELSE "unpriced"
           /\ Document(c, p).cost = IF Priced(c.aiu) THEN c.aiu.total ELSE 0
<1>1. c.ts # Null => c.ts.local - c.ts.offset = c.at
  BY DEF CallsAssumption
<1>2. c.id \in Int /\ c.at \in Int
  BY DEF CallsAssumption
<1>3. ParseTs(c.ts, p) = IF c.ts = Null THEN p ELSE c.at
  BY <1>1 DEF ParseTs
<1>4. QED
  BY <1>2, <1>3 DEF Document

(* The time of the import shows in the document of a malformed event only. *)
LEMMA DocumentStable ==
    ASSUME NEW c \in Calls, c.id # Null, NEW p \in Int, NEW q \in Int,
           Document(c, p).ts = Document(c, q).ts
    PROVE  Document(c, p) = Document(c, q)
<1>1. ParseTs(c.ts, p) = ParseTs(c.ts, q)
  BY DEF Document
<1>2. QED
  BY <1>1 DEF Document

(* Where a document comes from. *)
Imported(d, c) == c.id # Null /\ \E p \in Int : p <= now /\ d = Document(c, p)

Origin(d) == d \in Legacy \/ \E c \in Calls : Imported(d, c)

LEMMA OriginFields ==
    ASSUME NEW d, Origin(d)
    PROVE  /\ d.id \in Int /\ d.ts \in Int
           /\ \A c \in Calls : c.id # Null /\ d.id = c.id => Imported(d, c)
<1>1. CASE d \in Legacy
  BY <1>1 DEF CallsAssumption
<1>2. ASSUME NEW c \in Calls, Imported(d, c)
      PROVE  /\ d.id \in Int /\ d.ts \in Int
             /\ \A e \in Calls : e.id # Null /\ d.id = e.id => Imported(d, e)
  <2>1. d.id = c.id /\ d.id \in Int /\ d.ts \in Int /\ c.id # Null
    BY <1>2, DocumentFields DEF Imported
  <2>2. \A e \in Calls : e.id = c.id => e = c
    BY <2>1 DEF CallsAssumption
  <2>3. QED
    BY <1>2, <2>1, <2>2
<1>3. QED
  BY <1>1, <1>2 DEF Origin

(* Documents of one id have one key, and are the same at the same instant. *)
LEMMA OriginUnique ==
    ASSUME NEW d, NEW e, Origin(d), Origin(e), d.id = e.id
    PROVE  /\ d.sub = e.sub
           /\ d.ts = e.ts => d = e
<1>1. CASE d \in Legacy
  <2>1. \A c \in Calls : c.id # d.id
    BY <1>1 DEF CallsAssumption
  <2>2. e \in Legacy
    BY <2>1, DocumentFields DEF Origin, Imported
  <2>3. QED
    BY <1>1, <2>2 DEF CallsAssumption
<1>2. ASSUME NEW c \in Calls, Imported(d, c)
      PROVE  d.sub = e.sub /\ (d.ts = e.ts => d = e)
  <2>1. PICK p \in Int : d = Document(c, p)
    BY <1>2 DEF Imported
  <2>2. c.id # Null /\ d.id = c.id
    BY <1>2, <2>1, DocumentFields DEF Imported
  <2>3. Imported(e, c)
    BY <2>2, OriginFields
  <2>4. PICK q \in Int : e = Document(c, q)
    BY <2>3 DEF Imported
  <2>5. QED
    BY <2>1, <2>2, <2>4, DocumentFields, DocumentStable
<1>3. QED
  BY <1>1, <1>2 DEF Origin

(* Later is a strict total order of such documents. *)
LEMMA LaterOrders ==
    ASSUME NEW S, \A d \in S : Origin(d)
    PROVE  /\ \A d \in S : ~Later(d, d)
           /\ \A d, e \in S : d = e \/ Later(d, e) \/ Later(e, d)
           /\ \A d, e, f \in S : Later(d, e) /\ Later(e, f) => Later(d, f)
<1>1. \A d \in S : d.id \in Int /\ d.ts \in Int
  BY OriginFields
<1>2. \A d \in S : ~Later(d, d)
  BY <1>1 DEF Later
<1>3. \A d, e \in S : d = e \/ Later(d, e) \/ Later(e, d)
  <2> SUFFICES ASSUME NEW d \in S, NEW e \in S, ~Later(d, e), ~Later(e, d)
               PROVE  d = e
    OBVIOUS
  <2>1. d.ts = e.ts /\ d.id = e.id
    BY <1>1 DEF Later
  <2>2. QED
    BY <2>1, OriginUnique
<1>4. \A d, e, f \in S : Later(d, e) /\ Later(e, f) => Later(d, f)
  BY <1>1 DEF Later
<1>5. QED
  BY <1>2, <1>3, <1>4

-----------------------------------------------------------------------------
(* Positions in a list of documents.                                       *)

(* Those of S that are listed before c, and how many. *)
Ahead(S, c) == {d \in S : Later(d, c)}

Position(S, c) == Cardinality(Ahead(S, c))

LEMMA SliceByPosition ==
    ASSUME NEW S, NEW skip, NEW n
    PROVE  Slice(S, skip, n) = {c \in S : Position(S, c) \in skip..(skip + n - 1)}
  BY DEF Slice, Position, Ahead

LEMMA PositionType ==
    ASSUME NEW S, IsFiniteSet(S), NEW c
    PROVE  /\ Position(S, c) \in Nat
           /\ IsFiniteSet(Ahead(S, c))
<1>1. Ahead(S, c) \in SUBSET S
  BY DEF Ahead
<1>2. QED
  BY <1>1, FS_Subset, FS_CardinalityType DEF Position

(* A document of the list is listed after fewer than there are. *)
LEMMA PositionBound ==
    ASSUME NEW S, IsFiniteSet(S), \A d \in S : Origin(d), NEW c \in S
    PROVE  Position(S, c) < Cardinality(S)
<1>1. Ahead(S, c) \in SUBSET S /\ c \notin Ahead(S, c)
  BY LaterOrders DEF Ahead
<1>2. Cardinality(Ahead(S, c)) <= Cardinality(S) /\ Cardinality(Ahead(S, c)) # Cardinality(S)
  BY <1>1, FS_Subset
<1>3. Cardinality(S) \in Nat /\ Position(S, c) \in Nat
  BY PositionType, FS_CardinalityType
<1>4. QED
  BY <1>2, <1>3 DEF Position

(* The listing is strict: who is listed earlier has a smaller position. *)
LEMMA PositionMonotone ==
    ASSUME NEW S, IsFiniteSet(S), \A d \in S : Origin(d), NEW c \in S, NEW d \in S, Later(d, c)
    PROVE  Position(S, d) < Position(S, c)
<1>1. Ahead(S, d) \in SUBSET Ahead(S, c)
  BY LaterOrders DEF Ahead
<1>2. d \in Ahead(S, c) /\ d \notin Ahead(S, d)
  BY LaterOrders DEF Ahead
<1>3. IsFiniteSet(Ahead(S, c)) /\ Position(S, c) \in Nat /\ Position(S, d) \in Nat
  BY PositionType
<1>4. /\ Cardinality(Ahead(S, d)) <= Cardinality(Ahead(S, c))
      /\ Cardinality(Ahead(S, d)) # Cardinality(Ahead(S, c))
  BY <1>1, <1>2, <1>3, FS_Subset
<1>5. QED
  BY <1>3, <1>4 DEF Position

(* Every position up to the length of the list is taken, once. *)
LEMMA PositionsFill ==
    ASSUME NEW S, IsFiniteSet(S), \A d \in S : Origin(d)
    PROVE  /\ \A c \in S : Position(S, c) \in 0..(Cardinality(S) - 1)
           /\ \A c, d \in S : Position(S, c) = Position(S, d) => c = d
           /\ \A i \in 0..(Cardinality(S) - 1) : \E c \in S : Position(S, c) = i
<1> DEFINE f == [c \in S |-> Position(S, c)]
<1>1. Cardinality(S) \in Nat
  BY FS_CardinalityType
<1>2. PICK last \in Int : last = Cardinality(S) - 1
  BY <1>1
<1>3. \A c \in S : Position(S, c) \in 0..last
  BY <1>1, <1>2, PositionType, PositionBound
<1>4. ASSUME NEW c \in S, NEW d \in S, Position(S, c) = Position(S, d) PROVE c = d
  <2>1. Position(S, c) \in Nat
    BY PositionType
  <2>2. QED
    BY <1>4, <2>1, LaterOrders, PositionMonotone
<1>5. f \in Injection(S, 0..last)
  BY <1>3, <1>4, Fun_IsInj
<1>6. /\ IsFiniteSet(0..last)
      /\ 0 > last => Cardinality(0..last) = 0
      /\ 0 <= last => Cardinality(0..last) = last - 0 + 1
  <2>1. 0 \in Int
    OBVIOUS
  <2>2. QED
    BY <2>1, IntervalLength, Zenon
<1>7. Cardinality(0..last) = Cardinality(S)
  BY <1>1, <1>2, <1>6
<1>8. f \in Surjection(S, 0..last)
  BY <1>5, <1>6, <1>7, FS_Injection
<1>9. \A i \in 0..last : \E c \in S : f[c] = i
  <2>1. Surjection(S, 0..last) = {h \in [S -> 0..last] : \A t \in 0..last : \E x \in S : h[x] = t}
    BY DEF Surjection
  <2>2. QED
    BY <1>8, <2>1
<1>10. QED
  BY <1>2, <1>3, <1>4, <1>9

(* How long a page is. *)
LEMMA SliceLength ==
    ASSUME NEW S, IsFiniteSet(S), \A d \in S : Origin(d), NEW skip \in Nat, NEW n \in Nat
    PROVE  /\ IsFiniteSet(Slice(S, skip, n))
           /\ Cardinality(Slice(S, skip, n)) = Clamp(0, Cardinality(S) - skip, n)
<1> DEFINE P == Slice(S, skip, n)
           g == [c \in P |-> Position(S, c)]
<1>1. PICK N \in Nat : N = Cardinality(S)
  BY FS_CardinalityType
<1>2. PICK top \in Int : /\ skip + n <= N => top = skip + n - 1
                         /\ skip + n > N => top = N - 1
  <2>1. skip + n - 1 \in Int /\ N - 1 \in Int
    OBVIOUS
  <2>2. CASE skip + n <= N
    <3>1. ~(skip + n > N)
      BY <2>2
    <3>2. WITNESS skip + n - 1 \in Int
    <3>3. QED
      BY <3>1
  <2>3. CASE ~(skip + n <= N)
    <3>1. WITNESS N - 1 \in Int
    <3>2. QED
      BY <2>3
  <2>4. QED
    BY <2>2, <2>3
<1>3. P = {c \in S : Position(S, c) \in skip..(skip + n - 1)}
  BY SliceByPosition
<1>4. \A c \in P : Position(S, c) \in skip..top
  BY <1>1, <1>2, <1>3, PositionsFill
<1>5. \A i \in skip..top : \E c \in P : Position(S, c) = i
  BY <1>1, <1>2, <1>3, PositionsFill
<1>6. \A c, d \in P : Position(S, c) = Position(S, d) => c = d
  BY <1>3, PositionsFill
<1>7. g \in Bijection(P, skip..top)
  <2>1. g \in [P -> skip..top]
    BY <1>4
  <2>2. QED
    BY <1>5, <1>6, <2>1, Fun_IsBij
<1>8. P \in SUBSET S /\ IsFiniteSet(P)
  BY <1>3, FS_Subset
<1>9. Cardinality(skip..top) = Cardinality(P)
  BY <1>7, <1>8, FS_Bijection DEF ExistsBijection
<1>10. /\ skip > top => Cardinality(skip..top) = 0
       /\ skip <= top => Cardinality(skip..top) = top - skip + 1
  <2>1. skip \in Int
    OBVIOUS
  <2>2. QED
    BY <2>1, IntervalLength, Zenon
<1>11. PICK left \in Int : left = N - skip
  OBVIOUS
<1>12. Clamp(0, left, n) = IF n <= left
                           THEN IF 0 >= n THEN 0 ELSE n
                           ELSE IF 0 >= left THEN 0 ELSE left
  BY ClampValue
<1>13. Cardinality(P) = Clamp(0, left, n)
  BY <1>2, <1>9, <1>10, <1>11, <1>12
<1>14. QED
  BY <1>1, <1>8, <1>11, <1>13

-----------------------------------------------------------------------------
(* The steps, report by report, and the stages they lead to.               *)

LeadsTo(stages) ==
    UNCHANGED world /\ "stage" \in DOMAIN report' /\ report'.stage \in stages

MakesBreakdown ==
    \/ \E scope \in Tenants \cup {Platform}, hours \in Windows, by \in Dimensions :
          AskBreakdown(scope, hours, by)
    \/ AskGroups \/ AskTrend \/ AskTotals \/ AskLabels

MakesSummary ==
    (\E scope \in Tenants \cup {Platform}, hours \in Windows : AskSummary(scope, hours)) \/ AskRows

ReadsLog ==
    \/ \E scope \in Tenants \cup {Platform}, hours \in Windows, size \in PageSizes :
          AskPage(scope, hours, size)
    \/ AskItems \/ AskOwners \/ AskCount \/ TurnPage

ReadsTelemetry ==
    (\E hours \in Windows : AskTelemetry(hours)) \/ AskBase \/ AskSplit \/ AskCodes \/ AskSeries

LEMMA BreakdownLeadsTo ==
    ASSUME "stage" \in DOMAIN report, MakesBreakdown
    PROVE  LeadsTo(BreakdownStages)
<1>1. ASSUME NEW fields, "stage" \in DOMAIN fields, fields.stage \in BreakdownStages,
             report' = Update(report, fields)
      PROVE  "stage" \in DOMAIN report' /\ report'.stage \in BreakdownStages
  BY <1>1, StageOfUpdate
<1>2. ASSUME NEW scope, NEW hours, NEW by, AskBreakdown(scope, hours, by)
      PROVE  LeadsTo(BreakdownStages)
  BY <1>2 DEF AskBreakdown, LeadsTo, BreakdownStages
<1>3. CASE AskGroups
  <2>1. PICK g : report' = Update(report, [stage |-> "trend", groups |-> g])
    BY <1>3 DEF AskGroups
  <2>2. QED
    BY <1>1, <1>3, <2>1 DEF AskGroups, LeadsTo, BreakdownStages
<1>4. CASE AskTrend
  <2>1. PICK t : report' = Update(report, [stage |-> "totals", trendAt |-> now, trend |-> t])
    BY <1>4 DEF AskTrend
  <2>2. QED
    BY <1>1, <1>4, <2>1 DEF AskTrend, LeadsTo, BreakdownStages
<1>5. CASE AskTotals
  <2>1. PICK t : report' = Update(report, [stage |-> "labels", totals |-> t])
    BY <1>5 DEF AskTotals
  <2>2. QED
    BY <1>1, <1>5, <2>1 DEF AskTotals, LeadsTo, BreakdownStages
<1>6. CASE AskLabels
  <2>1. PICK known : report' = Update(report, [stage |-> "breakdown", labelled |-> known])
    BY <1>6 DEF AskLabels
  <2>2. QED
    BY <1>1, <1>6, <2>1 DEF AskLabels, LeadsTo, BreakdownStages
<1>7. QED
  BY <1>2, <1>3, <1>4, <1>5, <1>6 DEF MakesBreakdown

LEMMA SummaryLeadsTo ==
    ASSUME "stage" \in DOMAIN report, MakesSummary
    PROVE  LeadsTo(SummaryStages)
<1>1. ASSUME NEW scope, NEW hours, AskSummary(scope, hours) PROVE LeadsTo(SummaryStages)
  BY <1>1 DEF AskSummary, LeadsTo, SummaryStages
<1>2. CASE AskRows
  <2>1. PICK t : report' = Update(report, [stage |-> "summary", summary |-> t])
    BY <1>2 DEF AskRows
  <2>2. QED
    BY <1>2, <2>1, StageOfUpdate DEF AskRows, LeadsTo, SummaryStages
<1>3. QED
  BY <1>1, <1>2 DEF MakesSummary

LEMMA LeaveLeadsTo ==
    ASSUME Leave
    PROVE  LeadsTo({"idle"})
  BY DEF Leave, Idle, LeadsTo

LEMMA TelemetryLeadsTo ==
    ASSUME "stage" \in DOMAIN report, ReadsTelemetry
    PROVE  LeadsTo(TelemetryStages)
<1>1. ASSUME NEW hours, AskTelemetry(hours) PROVE LeadsTo(TelemetryStages)
  BY <1>1 DEF AskTelemetry, LeadsTo, TelemetryStages
<1>2. CASE AskBase
  <2>1. \/ report' = NoTelemetry
        \/ \E b : report' = [stage |-> "split", hours |-> report.hours, basedAt |-> now,
                             byApi |-> b]
    BY <1>2 DEF AskBase
  <2>2. QED
    BY <1>2, <2>1 DEF AskBase, NoTelemetry, LeadsTo, TelemetryStages
<1>3. CASE AskSplit
  <2>1. PICK b : report' = [report EXCEPT !.stage = "codes", !.byApi = b]
    BY <1>3 DEF AskSplit
  <2>2. QED
    BY <1>3, <2>1 DEF AskSplit, LeadsTo, TelemetryStages
<1>4. CASE AskCodes
  <2>1. PICK t, b : report' = Update(report, [stage |-> "series", codesAt |-> t, byStatus |-> b])
    BY <1>4 DEF AskCodes
  <2>2. QED
    BY <1>4, <2>1, StageOfUpdate DEF AskCodes, LeadsTo, TelemetryStages
<1>5. CASE AskSeries
  <2>1. PICK s, c, o, f : report' = Update(report, [stage |-> "telemetry", series |-> s,
                                                   calls |-> c, ok |-> o, failures |-> f])
    BY <1>5 DEF AskSeries
  <2>2. QED
    BY <1>5, <2>1, StageOfUpdate DEF AskSeries, LeadsTo, TelemetryStages
<1>6. QED
  BY <1>1, <1>2, <1>3, <1>4, <1>5 DEF ReadsTelemetry

LEMMA NextCases ==
    ASSUME [Next]_vars
    PROVE  \/ World \/ UNCHANGED vars
           \/ MakesBreakdown \/ MakesSummary \/ ReadsLog \/ ReadsTelemetry \/ Leave
<1>1. CASE Ask
  <2>1. ASSUME NEW scope \in Tenants \cup {Platform}, NEW hours \in Windows,
               \/ \E by \in Dimensions : AskBreakdown(scope, hours, by)
               \/ AskSummary(scope, hours)
               \/ \E size \in PageSizes : AskPage(scope, hours, size)
        PROVE  MakesBreakdown \/ MakesSummary \/ ReadsLog
    BY <2>1 DEF MakesBreakdown, MakesSummary, ReadsLog
  <2>2. QED
    BY <1>1, <2>1 DEF Ask, ReadsTelemetry
<1>2. CASE Answer
  BY <1>2 DEF Answer, MakesBreakdown, MakesSummary, ReadsLog, ReadsTelemetry
<1>3. QED
  BY <1>1, <1>2 DEF Next

(* A step of another report than the call log. *)
Elsewhere ==
    /\ UNCHANGED world
    /\ "stage" \in DOMAIN report' /\ report'.stage \notin LogStages

LEMMA StepCases ==
    ASSUME "stage" \in DOMAIN report, [Next]_vars
    PROVE  \/ Tick
           \/ \E c \in Calls : Import(c)
           \/ \E k \in Keys : IssueKey(k) \/ DeleteKey(k)
           \/ ReadsLog
           \/ Elsewhere
           \/ UNCHANGED vars
<1>1. ASSUME LeadsTo(BreakdownStages) \/ LeadsTo(SummaryStages) \/ LeadsTo(TelemetryStages)
             \/ LeadsTo({"idle"})
      PROVE  Elsewhere
  BY <1>1 DEF LeadsTo, BreakdownStages, SummaryStages, TelemetryStages, LogStages, Elsewhere
<1>2. MakesBreakdown \/ MakesSummary \/ ReadsTelemetry \/ Leave => Elsewhere
  BY <1>1, BreakdownLeadsTo, SummaryLeadsTo, TelemetryLeadsTo, LeaveLeadsTo
<1>3. QED
  BY <1>2, NextCases DEF World

-----------------------------------------------------------------------------
(* The world.  The clock starts in Nat; documents come from the importer or *)
(* from the retired policy, one for each id and partition; a key is not    *)
(* issued again.                                                            *)

DocsInv ==
    /\ now \in Nat
    /\ retired \subseteq Keys /\ live \subseteq Keys /\ live \cap retired = {}
    /\ IsFiniteSet(docs)
    /\ \A d \in docs : Origin(d)
    /\ \A d, e \in docs : d.id = e.id /\ d.pk = e.pk => d = e

(* The document an import replaces. *)
Replaced(new) == {d \in docs : d.id = new.id /\ d.pk = new.pk}

(* An import puts a new document in the place of an older one, if any, of the
   same key. *)
LEMMA ImportStep ==
    ASSUME DocsInv, NEW c \in Calls, Import(c)
    PROVE  \E new :
              /\ new = Document(c, now) /\ Imported(new, c)
              /\ docs' = (docs \ Replaced(new)) \cup {new}
              /\ \A d \in Replaced(new) :
                    d.sub = new.sub /\ d.ts <= new.ts /\ (d.ts = new.ts => d = new)
<1> DEFINE new == Document(c, now)
<1>1. c.id # Null /\ now \in Int
  BY DEF Import, DocsInv
<1>2. Imported(new, c) /\ new.id = c.id
  BY <1>1, DocumentFields DEF Imported
<1>3. docs' = (docs \ Replaced(new)) \cup {new}
  <2>1. docs' = {d \in docs : <<d.id, d.pk>> # <<new.id, new.pk>>} \cup {new}
    BY DEF Import
  <2>2. {d \in docs : <<d.id, d.pk>> # <<new.id, new.pk>>} = docs \ Replaced(new)
    BY DEF Replaced
  <2>3. QED
    BY <2>1, <2>2
<1>4. ASSUME NEW d \in Replaced(new)
      PROVE  d.sub = new.sub /\ d.ts <= new.ts /\ (d.ts = new.ts => d = new)
  <2>1. d.id = c.id /\ Origin(d) /\ Origin(new)
    BY <1>2 DEF Replaced, DocsInv, Origin
  <2>2. d.sub = new.sub /\ (d.ts = new.ts => d = new)
    BY <1>2, <2>1, OriginUnique
  <2>3. PICK p \in Int : p <= now /\ d = Document(c, p)
    BY <1>1, <2>1, OriginFields DEF Imported
  <2>4. /\ d.ts = IF c.ts = Null THEN p ELSE c.at
        /\ new.ts = IF c.ts = Null THEN now ELSE c.at
        /\ new.ts \in Int
    BY <1>1, <2>3, DocumentFields
  <2>5. QED
    BY <2>2, <2>3, <2>4
<1>5. QED
  BY <1>2, <1>3, <1>4

(* Where a document comes from does not change. *)
LEMMA OriginLasts ==
    ASSUME now \in Nat, now' \in Nat, now <= now'
    PROVE  \A d : Origin(d) => Origin(d)'
  BY DEF Origin, Imported

LEMMA DocsInvInit == Init => DocsInv
<1> SUFFICES ASSUME Init PROVE DocsInv
  OBVIOUS
<1>1. now \in Nat
  BY DEF Init, ReportsAssumption
<1>2. \A d, e \in docs : d.id = e.id /\ d.pk = e.pk => d = e
  BY DEF Init, CallsAssumption
<1>3. retired = {} /\ live \subseteq Keys /\ IsFiniteSet(docs)
  BY DEF Init, CallsAssumption
<1>4. QED
  BY <1>1, <1>2, <1>3 DEF Init, DocsInv, Origin

LEMMA DocsInvImport ==
    ASSUME DocsInv, NEW c \in Calls, Import(c)
    PROVE  DocsInv'
<1>1. PICK new :
          /\ new = Document(c, now) /\ Imported(new, c)
          /\ docs' = (docs \ Replaced(new)) \cup {new}
  BY ImportStep
<1>2. now' = now /\ live' = live /\ retired' = retired
  BY DEF Import
<1>3. IsFiniteSet(docs')
  <2>1. IsFiniteSet(docs \ Replaced(new))
    BY FS_Subset DEF DocsInv
  <2>2. QED
    BY <1>1, <2>1, FS_AddElement
<1>4. \A d \in docs' : Origin(d)'
  BY <1>1, <1>2, OriginLasts DEF DocsInv, Origin
<1>5. \A d, e \in docs' : d.id = e.id /\ d.pk = e.pk => d = e
  BY <1>1 DEF DocsInv, Replaced
<1>6. QED
  BY <1>2, <1>3, <1>4, <1>5 DEF DocsInv

LEMMA DocsInvNext ==
    ASSUME DocsInv, "stage" \in DOMAIN report, [Next]_vars
    PROVE  DocsInv'
<1>1. CASE Tick
  <2>1. now' = now + 1 /\ docs' = docs /\ live' = live /\ retired' = retired
    BY <1>1 DEF Tick
  <2>2. now' \in Nat /\ now <= now'
    BY <2>1 DEF DocsInv
  <2>3. \A d \in docs' : Origin(d)'
    BY <2>1, <2>2, OriginLasts DEF DocsInv
  <2>4. QED
    BY <2>1, <2>2, <2>3 DEF DocsInv
<1>2. ASSUME NEW c \in Calls, Import(c) PROVE DocsInv'
  BY <1>2, DocsInvImport
<1>3. ASSUME now' = now, docs' = docs, retired' \subseteq Keys, live' \subseteq Keys,
             live' \cap retired' = {}
      PROVE  DocsInv'
  <2>1. \A d \in docs' : Origin(d)'
    BY <1>3, OriginLasts DEF DocsInv
  <2>2. QED
    BY <1>3, <2>1 DEF DocsInv
<1>4. ASSUME NEW k \in Keys, IssueKey(k) \/ DeleteKey(k) PROVE DocsInv'
  <2>1. /\ now' = now /\ docs' = docs
        /\ retired' \subseteq Keys /\ live' \subseteq Keys /\ live' \cap retired' = {}
    BY <1>4 DEF IssueKey, DeleteKey, DocsInv
  <2>2. QED
    BY <1>3, <2>1
<1>5. CASE ReadsLog \/ Elsewhere \/ UNCHANGED vars
  <2>1. UNCHANGED world
    BY <1>5 DEF ReadsLog, AskPage, AskItems, AskOwners, AskCount, TurnPage, Elsewhere, vars
  <2>2. QED
    BY <1>3, <2>1 DEF world, DocsInv
<1>6. QED
  BY <1>1, <1>2, <1>4, <1>5, StepCases

(* A call that was stamped has one document at most. *)
LEMMA OneDocument ==
    ASSUME DocsInv
    PROVE  OneDocumentPerCall
<1> SUFFICES ASSUME NEW c \in Calls, c.id # Null, c.ts # Null
             PROVE  LET stored == {d \in docs : d.id = c.id}
                    IN  /\ Cardinality(stored) <= 1
                        /\ \A d \in stored :
                              /\ d.ts = c.at /\ d.pk[2] = MonthOf(c.at)
                              /\ d.source = "unpriced" => d.cost = 0
                              /\ (d.source = "unpriced") = (c.aiu = Null \/ c.aiu.total = Null)
  BY DEF OneDocumentPerCall
<1> DEFINE stored == {d \in docs : d.id = c.id}
<1>1. ASSUME NEW d \in stored
      PROVE  /\ d = Document(c, 0)
             /\ d.ts = c.at /\ d.pk[2] = MonthOf(c.at)
             /\ d.source = "unpriced" => d.cost = 0
             /\ (d.source = "unpriced") = (c.aiu = Null \/ c.aiu.total = Null)
  <2>1. Imported(d, c)
    BY OriginFields DEF DocsInv
  <2>2. PICK p \in Int : d = Document(c, p)
    BY <2>1 DEF Imported
  <2>3. Document(c, p).ts = c.at /\ Document(c, 0).ts = c.at
    BY DocumentFields
  <2>4. Document(c, p) = Document(c, 0)
    BY <2>3, DocumentStable
  <2>5. d.pk = <<d.sub, MonthOf(d.ts)>>
    BY <2>2, DocumentFields
  <2>6. /\ d.source = IF Priced(c.aiu) THEN "copilot_usage" ELSE "unpriced"
        /\ d.cost = IF Priced(c.aiu) THEN c.aiu.total ELSE 0
    BY <2>2, DocumentFields
  <2>7. QED
    BY <2>2, <2>3, <2>4, <2>5, <2>6 DEF Priced
<1>2. Cardinality(stored) <= 1
  <2>1. stored = {} \/ stored = {Document(c, 0)}
    BY <1>1
  <2>2. Cardinality(stored) = 0 \/ Cardinality(stored) = 1
    BY <2>1, FS_EmptySet, FS_Singleton
  <2>3. QED
    BY <2>2
<1>3. QED
  BY <1>1, <1>2

-----------------------------------------------------------------------------
(* The reader of the call log: what its request has at every stage, and     *)
(* what its steps set.                                                      *)

LogFields == {"stage", "scope", "hours", "size", "seen", "first", "met", "shown", "page",
              "keys", "since", "quiet"}

(* What the queries of a page do not set. *)
PageParameters == LogFields \ {"stage", "shown"}

PagerTypes ==
    /\ "stage" \in DOMAIN report
    /\ report.stage \in LogStages =>
          /\ LogFields \subseteq DOMAIN report
          /\ report.stage # "items" => "items" \in DOMAIN report
          /\ report.stage = "log" => "total" \in DOMAIN report
          /\ report.scope # Platform /\ report.hours \in Windows
          /\ report.page \in Nat \ {0} /\ report.size \in Nat \ {0}
          /\ report.keys \subseteq Keys
          /\ (report.since = Null) = (report.hours = Null)
          /\ report.since # Null =>
                report.since \in Int /\ Since(report.hours) \in Int
                /\ report.since <= Since(report.hours)

(* A window has a start unless it is all time; ... *)
LEMMA SinceType ==
    ASSUME now \in Nat, NEW hours \in Windows
    PROVE  /\ (Since(hours) = Null) = (hours = Null)
           /\ hours # Null => Since(hours) \in Int
<1>1. CASE hours = Null
  BY <1>1 DEF Since
<1>2. CASE hours # Null
  <2>1. hours \in Int /\ MaxWindow \in Int /\ HourTicks \in Int
    BY <1>2 DEF ReportsAssumption, DocumentsAssumption
  <2>2. Clamp(1, hours, MaxWindow) \in Int
    BY <2>1, ClampValue
  <2>3. PICK h \in Int : h = Clamp(1, hours, MaxWindow)
    BY <2>2
  <2>4. Since(hours) = now - h * HourTicks
    BY <1>2, <2>3 DEF Since
  <2>5. Since(hours) \in Int
    BY <2>1, <2>4
  <2>6. QED
    BY <1>2, <2>5 DEF ReportsAssumption
<1>3. QED
  BY <1>1, <1>2

(* ... it moves on with the clock. *)
LEMMA SinceMoves ==
    ASSUME now \in Nat, now' \in Nat, now <= now', NEW hours \in Windows, hours # Null
    PROVE  Since(hours)' \in Int /\ Since(hours) <= Since(hours)'
<1>1. hours \in Int /\ MaxWindow \in Int /\ HourTicks \in Int
  BY DEF ReportsAssumption, DocumentsAssumption
<1>2. PICK h \in Int : h = Clamp(1, hours, MaxWindow)
  BY <1>1, ClampValue
<1>3. Since(hours) = now - h * HourTicks /\ Since(hours)' = now' - h * HourTicks
  BY <1>2 DEF Since
<1>4. PICK back \in Int : Since(hours) = now - back /\ Since(hours)' = now' - back
  BY <1>1, <1>2, <1>3
<1>5. now \in Int /\ now' \in Int /\ now <= now'
  OBVIOUS
<1>6. now - back <= now' - back /\ now' - back \in Int
  BY <1>5, Shifted, Zenon
<1>7. QED
  BY <1>4, <1>6

(* The keys of a tenant. *)
LEMMA TenantKeys ==
    ASSUME DocsInv, NEW scope, scope # Platform
    PROVE  /\ KeysOf(scope) = {k \in live : TenantOf[k] = scope}
           /\ KeysOf(scope) \subseteq live /\ KeysOf(scope) \subseteq Keys
  BY DEF KeysOf, DocsInv

(* What a new page starts with. *)
NewPage ==
    /\ UNCHANGED world
    /\ LogFields \subseteq DOMAIN report'
    /\ report'.stage = "items" /\ report'.quiet = TRUE
    /\ report'.keys = KeysOf(report'.scope) /\ report'.since = Since(report'.hours)

LEMMA PageFields ==
    ASSUME NEW r, NEW n, report' = Page(r, n), UNCHANGED world,
           {"scope", "hours", "size", "seen", "first", "met", "shown"} \subseteq DOMAIN r
    PROVE  /\ NewPage
           /\ report'.page = n /\ report'.met = r.met \cup KeysOf(r.scope)
           /\ report'.scope = r.scope /\ report'.hours = r.hours /\ report'.size = r.size
           /\ report'.seen = r.seen /\ report'.first = r.first /\ report'.shown = r.shown
<1>1. PICK new :
         /\ new = [stage |-> "items", page |-> n, keys |-> KeysOf(r.scope),
                   met |-> r.met \cup KeysOf(r.scope), since |-> Since(r.hours), quiet |-> TRUE]
         /\ report' = Update(r, new)
  BY DEF Page
<1>2. DOMAIN new = {"stage", "page", "keys", "met", "since", "quiet"}
  BY <1>1
<1>3. /\ DOMAIN report' = DOMAIN r \cup DOMAIN new
      /\ \A f \in DOMAIN new : report'[f] = new[f]
      /\ \A f \in DOMAIN r \ DOMAIN new : report'[f] = r[f]
  <2>1. report' = Update(r, new)
    BY <1>1
  <2>2. QED
    BY <2>1 DEF Update
<1>4. DOMAIN report' = DOMAIN r \cup {"stage", "page", "keys", "met", "since", "quiet"}
  BY <1>2, <1>3
<1>5. \A f \in {"stage", "page", "keys", "met", "since", "quiet"} : report'[f] = new[f]
  BY <1>2, <1>3
<1>6. \A f \in {"scope", "hours", "size", "seen", "first", "shown"} : report'[f] = r[f]
  <2>1. \A f \in DOMAIN r \ DOMAIN new : report'[f] = r[f]
    BY <1>3
  <2>2. \A f \in {"scope", "hours", "size", "seen", "first", "shown"} :
           f \notin {"stage", "page", "keys", "met", "since", "quiet"}
    BY Zenon
  <2>3. \A f \in {"scope", "hours", "size", "seen", "first", "shown"} : f \in DOMAIN r
    OBVIOUS
  <2>4. QED
    BY <1>2, <2>1, <2>2, <2>3
<1>7. LogFields \subseteq DOMAIN report'
  BY <1>4 DEF LogFields
<1>8. /\ report'.stage = "items" /\ report'.page = n /\ report'.keys = KeysOf(r.scope)
      /\ report'.met = r.met \cup KeysOf(r.scope) /\ report'.since = Since(r.hours)
      /\ report'.quiet = TRUE
  BY <1>1, <1>5
<1>9. QED
  BY <1>6, <1>7, <1>8 DEF NewPage

LEMMA AskPageFields ==
    ASSUME NEW scope, NEW hours, NEW size, AskPage(scope, hours, size)
    PROVE  /\ NewPage /\ scope # Platform
           /\ report'.scope = scope /\ report'.hours = hours
           /\ report'.page = 1 /\ report'.size = Clamp(1, size, MaxPageSize)
           /\ report'.seen = docs /\ report'.first = KeysOf(scope)
           /\ report'.met = KeysOf(scope) /\ report'.shown = {}
<1> DEFINE r == [scope |-> scope, hours |-> hours, size |-> Clamp(1, size, MaxPageSize),
                 seen |-> docs, first |-> KeysOf(scope), met |-> {}, shown |-> {}]
<1>1. report' = Page(r, 1) /\ UNCHANGED world /\ scope # Platform
  BY DEF AskPage
<1>2. DOMAIN r = {"scope", "hours", "size", "seen", "first", "met", "shown"}
  OBVIOUS
<1>3. /\ r.scope = scope /\ r.hours = hours /\ r.size = Clamp(1, size, MaxPageSize)
      /\ r.seen = docs /\ r.first = KeysOf(scope) /\ r.met = {} /\ r.shown = {}
  OBVIOUS
<1> HIDE DEF r
<1>4. /\ NewPage
      /\ report'.page = 1 /\ report'.met = r.met \cup KeysOf(r.scope)
      /\ report'.scope = r.scope /\ report'.hours = r.hours /\ report'.size = r.size
      /\ report'.seen = r.seen /\ report'.first = r.first /\ report'.shown = r.shown
  BY <1>1, <1>2, PageFields
<1>5. QED
  BY <1>1, <1>3, <1>4

LEMMA TurnPageFields ==
    ASSUME PagerTypes, TurnPage
    PROVE  /\ NewPage /\ report.stage = "log"
           /\ report'.page = report.page + 1
           /\ report'.met = report.met \cup KeysOf(report.scope)
           /\ report'.scope = report.scope /\ report'.hours = report.hours
           /\ report'.size = report.size /\ report'.seen = report.seen
           /\ report'.first = report.first /\ report'.shown = report.shown
<1> DEFINE r == [f \in DOMAIN report \ {"items", "total"} |-> report[f]]
<1>1. /\ report.stage = "log" /\ UNCHANGED world
      /\ report' = Page(r, report.page + 1)
  BY DEF TurnPage
<1>2. LogFields \subseteq DOMAIN report
  BY <1>1 DEF PagerTypes, LogStages
<1>3. {"scope", "hours", "size", "seen", "first", "met", "shown"} \subseteq DOMAIN r
  BY <1>2 DEF LogFields
<1>4. /\ r.scope = report.scope /\ r.hours = report.hours /\ r.size = report.size
      /\ r.seen = report.seen /\ r.first = report.first /\ r.met = report.met
      /\ r.shown = report.shown
  BY <1>3
<1> HIDE DEF r
<1>5. /\ NewPage
      /\ report'.page = report.page + 1 /\ report'.met = r.met \cup KeysOf(r.scope)
      /\ report'.scope = r.scope /\ report'.hours = r.hours /\ report'.size = r.size
      /\ report'.seen = r.seen /\ report'.first = r.first /\ report'.shown = r.shown
  BY <1>1, <1>3, PageFields
<1>6. QED
  BY <1>1, <1>4, <1>5

(* The queries of a page set what they ask for. *)
LEMMA QueryFields ==
    ASSUME PagerTypes, AskItems \/ AskOwners \/ AskCount
    PROVE  /\ UNCHANGED world
           /\ LogFields \cup {"items"} \subseteq DOMAIN report'
           /\ report.stage \in LogStages /\ report'.stage \in LogStages
           /\ report'.stage # "items"
           /\ \A f \in PageParameters : report'[f] = report[f]
           /\ AskItems =>
                 /\ report.stage = "items" /\ report'.stage = "owners"
                 /\ report'.items = Slice(Scoped(report.keys, report.since),
                                          (report.page - 1) * report.size, report.size)
                 /\ report'.shown = report.shown \cup report'.items
           /\ AskOwners =>
                 /\ report.stage = "owners" /\ report'.stage = "count"
                 /\ report'.items = {RecordView(d, d.sub \in KeysOf(report.scope)) :
                                       d \in report.items}
                 /\ report'.shown = report.shown
           /\ AskCount =>
                 /\ report.stage = "count" /\ report'.stage = "log"
                 /\ report'.items = report.items
                 /\ "total" \in DOMAIN report'
                 /\ report'.total = Cardinality(Scoped(report.keys, report.since))
                 /\ report'.shown = report.shown
<1>1. report.stage \in LogStages /\ LogFields \subseteq DOMAIN report /\ UNCHANGED world
  BY DEF AskItems, AskOwners, AskCount, PagerTypes, LogStages
<1>2. ~(AskItems /\ AskOwners) /\ ~(AskItems /\ AskCount) /\ ~(AskOwners /\ AskCount)
  BY DEF AskItems, AskOwners, AskCount
<1>3. CASE AskItems
  <2>1. PICK items :
           /\ items = Slice(Scoped(report.keys, report.since),
                            (report.page - 1) * report.size, report.size)
           /\ report' = Update(report, [stage |-> "owners", items |-> items,
                                        shown |-> report.shown \cup items])
           /\ report.stage = "items"
    BY <1>3 DEF AskItems
  <2>2. PICK new : new = [stage |-> "owners", items |-> items, shown |-> report.shown \cup items]
    OBVIOUS
  <2>3. /\ DOMAIN new = {"stage", "items", "shown"}
        /\ new.stage = "owners" /\ new.items = items /\ new.shown = report.shown \cup items
    BY <2>2
  <2>4. /\ DOMAIN report' = DOMAIN report \cup {"stage", "items", "shown"}
        /\ \A f \in {"stage", "items", "shown"} : report'[f] = new[f]
        /\ \A f \in DOMAIN report \ {"stage", "items", "shown"} : report'[f] = report[f]
    <3>1. report' = Update(report, new)
      BY <2>1, <2>2
    <3>2. /\ DOMAIN Update(report, new) = DOMAIN report \cup DOMAIN new
          /\ \A f \in DOMAIN new : Update(report, new)[f] = new[f]
          /\ \A f \in DOMAIN report \ DOMAIN new : Update(report, new)[f] = report[f]
      BY DEF Update
    <3>3. QED
      BY <2>3, <3>1, <3>2
  <2>5. \A f \in PageParameters : report'[f] = report[f]
    BY <1>1, <2>4 DEF PageParameters, LogFields
  <2>6. LogFields \cup {"items"} \subseteq DOMAIN report'
    BY <1>1, <2>4
  <2>7. /\ report'.stage = "owners" /\ report'.items = items
        /\ report'.shown = report.shown \cup items
    BY <2>3, <2>4
  <2>8. QED
    BY <1>1, <1>2, <1>3, <2>1, <2>5, <2>6, <2>7 DEF LogStages
<1>4. CASE AskOwners
  <2>1. PICK items :
           /\ items = {RecordView(d, d.sub \in KeysOf(report.scope)) : d \in report.items}
           /\ report' = [report EXCEPT !.stage = "count", !.items = items]
           /\ report.stage = "owners"
    BY <1>4 DEF AskOwners
  <2>2. "items" \in DOMAIN report /\ "stage" \in DOMAIN report
    BY <2>1 DEF PagerTypes, LogStages
  <2>3. /\ DOMAIN report' = DOMAIN report
        /\ report'.stage = "count" /\ report'.items = items
        /\ \A f \in DOMAIN report \ {"stage", "items"} : report'[f] = report[f]
    BY <2>1, <2>2
  <2>4. /\ \A f \in PageParameters : report'[f] = report[f]
        /\ report'.shown = report.shown
    BY <1>1, <2>3 DEF PageParameters, LogFields
  <2>5. QED
    BY <1>1, <1>2, <1>4, <2>1, <2>2, <2>3, <2>4 DEF LogStages
<1>5. CASE AskCount
  <2>1. PICK total :
           /\ total = Cardinality(Scoped(report.keys, report.since))
           /\ report' = Update(report, [stage |-> "log", total |-> total])
           /\ report.stage = "count"
    BY <1>5 DEF AskCount
  <2>2. PICK new : new = [stage |-> "log", total |-> total]
    OBVIOUS
  <2>3. DOMAIN new = {"stage", "total"} /\ new.stage = "log" /\ new.total = total
    BY <2>2
  <2>4. /\ DOMAIN report' = DOMAIN report \cup {"stage", "total"}
        /\ \A f \in {"stage", "total"} : report'[f] = new[f]
        /\ \A f \in DOMAIN report \ {"stage", "total"} : report'[f] = report[f]
    <3>1. report' = Update(report, new)
      BY <2>1, <2>2
    <3>2. /\ DOMAIN Update(report, new) = DOMAIN report \cup DOMAIN new
          /\ \A f \in DOMAIN new : Update(report, new)[f] = new[f]
          /\ \A f \in DOMAIN report \ DOMAIN new : Update(report, new)[f] = report[f]
      BY DEF Update
    <3>3. QED
      BY <2>3, <3>1, <3>2
  <2>5. "items" \in DOMAIN report
    BY <2>1 DEF PagerTypes, LogStages
  <2>6. /\ \A f \in PageParameters : report'[f] = report[f]
        /\ report'.shown = report.shown /\ report'.items = report.items
    BY <1>1, <2>4, <2>5 DEF PageParameters, LogFields
  <2>7. LogFields \cup {"items"} \subseteq DOMAIN report'
    BY <1>1, <2>4, <2>5
  <2>8. report'.stage = "log" /\ report'.total = total /\ "total" \in DOMAIN report'
    BY <2>3, <2>4
  <2>9. QED
    BY <1>1, <1>2, <1>5, <2>1, <2>6, <2>7, <2>8 DEF LogStages
<1>6. QED
  BY <1>3, <1>4, <1>5

(* An import leaves the request alone but for its history. *)
LEMMA DisturbedFields ==
    ASSUME PagerTypes, NEW c, Import(c)
    PROVE  /\ DOMAIN report' = DOMAIN report
           /\ \A f \in DOMAIN report \ {"quiet"} : report'[f] = report[f]
           /\ report.stage \in LogStages => report'.quiet = (report.quiet /\ docs' = docs)
<1>1. report' = IF "quiet" \in DOMAIN report
                THEN [report EXCEPT !.quiet = @ /\ ~(docs' # docs)]
                ELSE report
  BY DEF Import, Disturbed
<1>2. report.stage \in LogStages => "quiet" \in DOMAIN report
  BY DEF PagerTypes, LogFields
<1>3. CASE "quiet" \in DOMAIN report
  <2>1. report' = [report EXCEPT !.quiet = @ /\ docs' = docs]
    BY <1>1, <1>3
  <2>2. QED
    BY <1>3, <2>1
<1>4. CASE "quiet" \notin DOMAIN report
  BY <1>1, <1>2, <1>4
<1>5. QED
  BY <1>3, <1>4

(* The window of a page was fixed when the page was asked for. *)
LEMMA SinceStays ==
    ASSUME DocsInv, PagerTypes, report.stage \in LogStages, now' \in Nat, now <= now',
           report'.hours = report.hours, report'.since = report.since
    PROVE  report'.since # Null =>
              report'.since \in Int /\ Since(report.hours)' \in Int
              /\ report'.since <= Since(report.hours)'
<1> SUFFICES ASSUME report.since # Null
             PROVE  report.since \in Int /\ Since(report.hours)' \in Int
                    /\ report.since <= Since(report.hours)'
  OBVIOUS
<1>1. PICK hours \in Windows : hours = report.hours
  BY DEF PagerTypes
<1>2. hours # Null /\ report.since \in Int /\ Since(hours) \in Int /\ report.since <= Since(hours)
  BY <1>1 DEF PagerTypes
<1>3. Since(hours)' \in Int /\ Since(hours) <= Since(hours)'
  BY <1>2, SinceMoves DEF DocsInv
<1>4. Since(report.hours)' = Since(hours)'
  BY <1>1 DEF Since
<1>5. report.since <= Since(hours)'
  BY <1>2, <1>3
<1>6. QED
  BY <1>2, <1>3, <1>4, <1>5

LEMMA PagerTypesKept ==
    ASSUME DocsInv, PagerTypes, now' \in Nat, now <= now',
           DOMAIN report \subseteq DOMAIN report',
           report'.stage \in LogStages => report.stage \in LogStages,
           report'.stage \in LogStages /\ report'.stage # "items" => "items" \in DOMAIN report',
           report'.stage = "log" => "total" \in DOMAIN report',
           report.stage \in LogStages =>
              \A f \in PageParameters \ {"quiet"} : report'[f] = report[f]
    PROVE  PagerTypes'
<1>1. CASE report'.stage \notin LogStages
  BY <1>1 DEF PagerTypes
<1>2. CASE report'.stage \in LogStages
  <2>1. report.stage \in LogStages
    BY <1>2
  <2>2. /\ report'.scope = report.scope /\ report'.hours = report.hours
        /\ report'.page = report.page /\ report'.size = report.size
        /\ report'.keys = report.keys /\ report'.since = report.since
    BY <2>1 DEF PageParameters, LogFields
  <2>3. report'.since # Null =>
           report'.since \in Int /\ Since(report.hours)' \in Int
           /\ report'.since <= Since(report.hours)'
    BY <2>1, <2>2, SinceStays
  <2>4. /\ LogFields \subseteq DOMAIN report' /\ "stage" \in DOMAIN report'
        /\ report'.stage # "items" => "items" \in DOMAIN report'
        /\ report'.stage = "log" => "total" \in DOMAIN report'
    BY <1>2, <2>1 DEF PagerTypes
  <2>5. /\ report'.scope # Platform /\ report'.hours \in Windows
        /\ report'.page \in Nat \ {0} /\ report'.size \in Nat \ {0}
        /\ report'.keys \subseteq Keys
        /\ (report'.since = Null) = (report'.hours = Null)
    BY <2>1, <2>2 DEF PagerTypes
  <2>6. QED
    BY <2>3, <2>4, <2>5 DEF PagerTypes
<1>3. QED
  BY <1>1, <1>2

LEMMA PagerTypesNewPage ==
    ASSUME DocsInv, NewPage, report'.scope # Platform, report'.hours \in Windows,
           report'.page \in Nat \ {0}, report'.size \in Nat \ {0}
    PROVE  PagerTypes'
<1>1. PICK hours \in Windows : hours = report'.hours
  OBVIOUS
<1>2. PICK scope : scope = report'.scope
  OBVIOUS
<1>3. /\ now' = now /\ live' = live /\ report'.since = Since(hours) /\ report'.stage = "items"
      /\ report'.keys = KeysOf(scope) /\ LogFields \subseteq DOMAIN report'
  BY <1>1, <1>2 DEF NewPage, world
<1>4. Since(report.hours)' = Since(hours)
  BY <1>1, <1>3 DEF Since
<1>5. /\ (Since(hours) = Null) = (hours = Null)
      /\ hours # Null => Since(hours) \in Int
  BY SinceType DEF DocsInv
<1>6. KeysOf(scope) \subseteq Keys
  BY <1>2, TenantKeys
<1>7. Since(hours) \in Int => Since(hours) <= Since(hours)
  OBVIOUS
<1>8. "stage" \in DOMAIN report'
  BY <1>3 DEF LogFields
<1>9. QED
  BY <1>1, <1>3, <1>4, <1>5, <1>6, <1>7, <1>8 DEF PagerTypes

LEMMA PagerTypesNext ==
    ASSUME DocsInv, PagerTypes, [Next]_vars
    PROVE  PagerTypes'
<1>1. "stage" \in DOMAIN report /\ now \in Nat
  BY DEF PagerTypes, DocsInv
<1>2. CASE Tick
  <2>1. now' = now + 1 /\ report' = report
    BY <1>2 DEF Tick
  <2>2. now' \in Nat /\ now <= now'
    BY <1>1, <2>1
  <2>3. /\ report.stage \in LogStages /\ report.stage # "items" => "items" \in DOMAIN report
        /\ report.stage = "log" => "total" \in DOMAIN report
    BY DEF PagerTypes, LogStages
  <2>4. QED
    BY <2>1, <2>2, <2>3, PagerTypesKept
<1>3. ASSUME NEW c \in Calls, Import(c) PROVE PagerTypes'
  <2>1. now' = now
    BY <1>3 DEF Import
  <2>2. /\ DOMAIN report' = DOMAIN report
        /\ \A f \in DOMAIN report \ {"quiet"} : report'[f] = report[f]
    BY <1>3, DisturbedFields
  <2>3. report'.stage = report.stage
    BY <1>1, <2>2
  <2>4. report.stage \in LogStages =>
           /\ \A f \in PageParameters \ {"quiet"} : report'[f] = report[f]
           /\ report.stage # "items" => "items" \in DOMAIN report'
    BY <2>2 DEF PagerTypes, PageParameters
  <2>6. report.stage = "log" => "total" \in DOMAIN report'
    BY <2>2 DEF PagerTypes, LogStages
  <2>5. QED
    BY <1>1, <2>1, <2>2, <2>3, <2>4, <2>6, PagerTypesKept
<1>4. CASE UNCHANGED <<now, report>>
  <2>1. /\ report.stage \in LogStages /\ report.stage # "items" => "items" \in DOMAIN report
        /\ report.stage = "log" => "total" \in DOMAIN report
    BY DEF PagerTypes, LogStages
  <2>2. QED
    BY <1>1, <1>4, <2>1, PagerTypesKept
<1>5. ASSUME NEW k \in Keys, IssueKey(k) \/ DeleteKey(k) PROVE PagerTypes'
  BY <1>4, <1>5 DEF IssueKey, DeleteKey
<1>6. ASSUME NEW scope, NEW hours \in Windows, NEW size \in PageSizes,
             AskPage(scope, hours, size)
      PROVE  PagerTypes'
  <2>1. /\ NewPage /\ scope # Platform
        /\ report'.scope = scope /\ report'.hours = hours
        /\ report'.page = 1 /\ report'.size = Clamp(1, size, MaxPageSize)
    BY <1>6, AskPageFields
  <2>2. size \in Int /\ MaxPageSize \in Nat \ {0}
    BY DEF ReportsAssumption
  <2>3. Clamp(1, size, MaxPageSize) \in Nat \ {0}
    BY <2>2, ClampValue
  <2>4. QED
    BY <2>1, <2>3, PagerTypesNewPage
<1>7. CASE TurnPage
  <2>1. /\ NewPage /\ report.stage = "log"
        /\ report'.scope = report.scope /\ report'.hours = report.hours
        /\ report'.page = report.page + 1 /\ report'.size = report.size
    BY <1>7, TurnPageFields
  <2>2. /\ report.scope # Platform /\ report.hours \in Windows
        /\ report.page \in Nat \ {0} /\ report.size \in Nat \ {0}
    BY <2>1 DEF PagerTypes, LogStages
  <2>3. report.page + 1 \in Nat \ {0}
    BY <2>2
  <2>4. QED
    BY <2>1, <2>2, <2>3, PagerTypesNewPage
<1>8. CASE AskItems \/ AskOwners \/ AskCount
  <2>1. /\ UNCHANGED world
        /\ LogFields \cup {"items"} \subseteq DOMAIN report'
        /\ report.stage \in LogStages
        /\ \A f \in PageParameters : report'[f] = report[f]
    BY <1>8, QueryFields
  <2>2. now' = now
    BY <2>1 DEF world
  <2>3. /\ report'.scope = report.scope /\ report'.hours = report.hours
        /\ report'.page = report.page /\ report'.size = report.size
        /\ report'.keys = report.keys /\ report'.since = report.since
    BY <2>1 DEF PageParameters, LogFields
  <2>4. report'.since # Null =>
           report'.since \in Int /\ Since(report.hours)' \in Int
           /\ report'.since <= Since(report.hours)'
    BY <1>1, <2>1, <2>2, <2>3, SinceStays
  <2>5. /\ report'.scope # Platform /\ report'.hours \in Windows
        /\ report'.page \in Nat \ {0} /\ report'.size \in Nat \ {0}
        /\ report'.keys \subseteq Keys
        /\ (report'.since = Null) = (report'.hours = Null)
    BY <2>1, <2>3 DEF PagerTypes
  <2>6. "stage" \in DOMAIN report' /\ "items" \in DOMAIN report'
        /\ LogFields \subseteq DOMAIN report'
    BY <2>1 DEF LogFields
  <2>7. report'.stage = "log" => "total" \in DOMAIN report'
    BY <1>8, QueryFields
  <2>8. QED
    BY <2>4, <2>5, <2>6, <2>7 DEF PagerTypes
<1>9. CASE Elsewhere
  BY <1>9 DEF Elsewhere, PagerTypes
<1>10. CASE ReadsLog
  BY <1>6, <1>7, <1>8, <1>10 DEF ReadsLog
<1>11. CASE UNCHANGED vars
  BY <1>4, <1>11 DEF vars, world
<1>12. QED
  BY <1>1, <1>2, <1>3, <1>5, <1>9, <1>10, <1>11, StepCases

-----------------------------------------------------------------------------
(* The page and the number of all documents.                               *)

(* What a query returns: nothing, or the documents of the keys in the window. *)
LEMMA ScopedDocs ==
    ASSUME NEW keys \in SUBSET Keys, NEW since
    PROVE  Scoped(keys, since) = {d \in docs : d.sub \in keys /\ (since = Null \/ d.ts >= since)}
<1>1. keys # Null
  BY DEF ReportsAssumption
<1>2. QED
  BY <1>1 DEF Scoped, Matching

(* Likewise for all keys. *)
LEMMA WindowDocs ==
    ASSUME NEW keys, keys = Null \/ keys \in SUBSET Keys, NEW since
    PROVE  Scoped(keys, since) = {d \in docs : (keys = Null \/ d.sub \in keys)
                                              /\ (since = Null \/ d.ts >= since)}
<1>1. {} # Null
  BY DEF ReportsAssumption
<1>2. CASE keys = {}
  <2>1. {d \in docs : (keys = Null \/ d.sub \in keys) /\ (since = Null \/ d.ts >= since)} = {}
    BY <1>1, <1>2
  <2>2. QED
    BY <1>2, <2>1 DEF Scoped
<1>3. CASE keys # {}
  BY <1>3 DEF Scoped, Matching
<1>4. QED
  BY <1>2, <1>3

LEMMA ScopedFinite ==
    ASSUME DocsInv, NEW keys, keys = Null \/ keys \in SUBSET Keys, NEW since
    PROVE  /\ IsFiniteSet(Scoped(keys, since))
           /\ Cardinality(Scoped(keys, since)) \in Nat
           /\ \A d \in Scoped(keys, since) : d \in docs /\ Origin(d)
<1>1. Scoped(keys, since) \in SUBSET docs
  BY WindowDocs
<1>2. QED
  BY <1>1, FS_Subset, FS_CardinalityType DEF DocsInv

(* Imports only add to a list of documents: the one that is replaced has the
   new one in its place. *)
LEMMA ReplacedCount ==
    ASSUME DocsInv, NEW new, NEW S \in SUBSET docs, NEW T, IsFiniteSet(T),
           \A e \in S : e \notin Replaced(new) => e \in T,
           \A e \in S : e \in Replaced(new) => new \in T
    PROVE  Cardinality(S) <= Cardinality(T)
<1>1. IsFiniteSet(S)
  BY FS_Subset DEF DocsInv
<1>2. CASE Replaced(new) \cap S = {}
  <2>1. S \in SUBSET T
    BY <1>2
  <2>2. QED
    BY <2>1, FS_Subset
<1>3. CASE Replaced(new) \cap S # {}
  <2>1. PICK old : old \in Replaced(new) /\ old \in S
    BY <1>3
  <2>2. \A d \in Replaced(new) : d = old
    BY <2>1 DEF Replaced, DocsInv
  <2>3. new \in T
    BY <2>1
  <2>4. S \ {old} \in SUBSET T \ {new}
    <3>1. \A d \in S \ {old} : d \in T
      BY <2>2
    <3>2. new \in S => new = old
      BY <2>2 DEF Replaced
    <3>3. QED
      BY <3>1, <3>2
  <2>5. Cardinality(S \ {old}) <= Cardinality(T \ {new})
    BY <2>4, FS_RemoveElement, FS_Subset
  <2>6. /\ Cardinality(S \ {old}) = Cardinality(S) - 1
        /\ Cardinality(T \ {new}) = Cardinality(T) - 1
    <3>1. \A X, x : IsFiniteSet(X) /\ x \in X => Cardinality(X \ {x}) = Cardinality(X) - 1
      BY FS_RemoveElement
    <3>2. QED
      BY <1>1, <2>1, <2>3, <3>1
  <2>7. Cardinality(S) \in Nat /\ Cardinality(T) \in Nat
    BY <1>1, FS_CardinalityType
  <2>8. PICK m \in Nat, n \in Nat : m = Cardinality(S) /\ n = Cardinality(T)
    BY <2>7
  <2>9. m - 1 <= n - 1
    BY <2>5, <2>6, <2>8
  <2>10. m <= n
    BY <2>9
  <2>11. QED
    BY <2>8, <2>10
<1>4. QED
  BY <1>2, <1>3

(* The document an import puts in the place of another stays in the windows
   and in front of the documents the other one was in front of. *)
LEMMA ReplacedIsNoOlder ==
    ASSUME DocsInv, NEW c \in Calls, NEW new, Imported(new, c), NEW old \in Replaced(new),
           old.ts <= new.ts, old.ts = new.ts => old = new
    PROVE  /\ \A since \in Int : old.ts >= since => new.ts >= since
           /\ \A d \in docs : Later(old, d) => Later(new, d)
<1>1. old \in docs /\ Origin(old) /\ Origin(new)
  BY DEF Replaced, DocsInv, Origin
<1>2. old.ts \in Int /\ new.ts \in Int
  BY <1>1, OriginFields
<1>3. PICK a \in Int, b \in Int : a = old.ts /\ b = new.ts
  BY <1>2
<1>4. \A since \in Int : a >= since /\ a <= b => b >= since
  OBVIOUS
<1>5. ASSUME NEW d \in docs, Later(old, d) PROVE Later(new, d)
  <2>1. d.ts \in Int
    BY OriginFields DEF DocsInv
  <2>2. PICK t \in Int : t = d.ts
    BY <2>1
  <2>3. CASE a = b
    BY <1>3, <1>5, <2>3
  <2>4. CASE a # b
    <3>1. a >= t
      BY <1>3, <1>5, <2>2 DEF Later
    <3>2. a <= b
      BY <1>3
    <3>3. b > t
      BY <2>4, <3>1, <3>2
    <3>4. QED
      BY <1>3, <2>2, <3>3 DEF Later
  <2>5. QED
    BY <2>3, <2>4
<1>6. QED
  BY <1>3, <1>4, <1>5

LEMMA ScopedGrows ==
    ASSUME DocsInv, NEW c \in Calls, Import(c), NEW keys, keys = Null \/ keys \in SUBSET Keys,
           NEW since, since = Null \/ since \in Int
    PROVE  /\ Cardinality(Scoped(keys, since)) <= Cardinality(Scoped(keys, since)')
           /\ \A d \in docs \cap docs' :
                 Position(Scoped(keys, since), d) <= Position(Scoped(keys, since)', d)
<1> DEFINE In(d) == (keys = Null \/ d.sub \in keys) /\ (since = Null \/ d.ts >= since)
           S == Scoped(keys, since)
           T == Scoped(keys, since)'
<1>1. PICK new :
          /\ new = Document(c, now) /\ Imported(new, c)
          /\ docs' = (docs \ Replaced(new)) \cup {new}
          /\ \A d \in Replaced(new) :
                d.sub = new.sub /\ d.ts <= new.ts /\ (d.ts = new.ts => d = new)
  BY ImportStep
<1>2. S = {d \in docs : In(d)}
  <2> HIDE DEF S
  <2> QED
    BY WindowDocs DEF S
<1>3. T = {d \in docs' : In(d)}
  <2>1. {} # Null
    BY DEF ReportsAssumption
  <2>2. CASE keys = {}
    BY <2>1, <2>2 DEF Scoped
  <2>3. CASE keys # {}
    BY <2>3 DEF Scoped, Matching
  <2>4. QED
    BY <2>2, <2>3
<1>4. IsFiniteSet(T)
  <2>1. IsFiniteSet(docs')
    BY DocsInvImport DEF DocsInv
  <2>2. T \in SUBSET docs'
    BY <1>3
  <2>3. QED
    BY <2>1, <2>2, FS_Subset
<1>5. \A e \in Replaced(new) :
         /\ In(e) => In(new)
         /\ \A d \in docs : Later(e, d) => Later(new, d)
  BY <1>1, ReplacedIsNoOlder
<1>6. \A e \in S : /\ e \notin Replaced(new) => e \in T
                   /\ e \in Replaced(new) => new \in T
  BY <1>1, <1>2, <1>3, <1>5
<1>7. S \in SUBSET docs
  BY <1>2
<1> HIDE DEF S, T, In
<1>8. Cardinality(S) <= Cardinality(T)
  BY <1>4, <1>6, <1>7, ReplacedCount
<1>9. ASSUME NEW d \in docs \cap docs' PROVE Position(S, d) <= Position(T, d)
  <2>1. Ahead(S, d) \in SUBSET docs /\ Ahead(T, d) \in SUBSET T
    BY <1>7 DEF Ahead
  <2>2. \A e \in Ahead(S, d) : /\ e \notin Replaced(new) => e \in Ahead(T, d)
                               /\ e \in Replaced(new) => new \in Ahead(T, d)
    BY <1>5, <1>6 DEF Ahead
  <2>3. IsFiniteSet(Ahead(T, d))
    BY <1>4, <2>1, FS_Subset
  <2>4. QED
    BY <2>1, <2>2, <2>3, ReplacedCount DEF Position
<1>10. QED
  BY <1>8, <1>9 DEF S, T

(* Two documents of a page have two views, whatever else a view shows. *)
LEMMA ViewsCount ==
    ASSUME NEW view, IsFiniteSet(DOMAIN view),
           \A d \in DOMAIN view : Origin(d) /\ view[d].id = d.id /\ view[d].ts = d.ts
    PROVE  IsFiniteSet(Range(view)) /\ Cardinality(Range(view)) = Cardinality(DOMAIN view)
<1>1. \A d, e \in DOMAIN view : view[d] = view[e] => d = e
  BY OriginUnique
<1>2. ExistsBijection(DOMAIN view, Range(view))
  <2> DEFINE f == [d \in DOMAIN view |-> view[d]]
  <2>1. f \in [DOMAIN view -> Range(view)]
    BY DEF Range
  <2>2. \A v \in Range(view) : \E d \in DOMAIN view : f[d] = v
    BY DEF Range
  <2>3. f \in Bijection(DOMAIN view, Range(view))
    BY <1>1, <2>1, <2>2, Fun_IsBij
  <2>4. QED
    BY <2>3 DEF ExistsBijection
<1>3. QED
  BY <1>2, FS_Bijection

(* The documents the page was cut from, as they are now, and how many of them
   come before the page. *)
Window == Scoped(report.keys, report.since)

Skipped == (report.page - 1) * report.size

(* The page is what is left of a list of n documents. *)
PageOf(n) ==
    IsFiniteSet(report.items) /\ Cardinality(report.items) = Clamp(0, n - Skipped, report.size)

(* The page was cut from a list that only grew since, and only if an import
   changed a document. *)
CountsInv ==
    /\ report.stage = "owners" => \A d \in report.items : Origin(d)
    /\ report.stage \in {"owners", "count"} =>
          \E n \in Nat : /\ PageOf(n) /\ n <= Cardinality(Window)
                         /\ report.quiet => n = Cardinality(Window)
    /\ report.stage = "log" =>
          /\ report.total \in Nat
          /\ \E n \in Nat : /\ PageOf(n) /\ n <= report.total
                            /\ report.quiet => n = report.total

(* A page that came back with documents is not behind the end of the list. *)
LEMMA NoEmptyPage ==
    ASSUME PagerTypes, CountsInv
    PROVE  PagerOffersNoEmptyPage
<1> SUFFICES ASSUME report.stage = "log"
             PROVE  /\ report.items # {} => report.total >= Skipped + Cardinality(report.items)
                    /\ report.quiet =>
                          Cardinality(report.items)
                              = Clamp(0, report.total - Skipped, report.size)
  BY DEF PagerOffersNoEmptyPage, Skipped
<1>1. report.page \in Nat \ {0} /\ report.size \in Nat \ {0} /\ report.total \in Nat
  BY DEF PagerTypes, LogStages, CountsInv
<1>2. Skipped \in Nat
  BY <1>1 DEF Skipped
<1>3. PICK n \in Nat : PageOf(n) /\ n <= report.total /\ (report.quiet => n = report.total)
  BY DEF CountsInv
<1>4. PICK skip \in Nat, size \in Nat, total \in Nat :
         skip = Skipped /\ size = report.size /\ total = report.total
  BY <1>1, <1>2
<1>5. PICK left \in Int : left = n - skip
  OBVIOUS
<1>6. Cardinality(report.items) = Clamp(0, left, size) /\ IsFiniteSet(report.items)
  BY <1>3, <1>4, <1>5 DEF PageOf
<1>7. Clamp(0, left, size) = IF size <= left
                             THEN IF 0 >= size THEN 0 ELSE size
                             ELSE IF 0 >= left THEN 0 ELSE left
  BY ClampValue
<1>8. ASSUME report.items # {} PROVE total >= skip + Cardinality(report.items)
  <2>1. Cardinality(report.items) # 0
    BY <1>6, <1>8, FS_EmptySet
  <2>2. PICK length \in Int : length = Cardinality(report.items) /\ length <= left
    BY <1>6, <1>7, <2>1
  <2>3. n <= total
    BY <1>3, <1>4
  <2>4. QED
    BY <1>5, <2>2, <2>3
<1>9. ASSUME report.quiet PROVE Cardinality(report.items) = Clamp(0, total - skip, size)
  BY <1>3, <1>4, <1>5, <1>6, <1>9
<1>10. QED
  BY <1>4, <1>8, <1>9

(* Steps that leave the page alone: an import, and the passing of time. *)
LEMMA CountsInvKept ==
    ASSUME DocsInv, DocsInv', PagerTypes, CountsInv, now <= now',
           DOMAIN report' = DOMAIN report,
           \A f \in DOMAIN report \ {"quiet"} : report'[f] = report[f],
           \/ docs' = docs /\ (report.stage \in LogStages => report'.quiet = report.quiet)
           \/ /\ \E c \in Calls : Import(c)
              /\ report.stage \in LogStages => report'.quiet = (report.quiet /\ docs' = docs)
    PROVE  CountsInv'
<1>1. report'.stage = report.stage
  BY DEF PagerTypes
<1>2. CASE report.stage \notin LogStages
  BY <1>1, <1>2 DEF CountsInv, LogStages
<1>3. CASE report.stage \in LogStages
  <2>1. LogFields \subseteq DOMAIN report
    BY <1>3 DEF PagerTypes
  <2>2. /\ report'.keys = report.keys /\ report'.since = report.since
        /\ report'.page = report.page /\ report'.size = report.size
        /\ report.stage # "items" => report'.items = report.items
    BY <1>3, <2>1 DEF LogFields, PagerTypes
  <2>3. PICK keys, since : keys \in SUBSET Keys /\ keys = report.keys /\ since = report.since
    BY <1>3 DEF PagerTypes
  <2>4. since = Null \/ since \in Int
    BY <1>3, <2>3 DEF PagerTypes
  <2>5. Window = Scoped(keys, since) /\ Window' = Scoped(keys, since)'
    BY <2>2, <2>3 DEF Window, Scoped, Matching
  <2>6. docs' = docs => Scoped(keys, since)' = Scoped(keys, since)
    BY DEF Scoped, Matching
  <2>7. Cardinality(Window) <= Cardinality(Window') /\ Cardinality(Window) \in Nat
    <3>1. Cardinality(Scoped(keys, since)) \in Nat
      BY <2>3, ScopedFinite
    <3>2. Cardinality(Scoped(keys, since)) <= Cardinality(Scoped(keys, since)')
      <4>1. CASE docs' = docs
        BY <2>6, <3>1, <4>1
      <4>2. ASSUME NEW c \in Calls, Import(c)
            PROVE  Cardinality(Scoped(keys, since)) <= Cardinality(Scoped(keys, since)')
        BY <2>3, <2>4, <4>2, ScopedGrows
      <4>3. QED
        BY <4>1, <4>2
    <3>3. QED
      BY <2>5, <3>1, <3>2
  <2>8. report'.quiet => report.quiet /\ docs' = docs
    BY <1>3
  <2>9. ASSUME report.stage # "items", NEW n \in Nat, PageOf(n) PROVE PageOf(n)'
    BY <2>2, <2>9 DEF PageOf, Skipped
  <2>10. report'.stage = "owners" => \A d \in report'.items : Origin(d)'
    BY <1>1, <2>2, OriginLasts DEF CountsInv, DocsInv
  <2>11. ASSUME report.stage \in {"owners", "count"}
         PROVE  \E n \in Nat : /\ PageOf(n)' /\ n <= Cardinality(Window')
                               /\ report'.quiet => n = Cardinality(Window')
    <3>1. PICK n \in Nat : /\ PageOf(n) /\ n <= Cardinality(Window)
                           /\ report.quiet => n = Cardinality(Window)
      BY <2>11 DEF CountsInv
    <3>2. PageOf(n)'
      BY <2>9, <2>11, <3>1
    <3>3. docs' = docs => Window' = Window
      BY <2>5, <2>6
    <3>4. report'.quiet => n = Cardinality(Window')
      BY <2>8, <3>1, <3>3
    <3>5. Cardinality(Window') \in Nat
      <4>1. IsFiniteSet(docs')
        BY DEF DocsInv
      <4>2. Window' \in SUBSET docs'
        <5>1. keys # Null
          BY <2>3 DEF ReportsAssumption
        <5>2. QED
          BY <2>5, <5>1 DEF Scoped, Matching
      <4>3. QED
        BY <4>1, <4>2, FS_Subset, FS_CardinalityType
    <3>6. PICK a \in Nat, b \in Nat : a = Cardinality(Window) /\ b = Cardinality(Window')
      BY <2>7, <3>5
    <3>7. n <= b
      BY <2>7, <3>1, <3>6
    <3>8. QED
      BY <3>2, <3>4, <3>6, <3>7
  <2>12. ASSUME report.stage = "log"
         PROVE  /\ report'.total \in Nat
                /\ \E n \in Nat : /\ PageOf(n)' /\ n <= report'.total
                                  /\ report'.quiet => n = report'.total
    <3>1. report.total \in Nat
      BY <2>12 DEF CountsInv
    <3>2. report'.total = report.total
      BY <1>3, <2>12 DEF PagerTypes
    <3>3. PICK n \in Nat : /\ PageOf(n) /\ n <= report.total
                           /\ report.quiet => n = report.total
      BY <2>12 DEF CountsInv
    <3>4. PageOf(n)'
      BY <2>9, <2>12, <3>3
    <3>5. QED
      BY <2>8, <3>1, <3>2, <3>3, <3>4
  <2>13. QED
    BY <1>1, <2>10, <2>11, <2>12 DEF CountsInv
<1>4. QED
  BY <1>2, <1>3

LEMMA CountsInvItems ==
    ASSUME DocsInv, PagerTypes, AskItems
    PROVE  CountsInv'
<1>1. /\ UNCHANGED world /\ report.stage = "items" /\ report'.stage = "owners"
      /\ \A f \in PageParameters : report'[f] = report[f]
      /\ report'.items = Slice(Scoped(report.keys, report.since),
                               (report.page - 1) * report.size, report.size)
  BY QueryFields
<1>2. /\ report'.keys = report.keys /\ report'.since = report.since
      /\ report'.page = report.page /\ report'.size = report.size
  BY <1>1 DEF PageParameters, LogFields
<1>3. /\ report.page \in Nat \ {0} /\ report.size \in Nat \ {0} /\ report.keys \in SUBSET Keys
  BY <1>1 DEF PagerTypes, LogStages
<1>4. PICK S : S = Window
  OBVIOUS
<1>5. IsFiniteSet(S) /\ Cardinality(S) \in Nat /\ \A d \in S : Origin(d)
  BY <1>3, <1>4, ScopedFinite DEF Window
<1>6. PICK skip \in Nat, size \in Nat : skip = Skipped /\ size = report.size
  BY <1>3 DEF Skipped
<1>7. report'.items = Slice(S, skip, size)
  BY <1>1, <1>4, <1>6 DEF Window, Skipped
<1>8. /\ IsFiniteSet(report'.items)
      /\ Cardinality(report'.items) = Clamp(0, Cardinality(S) - skip, size)
  BY <1>5, <1>7, SliceLength
<1>9. Window' = S
  BY <1>1, <1>2, <1>4 DEF Window, Scoped, Matching, world
<1>10. PageOf(Cardinality(S))'
  BY <1>2, <1>6, <1>8 DEF PageOf, Skipped
<1>11. \A d \in report'.items : Origin(d)'
  <2>1. \A d \in report'.items : Origin(d)
    BY <1>5, <1>7 DEF Slice
  <2>2. now \in Nat /\ now' = now
    BY <1>1 DEF DocsInv, world
  <2>3. QED
    BY <2>1, <2>2, OriginLasts
<1>12. PICK n \in Nat : n = Cardinality(S)
  BY <1>5
<1>13. PageOf(n)' /\ n <= Cardinality(Window') /\ n = Cardinality(Window')
  BY <1>9, <1>10, <1>12
<1>14. QED
  BY <1>1, <1>11, <1>13 DEF CountsInv

LEMMA CountsInvOwners ==
    ASSUME DocsInv, PagerTypes, CountsInv, AskOwners
    PROVE  CountsInv'
<1>1. /\ UNCHANGED world /\ report.stage = "owners" /\ report'.stage = "count"
      /\ \A f \in PageParameters : report'[f] = report[f]
      /\ report'.items = {RecordView(d, d.sub \in KeysOf(report.scope)) : d \in report.items}
  BY QueryFields
<1>2. /\ report'.keys = report.keys /\ report'.since = report.since
      /\ report'.page = report.page /\ report'.size = report.size
      /\ report'.quiet = report.quiet
  BY <1>1 DEF PageParameters, LogFields
<1>3. PICK n \in Nat : /\ PageOf(n) /\ n <= Cardinality(Window)
                       /\ report.quiet => n = Cardinality(Window)
  BY <1>1 DEF CountsInv
<1>4. IsFiniteSet(report.items) /\ \A d \in report.items : Origin(d)
  BY <1>1, <1>3 DEF CountsInv, PageOf
<1>5. /\ IsFiniteSet(report'.items)
      /\ Cardinality(report'.items) = Cardinality(report.items)
  <2>1. PICK S, own : S = report.items /\ own = KeysOf(report.scope)
    OBVIOUS
  <2>2. PICK view : view = [d \in S |-> RecordView(d, d.sub \in own)]
    OBVIOUS
  <2>3. DOMAIN view = S /\ \A d \in S : view[d].id = d.id /\ view[d].ts = d.ts
    BY <2>2 DEF RecordView
  <2>4. IsFiniteSet(Range(view)) /\ Cardinality(Range(view)) = Cardinality(S)
    BY <1>4, <2>1, <2>3, ViewsCount
  <2>5. report'.items = Range(view)
    BY <1>1, <2>1, <2>2 DEF Range
  <2>6. QED
    BY <2>1, <2>4, <2>5
<1>6. PageOf(n)'
  BY <1>2, <1>3, <1>5 DEF PageOf, Skipped
<1>7. Window' = Window
  BY <1>1, <1>2 DEF Window, Scoped, Matching, world
<1>8. QED
  BY <1>1, <1>2, <1>3, <1>6, <1>7 DEF CountsInv

LEMMA CountsInvCount ==
    ASSUME DocsInv, PagerTypes, CountsInv, AskCount
    PROVE  CountsInv'
<1>1. /\ UNCHANGED world /\ report.stage = "count" /\ report'.stage = "log"
      /\ \A f \in PageParameters : report'[f] = report[f]
      /\ report'.items = report.items
      /\ report'.total = Cardinality(Window)
  BY QueryFields DEF Window
<1>2. /\ report'.keys = report.keys /\ report'.since = report.since
      /\ report'.page = report.page /\ report'.size = report.size
      /\ report'.quiet = report.quiet
  BY <1>1 DEF PageParameters, LogFields
<1>3. PICK n \in Nat : /\ PageOf(n) /\ n <= Cardinality(Window)
                       /\ report.quiet => n = Cardinality(Window)
  BY <1>1 DEF CountsInv
<1>4. Cardinality(Window) \in Nat
  BY <1>1, ScopedFinite DEF Window, PagerTypes, LogStages
<1>5. PageOf(n)'
  BY <1>1, <1>2, <1>3 DEF PageOf, Skipped
<1>6. QED
  BY <1>1, <1>2, <1>3, <1>4, <1>5 DEF CountsInv

LEMMA CountsInvNext ==
    ASSUME DocsInv, DocsInv', PagerTypes, CountsInv, [Next]_vars
    PROVE  CountsInv'
<1>1. "stage" \in DOMAIN report /\ now \in Nat
  BY DEF PagerTypes, DocsInv
<1>2. ASSUME docs' = docs, report' = report, now <= now' PROVE CountsInv'
  BY <1>2, CountsInvKept
<1>3. CASE Tick
  <2>1. docs' = docs /\ report' = report /\ now' = now + 1
    BY <1>3 DEF Tick
  <2>2. now <= now'
    BY <1>1, <2>1
  <2>3. QED
    BY <1>2, <2>1, <2>2
<1>4. ASSUME NEW c \in Calls, Import(c) PROVE CountsInv'
  <2>1. now' = now /\ now <= now'
    BY <1>1, <1>4 DEF Import
  <2>2. /\ DOMAIN report' = DOMAIN report
        /\ \A f \in DOMAIN report \ {"quiet"} : report'[f] = report[f]
        /\ report.stage \in LogStages => report'.quiet = (report.quiet /\ docs' = docs)
    BY <1>4, DisturbedFields
  <2>3. QED
    BY <1>4, <2>1, <2>2, CountsInvKept
<1>5. ASSUME NEW k \in Keys, IssueKey(k) \/ DeleteKey(k) PROVE CountsInv'
  <2>1. docs' = docs /\ report' = report /\ now' = now
    BY <1>5 DEF IssueKey, DeleteKey
  <2>2. QED
    BY <1>1, <1>2, <2>1
<1>6. CASE ReadsLog
  <2>1. ASSUME NewPage PROVE CountsInv'
    BY <2>1 DEF NewPage, CountsInv
  <2>2. QED
    BY <1>6, <2>1, AskPageFields, TurnPageFields, CountsInvItems, CountsInvOwners,
       CountsInvCount DEF ReadsLog
<1>7. CASE Elsewhere
  BY <1>7 DEF Elsewhere, CountsInv, LogStages
<1>8. CASE UNCHANGED vars
  <2>1. docs' = docs /\ report' = report /\ now' = now
    BY <1>8 DEF vars, world
  <2>2. QED
    BY <1>1, <1>2, <2>1
<1>9. QED
  BY <1>1, <1>3, <1>4, <1>5, <1>6, <1>7, <1>8, StepCases

-----------------------------------------------------------------------------
(* What the reader of the call log has been shown.                         *)

(* A document that has been replaced: of a malformed event, which is imported
   again with the time of its import. *)
Superseded(s) == \E c \in Calls : Imported(s, c) /\ c.ts = Null /\ s.ts < now

(* What was in the log at the start and is still in its window. *)
Tracked(d) ==
    /\ d \in report.seen \cap docs
    /\ d.sub \in report.first /\ (report.since = Null \/ d.ts >= report.since)

Done == IF report.stage = "items" THEN report.page - 1 ELSE report.page

SeenInv == report.stage \in LogStages => \A s \in report.seen \ docs : Superseded(s)

KeysMetInv ==
    report.stage \in LogStages =>
        /\ report.first \subseteq report.met /\ report.keys \subseteq report.met
        /\ report.met \subseteq {k \in live \cup retired : TenantOf[k] = report.scope}
        /\ report.met \ report.keys \subseteq retired

(* Whatever stands before the end of the pages so far has been shown: documents
   only move further down. *)
ShownInv ==
    (report.stage \in LogStages /\ report.met \subseteq report.keys) =>
        \A d : Tracked(d) =>
            /\ Position(Window, d) < Done * report.size => d \in report.shown
            /\ report.stage = "log" /\ report.page * report.size >= report.total =>
                  d \in report.shown

PagerInv == SeenInv /\ KeysMetInv /\ ShownInv

LEMMA PagesShowAll ==
    ASSUME PagerInv
    PROVE  PagerMissesNothing
<1> SUFFICES ASSUME report.stage = "log", report.page * report.size >= report.total,
                    report.met \subseteq report.keys,
                    NEW d \in report.seen \cap InScope(report), d.sub \in report.first
             PROVE  d \in report.shown
  BY DEF PagerMissesNothing
<1>1. Tracked(d)
  BY DEF InScope, Tracked
<1>2. QED
  BY <1>1 DEF PagerInv, ShownInv, LogStages

(* A document that has been replaced does not come back: the clock does not. *)
LEMMA ReplacedIsGone ==
    ASSUME DocsInv, SeenInv, report.stage \in LogStages, NEW c \in Calls, Import(c)
    PROVE  /\ \A s \in report.seen \ docs' : Superseded(s)
           /\ report.seen \cap docs' \subseteq docs
<1>1. PICK new :
          /\ new = Document(c, now) /\ Imported(new, c)
          /\ docs' = (docs \ Replaced(new)) \cup {new}
          /\ \A d \in Replaced(new) :
                d.sub = new.sub /\ d.ts <= new.ts /\ (d.ts = new.ts => d = new)
  BY ImportStep
<1>2. c.id # Null /\ now \in Int /\ new.id = c.id
  BY <1>1, DocumentFields DEF Import, DocsInv
<1>3. new.ts = IF c.ts = Null THEN now ELSE c.at
  BY <1>1, <1>2, DocumentFields
<1>4. ASSUME NEW s \in report.seen, s \in docs, s \notin docs' PROVE Superseded(s)
  <2>1. s \in Replaced(new) /\ s # new
    BY <1>1, <1>4
  <2>2. Imported(s, c)
    BY <1>2, <2>1, OriginFields DEF Replaced, DocsInv
  <2>3. PICK p \in Int : p <= now /\ s = Document(c, p)
    BY <2>2 DEF Imported
  <2>4. s.ts = IF c.ts = Null THEN p ELSE c.at
    BY <1>2, <2>3, DocumentFields
  <2>5. s.ts # new.ts
    BY <1>1, <2>1
  <2>6. c.ts = Null /\ s.ts = p /\ p # now
    BY <1>3, <2>4, <2>5
  <2>7. s.ts < now
    BY <1>2, <2>3, <2>6
  <2>8. QED
    BY <2>2, <2>6, <2>7 DEF Superseded
<1>5. ASSUME NEW s \in report.seen, s \notin docs PROVE s # new
  <2>1. PICK e \in Calls : Imported(s, e) /\ e.ts = Null /\ s.ts < now
    BY <1>5 DEF SeenInv, Superseded
  <2>2. ASSUME s = new PROVE FALSE
    <3>1. s.id = e.id
      BY <1>2, <2>1, DocumentFields DEF Imported
    <3>2. e = c
      BY <1>2, <2>2, <3>1 DEF CallsAssumption
    <3>3. s.ts = now
      BY <1>3, <2>1, <2>2, <3>2
    <3>4. QED
      BY <1>2, <2>1, <3>3
  <2>3. QED
    BY <2>2
<1>6. \A s \in report.seen \ docs' : Superseded(s)
  BY <1>4 DEF SeenInv
<1>7. report.seen \cap docs' \subseteq docs
  BY <1>1, <1>5
<1>8. QED
  BY <1>6, <1>7

LEMMA SupersededLasts ==
    ASSUME now \in Nat, now' \in Nat, now <= now', NEW s, Superseded(s)
    PROVE  Superseded(s)'
<1>1. PICK c \in Calls : Imported(s, c) /\ c.ts = Null /\ s.ts < now
  BY DEF Superseded
<1>2. PICK p \in Int : p <= now /\ s = Document(c, p) /\ c.id # Null
  BY <1>1 DEF Imported
<1>3. s.ts = p
  BY <1>1, <1>2, DocumentFields
<1>4. p <= now' /\ p < now'
  BY <1>1, <1>2, <1>3
<1>5. QED
  BY <1>1, <1>2, <1>3, <1>4 DEF Superseded, Imported

(* Steps that leave the page alone. *)
LEMMA PagerInvKept ==
    ASSUME DocsInv, DocsInv', PagerTypes, PagerInv, now <= now',
           DOMAIN report' = DOMAIN report,
           \A f \in DOMAIN report \ {"quiet"} : report'[f] = report[f],
           retired \subseteq retired', live \cup retired \subseteq live' \cup retired',
           docs' = docs \/ \E c \in Calls : Import(c)
    PROVE  PagerInv'
<1>1. report'.stage = report.stage /\ now \in Nat /\ now' \in Nat
  BY DEF PagerTypes, DocsInv
<1>2. CASE report.stage \notin LogStages
  BY <1>1, <1>2 DEF PagerInv, SeenInv, KeysMetInv, ShownInv
<1>3. CASE report.stage \in LogStages
  <2>1. LogFields \subseteq DOMAIN report
    BY <1>3 DEF PagerTypes
  <2>2. /\ report'.keys = report.keys /\ report'.since = report.since
        /\ report'.page = report.page /\ report'.size = report.size
        /\ report'.seen = report.seen /\ report'.first = report.first
        /\ report'.met = report.met /\ report'.shown = report.shown
        /\ report'.scope = report.scope
        /\ report.stage = "log" => report'.total = report.total
    BY <2>1 DEF LogFields, PagerTypes, LogStages
  <2>3. /\ \A s \in report.seen \ docs' : Superseded(s)
        /\ report.seen \cap docs' \subseteq docs
    BY <1>3, ReplacedIsGone DEF PagerInv, SeenInv
  <2>4. SeenInv'
    BY <1>1, <2>2, <2>3, SupersededLasts DEF SeenInv
  <2>5. KeysMetInv'
    BY <1>1, <1>3, <2>2 DEF PagerInv, KeysMetInv
  <2>6. PICK keys, since : keys \in SUBSET Keys /\ keys = report.keys /\ since = report.since
    BY <1>3 DEF PagerTypes
  <2>7. since = Null \/ since \in Int
    BY <1>3, <2>6 DEF PagerTypes
  <2>8. Window = Scoped(keys, since) /\ Window' = Scoped(keys, since)'
    BY <2>2, <2>6 DEF Window, Scoped, Matching
  <2>9. ASSUME NEW d \in docs \cap docs'
        PROVE  /\ Position(Window, d) \in Nat /\ Position(Window', d) \in Nat
               /\ Position(Window, d) <= Position(Window', d)
    <3>1. Position(Window, d) \in Nat
      BY <2>6, <2>8, ScopedFinite, PositionType
    <3>2. Position(Window', d) \in Nat
      <4>1. keys # Null
        BY <2>6 DEF ReportsAssumption
      <4>2. Window' \in SUBSET docs'
        BY <2>8, <4>1 DEF Scoped, Matching
      <4>3. IsFiniteSet(Window')
        BY <4>2, FS_Subset DEF DocsInv
      <4>4. QED
        BY <4>3, PositionType
    <3>3. CASE docs' = docs
      <4>1. Window' = Window
        BY <2>8, <3>3 DEF Scoped, Matching
      <4>2. QED
        BY <3>1, <4>1
    <3>4. ASSUME NEW c \in Calls, Import(c)
          PROVE  Position(Window, d) <= Position(Window', d)
      BY <2>6, <2>7, <2>8, <3>4, ScopedGrows
    <3>5. QED
      BY <3>1, <3>2, <3>3, <3>4
  <2>10. \A d : Tracked(d)' => Tracked(d) /\ d \in docs \cap docs'
    BY <2>2, <2>3 DEF Tracked
  <2>11. Done * report.size \in Int /\ Done' = Done
    <3>1. report.page \in Int /\ report.size \in Int
      BY <1>3 DEF PagerTypes
    <3>2. Done \in Int
      BY <3>1 DEF Done
    <3>3. QED
      BY <1>1, <2>2, <3>1, <3>2 DEF Done
  <2>12. PICK end \in Int : end = Done * report.size
    BY <2>11
  <2>13. ASSUME report.met \subseteq report.keys, NEW d, Tracked(d)'
         PROVE  /\ Position(Window', d) < end => d \in report.shown
                /\ report.stage = "log" /\ report.page * report.size >= report.total =>
                      d \in report.shown
    <3>1. Tracked(d) /\ d \in docs \cap docs'
      BY <2>10, <2>13
    <3>2. /\ Position(Window, d) < end => d \in report.shown
          /\ report.stage = "log" /\ report.page * report.size >= report.total =>
                d \in report.shown
      BY <1>3, <2>12, <2>13, <3>1 DEF PagerInv, ShownInv
    <3>3. PICK m \in Nat, n \in Nat :
             m = Position(Window, d) /\ n = Position(Window', d) /\ m <= n
      BY <2>9, <3>1
    <3>4. n < end => m < end
      BY <3>3
    <3>5. QED
      BY <3>2, <3>3, <3>4
  <2>14. Done' * report'.size = end
    BY <2>2, <2>11, <2>12
  <2>15. ShownInv'
    BY <1>1, <2>2, <2>13, <2>14 DEF ShownInv
  <2>16. QED
    BY <2>4, <2>5, <2>15 DEF PagerInv
<1>4. QED
  BY <1>2, <1>3

(* The page shows the positions behind the pages before it. *)
LEMMA PagerInvItems ==
    ASSUME DocsInv, PagerTypes, PagerInv, AskItems
    PROVE  PagerInv'
<1>1. /\ UNCHANGED world /\ report.stage = "items" /\ report'.stage = "owners"
      /\ \A f \in PageParameters : report'[f] = report[f]
      /\ report'.items = Slice(Window, Skipped, report.size)
      /\ report'.shown = report.shown \cup report'.items
  BY QueryFields DEF Window, Skipped
<1>2. /\ report'.keys = report.keys /\ report'.since = report.since
      /\ report'.page = report.page /\ report'.size = report.size
      /\ report'.seen = report.seen /\ report'.first = report.first
      /\ report'.met = report.met /\ report'.scope = report.scope
  BY <1>1 DEF PageParameters, LogFields
<1>3. /\ now' = now /\ docs' = docs /\ live' = live /\ retired' = retired
  BY <1>1 DEF world
<1>4. report.page \in Nat \ {0} /\ report.size \in Nat \ {0} /\ report.keys \in SUBSET Keys
  BY <1>1 DEF PagerTypes, LogStages
<1>5. Window' = Window
  BY <1>2, <1>3 DEF Window, Scoped, Matching
<1>6. /\ IsFiniteSet(Window)
      /\ Window = {d \in docs : /\ d.sub \in report.keys
                                /\ report.since = Null \/ d.ts >= report.since}
  BY <1>4, ScopedFinite, ScopedDocs DEF Window
<1>7. SeenInv' /\ KeysMetInv'
  <2>1. \A s \in report.seen \ docs : Superseded(s)
    BY <1>1 DEF PagerInv, SeenInv, LogStages
  <2>2. \A s \in report'.seen \ docs' : Superseded(s)'
    BY <1>2, <1>3, <2>1 DEF Superseded, Imported
  <2>3. QED
    BY <1>1, <1>2, <1>3, <2>2 DEF PagerInv, SeenInv, KeysMetInv, LogStages
<1>8. PICK skip \in Nat, size \in Nat : skip = Skipped /\ size = report.size
  BY <1>4 DEF Skipped
<1>9. /\ Done = report.page - 1 /\ Done' = report.page
      /\ Done * report.size = skip /\ Done' * report'.size = skip + size
  <2>1. Done = report.page - 1 /\ Done' = report.page
    BY <1>1, <1>2 DEF Done
  <2>2. PICK p \in Nat : p = report.page
    BY <1>4
  <2>3. (p - 1) * size + size = p * size
    <3>1. (p - 1) * size = p * size - size
      OBVIOUS
    <3>2. p * size \in Int
      OBVIOUS
    <3>3. PICK t \in Int : t = p * size
      BY <3>2
    <3>4. t - size + size = t
      BY <3>3
    <3>5. QED
      BY <3>1, <3>3, <3>4
  <2>4. QED
    BY <1>2, <1>8, <2>1, <2>2, <2>3 DEF Skipped
<1>10. ASSUME report.met \subseteq report.keys, NEW d, Tracked(d), Position(Window, d) < skip + size
       PROVE  d \in report'.shown
  <2>1. d \in Window
    <3>1. d.sub \in report.keys
      BY <1>1, <1>10 DEF Tracked, PagerInv, KeysMetInv, LogStages
    <3>2. QED
      BY <1>6, <1>10, <3>1 DEF Tracked
  <2>2. PICK n \in Nat : n = Position(Window, d)
    BY <1>6, PositionType
  <2>3. CASE n < skip
    <3>1. Position(Window, d) < Done * report.size
      BY <1>9, <2>2, <2>3
    <3>2. d \in report.shown
      BY <1>1, <1>10, <3>1 DEF PagerInv, ShownInv, LogStages
    <3>3. QED
      BY <1>1, <3>2
  <2>4. CASE n >= skip
    <3>1. n \in skip..(skip + size - 1)
      BY <1>10, <2>2, <2>4
    <3>2. d \in Slice(Window, skip, size)
      BY <2>1, <2>2, <3>1, SliceByPosition
    <3>3. QED
      BY <1>1, <1>8, <3>2
  <2>5. QED
    BY <2>3, <2>4
<1>11. \A d : Tracked(d)' => Tracked(d)
  BY <1>2, <1>3 DEF Tracked
<1>12. ShownInv'
  BY <1>1, <1>2, <1>5, <1>9, <1>10, <1>11 DEF ShownInv
<1>13. QED
  BY <1>7, <1>12 DEF PagerInv

(* The owners change nothing of that; the count tells when all of the list has
   been shown. *)
LEMMA PagerInvRest ==
    ASSUME DocsInv, PagerTypes, PagerInv, AskOwners \/ AskCount
    PROVE  PagerInv'
<1>1. /\ UNCHANGED world
      /\ report.stage \in LogStages /\ report'.stage \in LogStages
      /\ report.stage # "items" /\ report'.stage # "items"
      /\ \A f \in PageParameters : report'[f] = report[f]
      /\ report'.shown = report.shown
      /\ report'.stage = "log" => report'.total = Cardinality(Window)
  <2>1. CASE AskOwners
    BY <2>1, QueryFields
  <2>2. CASE AskCount
    BY <2>2, QueryFields DEF Window
  <2>3. QED
    BY <2>1, <2>2
<1>2. /\ report'.keys = report.keys /\ report'.since = report.since
      /\ report'.page = report.page /\ report'.size = report.size
      /\ report'.seen = report.seen /\ report'.first = report.first
      /\ report'.met = report.met /\ report'.scope = report.scope
  BY <1>1 DEF PageParameters, LogFields
<1>3. /\ now' = now /\ docs' = docs /\ live' = live /\ retired' = retired
  BY <1>1 DEF world
<1>4. report.page \in Nat \ {0} /\ report.size \in Nat \ {0} /\ report.keys \in SUBSET Keys
  BY <1>1 DEF PagerTypes
<1>5. Window' = Window
  BY <1>2, <1>3 DEF Window, Scoped, Matching
<1>6. SeenInv' /\ KeysMetInv'
  <2>1. \A s \in report.seen \ docs : Superseded(s)
    BY <1>1 DEF PagerInv, SeenInv
  <2>2. \A s \in report'.seen \ docs' : Superseded(s)'
    BY <1>2, <1>3, <2>1 DEF Superseded, Imported
  <2>3. QED
    BY <1>1, <1>2, <1>3, <2>2 DEF PagerInv, SeenInv, KeysMetInv
<1>7. /\ IsFiniteSet(Window) /\ \A d \in Window : Origin(d)
      /\ Window = {d \in docs : /\ d.sub \in report.keys
                                /\ report.since = Null \/ d.ts >= report.since}
  BY <1>4, ScopedFinite, ScopedDocs DEF Window
<1>8. PICK end \in Int : end = report.page * report.size
  BY <1>4
<1>9. Done * report.size = end /\ Done' * report'.size = end
  BY <1>1, <1>2, <1>8 DEF Done
<1>10. ASSUME report.met \subseteq report.keys, NEW d, Tracked(d)
       PROVE  /\ Position(Window, d) < end => d \in report.shown
              /\ Cardinality(Window) <= end => d \in report.shown
  <2>1. Position(Window, d) < end => d \in report.shown
    BY <1>1, <1>9, <1>10 DEF PagerInv, ShownInv
  <2>2. d \in Window
    <3>1. d.sub \in report.keys
      BY <1>1, <1>10 DEF Tracked, PagerInv, KeysMetInv
    <3>2. QED
      BY <1>7, <1>10, <3>1 DEF Tracked
  <2>3. PICK m \in Nat, n \in Nat : m = Position(Window, d) /\ n = Cardinality(Window) /\ m < n
    BY <1>7, <2>2, PositionType, PositionBound, FS_CardinalityType
  <2>4. n <= end => m < end
    BY <2>3
  <2>5. QED
    BY <2>1, <2>3, <2>4
<1>11. \A d : Tracked(d)' => Tracked(d)
  BY <1>2, <1>3 DEF Tracked
<1>12. Cardinality(Window) \in Nat
  BY <1>7, FS_CardinalityType
<1>13. (report'.stage = "log" /\ end >= report'.total) => Cardinality(Window) <= end
  BY <1>1, <1>12
<1>14. ShownInv'
  BY <1>1, <1>2, <1>5, <1>8, <1>9, <1>10, <1>11, <1>13 DEF ShownInv
<1>15. QED
  BY <1>6, <1>14 DEF PagerInv

(* The first page: nothing has been shown, nothing is done. *)
LEMMA PagerInvAskPage ==
    ASSUME DocsInv, NEW scope, NEW hours \in Windows, NEW size \in PageSizes,
           AskPage(scope, hours, size)
    PROVE  PagerInv'
<1>1. /\ NewPage /\ scope # Platform /\ report'.scope = scope
      /\ report'.page = 1 /\ report'.size = Clamp(1, size, MaxPageSize)
      /\ report'.seen = docs /\ report'.first = KeysOf(scope)
      /\ report'.met = KeysOf(scope) /\ report'.shown = {}
  BY AskPageFields
<1>2. /\ docs' = docs /\ live' = live /\ report'.stage = "items"
      /\ report'.keys = KeysOf(scope)
  BY <1>1 DEF NewPage, world
<1>3. SeenInv' /\ KeysMetInv'
  <2>1. KeysOf(scope) = {k \in live : TenantOf[k] = scope}
    BY <1>1, TenantKeys
  <2>2. QED
    BY <1>1, <1>2, <2>1 DEF SeenInv, KeysMetInv
<1>4. size \in Int /\ MaxPageSize \in Int
  BY DEF ReportsAssumption
<1>5. Clamp(1, size, MaxPageSize) \in Int
  BY <1>4, ClampValue
<1>6. Done' * report'.size = 0
  BY <1>1, <1>2, <1>5 DEF Done
<1>7. \A d : Position(Window', d) \in Nat
  <2>1. KeysOf(scope) # Null
    BY <1>1, TenantKeys DEF ReportsAssumption
  <2>2. Window' \in SUBSET docs'
    BY <1>2, <2>1 DEF Window, Scoped, Matching
  <2>3. IsFiniteSet(Window')
    BY <1>2, <2>2, FS_Subset DEF DocsInv
  <2>4. QED
    BY <2>3, PositionType
<1>8. ShownInv'
  BY <1>2, <1>6, <1>7 DEF ShownInv
<1>9. QED
  BY <1>3, <1>8 DEF PagerInv

(* The next page: its window starts no earlier, and unless the tenant lost a
   key it has all the keys of the pages before. *)
LEMMA PagerInvTurnPage ==
    ASSUME DocsInv, PagerTypes, PagerInv, TurnPage
    PROVE  PagerInv'
<1>1. /\ NewPage /\ report.stage = "log"
      /\ report'.page = report.page + 1 /\ report'.size = report.size
      /\ report'.met = report.met \cup KeysOf(report.scope)
      /\ report'.scope = report.scope /\ report'.hours = report.hours
      /\ report'.seen = report.seen /\ report'.first = report.first
      /\ report'.shown = report.shown
  BY TurnPageFields
<1>2. /\ now' = now /\ docs' = docs /\ live' = live /\ retired' = retired
      /\ report'.stage = "items"
  BY <1>1 DEF NewPage, world
<1>3. PICK own, from, to :
         /\ own = KeysOf(report.scope) /\ report'.keys = own
         /\ from = report.since /\ to = Since(report.hours) /\ report'.since = to
  BY <1>1 DEF NewPage
<1>4. /\ report.page \in Nat \ {0} /\ report.size \in Nat \ {0} /\ report.keys \in SUBSET Keys
      /\ report.scope # Platform
      /\ (from = Null) = (report.hours = Null)
      /\ from # Null => from \in Int /\ to \in Int /\ from <= to
  BY <1>1, <1>3 DEF PagerTypes, LogStages
<1>5. /\ own \in SUBSET Keys /\ own \subseteq live
      /\ own = {k \in live : TenantOf[k] = report.scope}
  BY <1>3, <1>4, TenantKeys
<1>6. /\ report.first \subseteq report.met /\ report.keys \subseteq report.met
      /\ report.met \subseteq {k \in live \cup retired : TenantOf[k] = report.scope}
      /\ report.met \ report.keys \subseteq retired
  BY <1>1 DEF PagerInv, KeysMetInv, LogStages
<1>7. SeenInv'
  <2>1. \A s \in report.seen \ docs : Superseded(s)
    BY <1>1 DEF PagerInv, SeenInv, LogStages
  <2>2. \A s \in report'.seen \ docs' : Superseded(s)'
    BY <1>1, <1>2, <2>1 DEF Superseded, Imported
  <2>3. QED
    BY <2>2 DEF SeenInv
<1>8. KeysMetInv'
  <2>1. report.met \ own \subseteq retired
    BY <1>5, <1>6
  <2>2. report.met \cup own \subseteq {k \in live \cup retired : TenantOf[k] = report.scope}
    BY <1>5, <1>6
  <2>3. QED
    BY <1>1, <1>2, <1>3, <1>6, <2>1, <2>2 DEF KeysMetInv
<1>9. Done' * report'.size = report.page * report.size /\ Done = report.page
  <2>1. PICK p \in Nat : p = report.page
    BY <1>4
  <2>2. report'.page - 1 = p
    BY <1>1, <2>1
  <2>3. Done' = report'.page - 1
    BY <1>2 DEF Done
  <2>4. Done = report.page
    BY <1>1 DEF Done
  <2>5. QED
    BY <1>1, <2>1, <2>2, <2>3, <2>4
<1>10. Window' = Scoped(own, to) /\ Window = Scoped(report.keys, from)
  BY <1>2, <1>3 DEF Window, Scoped, Matching
<1>11. ASSUME report.met \cup own \subseteq own, NEW d, Tracked(d)'
       PROVE  /\ Tracked(d)
              /\ Position(Window, d) \in Nat /\ Position(Window', d) \in Nat
              /\ Position(Window, d) <= Position(Window', d)
              /\ report.met \subseteq report.keys
  <2>1. report.met \subseteq report.keys
    BY <1>5, <1>6, <1>11 DEF DocsInv
  <2>2. /\ d \in report.seen \cap docs /\ d.sub \in report.first
        /\ to = Null \/ d.ts >= to
    BY <1>1, <1>2, <1>3, <1>11 DEF Tracked
  <2>3. Origin(d) /\ d.ts \in Int
    BY <2>2, OriginFields DEF DocsInv
  <2>4. PICK t \in Int : t = d.ts
    BY <2>3
  <2>5. from # Null => from \in Int /\ to \in Int /\ from <= to /\ from <= t
    <3>1. Null \notin Int
      BY DEF ReportsAssumption
    <3>2. ASSUME from # Null PROVE to \in Int /\ from \in Int /\ from <= to /\ t >= to
      BY <1>4, <2>2, <2>4, <3>1, <3>2
    <3>3. QED
      BY <3>2
  <2>6. Tracked(d)
    BY <1>3, <2>2, <2>4, <2>5 DEF Tracked
  <2>7. Scoped(report.keys, from) = {e \in docs : e.sub \in report.keys
                                                  /\ (from = Null \/ e.ts >= from)}
    BY <1>4, ScopedDocs
  <2>8. Scoped(own, to) = {e \in docs : e.sub \in own /\ (to = Null \/ e.ts >= to)}
    BY <1>5, ScopedDocs
  <2>9. Ahead(Scoped(report.keys, from), d) \in SUBSET Ahead(Scoped(own, to), d)
    <3>1. ASSUME NEW e \in docs, e.sub \in report.keys, Later(e, d)
          PROVE  e.sub \in own /\ (to = Null \/ e.ts >= to)
      <4>1. e.sub \in own
        BY <1>6, <1>11, <3>1
      <4>2. e.ts \in Int
        BY OriginFields DEF DocsInv
      <4>3. PICK s \in Int : s = e.ts
        BY <4>2
      <4>4. s >= t
        BY <2>4, <3>1, <4>3 DEF Later
      <4>5. ASSUME to # Null PROVE s >= to
        <5>1. report.hours # Null
          BY <1>3, <4>5 DEF Since
        <5>2. to \in Int /\ t >= to
          BY <1>4, <2>2, <2>4, <4>5, <5>1
        <5>3. PICK u \in Int : u = to
          BY <5>2
        <5>4. s >= u
          BY <4>4, <5>2, <5>3
        <5>5. QED
          BY <5>3, <5>4
      <4>6. QED
        BY <4>1, <4>3, <4>5
    <3>2. \A e \in Ahead(Scoped(report.keys, from), d) :
             /\ e \in docs /\ e.sub \in report.keys /\ Later(e, d)
      BY <2>7 DEF Ahead
    <3>3. \A e \in docs : /\ e.sub \in own /\ (to = Null \/ e.ts >= to) /\ Later(e, d)
                         => e \in Ahead(Scoped(own, to), d)
      BY <2>8 DEF Ahead
    <3>4. QED
      BY <3>1, <3>2, <3>3
  <2>10. /\ IsFiniteSet(Scoped(own, to)) /\ IsFiniteSet(Scoped(report.keys, from))
    BY <1>4, <1>5, ScopedFinite
  <2>11. IsFiniteSet(Ahead(Scoped(own, to), d))
    BY <2>10, PositionType
  <2>12. Position(Scoped(report.keys, from), d) <= Position(Scoped(own, to), d)
    BY <2>9, <2>11, FS_Subset DEF Position
  <2>13. /\ Position(Scoped(report.keys, from), d) \in Nat
         /\ Position(Scoped(own, to), d) \in Nat
    BY <2>10, PositionType
  <2>14. QED
    BY <1>10, <2>1, <2>6, <2>12, <2>13
<1>12. PICK end \in Int : end = report.page * report.size
  BY <1>4
<1>13. ASSUME report.met \cup own \subseteq own, NEW d, Tracked(d)', Position(Window', d) < end
       PROVE  d \in report.shown
  <2>1. PICK m \in Nat, n \in Nat :
           m = Position(Window, d) /\ n = Position(Window', d) /\ m <= n
    BY <1>11, <1>13
  <2>2. m < end
    BY <1>13, <2>1
  <2>3. Tracked(d) /\ report.met \subseteq report.keys
    BY <1>11, <1>13
  <2>4. Position(Window, d) < Done * report.size
    BY <1>9, <1>12, <2>1, <2>2
  <2>5. QED
    BY <1>1, <2>3, <2>4 DEF PagerInv, ShownInv, LogStages
<1>14. ShownInv'
  BY <1>1, <1>2, <1>3, <1>9, <1>12, <1>13 DEF ShownInv
<1>15. QED
  BY <1>7, <1>8, <1>14 DEF PagerInv

LEMMA PagerInvNext ==
    ASSUME DocsInv, DocsInv', PagerTypes, PagerInv, [Next]_vars
    PROVE  PagerInv'
<1>1. "stage" \in DOMAIN report /\ now \in Nat
  BY DEF PagerTypes, DocsInv
<1>2. ASSUME docs' = docs, report' = report, now <= now',
             retired \subseteq retired', live \cup retired \subseteq live' \cup retired'
      PROVE  PagerInv'
  BY <1>2, PagerInvKept
<1>3. CASE Tick
  <2>1. /\ docs' = docs /\ report' = report /\ now' = now + 1
        /\ live' = live /\ retired' = retired
    BY <1>3 DEF Tick
  <2>2. now <= now'
    BY <1>1, <2>1
  <2>3. QED
    BY <1>2, <2>1, <2>2
<1>4. ASSUME NEW c \in Calls, Import(c) PROVE PagerInv'
  <2>1. /\ now' = now /\ now <= now'
        /\ live' = live /\ retired' = retired
    BY <1>1, <1>4 DEF Import
  <2>2. /\ DOMAIN report' = DOMAIN report
        /\ \A f \in DOMAIN report \ {"quiet"} : report'[f] = report[f]
    BY <1>4, DisturbedFields
  <2>3. QED
    BY <1>4, <2>1, <2>2, PagerInvKept
<1>5. ASSUME NEW k \in Keys, IssueKey(k) \/ DeleteKey(k) PROVE PagerInv'
  <2>1. /\ docs' = docs /\ report' = report /\ now' = now
        /\ retired \subseteq retired' /\ live \cup retired \subseteq live' \cup retired'
    BY <1>5 DEF IssueKey, DeleteKey
  <2>2. QED
    BY <1>1, <1>2, <2>1
<1>6. CASE ReadsLog
  BY <1>6, PagerInvAskPage, PagerInvItems, PagerInvRest, PagerInvTurnPage DEF ReadsLog
<1>7. CASE Elsewhere
  BY <1>7 DEF Elsewhere, PagerInv, SeenInv, KeysMetInv, ShownInv
<1>8. CASE UNCHANGED vars
  <2>1. /\ docs' = docs /\ report' = report /\ now' = now
        /\ live' = live /\ retired' = retired
    BY <1>8 DEF vars, world
  <2>2. QED
    BY <1>1, <1>2, <2>1
<1>9. QED
  BY <1>1, <1>3, <1>4, <1>5, <1>6, <1>7, <1>8, StepCases

-----------------------------------------------------------------------------
(* What a tenant owns, and what it cost.                                   *)

Own(t) == {d \in docs : d.sub \in Keys /\ TenantOf[d.sub] = t}

NamesOf(t, by) == {GroupOf(d, by) : d \in Own(t)}

CostOf(S) == TotalOf(LAMBDA d : d.cost, S)

(* The documents of one call differ in their time only. *)
LEMMA OriginSame ==
    ASSUME NEW d, NEW e, Origin(d), Origin(e), d.id = e.id
    PROVE  d.sub = e.sub /\ d.hub = e.hub /\ d.route = e.route /\ d.cost = e.cost
<1>1. CASE d \in Legacy
  <2>1. \A c \in Calls : c.id # d.id
    BY <1>1 DEF CallsAssumption
  <2>2. e \in Legacy
    BY <2>1, DocumentFields DEF Origin, Imported
  <2>3. QED
    BY <1>1, <2>2 DEF CallsAssumption
<1>2. ASSUME NEW c \in Calls, Imported(d, c)
      PROVE  d.sub = e.sub /\ d.hub = e.hub /\ d.route = e.route /\ d.cost = e.cost
  <2>1. PICK p \in Int : d = Document(c, p)
    BY <1>2 DEF Imported
  <2>2. c.id # Null /\ d.id = c.id
    BY <1>2, <2>1, DocumentFields DEF Imported
  <2>3. Imported(e, c)
    BY <2>2, OriginFields
  <2>4. PICK q \in Int : e = Document(c, q)
    BY <2>3 DEF Imported
  <2>5. QED
    BY <2>1, <2>4 DEF Document
<1>3. QED
  BY <1>1, <1>2 DEF Origin

(* What a document costs is a natural number, and so are sums of it. *)
LEMMA CostType ==
    ASSUME NEW d, Origin(d)
    PROVE  d.cost \in Nat
<1>1. CASE d \in Legacy
  BY <1>1 DEF CallsAssumption
<1>2. ASSUME NEW c \in Calls, Imported(d, c) PROVE d.cost \in Nat
  <2>1. c.id # Null /\ d.cost = IF Priced(c.aiu) THEN c.aiu.total ELSE 0
    BY <1>2, DocumentFields DEF Imported
  <2>2. Priced(c.aiu) => c.aiu.total \in Nat
    BY <2>1 DEF CallsAssumption
  <2>3. QED
    BY <2>1, <2>2
<1>3. QED
  BY <1>1, <1>2 DEF Origin

LEMMA CostSums ==
    ASSUME NEW S, IsFiniteSet(S), \A d \in S : Origin(d)
    PROVE  /\ CostOf(S) \in Nat
           /\ \A T \in SUBSET S : CostOf(T) <= CostOf(S)
           /\ \A e \in S : CostOf(S) = e.cost + CostOf(S \ {e})
<1> DEFINE f == [d \in S |-> d.cost]
<1>1. \A d \in S : f[d] \in Nat /\ f[d] \in Int
  BY CostType
<1>2. ASSUME NEW T \in SUBSET S PROVE CostOf(T) = SumFunctionOnSet(f, T)
  <2> DEFINE g == [d \in T |-> d.cost]
  <2>1. IsFiniteSet(T)
    BY FS_Subset
  <2>2. CostOf(T) = SumFunctionOnSet(g, T)
    BY DEF CostOf, TotalOf, SumFunction
  <2>3. SumFunctionOnSet(g, T) = SumFunctionOnSet(f, T)
    <3>1. \A x \in T : g[x] = f[x]
      OBVIOUS
    <3> HIDE DEF f, g
    <3>2. QED
      BY <2>1, <3>1, SumExtensional
  <2>4. QED
    BY <2>2, <2>3
<1> HIDE DEF f
<1>3. \A T \in SUBSET S : SumFunctionOnSet(f, T) <= SumFunctionOnSet(f, S)
                          /\ SumFunctionOnSet(f, S) \in Nat
  BY <1>1, SumOfPart
<1>4. ASSUME NEW e \in S PROVE SumFunctionOnSet(f, S) = e.cost + SumFunctionOnSet(f, S \ {e})
  <2>1. f[e] = e.cost
    BY DEF f
  <2>2. QED
    BY <1>1, <2>1, SumTakes
<1>5. \A e \in S : S \ {e} \in SUBSET S
  OBVIOUS
<1>6. QED
  BY <1>2, <1>3, <1>4, <1>5

(* An import takes nothing from a tenant: the document that is replaced is
   billed the same to the same key. *)
LEMMA OwnGrows ==
    ASSUME DocsInv, NEW c \in Calls, Import(c), NEW t
    PROVE  /\ Cardinality(Own(t)) <= Cardinality(Own(t)')
           /\ CostOf(Own(t)) <= CostOf(Own(t)')
           /\ \A by : NamesOf(t, by) \subseteq NamesOf(t, by)'
<1> DEFINE In(d) == d.sub \in Keys /\ TenantOf[d.sub] = t
           S == Own(t)
           T == Own(t)'
<1>1. PICK new :
          /\ new = Document(c, now) /\ Imported(new, c)
          /\ docs' = (docs \ Replaced(new)) \cup {new}
  BY ImportStep
<1>2. S = {d \in docs : In(d)} /\ T = {d \in docs' : In(d)}
  BY DEF Own
<1>3. IsFiniteSet(S) /\ IsFiniteSet(T) /\ \A d \in S : Origin(d)
  <2>1. IsFiniteSet(docs) /\ IsFiniteSet(docs')
    BY DocsInvImport DEF DocsInv
  <2>2. S \in SUBSET docs /\ T \in SUBSET docs'
    BY <1>2
  <2>3. QED
    BY <2>1, <2>2, FS_Subset DEF DocsInv
<1>4. \A d \in T : Origin(d)
  <2>1. \A d \in docs' : Origin(d)
    BY <1>1 DEF DocsInv, Origin
  <2>2. QED
    BY <1>2, <2>1
<1>5. \A d \in Replaced(new) : d.sub = new.sub /\ d.hub = new.hub /\ d.route = new.route
                               /\ d.cost = new.cost
  <2>1. \A d \in Replaced(new) : d.id = new.id /\ Origin(d) /\ Origin(new)
    BY <1>1 DEF Replaced, DocsInv, Origin
  <2>2. QED
    BY <2>1, OriginSame
<1>6. \A e \in S : /\ e \notin Replaced(new) => e \in T
                   /\ e \in Replaced(new) => new \in T
  BY <1>1, <1>2, <1>5
<1>7. S \in SUBSET docs
  BY <1>2
<1> HIDE DEF S, T, In
<1>8. Cardinality(S) <= Cardinality(T)
  BY <1>3, <1>6, <1>7, ReplacedCount
<1>9. ASSUME NEW by, NEW d \in S
      PROVE  GroupOf(d, by) \in {GroupOf(e, by) : e \in T}
  <2>1. CASE d \in Replaced(new)
    <3>1. GroupOf(d, by) = GroupOf(new, by)
      BY <1>5, <2>1 DEF GroupOf
    <3>2. new \in T
      BY <1>6, <2>1
    <3>3. QED
      BY <3>1, <3>2
  <2>2. CASE d \notin Replaced(new)
    BY <1>6, <2>2
  <2>3. QED
    BY <2>1, <2>2
<1>10. CostOf(S) <= CostOf(T)
  <2>1. CASE Replaced(new) \cap S = {}
    <3>1. S \in SUBSET T
      BY <1>6, <2>1
    <3>2. QED
      BY <1>3, <1>4, <3>1, CostSums
  <2>2. CASE Replaced(new) \cap S # {}
    <3>1. PICK old : old \in Replaced(new) /\ old \in S
      BY <2>2
    <3>2. \A d \in Replaced(new) : d = old
      BY <3>1 DEF Replaced, DocsInv
    <3>3. new \in T
      BY <1>6, <3>1
    <3>4. S \ {old} \in SUBSET (T \ {new})
      <4>1. \A d \in S \ {old} : d \in T
        BY <1>6, <3>2
      <4>2. new \in S => new = old
        BY <1>7, <3>2 DEF Replaced
      <4>3. QED
        BY <4>1, <4>2
    <3>5. CostOf(S) = old.cost + CostOf(S \ {old}) /\ CostOf(T) = new.cost + CostOf(T \ {new})
      BY <1>3, <1>4, <3>1, <3>3, CostSums
    <3>6. CostOf(S \ {old}) <= CostOf(T \ {new}) /\ CostOf(T \ {new}) \in Nat
          /\ CostOf(S \ {old}) \in Nat
      <4>1. /\ IsFiniteSet(S \ {old}) /\ IsFiniteSet(T \ {new})
            /\ \A d \in S \ {old} : Origin(d)
            /\ \A d \in T \ {new} : Origin(d)
        BY <1>3, <1>4, FS_RemoveElement, FS_Subset
      <4>2. QED
        BY <3>4, <4>1, CostSums
    <3>7. old.cost \in Nat /\ old.cost = new.cost
      BY <1>3, <1>5, <3>1, CostType
    <3>8. QED
      BY <3>5, <3>6, <3>7
  <2>3. QED
    BY <2>1, <2>2
<1>11. QED
  BY <1>8, <1>9, <1>10 DEF S, T, NamesOf

(* The rows the breakdown reads of what it is about. *)
RowsOf(keys, since) == Slice(Scoped(keys, since), 0, MaxRows)

(* The rows are the window or, when that is larger, as many of it as the cap. *)
LEMMA RowsAre ==
    ASSUME DocsInv, NEW keys, keys = Null \/ keys \in SUBSET Keys, NEW since
    PROVE  /\ RowsOf(keys, since) \in SUBSET Scoped(keys, since)
           /\ IsFiniteSet(RowsOf(keys, since))
           /\ Cardinality(RowsOf(keys, since)) \in Nat
           /\ Cardinality(RowsOf(keys, since)) = Clamp(0, Cardinality(Scoped(keys, since)), MaxRows)
           /\ Cardinality(Scoped(keys, since)) <= MaxRows =>
                 RowsOf(keys, since) = Scoped(keys, since)
<1> DEFINE S == Scoped(keys, since)
           P == RowsOf(keys, since)
<1>1. IsFiniteSet(S) /\ Cardinality(S) \in Nat /\ \A d \in S : Origin(d)
  BY ScopedFinite
<1>2. 0 \in Nat /\ MaxRows \in Nat
  BY DEF ReportsAssumption
<1>3. P \in SUBSET S
  BY DEF RowsOf, Slice
<1> HIDE DEF S
<1>4. IsFiniteSet(P) /\ Cardinality(P) = Clamp(0, Cardinality(S) - 0, MaxRows)
  BY <1>1, <1>2, SliceLength DEF RowsOf, S
<1>5. Cardinality(P) \in Nat
  BY <1>4, FS_CardinalityType
<1>6. Cardinality(S) - 0 = Cardinality(S)
  BY <1>1
<1>7. ASSUME Cardinality(S) <= MaxRows PROVE P = S
  <2>1. \A c \in S : Position(S, c) \in 0..(Cardinality(S) - 1)
    BY <1>1, PositionsFill
  <2>2. \A c \in S : Position(S, c) \in 0..(0 + MaxRows - 1)
    BY <1>1, <1>2, <1>7, <2>1
  <2>3. P = {c \in S : Position(S, c) \in 0..(0 + MaxRows - 1)}
    BY SliceByPosition DEF RowsOf, S
  <2>4. QED
    BY <2>2, <2>3
<1>8. QED
  BY <1>3, <1>4, <1>5, <1>6, <1>7 DEF S

(* An import never makes them fewer. *)
LEMMA RowsGrow ==
    ASSUME DocsInv, NEW c \in Calls, Import(c),
           NEW keys, keys = Null \/ keys \in SUBSET Keys, NEW since, since = Null \/ since \in Int
    PROVE  Cardinality(RowsOf(keys, since)) <= Cardinality(RowsOf(keys, since)')
<1>1. PICK m, n : m = Cardinality(Scoped(keys, since)) /\ n = Cardinality(Scoped(keys, since)')
  OBVIOUS
<1>2. m <= n
  BY <1>1, ScopedGrows
<1>3. m \in Nat /\ Cardinality(RowsOf(keys, since)) = Clamp(0, m, MaxRows)
  BY <1>1, RowsAre, ScopedFinite
<1>4. n \in Nat /\ Cardinality(RowsOf(keys, since)') = Clamp(0, n, MaxRows)
  <2>1. DocsInv'
    BY DocsInvImport
  <2>2. ASSUME DocsInv'
        PROVE  ( /\ Cardinality(RowsOf(keys, since))
                      = Clamp(0, Cardinality(Scoped(keys, since)), MaxRows)
                 /\ Cardinality(Scoped(keys, since)) \in Nat )'
    BY <2>2, RowsAre, ScopedFinite, PTL
  <2>3. QED
    BY <1>1, <2>1, <2>2
<1>5. MaxRows \in Nat /\ 0 \in Int
  BY DEF ReportsAssumption
<1>6. QED
  BY <1>2, <1>3, <1>4, <1>5, ClampValue

-----------------------------------------------------------------------------
(* What the world does to a report that is being made: nothing, but that a
   change of the documents shows in its history. *)
LEMMA WorldFrame ==
    ASSUME DocsInv, World \/ UNCHANGED vars
    PROVE  /\ DOMAIN report' = DOMAIN report
           /\ \A f \in DOMAIN report \ {"quiet"} : report'[f] = report[f]
           /\ "quiet" \in DOMAIN report /\ report'.quiet => report.quiet /\ docs' = docs
           /\ "quiet" \notin DOMAIN report => report' = report
           /\ docs' = docs \/ \E c \in Calls : Import(c)
           /\ now <= now'
<1>1. now \in Nat
  BY DEF DocsInv
<1>2. CASE Tick
  BY <1>1, <1>2 DEF Tick
<1>3. ASSUME NEW c \in Calls, Import(c)
      PROVE  /\ DOMAIN report' = DOMAIN report
             /\ \A f \in DOMAIN report \ {"quiet"} : report'[f] = report[f]
             /\ "quiet" \in DOMAIN report /\ report'.quiet => report.quiet /\ docs' = docs
             /\ "quiet" \notin DOMAIN report => report' = report
             /\ now <= now'
  <2>1. report' = IF "quiet" \in DOMAIN report
                  THEN [report EXCEPT !.quiet = @ /\ ~(docs' # docs)]
                  ELSE report
    BY <1>3 DEF Import, Disturbed
  <2>2. CASE "quiet" \in DOMAIN report
    <3>1. report' = [report EXCEPT !.quiet = @ /\ docs' = docs]
      BY <2>1, <2>2
    <3>2. /\ DOMAIN report' = DOMAIN report
          /\ \A f \in DOMAIN report \ {"quiet"} : report'[f] = report[f]
          /\ report'.quiet = (report.quiet /\ docs' = docs)
      BY <2>2, <3>1
    <3>3. now <= now'
      BY <1>1, <1>3 DEF Import
    <3>4. QED
      BY <2>2, <3>2, <3>3
  <2>3. CASE "quiet" \notin DOMAIN report
    BY <1>1, <1>3, <2>1, <2>3 DEF Import
  <2>4. QED
    BY <2>2, <2>3
<1>4. ASSUME NEW k \in Keys, IssueKey(k) \/ DeleteKey(k)
      PROVE  now' = now /\ docs' = docs /\ report' = report
  BY <1>4 DEF IssueKey, DeleteKey
<1>5. CASE UNCHANGED vars
  BY <1>1, <1>5 DEF vars, world
<1>6. CASE World
  BY <1>1, <1>2, <1>3, <1>4, <1>6 DEF World
<1>7. QED
  BY <1>5, <1>6

(* What a tenant owns, in calls, money and names, never gets less. *)
LEMMA WorldGrows ==
    ASSUME DocsInv, docs' = docs \/ \E c \in Calls : Import(c)
    PROVE  /\ \A t : /\ Cardinality(Own(t)) <= Cardinality(Own(t)')
                     /\ CostOf(Own(t)) <= CostOf(Own(t)')
           /\ \A t, by : NamesOf(t, by) \subseteq NamesOf(t, by)'
           /\ \A keys, since :
                 (keys = Null \/ keys \in SUBSET Keys) /\ (since = Null \/ since \in Int) =>
                    Cardinality(RowsOf(keys, since)) <= Cardinality(RowsOf(keys, since)')
<1>1. CASE docs' = docs
  <2>1. ASSUME NEW t
        PROVE  /\ Own(t)' = Own(t)
               /\ Cardinality(Own(t)) \in Nat /\ CostOf(Own(t)) \in Nat
    <3>1. Own(t) \in SUBSET docs
      BY DEF Own
    <3>2. IsFiniteSet(Own(t)) /\ \A d \in Own(t) : Origin(d)
      BY <3>1, FS_Subset DEF DocsInv
    <3>3. Own(t)' = Own(t)
      BY <1>1 DEF Own
    <3>4. QED
      BY <3>2, <3>3, FS_CardinalityType, CostSums
  <2>2. ASSUME NEW keys, NEW since, keys = Null \/ keys \in SUBSET Keys
        PROVE  /\ RowsOf(keys, since)' = RowsOf(keys, since)
               /\ Cardinality(RowsOf(keys, since)) \in Nat
    <3>1. RowsOf(keys, since)' = RowsOf(keys, since)
      BY <1>1 DEF RowsOf, Scoped, Matching
    <3>2. QED
      BY <2>2, <3>1, RowsAre
  <2>3. ASSUME NEW t
        PROVE  /\ Cardinality(Own(t)) <= Cardinality(Own(t)')
               /\ CostOf(Own(t)) <= CostOf(Own(t)')
    <3>1. PICK S : S = Own(t)
      OBVIOUS
    <3>2. Own(t)' = S /\ Cardinality(S) \in Nat /\ CostOf(S) \in Nat
      BY <2>1, <3>1
    <3>3. QED
      BY <3>1, <3>2
  <2>4. \A t, by : NamesOf(t, by)' = NamesOf(t, by)
    BY <2>1 DEF NamesOf
  <2>5. QED
    BY <2>2, <2>3, <2>4
<1>2. ASSUME NEW c \in Calls, Import(c)
      PROVE  /\ \A t : /\ Cardinality(Own(t)) <= Cardinality(Own(t)')
                       /\ CostOf(Own(t)) <= CostOf(Own(t)')
             /\ \A t, by : NamesOf(t, by) \subseteq NamesOf(t, by)'
             /\ \A keys, since :
                   (keys = Null \/ keys \in SUBSET Keys) /\ (since = Null \/ since \in Int) =>
                      Cardinality(RowsOf(keys, since)) <= Cardinality(RowsOf(keys, since)')
  BY <1>2, OwnGrows, RowsGrow
<1>3. QED
  BY <1>1, <1>2

-----------------------------------------------------------------------------
(* The breakdown.                                                          *)

CallsIn(f) == SumOver(LAMBDA b : b.calls, f)

LEMMA CallsUnfold ==
    ASSUME NEW f
    PROVE  CallsIn(f) = SumFunctionOnSet([x \in DOMAIN f |-> f[x].calls], DOMAIN f)
  BY DEF CallsIn, SumOver, SumFunction

(* Groups of a list of documents hold what the list holds, or less. *)
LEMMA GroupsCount ==
    ASSUME NEW S, IsFiniteSet(S), NEW by, NEW g \in Groups(S, by)
    PROVE  /\ DOMAIN g \subseteq {GroupOf(d, by) : d \in S}
           /\ CallsIn(g) \in Nat /\ CallsIn(g) <= Cardinality(S)
<1> DEFINE names == {GroupOf(d, by) : d \in S}
           bill == [h \in names |-> Aggregate({d \in S : GroupOf(d, by) = h})]
           key == [d \in S |-> GroupOf(d, by)]
           f == [x \in DOMAIN g |-> g[x].calls]
           some == KeyedIn(S, key, DOMAIN g)
<1>1. PICK shown \in SUBSET names : g = [h \in shown |-> bill[h]]
  <2>1. Groups(S, by) =
          {[h \in shown |-> bill[h]] : shown \in
              {G \in SUBSET names :
                  /\ Cardinality(G) = Min({Cardinality(names), MaxGroups})
                  /\ \A h \in G, i \in names \ G : bill[h].cost >= bill[i].cost}}
    BY DEF Groups
  <2> HIDE DEF bill, names
  <2>2. QED
    BY <2>1
<1>2. IsFiniteSet(names)
  <2>1. names = Range(key) /\ DOMAIN key = S
    BY DEF Range
  <2> HIDE DEF key, names
  <2>2. QED
    BY <2>1, RangeFinite
<1>3. DOMAIN g = shown /\ IsFiniteSet(DOMAIN g)
  BY <1>1, <1>2, FS_Subset
<1>4. ASSUME NEW h \in DOMAIN g PROVE f[h] = Cardinality(Keyed(S, key, h))
  <2>1. f[h] = Aggregate({d \in S : GroupOf(d, by) = h}).calls
    BY <1>1, <1>3
  <2>2. {d \in S : GroupOf(d, by) = h} = Keyed(S, key, h)
    BY DEF Keyed, KeyedIn
  <2>3. QED
    BY <2>1, <2>2 DEF Aggregate
<1>5. CallsIn(g) = SumFunctionOnSet(f, DOMAIN g)
  BY CallsUnfold
<1>6. CallsIn(g) = Cardinality(some)
  <2> HIDE DEF f, key
  <2>1. QED
    BY <1>3, <1>4, <1>5, SumOfGroups
<1>7. some \in SUBSET S
  BY DEF KeyedIn
<1>8. Cardinality(some) \in Nat /\ Cardinality(some) <= Cardinality(S)
  BY <1>7, FS_Subset, FS_CardinalityType
<1>9. QED
  BY <1>1, <1>3, <1>6, <1>8

LEMMA StepOfType == ASSUME NEW hours PROVE StepOf(hours) \in Nat \ {0}
<1>1. HourTicks \in Nat \ {0} /\ DayHours \in Nat \ {0}
  BY DEF DocumentsAssumption
<1>2. DayHours * HourTicks \in Nat \ {0}
  BY <1>1
<1>3. QED
  BY <1>1, <1>2 DEF StepOf

(* The buckets: as many steps back from the present one as cover the window. *)
LEMMA SlotsAre ==
    ASSUME now \in Int, NEW hours \in Nat \ {0}
    PROVE  \E n \in Nat :
              /\ Slots(hours) = {StartOf(now, StepOf(hours)) - i * StepOf(hours) : i \in 0..(n - 1)}
              /\ hours * HourTicks <= n * StepOf(hours)
              /\ IsFiniteSet(Slots(hours))
<1>1. HourTicks \in Nat \ {0} /\ DayHours \in Nat \ {0} /\ HourlyMax \in Nat
  BY DEF DocumentsAssumption, ReportsAssumption
<1>2. PICK n \in Nat : n = IF hours <= HourlyMax THEN hours
                           ELSE (hours + DayHours - 1) \div DayHours
  <2>1. (hours + DayHours - 1) \div DayHours \in Nat
    BY <1>1
  <2>2. QED
    BY <2>1
<1>3. Slots(hours) = {StartOf(now, StepOf(hours)) - i * StepOf(hours) : i \in 0..(n - 1)}
  <2>1. CASE hours <= HourlyMax
    BY <1>2, <2>1 DEF Slots, StepOf
  <2>2. CASE ~(hours <= HourlyMax)
    BY <1>2, <2>2 DEF Slots, StepOf
  <2>3. QED
    BY <2>1, <2>2
<1>4. hours * HourTicks <= n * StepOf(hours)
  <2>1. CASE hours <= HourlyMax
    BY <1>1, <1>2, <2>1 DEF StepOf
  <2>2. CASE ~(hours <= HourlyMax)
    <3>1. hours <= n * DayHours
      BY <1>1, <1>2, <2>2
    <3>2. hours * HourTicks <= (n * DayHours) * HourTicks
      BY <1>1, <3>1
    <3>3. (n * DayHours) * HourTicks = n * (DayHours * HourTicks)
      BY <1>1
    <3>4. QED
      BY <2>2, <3>2, <3>3 DEF StepOf
  <2>3. QED
    BY <2>1, <2>2
<1>5. IsFiniteSet(Slots(hours))
  <2>1. IsFiniteSet(0..(n - 1))
    <3>1. 0 \in Int /\ n - 1 \in Int
      OBVIOUS
    <3>2. QED
      BY <3>1, IntervalLength
  <2> DEFINE slot == [i \in 0..(n - 1) |-> StartOf(now, StepOf(hours)) - i * StepOf(hours)]
  <2>2. Slots(hours) = Range(slot) /\ DOMAIN slot = 0..(n - 1)
    BY <1>3 DEF Range
  <2> HIDE DEF slot
  <2>3. QED
    BY <2>1, <2>2, RangeFinite
<1>6. QED
  BY <1>3, <1>4, <1>5

(* Rounding down to a multiple of a step. *)
LEMMA DivBounds ==
    ASSUME NEW t \in Int, NEW step \in Nat \ {0}
    PROVE  /\ t \div step \in Int
           /\ (t \div step) * step <= t /\ t < (t \div step) * step + step
  OBVIOUS

LEMMA FactorOrder ==
    ASSUME NEW a \in Int, NEW b \in Int, NEW step \in Nat \ {0}, a * step < b * step
    PROVE  a < b
  OBVIOUS

(* A call newer than the window less one bucket has a bucket. *)
LEMMA SlotCovers ==
    ASSUME now \in Int, NEW hours \in Nat \ {0}, NEW ts \in Int, ts <= now,
           ts > now - hours * HourTicks + StepOf(hours)
    PROVE  StartOf(ts, StepOf(hours)) \in Slots(hours)
<1>1. PICK n \in Nat :
         /\ Slots(hours) = {StartOf(now, StepOf(hours)) - i * StepOf(hours) : i \in 0..(n - 1)}
         /\ hours * HourTicks <= n * StepOf(hours)
  BY SlotsAre
<1>2. PICK step \in Nat \ {0} : step = StepOf(hours)
  BY StepOfType
<1>3. PICK a \in Int, b \in Int : a = ts \div step /\ b = now \div step
  BY DivBounds
<1>4. a * step <= ts /\ ts < a * step + step /\ b * step <= now /\ now < b * step + step
  BY <1>3, DivBounds
<1>5. HourTicks \in Nat
  BY DEF DocumentsAssumption
<1>6. hours * HourTicks \in Int /\ n * step \in Int /\ a * step \in Int /\ b * step \in Int
  BY <1>5
<1>7. PICK w \in Int, x \in Int, y \in Int, z \in Int :
         w = hours * HourTicks /\ x = n * step /\ y = a * step /\ z = b * step
  BY <1>6
<1>8. w <= x /\ y <= ts /\ ts < y + step /\ z <= now /\ now < z + step
      /\ ts > now - w + step
  BY <1>1, <1>2, <1>4, <1>7
<1>9. y < z + step /\ z - x < y
  BY <1>8
<1>10. a < b + 1 /\ b - n < a
  <2>1. (b + 1) * step = z + step /\ (b - n) * step = z - x
    BY <1>7
  <2>2. a * step < (b + 1) * step /\ (b - n) * step < a * step
    BY <1>7, <1>9, <2>1
  <2>3. b + 1 \in Int /\ b - n \in Int
    OBVIOUS
  <2>4. QED
    BY <2>2, <2>3, FactorOrder
<1>11. b - a \in 0..(n - 1)
  BY <1>10
<1>12. a * step = b * step - (b - a) * step
  OBVIOUS
<1>13. StartOf(ts, step) = a * step /\ StartOf(now, step) = b * step
  BY <1>3 DEF StartOf
<1>14. QED
  BY <1>1, <1>2, <1>11, <1>12, <1>13

(* The chart counts the documents that have a bucket. *)
LEMMA TrendCount ==
    ASSUME now \in Int, NEW hours \in Nat \ {0}, NEW S, IsFiniteSet(S)
    PROVE  CallsIn(Trend(S, hours))
             = Cardinality({d \in S : StartOf(d.ts, StepOf(hours)) \in Slots(hours)})
<1> DEFINE key == [d \in S |-> StartOf(d.ts, StepOf(hours))]
           g == Trend(S, hours)
           f == [x \in DOMAIN g |-> g[x].calls]
           slots == Slots(hours)
<1>1. DOMAIN g = slots
  BY DEF Trend
<1>2. IsFiniteSet(slots)
  BY SlotsAre
<1>3. ASSUME NEW s \in slots PROVE f[s] = Cardinality(Keyed(S, key, s))
  <2>1. g[s].calls = Aggregate({d \in S : StartOf(d.ts, StepOf(hours)) = s}).calls
    BY DEF Trend
  <2>2. {d \in S : StartOf(d.ts, StepOf(hours)) = s} = Keyed(S, key, s)
    BY DEF Keyed, KeyedIn
  <2>3. Aggregate(Keyed(S, key, s)).calls = Cardinality(Keyed(S, key, s))
    BY DEF Aggregate
  <2>4. f[s] = g[s].calls
    BY <1>1
  <2>5. QED
    BY <2>1, <2>2, <2>3, <2>4
<1>4. CallsIn(g) = SumFunctionOnSet(f, slots)
  BY <1>1, CallsUnfold
<1>5. SumFunctionOnSet(f, slots) = Cardinality(KeyedIn(S, key, slots))
  <2> HIDE DEF f, key, slots
  <2> QED
    BY <1>2, <1>3, SumOfGroups
<1>6. KeyedIn(S, key, slots) = {d \in S : StartOf(d.ts, StepOf(hours)) \in Slots(hours)}
  BY DEF KeyedIn
<1>7. QED
  BY <1>4, <1>5, <1>6

-----------------------------------------------------------------------------
(* No document is of the future.                                           *)
PastInv ==
    /\ now \in Start..MaxTime
    /\ \A d \in docs : d.ts <= now

LEMMA PastInvInit == Init => PastInv
<1> SUFFICES ASSUME Init PROVE PastInv
  OBVIOUS
<1>1. now \in Start..MaxTime
  BY DEF Init, ReportsAssumption
<1>2. \A d \in docs : d.ts <= now
  BY DEF Init, CallsAssumption
<1>3. QED
  BY <1>1, <1>2 DEF PastInv

(* A stamped call is imported after it was made; an unstamped one gets the present. *)
LEMMA PastInvNext ==
    ASSUME DocsInv, PastInv, "stage" \in DOMAIN report, [Next]_vars
    PROVE  PastInv'
<1>1. Start \in Nat /\ MaxTime \in Nat /\ now \in Nat
  BY DEF ReportsAssumption, DocsInv
<1>2. CASE Tick
  <2>1. now' = now + 1 /\ docs' = docs /\ now < MaxTime
    BY <1>2 DEF Tick
  <2>2. now' \in Start..MaxTime
    BY <1>1, <2>1 DEF PastInv
  <2>3. ASSUME NEW d \in docs PROVE d.ts <= now + 1
    <3>1. d.ts \in Int /\ d.ts <= now
      BY OriginFields DEF DocsInv, PastInv
    <3>2. QED
      BY <1>1, <3>1
  <2>4. QED
    BY <2>1, <2>2, <2>3 DEF PastInv
<1>3. ASSUME NEW c \in Calls, Import(c) PROVE PastInv'
  <2>1. PICK new : /\ new = Document(c, now)
                   /\ docs' = (docs \ Replaced(new)) \cup {new}
    BY <1>3, ImportStep
  <2>2. now' = now /\ c.id # Null /\ c.at <= now
    BY <1>3 DEF Import
  <2>3. new.ts <= now
    BY <1>1, <2>1, <2>2, DocumentFields
  <2>4. QED
    BY <2>1, <2>2, <2>3 DEF PastInv
<1>4. ASSUME now' = now, docs' = docs PROVE PastInv'
  BY <1>4 DEF PastInv
<1>5. ASSUME NEW k \in Keys, IssueKey(k) \/ DeleteKey(k) PROVE PastInv'
  BY <1>4, <1>5 DEF IssueKey, DeleteKey
<1>6. CASE ReadsLog \/ Elsewhere \/ UNCHANGED vars
  <2>1. UNCHANGED world
    BY <1>6 DEF ReadsLog, AskPage, AskItems, AskOwners, AskCount, TurnPage, Elsewhere, vars
  <2>2. QED
    BY <1>4, <2>1 DEF world
<1>7. QED
  BY <1>2, <1>3, <1>5, <1>6, StepCases

-----------------------------------------------------------------------------
(* What a breakdown holds from query to query.                             *)

Rows == RowsOf(report.keys, report.since)

Recent ==
    {d \in InScope(report) :
        d.ts > report.trendAt - report.hours * HourTicks + StepOf(report.hours)}

(* The keys and the window it was asked for with, ... *)
AskedFields == {"stage", "scope", "keys", "hours", "since", "by", "quiet"}

AskedInv ==
    report.stage \in BreakdownStages =>
        /\ AskedFields \subseteq DOMAIN report
        /\ report.keys = Null \/ report.keys \in SUBSET Keys
        /\ report.scope # Platform =>
              report.keys \in SUBSET {k \in Keys : TenantOf[k] = report.scope}
        /\ report.hours \in Nat \ {0} /\ report.since \in Int

(* ... the groups, ... *)
GroupsInv ==
    report.stage \in BreakdownStages \ {"groups"} =>
        /\ "groups" \in DOMAIN report
        /\ report.scope # Platform =>
              DOMAIN report.groups \subseteq NamesOf(report.scope, report.by)
        /\ CallsIn(report.groups) \in Nat
        /\ report.stage \in {"trend", "totals"} => CallsIn(report.groups) <= Cardinality(Rows)

(* ... the chart, ... *)
TrendInv ==
    report.stage \in {"totals", "labels", "breakdown"} =>
        /\ {"trend", "trendAt"} \subseteq DOMAIN report
        /\ CallsIn(report.trend) \in Nat
        /\ report.stage = "totals" => CallsIn(report.trend) <= Cardinality(Rows)
        /\ (report.quiet /\ Cardinality(InScope(report)) <= MaxRows) =>
              CallsIn(report.trend) >= Cardinality(Recent)

(* ... and the headline, which was counted last. *)
TotalsInv ==
    report.stage \in {"labels", "breakdown"} =>
        /\ "totals" \in DOMAIN report
        /\ report.stage = "breakdown" => "labelled" \in DOMAIN report
        /\ report.totals.calls \in Nat /\ report.totals.cost \in Nat
        /\ report.totals.calls >= CallsIn(report.groups)
        /\ report.totals.calls >= CallsIn(report.trend)
        /\ report.quiet => report.totals = Aggregate(Rows)
        /\ report.scope # Platform =>
              /\ report.totals.calls <= Cardinality(Own(report.scope))
              /\ report.totals.cost <= CostOf(Own(report.scope))

BreakdownInv == AskedInv /\ GroupsInv /\ TrendInv /\ TotalsInv

LEMMA ScopeIsWindow ==
    ASSUME AskedInv, report.stage \in BreakdownStages
    PROVE  InScope(report) = Scoped(report.keys, report.since)
<1>1. PICK keys, since : keys = report.keys /\ since = report.since
  OBVIOUS
<1>2. keys = Null \/ keys \in SUBSET Keys
  BY <1>1 DEF AskedInv
<1>3. InScope(report) = {d \in docs : (keys = Null \/ d.sub \in keys)
                                      /\ (since = Null \/ d.ts >= since)}
  BY <1>1 DEF InScope
<1>4. QED
  BY <1>1, <1>2, <1>3, WindowDocs

(* Whatever is counted is finite. *)
LEMMA Sizes ==
    ASSUME DocsInv, NEW t, NEW keys, keys = Null \/ keys \in SUBSET Keys, NEW since
    PROVE  /\ IsFiniteSet(Own(t)) /\ \A d \in Own(t) : Origin(d)
           /\ Cardinality(Own(t)) \in Nat /\ CostOf(Own(t)) \in Nat
           /\ Cardinality(RowsOf(keys, since)) \in Nat
<1>1. Own(t) \in SUBSET docs
  BY DEF Own
<1>2. IsFiniteSet(Own(t)) /\ \A d \in Own(t) : Origin(d)
  BY <1>1, FS_Subset DEF DocsInv
<1>3. QED
  BY <1>2, FS_CardinalityType, CostSums, RowsAre

LEMMA SizesNext ==
    ASSUME DocsInv', NEW t, NEW keys, keys = Null \/ keys \in SUBSET Keys, NEW since
    PROVE  /\ Cardinality(Own(t)') \in Nat /\ CostOf(Own(t)') \in Nat
           /\ Cardinality(RowsOf(keys, since)') \in Nat
<1>1. (DocsInv => /\ Cardinality(Own(t)) \in Nat /\ CostOf(Own(t)) \in Nat
                  /\ Cardinality(RowsOf(keys, since)) \in Nat)'
  BY Sizes, PTL
<1>2. QED
  BY <1>1

(* The world may add to what was counted, not take away; a quiet report it left
   alone. *)
LEMMA BreakdownKept ==
    ASSUME DocsInv, DocsInv', BreakdownInv, "stage" \in DOMAIN report, World \/ UNCHANGED vars
    PROVE  BreakdownInv'
<1>1. /\ DOMAIN report' = DOMAIN report
      /\ \A f \in DOMAIN report \ {"quiet"} : report'[f] = report[f]
      /\ "quiet" \in DOMAIN report /\ report'.quiet => report.quiet /\ docs' = docs
      /\ docs' = docs \/ \E c \in Calls : Import(c)
  BY WorldFrame
<1>2. report'.stage = report.stage
  BY <1>1
<1>3. CASE report.stage \notin BreakdownStages
  BY <1>2, <1>3 DEF BreakdownInv, AskedInv, GroupsInv, TrendInv, TotalsInv, BreakdownStages
<1>4. CASE report.stage \in BreakdownStages
  <2>1. AskedFields \subseteq DOMAIN report
    BY <1>4 DEF BreakdownInv, AskedInv
  <2>2. /\ report'.scope = report.scope /\ report'.keys = report.keys
        /\ report'.hours = report.hours /\ report'.since = report.since
        /\ report'.by = report.by
        /\ report'.quiet => report.quiet /\ docs' = docs
    BY <1>1, <2>1 DEF AskedFields
  <2>3. AskedInv'
    BY <1>1, <1>2, <1>4, <2>2 DEF BreakdownInv, AskedInv
  <2>4. PICK scope, keys, since, by : /\ scope = report.scope /\ keys = report.keys
                                      /\ since = report.since /\ by = report.by
    OBVIOUS
  <2>5. (keys = Null \/ keys \in SUBSET Keys) /\ since \in Int
    BY <1>4, <2>4 DEF BreakdownInv, AskedInv
  <2>6. /\ Cardinality(Own(scope)) <= Cardinality(Own(scope)')
        /\ CostOf(Own(scope)) <= CostOf(Own(scope)')
        /\ NamesOf(scope, by) \subseteq NamesOf(scope, by)'
        /\ Cardinality(RowsOf(keys, since)) <= Cardinality(RowsOf(keys, since)')
    BY <1>1, <2>5, WorldGrows
  <2>7. /\ Own(report.scope) = Own(scope) /\ Own(report.scope)' = Own(scope)'
        /\ NamesOf(report.scope, report.by) = NamesOf(scope, by)
        /\ NamesOf(report.scope, report.by)' = NamesOf(scope, by)'
        /\ Rows = RowsOf(keys, since) /\ Rows' = RowsOf(keys, since)'
    BY <2>2, <2>4 DEF Own, NamesOf, Rows, RowsOf, Scoped, Matching
  <2>8. /\ report'.quiet => Rows' = Rows
        /\ report'.quiet => InScope(report)' = InScope(report)
    BY <2>2, <2>4, <2>7 DEF RowsOf, Scoped, Matching, InScope
  <2>9. /\ Cardinality(Own(scope)) \in Nat /\ CostOf(Own(scope)) \in Nat
        /\ Cardinality(Own(scope)') \in Nat /\ CostOf(Own(scope)') \in Nat
        /\ Cardinality(RowsOf(keys, since)) \in Nat /\ Cardinality(RowsOf(keys, since)') \in Nat
    BY <2>5, Sizes, SizesNext
  <2>10. GroupsInv'
    <3>1. CASE report.stage = "groups"
      BY <1>2, <3>1 DEF GroupsInv
    <3>2. CASE report.stage # "groups"
      <4>1. /\ "groups" \in DOMAIN report /\ CallsIn(report.groups) \in Nat
            /\ scope # Platform => DOMAIN report.groups \subseteq NamesOf(scope, by)
            /\ report.stage \in {"trend", "totals"} =>
                  CallsIn(report.groups) <= Cardinality(RowsOf(keys, since))
        BY <1>4, <2>4, <2>7, <3>2 DEF BreakdownInv, GroupsInv
      <4>2. PICK g : g = report.groups
        OBVIOUS
      <4>3. report'.groups = g /\ "groups" \in DOMAIN report'
        BY <1>1, <4>1, <4>2
      <4>4. report.stage \in {"trend", "totals"} => CallsIn(g) <= Cardinality(RowsOf(keys, since)')
        BY <2>6, <2>9, <4>1, <4>2
      <4>5. scope # Platform => DOMAIN g \subseteq NamesOf(scope, by)'
        BY <2>6, <4>1, <4>2
      <4>6. QED
        BY <1>2, <2>2, <2>4, <2>7, <4>1, <4>2, <4>3, <4>4, <4>5 DEF GroupsInv
    <3>3. QED
      BY <3>1, <3>2
  <2>11. TrendInv'
    <3>1. CASE report.stage \notin {"totals", "labels", "breakdown"}
      BY <1>2, <3>1 DEF TrendInv
    <3>2. CASE report.stage \in {"totals", "labels", "breakdown"}
      <4>1. /\ {"trend", "trendAt"} \subseteq DOMAIN report /\ CallsIn(report.trend) \in Nat
            /\ report.stage = "totals" =>
                  CallsIn(report.trend) <= Cardinality(RowsOf(keys, since))
            /\ (report.quiet /\ Cardinality(InScope(report)) <= MaxRows) =>
                  CallsIn(report.trend) >= Cardinality(Recent)
        BY <2>7, <3>2 DEF BreakdownInv, TrendInv
      <4>2. PICK g : g = report.trend
        OBVIOUS
      <4>3. /\ report'.trend = g /\ report'.trendAt = report.trendAt
            /\ {"trend", "trendAt"} \subseteq DOMAIN report'
        BY <1>1, <4>1, <4>2
      <4>4. report.stage = "totals" => CallsIn(g) <= Cardinality(RowsOf(keys, since)')
        BY <2>6, <2>9, <4>1, <4>2
      <4>5. report'.quiet => Recent' = Recent /\ InScope(report)' = InScope(report)
        BY <2>2, <2>8, <4>3 DEF Recent
      <4>6. QED
        BY <1>2, <2>2, <2>7, <4>1, <4>2, <4>3, <4>4, <4>5 DEF TrendInv
    <3>3. QED
      BY <3>1, <3>2
  <2>12. TotalsInv'
    <3>1. CASE report.stage \notin {"labels", "breakdown"}
      BY <1>2, <3>1 DEF TotalsInv
    <3>2. CASE report.stage \in {"labels", "breakdown"}
      <4>1. {"groups", "trend", "totals"} \subseteq DOMAIN report
        BY <3>2 DEF BreakdownInv, GroupsInv, TrendInv, TotalsInv, BreakdownStages
      <4>2. PICK g, r, t : g = report.groups /\ r = report.trend /\ t = report.totals
        OBVIOUS
      <4>3. /\ t.calls \in Nat /\ t.cost \in Nat
            /\ t.calls >= CallsIn(g) /\ t.calls >= CallsIn(r)
            /\ report.quiet => t = Aggregate(RowsOf(keys, since))
            /\ scope # Platform => /\ t.calls <= Cardinality(Own(scope))
                                   /\ t.cost <= CostOf(Own(scope))
            /\ report.stage = "breakdown" => "labelled" \in DOMAIN report
        BY <2>4, <2>7, <3>2, <4>2 DEF BreakdownInv, TotalsInv
      <4>4. report'.groups = g /\ report'.trend = r /\ report'.totals = t
        BY <1>1, <4>1, <4>2
      <4>5. scope # Platform => /\ t.calls <= Cardinality(Own(scope)')
                                /\ t.cost <= CostOf(Own(scope)')
        BY <2>6, <2>9, <4>3
      <4>6. report'.quiet => t = Aggregate(Rows')
        BY <2>2, <2>7, <2>8, <4>3
      <4>7. QED
        BY <1>1, <1>2, <2>2, <2>4, <2>7, <4>1, <4>3, <4>4, <4>5, <4>6 DEF TotalsInv
    <3>3. QED
      BY <3>1, <3>2
  <2>13. QED
    BY <2>3, <2>10, <2>11, <2>12 DEF BreakdownInv
<1>5. QED
  BY <1>3, <1>4

LEMMA LogLeadsTo ==
    ASSUME PagerTypes, ReadsLog
    PROVE  LeadsTo(LogStages)
<1>1. ASSUME NewPage PROVE LeadsTo(LogStages)
  BY <1>1 DEF NewPage, LeadsTo, LogFields, LogStages
<1>2. CASE AskItems \/ AskOwners \/ AskCount
  BY <1>2, QueryFields DEF LeadsTo, LogFields
<1>3. QED
  BY <1>1, <1>2, AskPageFields, TurnPageFields DEF ReadsLog

(* Whoever asks for the numbers of a tenant asks with its own keys. *)
LEMMA RowsAreOwn ==
    ASSUME DocsInv, NEW t, NEW keys, keys \in SUBSET {k \in Keys : TenantOf[k] = t}, NEW since
    PROVE  Scoped(keys, since) \in SUBSET Own(t)
<1>1. keys \in SUBSET Keys
  OBVIOUS
<1>2. Scoped(keys, since) = {d \in docs : d.sub \in keys /\ (since = Null \/ d.ts >= since)}
  BY <1>1, ScopedDocs
<1>3. QED
  BY <1>2 DEF Own

LEMMA ScopeKeys ==
    ASSUME DocsInv, NEW scope
    PROVE  /\ KeysOf(scope) = Null \/ KeysOf(scope) \in SUBSET Keys
           /\ scope # Platform => KeysOf(scope) \in SUBSET {k \in Keys : TenantOf[k] = scope}
  BY DEF KeysOf, DocsInv

LEMMA WindowHours ==
    ASSUME NEW hours \in Windows, hours # Null
    PROVE  Clamp(1, hours, MaxWindow) \in Nat \ {0}
<1>1. hours \in Int /\ MaxWindow \in Nat \ {0} /\ 1 \in Int
  BY DEF ReportsAssumption
<1>2. QED
  BY <1>1, ClampValue

(* The steps of a breakdown, one by one. *)
LEMMA BreakdownAsked ==
    ASSUME DocsInv, NEW scope, NEW hours \in Windows, NEW by, AskBreakdown(scope, hours, by)
    PROVE  BreakdownInv'
<1>1. /\ hours # Null
      /\ report' = [stage |-> "groups", scope |-> scope, keys |-> KeysOf(scope),
                    hours |-> Clamp(1, hours, MaxWindow), since |-> Since(hours),
                    by |-> Canonical(by), quiet |-> TRUE]
  BY DEF AskBreakdown
<1>2. Since(hours) \in Int
  BY <1>1, SinceType DEF DocsInv
<1>3. AskedInv'
  BY <1>1, <1>2, ScopeKeys, WindowHours DEF AskedInv, AskedFields
<1>4. report'.stage = "groups"
  BY <1>1
<1>5. QED
  BY <1>3, <1>4 DEF BreakdownInv, GroupsInv, TrendInv, TotalsInv

(* A query leaves what was asked for, and what was answered, as it is. *)
LEMMA BreakdownFields ==
    ASSUME AskedInv, UNCHANGED world, report.stage \in BreakdownStages,
           NEW fields, \A f \in AskedFields \ {"stage"} : f \notin DOMAIN fields,
           "stage" \in DOMAIN fields, fields.stage \in BreakdownStages,
           report' = Update(report, fields)
    PROVE  /\ report'.stage = fields.stage
           /\ DOMAIN report' = DOMAIN report \cup DOMAIN fields
           /\ \A f \in DOMAIN report \ DOMAIN fields : report'[f] = report[f]
           /\ report'.scope = report.scope /\ report'.by = report.by
           /\ report'.quiet = report.quiet /\ report'.hours = report.hours
           /\ AskedInv' /\ Rows' = Rows /\ InScope(report)' = InScope(report)
           /\ \A t : Own(t)' = Own(t)
<1>1. AskedFields \subseteq DOMAIN report
  BY DEF AskedInv
<1>2. /\ DOMAIN report' = DOMAIN report \cup DOMAIN fields
      /\ \A f \in DOMAIN report \ DOMAIN fields : report'[f] = report[f]
      /\ report'.stage = fields.stage
  BY DEF Update
<1>3. /\ report'.scope = report.scope /\ report'.keys = report.keys
      /\ report'.hours = report.hours /\ report'.since = report.since
      /\ report'.by = report.by /\ report'.quiet = report.quiet
  BY <1>1, <1>2 DEF AskedFields
<1>4. AskedInv'
  BY <1>1, <1>2, <1>3 DEF AskedInv
<1>5. docs' = docs
  BY DEF world
<1>6. Rows' = Rows
  BY <1>3, <1>5 DEF Rows, RowsOf, Scoped, Matching
<1>7. InScope(report)' = InScope(report)
  BY <1>3, <1>5 DEF InScope
<1>8. \A t : Own(t)' = Own(t)
  BY <1>5 DEF Own
<1>9. QED
  BY <1>2, <1>3, <1>4, <1>6, <1>7, <1>8

LEMMA RowsOfReport ==
    ASSUME DocsInv, AskedInv, report.stage \in BreakdownStages
    PROVE  /\ AggregateRows(report) = Rows
           /\ IsFiniteSet(Rows) /\ Cardinality(Rows) \in Nat
           /\ \A d \in Rows : d \in docs /\ Origin(d)
           /\ report.scope # Platform => Rows \in SUBSET Own(report.scope)
           /\ Rows \in SUBSET InScope(report)
           /\ Cardinality(InScope(report)) <= MaxRows => Rows = InScope(report)
<1>1. PICK keys, since, scope : keys = report.keys /\ since = report.since /\ scope = report.scope
  OBVIOUS
<1>2. /\ keys = Null \/ keys \in SUBSET Keys
      /\ scope # Platform => keys \in SUBSET {k \in Keys : TenantOf[k] = scope}
  BY <1>1 DEF AskedInv
<1>3. Rows = RowsOf(keys, since) /\ AggregateRows(report) = RowsOf(keys, since)
      /\ InScope(report) = Scoped(keys, since)
  BY <1>1, ScopeIsWindow DEF Rows, RowsOf, AggregateRows
<1>4. /\ RowsOf(keys, since) \in SUBSET Scoped(keys, since)
      /\ IsFiniteSet(RowsOf(keys, since)) /\ Cardinality(RowsOf(keys, since)) \in Nat
      /\ Cardinality(Scoped(keys, since)) <= MaxRows => RowsOf(keys, since) = Scoped(keys, since)
  BY <1>2, RowsAre
<1>5. \A d \in Scoped(keys, since) : d \in docs /\ Origin(d)
  BY <1>2, ScopedFinite
<1>6. scope # Platform => Scoped(keys, since) \in SUBSET Own(scope)
  BY <1>2, RowsAreOwn
<1>7. QED
  BY <1>1, <1>3, <1>4, <1>5, <1>6

LEMMA BreakdownGrouped ==
    ASSUME DocsInv, BreakdownInv, AskGroups
    PROVE  BreakdownInv'
<1>1. PICK g \in Groups(AggregateRows(report), report.by) :
         report' = Update(report, [stage |-> "trend", groups |-> g])
  BY DEF AskGroups
<1>2. report.stage = "groups" /\ UNCHANGED world /\ AskedInv
  BY DEF AskGroups, BreakdownInv
<1>3. /\ report'.stage = "trend" /\ report'.scope = report.scope /\ report'.by = report.by
      /\ AskedInv' /\ Rows' = Rows
      /\ \A t : Own(t)' = Own(t)
  <2>1. PICK fields : fields = [stage |-> "trend", groups |-> g]
    OBVIOUS
  <2>2. /\ \A f \in AskedFields \ {"stage"} : f \notin DOMAIN fields
        /\ "stage" \in DOMAIN fields
        /\ fields.stage = "trend" /\ fields.stage \in BreakdownStages
        /\ report.stage \in BreakdownStages /\ report' = Update(report, fields)
    BY <1>1, <1>2, <2>1 DEF AskedFields, BreakdownStages
  <2>3. QED
    BY <1>2, <2>1, <2>2, BreakdownFields
<1>4. "groups" \in DOMAIN report' /\ report'.groups = g
  BY <1>1 DEF Update
<1>5. /\ AggregateRows(report) = Rows /\ IsFiniteSet(Rows)
      /\ report.scope # Platform => Rows \in SUBSET Own(report.scope)
  BY <1>2, RowsOfReport DEF BreakdownStages
<1>6. PICK R, by, scope : R = Rows /\ by = report.by /\ scope = report.scope
  OBVIOUS
<1>7. /\ DOMAIN g \subseteq {GroupOf(d, by) : d \in R}
      /\ CallsIn(g) \in Nat /\ CallsIn(g) <= Cardinality(R)
  BY <1>5, <1>6, GroupsCount
<1>8. scope # Platform => DOMAIN g \subseteq NamesOf(scope, by)
  BY <1>5, <1>6, <1>7 DEF NamesOf
<1>9. NamesOf(report.scope, report.by)' = NamesOf(scope, by)
  BY <1>3, <1>6 DEF NamesOf
<1>10. GroupsInv'
  BY <1>3, <1>4, <1>6, <1>7, <1>8, <1>9 DEF GroupsInv
<1>11. QED
  BY <1>3, <1>10 DEF BreakdownInv, TrendInv, TotalsInv

LEMMA BreakdownCharted ==
    ASSUME DocsInv, PastInv, BreakdownInv, AskTrend
    PROVE  BreakdownInv'
<1>1. report' = Update(report, [stage |-> "totals", trendAt |-> now,
                                trend |-> Trend(AggregateRows(report), report.hours)])
  BY DEF AskTrend
<1>2. report.stage = "trend" /\ UNCHANGED world /\ AskedInv
  BY DEF AskTrend, BreakdownInv
<1>3. PICK h, R, r : h = report.hours /\ R = Rows /\ r = Trend(R, h)
  OBVIOUS
<1>4. /\ AggregateRows(report) = R /\ IsFiniteSet(R)
      /\ \A d \in R : d \in docs /\ Origin(d)
      /\ Cardinality(InScope(report)) <= MaxRows => R = InScope(report)
      /\ h \in Nat \ {0} /\ now \in Int
  BY <1>2, <1>3, RowsOfReport DEF BreakdownStages, AskedInv, DocsInv
<1>5. /\ report'.stage = "totals" /\ report'.quiet = report.quiet
      /\ report'.scope = report.scope /\ report'.by = report.by /\ report'.hours = h
      /\ DOMAIN report' = DOMAIN report \cup {"stage", "trendAt", "trend"}
      /\ \A f \in DOMAIN report \ {"stage", "trendAt", "trend"} : report'[f] = report[f]
      /\ AskedInv' /\ Rows' = R /\ InScope(report)' = InScope(report)
      /\ \A t : Own(t)' = Own(t)
  <2>1. PICK fields : fields = [stage |-> "totals", trendAt |-> now, trend |-> r]
    OBVIOUS
  <2>2. /\ \A f \in AskedFields \ {"stage"} : f \notin DOMAIN fields
        /\ "stage" \in DOMAIN fields /\ DOMAIN fields = {"stage", "trendAt", "trend"}
        /\ fields.stage = "totals" /\ fields.stage \in BreakdownStages
        /\ report.stage \in BreakdownStages /\ report' = Update(report, fields)
    BY <1>1, <1>2, <1>3, <1>4, <2>1 DEF AskedFields, BreakdownStages
  <2>3. /\ report'.stage = fields.stage
        /\ DOMAIN report' = DOMAIN report \cup DOMAIN fields
        /\ \A f \in DOMAIN report \ DOMAIN fields : report'[f] = report[f]
        /\ report'.scope = report.scope /\ report'.by = report.by
        /\ report'.quiet = report.quiet /\ report'.hours = report.hours
        /\ AskedInv' /\ Rows' = Rows /\ InScope(report)' = InScope(report)
        /\ \A o : Own(o)' = Own(o)
    BY <1>2, <2>2, BreakdownFields
  <2>4. QED
    BY <1>3, <2>2, <2>3
<1>6. report'.trend = r /\ report'.trendAt = now
  BY <1>1, <1>3, <1>4 DEF Update
<1>7. CallsIn(r) = Cardinality({d \in R : StartOf(d.ts, StepOf(h)) \in Slots(h)})
  BY <1>3, <1>4, TrendCount
<1>8. {d \in R : StartOf(d.ts, StepOf(h)) \in Slots(h)} \in SUBSET R
  OBVIOUS
<1>9. CallsIn(r) \in Nat /\ CallsIn(r) <= Cardinality(R)
  BY <1>4, <1>7, <1>8, FS_Subset, FS_CardinalityType
<1>10. ASSUME Cardinality(InScope(report)) <= MaxRows
       PROVE  CallsIn(r) >= Cardinality(Recent')
  <2>1. R = InScope(report)
    BY <1>4, <1>10
  <2>2. Recent' = {d \in R : d.ts > now - h * HourTicks + StepOf(h)}
    BY <1>5, <1>6, <2>1 DEF Recent
  <2>3. ASSUME NEW d \in R, d.ts > now - h * HourTicks + StepOf(h)
        PROVE  StartOf(d.ts, StepOf(h)) \in Slots(h)
    <3>1. d.ts \in Int /\ d.ts <= now
      BY <1>4, OriginFields DEF PastInv
    <3>2. QED
      BY <1>4, <2>3, <3>1, SlotCovers
  <2>4. PICK few, many : few = Recent' /\ many = {d \in R : StartOf(d.ts, StepOf(h)) \in Slots(h)}
    OBVIOUS
  <2>5. few \in SUBSET many /\ many \in SUBSET R
    BY <2>2, <2>3, <2>4
  <2>6. /\ Cardinality(few) <= Cardinality(many)
        /\ Cardinality(few) \in Nat /\ Cardinality(many) \in Nat
    BY <1>4, <2>5, FS_Subset, FS_CardinalityType
  <2>7. QED
    BY <1>7, <2>4, <2>6
<1>11. GroupsInv'
  <2>1. PICK g, by, scope : g = report.groups /\ by = report.by /\ scope = report.scope
    OBVIOUS
  <2>2. /\ "groups" \in DOMAIN report /\ CallsIn(g) \in Nat /\ CallsIn(g) <= Cardinality(R)
        /\ scope # Platform => DOMAIN g \subseteq NamesOf(scope, by)
    BY <1>2, <1>3, <2>1 DEF BreakdownInv, GroupsInv, BreakdownStages
  <2>3. report'.groups = g /\ "groups" \in DOMAIN report'
    BY <1>5, <2>1, <2>2
  <2>4. NamesOf(report.scope, report.by)' = NamesOf(scope, by)
    BY <1>5, <2>1 DEF NamesOf
  <2>5. QED
    BY <1>5, <2>1, <2>2, <2>3, <2>4 DEF GroupsInv
<1>12. TrendInv'
  BY <1>5, <1>6, <1>9, <1>10 DEF TrendInv
<1>13. QED
  BY <1>5, <1>11, <1>12 DEF BreakdownInv, TotalsInv

LEMMA BreakdownCounted ==
    ASSUME DocsInv, BreakdownInv, AskTotals
    PROVE  BreakdownInv'
<1>1. report' = Update(report, [stage |-> "labels", totals |-> Aggregate(AggregateRows(report))])
  BY DEF AskTotals
<1>2. report.stage = "totals" /\ UNCHANGED world /\ AskedInv
  BY DEF AskTotals, BreakdownInv
<1>3. PICK R, t, scope, by : R = Rows /\ t = Aggregate(R) /\ scope = report.scope /\ by = report.by
  OBVIOUS
<1>4. /\ AggregateRows(report) = R /\ IsFiniteSet(R) /\ Cardinality(R) \in Nat
      /\ \A d \in R : d \in docs /\ Origin(d)
      /\ scope # Platform => R \in SUBSET Own(scope)
  BY <1>2, <1>3, RowsOfReport DEF BreakdownStages
<1>5. /\ report'.stage = "labels" /\ report'.quiet = report.quiet /\ report'.hours = report.hours
      /\ report'.scope = scope /\ report'.by = by
      /\ DOMAIN report' = DOMAIN report \cup {"stage", "totals"}
      /\ \A f \in DOMAIN report \ {"stage", "totals"} : report'[f] = report[f]
      /\ AskedInv' /\ Rows' = R /\ InScope(report)' = InScope(report)
      /\ \A o : Own(o)' = Own(o)
  <2>1. PICK fields : fields = [stage |-> "labels", totals |-> t]
    OBVIOUS
  <2>2. /\ \A f \in AskedFields \ {"stage"} : f \notin DOMAIN fields
        /\ "stage" \in DOMAIN fields /\ DOMAIN fields = {"stage", "totals"}
        /\ fields.stage = "labels" /\ fields.stage \in BreakdownStages
        /\ report.stage \in BreakdownStages /\ report' = Update(report, fields)
    BY <1>1, <1>2, <1>3, <1>4, <2>1 DEF AskedFields, BreakdownStages
  <2>3. /\ report'.stage = fields.stage
        /\ DOMAIN report' = DOMAIN report \cup DOMAIN fields
        /\ \A f \in DOMAIN report \ DOMAIN fields : report'[f] = report[f]
        /\ report'.scope = report.scope /\ report'.by = report.by
        /\ report'.quiet = report.quiet /\ report'.hours = report.hours
        /\ AskedInv' /\ Rows' = Rows /\ InScope(report)' = InScope(report)
        /\ \A o : Own(o)' = Own(o)
    BY <1>2, <2>2, BreakdownFields
  <2>4. QED
    BY <1>3, <2>2, <2>3
<1>6. "totals" \in DOMAIN report' /\ report'.totals = t
  BY <1>1, <1>3, <1>4 DEF Update
<1>7. t.calls = Cardinality(R) /\ t.cost = CostOf(R)
  BY <1>3 DEF Aggregate, CostOf
<1>8. CostOf(R) \in Nat
  BY <1>4, CostSums
<1>9. ASSUME scope # Platform
      PROVE  Cardinality(R) <= Cardinality(Own(scope)) /\ CostOf(R) <= CostOf(Own(scope))
  <2>1. IsFiniteSet(Own(scope)) /\ \A d \in Own(scope) : Origin(d)
    <3>1. Own(scope) \in SUBSET docs
      BY DEF Own
    <3>2. QED
      BY <3>1, FS_Subset DEF DocsInv
  <2>2. QED
    BY <1>4, <1>9, <2>1, FS_Subset, CostSums
<1>10. PICK g, r : g = report.groups /\ r = report.trend
  OBVIOUS
<1>11. /\ {"groups", "trend", "trendAt"} \subseteq DOMAIN report
       /\ CallsIn(g) \in Nat /\ CallsIn(g) <= Cardinality(R)
       /\ scope # Platform => DOMAIN g \subseteq NamesOf(scope, by)
       /\ CallsIn(r) \in Nat /\ CallsIn(r) <= Cardinality(R)
       /\ (report.quiet /\ Cardinality(InScope(report)) <= MaxRows) =>
             CallsIn(r) >= Cardinality(Recent)
  BY <1>2, <1>3, <1>10 DEF BreakdownInv, GroupsInv, TrendInv, BreakdownStages
<1>12. /\ report'.groups = g /\ report'.trend = r /\ report'.trendAt = report.trendAt
       /\ {"groups", "trend", "trendAt"} \subseteq DOMAIN report'
  BY <1>5, <1>10, <1>11
<1>13. Recent' = Recent
  BY <1>5, <1>12 DEF Recent
<1>14. NamesOf(report.scope, report.by)' = NamesOf(scope, by)
  BY <1>3, <1>5 DEF NamesOf
<1>15. Own(report.scope)' = Own(scope)
  BY <1>3, <1>5
<1>16. GroupsInv'
  BY <1>5, <1>11, <1>12, <1>14 DEF GroupsInv
<1>17. TrendInv'
  BY <1>5, <1>11, <1>12, <1>13 DEF TrendInv
<1>18. TotalsInv'
  BY <1>3, <1>4, <1>5, <1>6, <1>7, <1>8, <1>9, <1>11, <1>12, <1>15 DEF TotalsInv
<1>19. QED
  BY <1>5, <1>16, <1>17, <1>18 DEF BreakdownInv

LEMMA BreakdownLabelled ==
    ASSUME DocsInv, BreakdownInv, AskLabels
    PROVE  BreakdownInv'
<1>1. PICK known : report' = Update(report, [stage |-> "breakdown", labelled |-> known])
  BY DEF AskLabels
<1>2. report.stage = "labels" /\ UNCHANGED world /\ AskedInv
  BY DEF AskLabels, BreakdownInv
<1>3. PICK R, scope, by : R = Rows /\ scope = report.scope /\ by = report.by
  OBVIOUS
<1>4. /\ report'.stage = "breakdown" /\ report'.quiet = report.quiet
      /\ report'.scope = scope /\ report'.by = by /\ report'.hours = report.hours
      /\ DOMAIN report' = DOMAIN report \cup {"stage", "labelled"}
      /\ \A f \in DOMAIN report \ {"stage", "labelled"} : report'[f] = report[f]
      /\ AskedInv' /\ Rows' = R /\ InScope(report)' = InScope(report)
      /\ \A o : Own(o)' = Own(o)
  <2>1. PICK fields : fields = [stage |-> "breakdown", labelled |-> known]
    OBVIOUS
  <2>2. /\ \A f \in AskedFields \ {"stage"} : f \notin DOMAIN fields
        /\ "stage" \in DOMAIN fields /\ DOMAIN fields = {"stage", "labelled"}
        /\ fields.stage = "breakdown" /\ fields.stage \in BreakdownStages
        /\ report.stage \in BreakdownStages /\ report' = Update(report, fields)
    BY <1>1, <1>2, <2>1 DEF AskedFields, BreakdownStages
  <2>3. /\ report'.stage = fields.stage
        /\ DOMAIN report' = DOMAIN report \cup DOMAIN fields
        /\ \A f \in DOMAIN report \ DOMAIN fields : report'[f] = report[f]
        /\ report'.scope = report.scope /\ report'.by = report.by
        /\ report'.quiet = report.quiet /\ report'.hours = report.hours
        /\ AskedInv' /\ Rows' = Rows /\ InScope(report)' = InScope(report)
        /\ \A o : Own(o)' = Own(o)
    BY <1>2, <2>2, BreakdownFields
  <2>4. QED
    BY <1>3, <2>2, <2>3
<1>5. PICK g, r, t : g = report.groups /\ r = report.trend /\ t = report.totals
  OBVIOUS
<1>6. /\ {"groups", "trend", "trendAt", "totals"} \subseteq DOMAIN report
      /\ CallsIn(g) \in Nat
      /\ scope # Platform => DOMAIN g \subseteq NamesOf(scope, by)
      /\ CallsIn(r) \in Nat
      /\ (report.quiet /\ Cardinality(InScope(report)) <= MaxRows) =>
            CallsIn(r) >= Cardinality(Recent)
      /\ t.calls \in Nat /\ t.cost \in Nat
      /\ t.calls >= CallsIn(g) /\ t.calls >= CallsIn(r)
      /\ report.quiet => t = Aggregate(R)
      /\ scope # Platform => t.calls <= Cardinality(Own(scope)) /\ t.cost <= CostOf(Own(scope))
  BY <1>2, <1>3, <1>5 DEF BreakdownInv, GroupsInv, TrendInv, TotalsInv, BreakdownStages
<1>7. /\ report'.groups = g /\ report'.trend = r /\ report'.trendAt = report.trendAt
      /\ report'.totals = t
      /\ {"groups", "trend", "trendAt", "totals", "labelled"} \subseteq DOMAIN report'
  BY <1>4, <1>5, <1>6
<1>8. Recent' = Recent
  BY <1>4, <1>7 DEF Recent
<1>9. NamesOf(report.scope, report.by)' = NamesOf(scope, by)
  BY <1>3, <1>4 DEF NamesOf
<1>10. Own(report.scope)' = Own(scope)
  BY <1>3, <1>4
<1>11. GroupsInv'
  BY <1>4, <1>6, <1>7, <1>9 DEF GroupsInv
<1>12. TrendInv'
  BY <1>4, <1>6, <1>7, <1>8 DEF TrendInv
<1>13. TotalsInv'
  BY <1>3, <1>4, <1>6, <1>7, <1>10 DEF TotalsInv
<1>14. QED
  BY <1>4, <1>11, <1>12, <1>13 DEF BreakdownInv

LEMMA BreakdownInvNext ==
    ASSUME DocsInv, DocsInv', PagerTypes, PastInv, BreakdownInv, [Next]_vars
    PROVE  BreakdownInv'
<1>1. "stage" \in DOMAIN report
  BY DEF PagerTypes
<1>2. CASE World \/ UNCHANGED vars
  BY <1>1, <1>2, BreakdownKept
<1>3. CASE MakesBreakdown
  BY <1>3, BreakdownAsked, BreakdownGrouped, BreakdownCharted, BreakdownCounted,
     BreakdownLabelled DEF MakesBreakdown
<1>4. ASSUME report'.stage \notin BreakdownStages PROVE BreakdownInv'
  BY <1>4 DEF BreakdownInv, AskedInv, GroupsInv, TrendInv, TotalsInv, BreakdownStages
<1>5. CASE MakesSummary \/ ReadsTelemetry \/ Leave
  <2>1. LeadsTo(SummaryStages) \/ LeadsTo(TelemetryStages) \/ LeadsTo({"idle"})
    BY <1>1, <1>5, SummaryLeadsTo, TelemetryLeadsTo, LeaveLeadsTo
  <2>2. QED
    BY <1>4, <2>1 DEF LeadsTo, SummaryStages, TelemetryStages, BreakdownStages
<1>6. CASE ReadsLog
  <2>1. report'.stage \in LogStages
    BY <1>6, LogLeadsTo DEF LeadsTo
  <2>2. QED
    BY <1>4, <2>1 DEF LogStages, BreakdownStages
<1>7. QED
  BY <1>2, <1>3, <1>5, <1>6, NextCases

(* The headline covers the groups, the chart and, when nothing was imported,
   the window; ... *)
LEMMA HeadlineCovers ==
    ASSUME DocsInv, BreakdownInv
    PROVE  HeadlineIsWhole
<1> SUFFICES ASSUME report.stage = "breakdown"
             PROVE  /\ report.totals.calls >= CallsIn(report.groups)
                    /\ report.totals.calls >= CallsIn(report.trend)
                    /\ (report.quiet /\ Cardinality(InScope(report)) <= MaxRows) =>
                          /\ report.totals.cost = TotalOf(LAMBDA d : d.cost, InScope(report))
                          /\ report.totals.billed = TotalOf(LAMBDA d : d.billed, InScope(report))
  BY DEF HeadlineIsWhole, CallsIn
<1>1. report.stage \in BreakdownStages /\ AskedInv
  BY DEF BreakdownStages, BreakdownInv
<1>2. Cardinality(InScope(report)) <= MaxRows => Rows = InScope(report)
  BY <1>1, RowsOfReport
<1>3. /\ report.totals.calls >= CallsIn(report.groups)
      /\ report.totals.calls >= CallsIn(report.trend)
      /\ report.quiet => report.totals = Aggregate(Rows)
  BY DEF BreakdownInv, TotalsInv
<1>4. ASSUME report.quiet, Cardinality(InScope(report)) <= MaxRows
      PROVE  /\ report.totals.cost = TotalOf(LAMBDA d : d.cost, InScope(report))
             /\ report.totals.billed = TotalOf(LAMBDA d : d.billed, InScope(report))
  <2>1. report.totals = Aggregate(InScope(report))
    BY <1>2, <1>3, <1>4
  <2>2. QED
    BY <2>1 DEF Aggregate
<1>5. QED
  BY <1>3, <1>4

(* ... the chart covers what is recent. *)
LEMMA ChartCovers ==
    ASSUME BreakdownInv
    PROVE  TrendCoversRecent
<1> SUFFICES ASSUME report.stage = "breakdown", report.quiet,
                    Cardinality(InScope(report)) <= MaxRows
             PROVE  CallsIn(report.trend) >= Cardinality(Recent)
  BY DEF TrendCoversRecent, CallsIn, Recent
<1>1. QED
  BY DEF BreakdownInv, TrendInv

-----------------------------------------------------------------------------
(* The summary of a tenant.                                                *)

SummaryFields == {"stage", "scope", "keys", "since", "quiet"}

SummaryInv ==
    report.stage \in SummaryStages =>
        /\ SummaryFields \subseteq DOMAIN report
        /\ report.keys \in SUBSET {k \in Keys : TenantOf[k] = report.scope}
        /\ report.stage = "summary" =>
              /\ "summary" \in DOMAIN report /\ report.summary.cost \in Nat
              /\ report.summary.cost <= CostOf(Own(report.scope))

LEMMA SummaryKept ==
    ASSUME DocsInv, DocsInv', SummaryInv, "stage" \in DOMAIN report, World \/ UNCHANGED vars
    PROVE  SummaryInv'
<1>1. /\ DOMAIN report' = DOMAIN report
      /\ \A f \in DOMAIN report \ {"quiet"} : report'[f] = report[f]
      /\ docs' = docs \/ \E c \in Calls : Import(c)
  BY WorldFrame
<1>2. report'.stage = report.stage
  BY <1>1
<1>3. CASE report.stage \notin SummaryStages
  BY <1>2, <1>3 DEF SummaryInv
<1>4. CASE report.stage \in SummaryStages
  <2>1. SummaryFields \subseteq DOMAIN report
    BY <1>4 DEF SummaryInv
  <2>2. report'.scope = report.scope /\ report'.keys = report.keys
    BY <1>1, <2>1 DEF SummaryFields
  <2>3. PICK scope : scope = report.scope
    OBVIOUS
  <2>4. /\ CostOf(Own(scope)) <= CostOf(Own(scope)')
        /\ CostOf(Own(scope)) \in Nat /\ CostOf(Own(scope)') \in Nat
    <3>1. {} = Null \/ {} \in SUBSET Keys
      OBVIOUS
    <3>2. QED
      BY <1>1, <3>1, WorldGrows, Sizes, SizesNext
  <2>5. Own(report.scope) = Own(scope) /\ Own(report.scope)' = Own(scope)'
    BY <2>2, <2>3 DEF Own
  <2>6. ASSUME report.stage = "summary"
        PROVE  /\ report'.summary = report.summary /\ report.summary.cost \in Nat
               /\ report.summary.cost <= CostOf(Own(scope)')
    <3>1. /\ "summary" \in DOMAIN report /\ report.summary.cost \in Nat
          /\ report.summary.cost <= CostOf(Own(scope))
      BY <1>4, <2>5, <2>6 DEF SummaryInv
    <3>2. QED
      BY <1>1, <2>4, <3>1
  <2>7. QED
    BY <1>1, <1>2, <1>4, <2>1, <2>2, <2>5, <2>6 DEF SummaryInv
<1>5. QED
  BY <1>3, <1>4

LEMMA SummaryAnswered ==
    ASSUME DocsInv, SummaryInv, AskRows
    PROVE  SummaryInv'
<1>1. PICK keys, since, scope : keys = report.keys /\ since = report.since /\ scope = report.scope
  OBVIOUS
<1>2. PICK R : R = Slice(Scoped(keys, since), 0, SummaryRows)
  OBVIOUS
<1>3. /\ report.stage = "rows" /\ docs' = docs
      /\ report' = Update(report, [stage |-> "summary", summary |-> Summary(R)])
  BY <1>1, <1>2 DEF AskRows, world
<1>4. SummaryFields \subseteq DOMAIN report /\ keys \in SUBSET {k \in Keys : TenantOf[k] = scope}
  BY <1>1, <1>3 DEF SummaryInv, SummaryStages
<1>5. /\ SummaryFields \cup {"summary"} \subseteq DOMAIN report'
      /\ report'.stage = "summary" /\ report'.summary = Summary(R)
      /\ report'.scope = scope /\ report'.keys = keys
  BY <1>1, <1>3, <1>4 DEF Update, SummaryFields
<1>6. R \in SUBSET Own(scope)
  BY <1>2, <1>4, RowsAreOwn DEF Slice
<1>7. Summary(R).cost = CostOf(R)
  BY DEF Summary, CostOf
<1>8. IsFiniteSet(Own(scope)) /\ \A d \in Own(scope) : Origin(d)
  <2>1. {} = Null \/ {} \in SUBSET Keys
    OBVIOUS
  <2>2. QED
    BY <2>1, Sizes
<1>9. CostOf(R) \in Nat /\ CostOf(R) <= CostOf(Own(scope))
  <2>1. IsFiniteSet(R) /\ \A d \in R : Origin(d)
    BY <1>6, <1>8, FS_Subset
  <2>2. QED
    BY <1>6, <1>8, <2>1, CostSums
<1>10. Own(report.scope)' = Own(scope)
  BY <1>3, <1>5 DEF Own
<1>11. QED
  BY <1>4, <1>5, <1>7, <1>9, <1>10 DEF SummaryInv

LEMMA SummaryInvNext ==
    ASSUME DocsInv, DocsInv', PagerTypes, SummaryInv, [Next]_vars
    PROVE  SummaryInv'
<1>1. "stage" \in DOMAIN report
  BY DEF PagerTypes
<1>2. CASE World \/ UNCHANGED vars
  BY <1>1, <1>2, SummaryKept
<1>3. ASSUME NEW scope, NEW hours, AskSummary(scope, hours) PROVE SummaryInv'
  <2>1. /\ scope # Platform
        /\ report' = [stage |-> "rows", scope |-> scope, keys |-> KeysOf(scope),
                      since |-> Since(hours), quiet |-> TRUE]
    BY <1>3 DEF AskSummary
  <2>2. QED
    BY <2>1, ScopeKeys DEF SummaryInv, SummaryFields
<1>4. CASE MakesSummary
  BY <1>3, <1>4, SummaryAnswered DEF MakesSummary
<1>5. ASSUME report'.stage \notin SummaryStages PROVE SummaryInv'
  BY <1>5 DEF SummaryInv
<1>6. CASE MakesBreakdown \/ ReadsLog \/ ReadsTelemetry \/ Leave
  <2>1. LeadsTo(BreakdownStages) \/ LeadsTo(LogStages) \/ LeadsTo(TelemetryStages)
        \/ LeadsTo({"idle"})
    BY <1>1, <1>6, BreakdownLeadsTo, LogLeadsTo, TelemetryLeadsTo, LeaveLeadsTo
  <2>2. QED
    BY <1>5, <2>1 DEF LeadsTo, SummaryStages, TelemetryStages, BreakdownStages, LogStages
<1>7. QED
  BY <1>2, <1>4, <1>6, NextCases

-----------------------------------------------------------------------------
(* The call log shows a tenant its own calls.                              *)

OwnLogInv ==
    /\ report.stage \in LogStages \ {"items"} =>
          \A i \in report.items : i.sub \in Keys /\ TenantOf[i.sub] = report.scope
    /\ report.stage = "log" => report.total <= Cardinality(Own(report.scope))

LEMMA OwnLogKept ==
    ASSUME DocsInv, DocsInv', PagerTypes, CountsInv, OwnLogInv, World \/ UNCHANGED vars
    PROVE  OwnLogInv'
<1>1. /\ DOMAIN report' = DOMAIN report
      /\ \A f \in DOMAIN report \ {"quiet"} : report'[f] = report[f]
      /\ docs' = docs \/ \E c \in Calls : Import(c)
  BY WorldFrame
<1>2. report'.stage = report.stage
  BY <1>1 DEF PagerTypes
<1>3. CASE report.stage \notin LogStages \ {"items"}
  BY <1>2, <1>3 DEF OwnLogInv, LogStages
<1>4. CASE report.stage \in LogStages \ {"items"}
  <2>1. /\ LogFields \cup {"items"} \subseteq DOMAIN report
        /\ report.stage = "log" => "total" \in DOMAIN report
    BY <1>4 DEF PagerTypes
  <2>2. /\ report'.scope = report.scope /\ report'.items = report.items
        /\ report.stage = "log" => report'.total = report.total
    BY <1>1, <2>1 DEF LogFields
  <2>3. PICK scope : scope = report.scope
    OBVIOUS
  <2>4. /\ Cardinality(Own(scope)) <= Cardinality(Own(scope)')
        /\ Cardinality(Own(scope)) \in Nat /\ Cardinality(Own(scope)') \in Nat
    <3>1. {} = Null \/ {} \in SUBSET Keys
      OBVIOUS
    <3>2. QED
      BY <1>1, <3>1, WorldGrows, Sizes, SizesNext
  <2>5. Own(report.scope) = Own(scope) /\ Own(report.scope)' = Own(scope)'
    BY <2>2, <2>3 DEF Own
  <2>6. ASSUME report.stage = "log" PROVE report'.total <= Cardinality(Own(scope)')
    <3>1. report.total \in Nat /\ report.total <= Cardinality(Own(scope))
      BY <2>5, <2>6 DEF OwnLogInv, CountsInv
    <3>2. QED
      BY <2>2, <2>4, <2>6, <3>1
  <2>7. QED
    BY <1>2, <1>4, <2>2, <2>5, <2>6 DEF OwnLogInv
<1>5. QED
  BY <1>3, <1>4

LEMMA OwnLogQueried ==
    ASSUME DocsInv, PagerTypes, KeysMetInv, OwnLogInv, AskItems \/ AskOwners \/ AskCount
    PROVE  OwnLogInv'
<1>1. PICK keys, since, scope, skip, size :
         /\ keys = report.keys /\ since = report.since /\ scope = report.scope
         /\ skip = (report.page - 1) * report.size /\ size = report.size
  OBVIOUS
<1>2. UNCHANGED world /\ report.stage \in LogStages /\ report'.scope = scope
  BY <1>1, QueryFields DEF PageParameters, LogFields
<1>3. keys \in SUBSET {k \in Keys : TenantOf[k] = scope}
  BY <1>1, <1>2 DEF KeysMetInv, DocsInv
<1>4. Scoped(keys, since) \in SUBSET Own(scope)
  BY <1>3, RowsAreOwn
<1>5. CASE AskItems
  <2>1. report'.stage = "owners" /\ report'.items = Slice(Scoped(keys, since), skip, size)
    BY <1>1, <1>5, QueryFields
  <2>2. report'.items \in SUBSET Own(scope)
    BY <1>4, <2>1 DEF Slice
  <2>3. QED
    BY <1>2, <2>1, <2>2 DEF OwnLogInv, Own
<1>6. CASE AskOwners
  <2>1. /\ report.stage = "owners" /\ report'.stage = "count"
        /\ report'.items = {RecordView(d, d.sub \in KeysOf(scope)) : d \in report.items}
    BY <1>1, <1>6, QueryFields
  <2>2. \A d \in report.items : d.sub \in Keys /\ TenantOf[d.sub] = scope
    BY <1>1, <2>1 DEF OwnLogInv, LogStages
  <2>3. \A d \in report.items : RecordView(d, d.sub \in KeysOf(scope)).sub = d.sub
    BY DEF RecordView
  <2>4. \A i \in report'.items : i.sub \in Keys /\ TenantOf[i.sub] = scope
    BY <2>1, <2>2, <2>3
  <2>5. QED
    BY <1>2, <2>1, <2>4 DEF OwnLogInv
<1>7. CASE AskCount
  <2>1. /\ report.stage = "count" /\ report'.stage = "log" /\ report'.items = report.items
        /\ report'.total = Cardinality(Scoped(keys, since))
    BY <1>1, <1>7, QueryFields
  <2>2. IsFiniteSet(Own(scope))
    <3>1. {} = Null \/ {} \in SUBSET Keys
      OBVIOUS
    <3>2. QED
      BY <3>1, Sizes
  <2>3. report'.total <= Cardinality(Own(scope))
    BY <1>4, <2>1, <2>2, FS_Subset
  <2>4. Own(report.scope)' = Own(scope)
    BY <1>2 DEF Own, world
  <2>5. QED
    BY <1>1, <1>2, <2>1, <2>3, <2>4 DEF OwnLogInv, LogStages
<1>8. QED
  BY <1>5, <1>6, <1>7

LEMMA OwnLogInvNext ==
    ASSUME DocsInv, DocsInv', PagerTypes, CountsInv, KeysMetInv, OwnLogInv, [Next]_vars
    PROVE  OwnLogInv'
<1>1. "stage" \in DOMAIN report
  BY DEF PagerTypes
<1>2. CASE World \/ UNCHANGED vars
  BY <1>2, OwnLogKept
<1>3. ASSUME NewPage PROVE OwnLogInv'
  BY <1>3 DEF NewPage, OwnLogInv
<1>4. CASE ReadsLog
  BY <1>3, <1>4, AskPageFields, TurnPageFields, OwnLogQueried DEF ReadsLog
<1>5. ASSUME report'.stage \notin LogStages PROVE OwnLogInv'
  BY <1>5 DEF OwnLogInv, LogStages
<1>6. CASE MakesBreakdown \/ MakesSummary \/ ReadsTelemetry \/ Leave
  <2>1. LeadsTo(BreakdownStages) \/ LeadsTo(SummaryStages) \/ LeadsTo(TelemetryStages)
        \/ LeadsTo({"idle"})
    BY <1>1, <1>6, BreakdownLeadsTo, SummaryLeadsTo, TelemetryLeadsTo, LeaveLeadsTo
  <2>2. QED
    BY <1>5, <2>1 DEF LeadsTo, SummaryStages, TelemetryStages, BreakdownStages, LogStages
<1>7. QED
  BY <1>2, <1>4, <1>6, NextCases

(* What a tenant is shown is its own. *)
LEMMA ShownIsOwn ==
    ASSUME BreakdownInv, SummaryInv, OwnLogInv
    PROVE  TenantIsolation
<1> SUFFICES ASSUME report.stage \in {"breakdown", "summary", "log"}, report.scope # Platform
             PROVE  /\ report.stage = "breakdown" =>
                          /\ DOMAIN report.groups \subseteq NamesOf(report.scope, report.by)
                          /\ report.totals.calls <= Cardinality(Own(report.scope))
                          /\ report.totals.cost <= CostOf(Own(report.scope))
                    /\ report.stage = "summary" => report.summary.cost <= CostOf(Own(report.scope))
                    /\ report.stage = "log" =>
                          /\ \A i \in report.items :
                                i.sub \in Keys /\ TenantOf[i.sub] = report.scope
                          /\ report.total <= Cardinality(Own(report.scope))
  BY DEF TenantIsolation, Own, NamesOf, CostOf
<1>1. report.stage = "breakdown" =>
         /\ DOMAIN report.groups \subseteq NamesOf(report.scope, report.by)
         /\ report.totals.calls <= Cardinality(Own(report.scope))
         /\ report.totals.cost <= CostOf(Own(report.scope))
  BY DEF BreakdownInv, GroupsInv, TotalsInv, BreakdownStages
<1>2. report.stage = "summary" => report.summary.cost <= CostOf(Own(report.scope))
  BY DEF SummaryInv, SummaryStages
<1>3. report.stage = "log" =>
         /\ \A i \in report.items : i.sub \in Keys /\ TenantOf[i.sub] = report.scope
         /\ report.total <= Cardinality(Own(report.scope))
  BY DEF OwnLogInv, LogStages
<1>4. QED
  BY <1>1, <1>2, <1>3

-----------------------------------------------------------------------------
(* Gateway telemetry.                                                      *)

(* What App Insights has for a window that ends at t, and the columns of the
   tables made from it. *)
TrafficAt(hours, t) == {c \in Calls : c.at \in (t - hours * HourTicks)..t}

FailuresIn(f) == SumOver(LAMBDA b : b.failures, f)

CountIn(f) == SumOver(LAMBDA n : n, f)

Failing(f) == {s \in DOMAIN f : s # Null /\ s >= 400}

TelemetryInv ==
    /\ report.stage \in TelemetryStages => "quiet" \notin DOMAIN report
    /\ report.stage \in {"base", "split", "codes", "series"} => "hours" \in DOMAIN report
    /\ report.stage \in {"split", "codes", "series"} =>
          /\ {"basedAt", "byApi"} \subseteq DOMAIN report /\ report.basedAt \in Start..MaxTime
          /\ \A a \in DOMAIN report.byApi : {"calls", "failures"} \subseteq DOMAIN report.byApi[a]
          /\ CallsIn(report.byApi) = Cardinality(TrafficAt(report.hours, report.basedAt))
          /\ FailuresIn(report.byApi)
                = Cardinality(Rejected(TrafficAt(report.hours, report.basedAt)))
    /\ report.stage = "series" =>
          /\ {"codesAt", "byStatus"} \subseteq DOMAIN report
          /\ report.codesAt # Null =>
                LET traffic == TrafficAt(report.hours, report.codesAt)
                IN  /\ CountIn(report.byStatus) = Cardinality(traffic)
                    /\ SumFunctionOnSet(report.byStatus, Failing(report.byStatus))
                         = Cardinality(Rejected(traffic))
    /\ report.stage = "telemetry" =>
          /\ report.calls \in Nat
          /\ report.ok + report.failures = report.calls /\ report.ok >= 0
          /\ report.calls = CallsIn(report.byApi)
          /\ ("codesAt" \in DOMAIN report /\ report.codesAt = report.basedAt) =>
                /\ report.calls = CountIn(report.byStatus)
                /\ report.failures = SumFunctionOnSet(report.byStatus, Failing(report.byStatus))

(* At the end the totals add up. *)
LEMMA TotalsAddUp ==
    ASSUME TelemetryInv
    PROVE  TelemetryAddsUp
<1> SUFFICES ASSUME report.stage = "telemetry" PROVE TelemetryAddsUp
  BY DEF TelemetryAddsUp
<1>1. QED
  BY DEF TelemetryInv, TelemetryAddsUp, CallsIn, CountIn, Failing

(* There is finitely much traffic up to any time. *)
LEMMA TrafficFinite ==
    ASSUME NEW hours, NEW t \in Start..MaxTime
    PROVE  /\ IsFiniteSet(TrafficAt(hours, t)) /\ IsFiniteSet(Rejected(TrafficAt(hours, t)))
           /\ Cardinality(TrafficAt(hours, t)) \in Nat
           /\ Cardinality(Rejected(TrafficAt(hours, t))) \in Nat
           /\ Cardinality(Rejected(TrafficAt(hours, t))) <= Cardinality(TrafficAt(hours, t))
<1>1. TrafficAt(hours, t) \in SUBSET {c \in Calls : c.at <= t}
  BY DEF TrafficAt
<1>2. IsFiniteSet(TrafficAt(hours, t))
  BY <1>1, FS_Subset DEF CallsAssumption
<1>3. Rejected(TrafficAt(hours, t)) \in SUBSET TrafficAt(hours, t)
  BY DEF Rejected
<1>4. QED
  BY <1>2, <1>3, FS_Subset, FS_CardinalityType

(* The table of the APIs counts every request once, ... *)
ApiTable(rows) ==
    [a \in {c.api : c \in rows} |->
        [calls |-> Cardinality({c \in rows : c.api = a}),
         failures |-> Cardinality(Rejected({c \in rows : c.api = a})),
         split |-> FALSE]]

LEMMA ApiTableCounts ==
    ASSUME NEW rows, IsFiniteSet(rows)
    PROVE  /\ CallsIn(ApiTable(rows)) = Cardinality(rows)
           /\ FailuresIn(ApiTable(rows)) = Cardinality(Rejected(rows))
<1> DEFINE apis == {c.api : c \in rows}
           key == [c \in rows |-> c.api]
           calls == [a \in apis |-> Cardinality({c \in rows : c.api = a})]
           failures == [a \in apis |-> Cardinality(Rejected({c \in rows : c.api = a}))]
<1>1. IsFiniteSet(apis)
  <2>1. apis = Range(key) /\ DOMAIN key = rows
    BY DEF Range
  <2> HIDE DEF key, apis
  <2>2. QED
    BY <2>1, RangeFinite
<1>2. /\ CallsIn(ApiTable(rows)) = SumFunctionOnSet(calls, apis)
      /\ FailuresIn(ApiTable(rows)) = SumFunctionOnSet(failures, apis)
  <2>1. DOMAIN ApiTable(rows) = apis
    BY DEF ApiTable
  <2>2. /\ [a \in apis |-> ApiTable(rows)[a].calls] = calls
        /\ [a \in apis |-> ApiTable(rows)[a].failures] = failures
    BY DEF ApiTable
  <2>3. /\ CallsIn(ApiTable(rows)) =
              SumFunctionOnSet([a \in DOMAIN ApiTable(rows) |-> ApiTable(rows)[a].calls],
                               DOMAIN ApiTable(rows))
        /\ FailuresIn(ApiTable(rows)) =
              SumFunctionOnSet([a \in DOMAIN ApiTable(rows) |-> ApiTable(rows)[a].failures],
                               DOMAIN ApiTable(rows))
    BY DEF CallsIn, FailuresIn, SumOver, SumFunction
  <2> HIDE DEF apis, calls, failures
  <2>4. QED
    BY <2>1, <2>2, <2>3
<1>3. /\ \A a \in apis : calls[a] = Cardinality(Keyed(rows, key, a))
      /\ KeyedIn(rows, key, apis) = rows
  <2>1. ASSUME NEW a \in apis PROVE calls[a] = Cardinality(Keyed(rows, key, a))
    <3>1. {c \in rows : c.api = a} = Keyed(rows, key, a)
      BY DEF Keyed, KeyedIn
    <3>2. calls[a] = Cardinality({c \in rows : c.api = a})
      OBVIOUS
    <3>3. QED
      BY <3>1, <3>2
  <2>2. KeyedIn(rows, key, apis) = rows
    BY DEF KeyedIn
  <2>3. QED
    BY <2>1, <2>2
<1>4. /\ \A a \in apis : failures[a] = Cardinality(Keyed(Rejected(rows), key, a))
      /\ KeyedIn(Rejected(rows), key, apis) = Rejected(rows)
  <2>1. ASSUME NEW a \in apis PROVE failures[a] = Cardinality(Keyed(Rejected(rows), key, a))
    <3>1. Rejected({c \in rows : c.api = a}) = Keyed(Rejected(rows), key, a)
      BY DEF Keyed, KeyedIn, Rejected
    <3>2. failures[a] = Cardinality(Rejected({c \in rows : c.api = a}))
      OBVIOUS
    <3>3. QED
      BY <3>1, <3>2
  <2>2. KeyedIn(Rejected(rows), key, apis) = Rejected(rows)
    BY DEF KeyedIn, Rejected
  <2>3. QED
    BY <2>1, <2>2
<1>5. IsFiniteSet(Rejected(rows))
  BY FS_Subset DEF Rejected
<1> HIDE DEF apis, key, calls, failures
<1>6. SumFunctionOnSet(calls, apis) = Cardinality(KeyedIn(rows, key, apis))
  BY <1>1, <1>3, SumOfGroups
<1>7. SumFunctionOnSet(failures, apis) = Cardinality(KeyedIn(Rejected(rows), key, apis))
  BY <1>1, <1>4, <1>5, SumOfGroups
<1>8. QED
  BY <1>2, <1>3, <1>4, <1>6, <1>7

(* ... and so does the table of the result codes. *)
CodeTable(rows) ==
    [s \in {c.status : c \in rows} |-> Cardinality({c \in rows : c.status = s})]

LEMMA CodeTableCounts ==
    ASSUME NEW rows, IsFiniteSet(rows)
    PROVE  /\ CountIn(CodeTable(rows)) = Cardinality(rows)
           /\ SumFunctionOnSet(CodeTable(rows), Failing(CodeTable(rows)))
                 = Cardinality(Rejected(rows))
<1> DEFINE codes == {c.status : c \in rows}
           key == [c \in rows |-> c.status]
           table == CodeTable(rows)
           failing == Failing(table)
<1>1. IsFiniteSet(codes)
  <2>1. codes = Range(key) /\ DOMAIN key = rows
    BY DEF Range
  <2> HIDE DEF key, codes
  <2>2. QED
    BY <2>1, RangeFinite
<1>2. DOMAIN table = codes /\ table = [s \in codes |-> table[s]]
  BY DEF CodeTable
<1>3. CountIn(table) = SumFunctionOnSet(table, codes)
  <2>1. CountIn(table) = SumFunctionOnSet([s \in DOMAIN table |-> table[s]], DOMAIN table)
    BY DEF CountIn, SumOver, SumFunction
  <2> HIDE DEF table, codes
  <2>2. QED
    BY <1>2, <2>1
<1>4. ASSUME NEW s \in codes PROVE table[s] = Cardinality(Keyed(rows, key, s))
  <2>1. {c \in rows : c.status = s} = Keyed(rows, key, s)
    BY DEF Keyed, KeyedIn
  <2>2. table[s] = Cardinality({c \in rows : c.status = s})
    BY DEF CodeTable
  <2>3. QED
    BY <2>1, <2>2
<1>5. KeyedIn(rows, key, codes) = rows
  BY DEF KeyedIn
<1>6. failing \in SUBSET codes /\ KeyedIn(rows, key, failing) = Rejected(rows)
  <2>1. failing = {s \in codes : s # Null /\ s >= 400}
    BY <1>2 DEF Failing
  <2>2. KeyedIn(rows, key, {s \in codes : s # Null /\ s >= 400}) = Rejected(rows)
    BY DEF KeyedIn, Rejected
  <2>3. QED
    BY <2>1, <2>2
<1> HIDE DEF codes, key, table, failing
<1>7. IsFiniteSet(failing) /\ \A s \in failing : table[s] = Cardinality(Keyed(rows, key, s))
  BY <1>1, <1>4, <1>6, FS_Subset
<1>8. SumFunctionOnSet(table, codes) = Cardinality(KeyedIn(rows, key, codes))
  BY <1>1, <1>4, SumOfGroups
<1>9. SumFunctionOnSet(table, failing) = Cardinality(KeyedIn(rows, key, failing))
  BY <1>7, SumOfGroups
<1>10. /\ CountIn(table) = Cardinality(rows)
       /\ SumFunctionOnSet(table, failing) = Cardinality(Rejected(rows))
  BY <1>3, <1>5, <1>6, <1>8, <1>9
<1>11. QED
  BY <1>10 DEF table, failing

(* The base query: the table of the APIs, or an empty report. *)
LEMMA TelemetryBased ==
    ASSUME PastInv, TelemetryInv, AskBase
    PROVE  TelemetryInv'
<1>1. PICK hours, t : hours = report.hours /\ t = now
  OBVIOUS
<1>2. t \in Start..MaxTime /\ Traffic(report.hours) = TrafficAt(hours, t)
  BY <1>1 DEF PastInv, Traffic, TrafficAt
<1>3. PICK rows \in Kql(Traffic(report.hours)) :
         IF rows = {} THEN report' = NoTelemetry
         ELSE report' = [stage |-> "split", hours |-> report.hours, basedAt |-> now,
                         byApi |-> ApiTable(rows)]
  BY DEF AskBase, ApiTable
<1>4. CASE rows = {}
  <2>1. /\ report'.stage = "telemetry" /\ DOMAIN report' = {"stage", "byApi", "byStatus", "series",
                                                            "calls", "ok", "failures"}
        /\ report'.calls = 0 /\ report'.ok = 0 /\ report'.failures = 0
        /\ report'.byApi = <<>>
    BY <1>3, <1>4 DEF NoTelemetry
  <2>2. CallsIn(<<>>) = 0
    <3>1. DOMAIN <<>> = {}
      OBVIOUS
    <3>2. CallsIn(<<>>) = SumFunctionOnSet([x \in {} |-> <<>>[x].calls], {})
      BY <3>1, CallsUnfold
    <3>3. QED
      BY <3>2, SumOfNothing
  <2>3. /\ report'.calls = CallsIn(report'.byApi)
        /\ report'.ok + report'.failures = report'.calls /\ report'.ok >= 0
        /\ report'.calls \in Nat
        /\ "codesAt" \notin DOMAIN report' /\ "quiet" \notin DOMAIN report'
    BY <2>1, <2>2
  <2>4. QED
    BY <2>1, <2>3 DEF TelemetryInv
<1>5. CASE rows # {}
  <2>1. report' = [stage |-> "split", hours |-> hours, basedAt |-> t, byApi |-> ApiTable(rows)]
        /\ rows = TrafficAt(hours, t)
    BY <1>1, <1>2, <1>3, <1>5 DEF Kql
  <2>2. /\ CallsIn(ApiTable(rows)) = Cardinality(rows)
        /\ FailuresIn(ApiTable(rows)) = Cardinality(Rejected(rows))
    BY <1>2, <2>1, TrafficFinite, ApiTableCounts
  <2>3. \A a \in DOMAIN ApiTable(rows) : {"calls", "failures"} \subseteq DOMAIN ApiTable(rows)[a]
    BY DEF ApiTable
  <2>4. PICK table : table = ApiTable(rows)
    OBVIOUS
  <2>5. /\ report'.stage = "split" /\ DOMAIN report' = {"stage", "hours", "basedAt", "byApi"}
        /\ report'.hours = hours /\ report'.basedAt = t /\ report'.byApi = table
    BY <2>1, <2>4
  <2>6. /\ TrafficAt(report.hours, report.basedAt)' = TrafficAt(hours, t)
        /\ Rejected(TrafficAt(report.hours, report.basedAt))' = Rejected(TrafficAt(hours, t))
    BY <2>5
  <2>7. CallsIn(report.byApi)' = CallsIn(table) /\ FailuresIn(report.byApi)' = FailuresIn(table)
    BY <2>5
  <2>8. QED
    BY <1>2, <2>1, <2>2, <2>3, <2>4, <2>5, <2>6, <2>7 DEF TelemetryInv
<1>6. QED
  BY <1>4, <1>5

(* The table of the APIs, as long as it is kept. *)
ApiInv(hours, t, table) ==
    /\ t \in Start..MaxTime
    /\ \A a \in DOMAIN table : {"calls", "failures"} \subseteq DOMAIN table[a]
    /\ CallsIn(table) = Cardinality(TrafficAt(hours, t))
    /\ FailuresIn(table) = Cardinality(Rejected(TrafficAt(hours, t)))

LEMMA ApiInvGiven ==
    ASSUME TelemetryInv, report.stage \in {"split", "codes", "series"}
    PROVE  /\ {"hours", "basedAt", "byApi"} \subseteq DOMAIN report /\ "quiet" \notin DOMAIN report
           /\ ApiInv(report.hours, report.basedAt, report.byApi)
<1>1. {"hours", "basedAt", "byApi"} \subseteq DOMAIN report /\ "quiet" \notin DOMAIN report
  BY DEF TelemetryInv, TelemetryStages
<1>2. ApiInv(report.hours, report.basedAt, report.byApi)
  BY DEF TelemetryInv, ApiInv
<1>3. QED
  BY <1>1, <1>2

LEMMA ApiInvTaken ==
    ASSUME NEW hours, NEW t, NEW table, ApiInv(hours, t, table),
           report'.stage = "codes",
           {"hours", "basedAt", "byApi"} \subseteq DOMAIN report', "quiet" \notin DOMAIN report',
           report'.hours = hours, report'.basedAt = t, report'.byApi = table
    PROVE  TelemetryInv'
<1>1. /\ TrafficAt(report.hours, report.basedAt)' = TrafficAt(hours, t)
      /\ Rejected(TrafficAt(report.hours, report.basedAt))' = Rejected(TrafficAt(hours, t))
      /\ CallsIn(report.byApi)' = CallsIn(table) /\ FailuresIn(report.byApi)' = FailuresIn(table)
  OBVIOUS
<1>2. QED
  BY <1>1 DEF TelemetryInv, ApiInv

LEMMA TelemetrySplit ==
    ASSUME "stage" \in DOMAIN report, TelemetryInv, AskSplit
    PROVE  TelemetryInv'
<1>1. PICK rows : report' = [report EXCEPT !.stage = "codes",
                                !.byApi = [a \in DOMAIN @ |->
                                    [@[a] EXCEPT !.split = \E c \in rows : c.api = a]]]
  BY DEF AskSplit
<1>2. PICK hours, t, table : hours = report.hours /\ t = report.basedAt /\ table = report.byApi
  OBVIOUS
<1>3. PICK split : split = [a \in DOMAIN table |->
                               [table[a] EXCEPT !.split = \E c \in rows : c.api = a]]
  OBVIOUS
<1>4. /\ {"hours", "basedAt", "byApi"} \subseteq DOMAIN report /\ "quiet" \notin DOMAIN report
      /\ ApiInv(hours, t, table)
  BY <1>2, ApiInvGiven DEF AskSplit
<1>5. report' = [report EXCEPT !.stage = "codes", !.byApi = split]
  BY <1>1, <1>2, <1>3
<1>6. /\ {"hours", "basedAt", "byApi"} \subseteq DOMAIN report' /\ "quiet" \notin DOMAIN report'
      /\ report'.hours = hours /\ report'.basedAt = t /\ report'.byApi = split
  BY <1>2, <1>4, <1>5
<1>7. \A a \in DOMAIN table : {"calls", "failures"} \subseteq DOMAIN table[a]
  BY <1>4 DEF ApiInv
<1>8. /\ DOMAIN split = DOMAIN table
      /\ \A a \in DOMAIN table : /\ {"calls", "failures"} \subseteq DOMAIN split[a]
                                 /\ split[a].calls = table[a].calls
                                 /\ split[a].failures = table[a].failures
  BY <1>3, <1>7
<1>9. /\ [a \in DOMAIN split |-> split[a].calls] = [a \in DOMAIN table |-> table[a].calls]
      /\ [a \in DOMAIN split |-> split[a].failures] = [a \in DOMAIN table |-> table[a].failures]
  BY <1>8
<1>10. CallsIn(split) = CallsIn(table) /\ FailuresIn(split) = FailuresIn(table)
  BY <1>9 DEF CallsIn, FailuresIn, SumOver
<1>11. ApiInv(hours, t, split)
  BY <1>4, <1>8, <1>10 DEF ApiInv
<1>12. report'.stage = "codes"
  BY <1>5
<1>13. QED
  BY <1>6, <1>11, <1>12, ApiInvTaken

(* The result codes: all of the traffic, or no answer. *)
LEMMA TelemetryCoded ==
    ASSUME PastInv, TelemetryInv, AskCodes
    PROVE  TelemetryInv'
<1>1. PICK rows \in Kql(Traffic(report.hours)) :
         report' = Update(report, [stage |-> "series",
                                   codesAt |-> IF rows = {} THEN Null ELSE now,
                                   byStatus |-> CodeTable(rows)])
  BY DEF AskCodes, CodeTable
<1>2. PICK hours, t, table, present, at, codes :
         /\ hours = report.hours /\ t = report.basedAt /\ table = report.byApi
         /\ present = now /\ codes = CodeTable(rows)
         /\ at = IF rows = {} THEN Null ELSE now
  OBVIOUS
<1>3. /\ {"hours", "basedAt", "byApi"} \subseteq DOMAIN report /\ "quiet" \notin DOMAIN report
      /\ ApiInv(hours, t, table)
  BY <1>2, ApiInvGiven DEF AskCodes
<1>4. report' = Update(report, [stage |-> "series", codesAt |-> at, byStatus |-> codes])
  BY <1>1, <1>2
<1>5. /\ {"hours", "basedAt", "byApi", "codesAt", "byStatus"} \subseteq DOMAIN report'
      /\ "quiet" \notin DOMAIN report' /\ report'.stage = "series"
      /\ report'.hours = hours /\ report'.basedAt = t /\ report'.byApi = table
      /\ report'.codesAt = at /\ report'.byStatus = codes
  BY <1>2, <1>3, <1>4 DEF Update
<1>6. ASSUME at # Null
      PROVE  /\ CountIn(codes) = Cardinality(TrafficAt(hours, at))
             /\ SumFunctionOnSet(codes, Failing(codes))
                   = Cardinality(Rejected(TrafficAt(hours, at)))
  <2>1. at = present /\ present \in Start..MaxTime /\ rows # {}
    BY <1>2, <1>6 DEF PastInv
  <2>2. Traffic(report.hours) = TrafficAt(hours, present)
    BY <1>2 DEF Traffic, TrafficAt
  <2>3. rows = TrafficAt(hours, present)
    BY <1>1, <2>1, <2>2 DEF Kql
  <2>4. QED
    BY <1>2, <2>1, <2>3, TrafficFinite, CodeTableCounts
<1>7. QED
  BY <1>3, <1>5, <1>6 DEF TelemetryInv, ApiInv

(* The totals are those of the table of the APIs. *)
LEMMA TelemetryTotalled ==
    ASSUME TelemetryInv, AskSeries
    PROVE  TelemetryInv'
<1>1. PICK series :
         report' = Update(report, [stage |-> "telemetry", series |-> series,
                                   calls |-> CallsIn(report.byApi),
                                   failures |-> FailuresIn(report.byApi),
                                   ok |-> CallsIn(report.byApi) - FailuresIn(report.byApi)])
  BY DEF AskSeries, CallsIn, FailuresIn
<1>2. PICK hours, t, table, at, codes, calls, failures :
         /\ hours = report.hours /\ t = report.basedAt /\ table = report.byApi
         /\ at = report.codesAt /\ codes = report.byStatus
         /\ calls = CallsIn(report.byApi) /\ failures = FailuresIn(report.byApi)
  OBVIOUS
<1>3. /\ {"hours", "basedAt", "byApi"} \subseteq DOMAIN report /\ "quiet" \notin DOMAIN report
      /\ ApiInv(hours, t, table)
  BY <1>2, ApiInvGiven DEF AskSeries
<1>4. /\ {"codesAt", "byStatus"} \subseteq DOMAIN report
      /\ at # Null =>
            /\ CountIn(codes) = Cardinality(TrafficAt(hours, at))
            /\ SumFunctionOnSet(codes, Failing(codes)) = Cardinality(Rejected(TrafficAt(hours, at)))
  BY <1>2 DEF AskSeries, TelemetryInv
<1>5. report' = Update(report, [stage |-> "telemetry", series |-> series, calls |-> calls,
                                failures |-> failures, ok |-> calls - failures])
  BY <1>1, <1>2
<1>6. /\ report'.stage = "telemetry" /\ "quiet" \notin DOMAIN report'
      /\ report'.byApi = table /\ report'.byStatus = codes
      /\ report'.basedAt = t /\ report'.codesAt = at
      /\ report'.calls = calls /\ report'.failures = failures /\ report'.ok = calls - failures
  BY <1>2, <1>3, <1>4, <1>5 DEF Update
<1>7. /\ calls = Cardinality(TrafficAt(hours, t)) /\ calls = CallsIn(table)
      /\ failures = Cardinality(Rejected(TrafficAt(hours, t)))
      /\ t \in Start..MaxTime
  BY <1>2, <1>3 DEF ApiInv
<1>8. calls \in Nat /\ failures \in Nat /\ failures <= calls
  <2>1. /\ Cardinality(TrafficAt(hours, t)) \in Nat
        /\ Cardinality(Rejected(TrafficAt(hours, t))) \in Nat
        /\ Cardinality(Rejected(TrafficAt(hours, t))) <= Cardinality(TrafficAt(hours, t))
    BY <1>7, TrafficFinite
  <2>2. QED
    BY <1>7, <2>1
<1>9. calls - failures + failures = calls /\ calls - failures >= 0
  BY <1>8
<1>10. at = t => calls = CountIn(codes) /\ failures = SumFunctionOnSet(codes, Failing(codes))
  <2>1. t # Null
    BY <1>7 DEF ReportsAssumption
  <2>2. QED
    BY <1>4, <1>7, <2>1
<1>11. QED
  BY <1>6, <1>7, <1>8, <1>9, <1>10 DEF TelemetryInv

LEMMA TelemetryInvNext ==
    ASSUME DocsInv, PagerTypes, PastInv, TelemetryInv, [Next]_vars
    PROVE  TelemetryInv'
<1>1. "stage" \in DOMAIN report
  BY DEF PagerTypes
<1>2. CASE World \/ UNCHANGED vars
  <2>1. /\ DOMAIN report' = DOMAIN report
        /\ \A f \in DOMAIN report \ {"quiet"} : report'[f] = report[f]
        /\ "quiet" \notin DOMAIN report => report' = report
    BY <1>2, WorldFrame
  <2>2. report'.stage = report.stage
    BY <1>1, <2>1
  <2>3. CASE report.stage \in TelemetryStages
    <3>1. report' = report
      BY <2>1, <2>3 DEF TelemetryInv
    <3>2. QED
      BY <3>1 DEF TelemetryInv
  <2>4. CASE report.stage \notin TelemetryStages
    BY <2>2, <2>4 DEF TelemetryInv, TelemetryStages
  <2>5. QED
    BY <2>3, <2>4
<1>3. ASSUME NEW hours, AskTelemetry(hours) PROVE TelemetryInv'
  <2>1. report' = [stage |-> "base", hours |-> Clamp(1, hours, MaxWindow)]
    BY <1>3 DEF AskTelemetry
  <2>2. QED
    BY <2>1 DEF TelemetryInv
<1>4. CASE ReadsTelemetry
  BY <1>1, <1>3, <1>4, TelemetryBased, TelemetrySplit, TelemetryCoded, TelemetryTotalled
     DEF ReadsTelemetry
<1>5. ASSUME report'.stage \notin TelemetryStages PROVE TelemetryInv'
  BY <1>5 DEF TelemetryInv, TelemetryStages
<1>6. CASE MakesBreakdown \/ MakesSummary \/ ReadsLog \/ Leave
  <2>1. LeadsTo(BreakdownStages) \/ LeadsTo(SummaryStages) \/ LeadsTo(LogStages)
        \/ LeadsTo({"idle"})
    BY <1>1, <1>6, BreakdownLeadsTo, SummaryLeadsTo, LogLeadsTo, LeaveLeadsTo
  <2>2. QED
    BY <1>5, <2>1 DEF LeadsTo, SummaryStages, TelemetryStages, BreakdownStages, LogStages
<1>7. QED
  BY <1>2, <1>4, <1>6, NextCases

-----------------------------------------------------------------------------
(* A report is at one of its stages.                                       *)

StagesInv ==
    report.stage \in {"idle"} \cup BreakdownStages \cup SummaryStages \cup LogStages
                              \cup TelemetryStages

LEMMA StagesInvNext ==
    ASSUME DocsInv, PagerTypes, StagesInv, [Next]_vars
    PROVE  StagesInv'
<1>1. "stage" \in DOMAIN report
  BY DEF PagerTypes
<1>2. CASE World \/ UNCHANGED vars
  <2>1. report'.stage = report.stage
    BY <1>1, <1>2, WorldFrame
  <2>2. QED
    BY <2>1 DEF StagesInv
<1>3. CASE MakesBreakdown \/ MakesSummary \/ ReadsLog \/ ReadsTelemetry \/ Leave
  BY <1>1, <1>3, BreakdownLeadsTo, SummaryLeadsTo, LogLeadsTo, TelemetryLeadsTo, LeaveLeadsTo
     DEF StagesInv, LeadsTo
<1>4. QED
  BY <1>2, <1>3, NextCases

(* All of it together gives the types. *)
LEMMA ReportsAreTyped ==
    ASSUME DocsInv, PagerTypes, PastInv, StagesInv, BreakdownInv, SummaryInv, TelemetryInv
    PROVE  TypeOK
<1>1. now \in Start..MaxTime
  BY DEF PastInv
<1>2. \A d \in docs : d \in Legacy \/ d.id \in {c.id : c \in Calls}
  <2>1. ASSUME NEW d \in docs, NEW c \in Calls, Imported(d, c) PROVE d.id = c.id
    BY <2>1, DocumentFields DEF Imported, DocsInv
  <2>2. QED
    BY <2>1 DEF DocsInv, Origin
<1>3. live \subseteq Keys /\ retired \subseteq Keys \ live
  BY DEF DocsInv
<1>4. /\ report.stage = "breakdown" =>
            {"groups", "trend", "totals", "labelled"} \subseteq DOMAIN report
      /\ report.stage = "log" => {"items", "total"} \subseteq DOMAIN report
      /\ report.stage = "summary" => report.summary.cost \in Nat
      /\ report.stage = "telemetry" => report.calls \in Nat
  <2>1. report.stage = "breakdown" =>
           {"groups", "trend", "totals", "labelled"} \subseteq DOMAIN report
    BY DEF BreakdownInv, GroupsInv, TrendInv, TotalsInv, BreakdownStages
  <2>2. report.stage = "log" => {"items", "total"} \subseteq DOMAIN report
    BY DEF PagerTypes, LogStages
  <2>3. report.stage = "summary" => report.summary.cost \in Nat
    BY DEF SummaryInv, SummaryStages
  <2>4. report.stage = "telemetry" => report.calls \in Nat
    BY DEF TelemetryInv
  <2>5. QED
    BY <2>1, <2>2, <2>3, <2>4
<1>5. report.stage \in {"idle", "groups", "trend", "totals", "labels", "breakdown",
                        "rows", "summary", "items", "owners", "count", "log",
                        "base", "split", "codes", "series", "telemetry"}
  BY DEF StagesInv, BreakdownStages, SummaryStages, LogStages, TelemetryStages
<1>6. QED
  BY <1>1, <1>2, <1>3, <1>4, <1>5 DEF TypeOK

-----------------------------------------------------------------------------
(* Theorems.                                                               *)

ReportsInv ==
    /\ DocsInv /\ PastInv /\ StagesInv
    /\ PagerTypes /\ CountsInv /\ PagerInv /\ OwnLogInv
    /\ BreakdownInv /\ SummaryInv /\ TelemetryInv

LEMMA ReportsInvInit == Init => ReportsInv
<1> SUFFICES ASSUME Init PROVE ReportsInv
  OBVIOUS
<1>1. "stage" \in DOMAIN report /\ report.stage = "idle"
  BY DEF Init, Idle
<1>2. DocsInv /\ PastInv
  BY DocsInvInit, PastInvInit
<1>3. PagerTypes /\ CountsInv /\ PagerInv /\ OwnLogInv
  BY <1>1 DEF PagerTypes, CountsInv, PagerInv, SeenInv, KeysMetInv, ShownInv, OwnLogInv, LogStages
<1>4. BreakdownInv /\ SummaryInv
  BY <1>1 DEF BreakdownInv, AskedInv, GroupsInv, TrendInv, TotalsInv, BreakdownStages,
             SummaryInv, SummaryStages
<1>5. TelemetryInv /\ StagesInv
  BY <1>1 DEF TelemetryInv, TelemetryStages, StagesInv
<1>6. QED
  BY <1>2, <1>3, <1>4, <1>5 DEF ReportsInv

LEMMA ReportsInvNext == ReportsInv /\ [Next]_vars => ReportsInv'
<1> SUFFICES ASSUME ReportsInv, [Next]_vars PROVE ReportsInv'
  OBVIOUS
<1>1. DocsInv'
  BY DocsInvNext DEF ReportsInv, PagerTypes
<1>2. PagerTypes' /\ CountsInv' /\ PagerInv'
  BY <1>1, PagerTypesNext, CountsInvNext, PagerInvNext DEF ReportsInv
<1>3. PastInv' /\ StagesInv'
  BY PastInvNext, StagesInvNext DEF ReportsInv, PagerTypes
<1>4. OwnLogInv'
  BY <1>1, OwnLogInvNext DEF ReportsInv, PagerInv
<1>5. BreakdownInv' /\ SummaryInv' /\ TelemetryInv'
  BY <1>1, BreakdownInvNext, SummaryInvNext, TelemetryInvNext DEF ReportsInv
<1>6. QED
  BY <1>1, <1>2, <1>3, <1>4, <1>5 DEF ReportsInv

LEMMA ReportsInvHolds == Spec => []ReportsInv
<1>1. QED
  BY ReportsInvInit, ReportsInvNext, PTL DEF Spec

(* The clock, the documents and the keys are of their types, a report is at one
   of its stages, and an answer of usage.py has a place for every query. *)
THEOREM ReportTypes == Spec => []TypeOK
<1>1. ReportsInv => TypeOK
  BY ReportsAreTyped DEF ReportsInv
<1>2. QED
  BY <1>1, ReportsInvHolds, PTL

(* "Enforces the tenant-isolation red line" (_tenant_key_ids and the callers of
   the store): the groups, the totals, the summary and the page a tenant is shown
   come from the documents of its own keys, whatever keys are issued and deleted
   and whatever is imported between the queries of a report, and also when the
   tenant has no key. *)
THEOREM TenantsAreIsolated == Spec => []TenantIsolation
<1>1. ReportsInv => TenantIsolation
  BY ShownIsOwn DEF ReportsInv
<1>2. QED
  BY <1>1, ReportsInvHolds, PTL

(* _fetch_agg_rows is asked for the totals last: the headline is never below the
   sum of cost_breakdown's groups or of cost_trend's buckets, and without an
   import in between it is the cost of the whole window, if the window fits under
   _MAX_ROWS. *)
THEOREM HeadlinesAreWhole == Spec => []HeadlineIsWhole
<1>1. ReportsInv => HeadlineIsWhole
  BY HeadlineCovers DEF ReportsInv
<1>2. QED
  BY <1>1, ReportsInvHolds, PTL

(* cost_trend rounds its number of buckets up, which keeps every call that is
   newer than the window less one bucket, wherever in its hour or day the request
   was made and however the clock moved on since _window_since. *)
THEOREM TrendsCoverRecent == Spec => []TrendCoversRecent
<1>1. ReportsInv => TrendCoversRecent
  BY ChartCovers DEF ReportsInv
<1>2. QED
  BY <1>1, ReportsInvHolds, PTL

(* request_telemetry takes its totals from the table of the APIs: they add up
   whichever of the four queries failed, and when the codes were counted at the
   time of the table they reconcile with it. *)
THEOREM TelemetryReconciles == Spec => []TelemetryAddsUp
<1>1. ReportsInv => TelemetryAddsUp
  BY TotalsAddUp DEF ReportsInv
<1>2. QED
  BY <1>1, ReportsInvHolds, PTL

(* However often and in whatever order _import_blob upserts the document of an
   event, a call whose timestamp is well-formed has one document at most, in
   the month and at the instant the call was made. *)
THEOREM CallsHaveOneDocument == Spec => []OneDocumentPerCall
<1>1. ReportsInv => OneDocumentPerCall
  BY OneDocument DEF ReportsInv
<1>2. QED
  BY <1>1, ReportsInvHolds, PTL

(* count_records applies the window of the page query: a page of
   tenant_usage_records that comes back with documents is never behind the end
   of the list, and while nothing is imported it is as long as the total says. *)
THEOREM PagesAreNotEmpty == Spec => []PagerOffersNoEmptyPage
<1>1. ReportsInv => PagerOffersNoEmptyPage
  BY NoEmptyPage DEF ReportsInv
<1>2. QED
  BY <1>1, ReportsInvHolds, PTL

(* Reading tenant_usage_records to the end by OFFSET, page after page, skips
   no document that was there at the start and still is, while calls are
   imported, keys are issued and the window moves; unless the tenant lost a key
   that one of the pages was made with. *)
THEOREM PagesMissNothing == Spec => []PagerMissesNothing
<1>1. ReportsInv => PagerMissesNothing
  BY PagesShowAll DEF ReportsInv
<1>2. QED
  BY <1>1, ReportsInvHolds, PTL
=============================================================================
