------------------------ MODULE SnapshotAnalysisProofs ------------------------
(***************************************************************************)
(* The safety properties of SnapshotAnalysis, for any store of finitely    *)
(* many runs, any invalidations, reviewed mapping and query, both schemas  *)
(* and any thresholds of the policies.                                     *)
(*                                                                         *)
(* Faithful is the invariant: whatever core is at hand is BuildCore of the *)
(* acquired bundle, in the schema that the core names.  The steps of the   *)
(* pipeline keep it because validation changes nothing and migration gives *)
(* what a fresh analysis gives.  Everything else is said of BuildCore: its *)
(* validators accept it, its cohorts and its ledger agree, and what it     *)
(* reports is what the records say.                                        *)
(*                                                                         *)
(* Sums are MapThenSumSet, which takes the elements in an order of its     *)
(* own.  SumAddsUp shows that any function that adds up over subsets gives *)
(* the sum, and AddsUpExists that there is one: a smallest subset without  *)
(* such a function would have an element to spare.                         *)
(***************************************************************************)
EXTENDS SnapshotAnalysis, FiniteSetTheorems, TLAPS

-----------------------------------------------------------------------------
(* Sums over finite sets.  MapThenSumSet takes the elements in an order of *)
(* its own; a sum does not depend on it.                                   *)

SumOf(S, w) == MapThenSumSet(LAMBDA p : w[p], S)

(* A family of subsets of a finite set has a minimal member.               *)
LEMMA MinimalSubset ==
  ASSUME NEW T, IsFiniteSet(T), NEW D, D \subseteq SUBSET T, D # {}
  PROVE  \E m \in D : \A s \in D : s \subseteq m => s = m
<1>1. FiniteSubsetsOf(T) = SUBSET T
  BY FS_FiniteSubsetsOfFinite
<1>2. IsWellFoundedOn(StrictSubsetOrdering(T), SUBSET T)
  BY <1>1, FS_StrictSubsetOrderingWellFounded
<1>3. PICK m \in D : \A s \in D : <<s, m>> \notin StrictSubsetOrdering(T)
  BY <1>2, WFMin
<1> QED
  BY <1>3 DEF StrictSubsetOrdering

(* h adds up w over every subset of T.                                     *)
AddsUp(h, T, w) ==
  /\ h \in [SUBSET T -> Nat] /\ h[{}] = 0
  /\ \A s \in SUBSET T : \A x \in T \ s : h[s \cup {x}] = h[s] + w[x]

(* Such an h exists: a smallest counterexample has an element to spare.    *)
LEMMA AddsUpExists ==
  ASSUME NEW T, IsFiniteSet(T), NEW w, \A x \in T : w[x] \in Nat
  PROVE  \E h : AddsUp(h, T, w)
<1> DEFINE D == {s \in SUBSET T : ~(\E h : AddsUp(h, s, w))}
<1> SUFFICES ASSUME D # {} PROVE FALSE
  BY DEF D
<1>1. PICK m \in D : \A s \in D : s \subseteq m => s = m
  <2> HIDE DEF D
  <2>1. D \subseteq SUBSET T
    BY DEF D
  <2> QED
    BY <2>1, MinimalSubset
<1>2. CASE m = {}
  <2>1. AddsUp([s \in SUBSET m |-> 0], m, w)
    BY <1>2 DEF AddsUp
  <2> QED
    BY <2>1, <1>1
<1>3. CASE m # {}
  <2>1. PICK x \in m : TRUE
    BY <1>3
  <2>2. m \ {x} \notin D
    BY <1>1, <2>1
  <2>3. m \ {x} \in SUBSET T
    BY <1>1
  <2>4. PICK g : AddsUp(g, m \ {x}, w)
    BY <2>2, <2>3
  <2> DEFINE h == [s \in SUBSET m |-> IF x \in s THEN g[s \ {x}] + w[x]
                                      ELSE g[s]]
  <2>5. w[x] \in Nat
    BY <1>1, <2>1
  <2>6. g \in [SUBSET (m \ {x}) -> Nat] /\ g[{}] = 0
    BY <2>4 DEF AddsUp
  <2>7. h \in [SUBSET m -> Nat]
    <3> SUFFICES ASSUME NEW s \in SUBSET m
                 PROVE  (IF x \in s THEN g[s \ {x}] + w[x] ELSE g[s]) \in Nat
      OBVIOUS
    <3>1. s \ {x} \in SUBSET (m \ {x}) /\ (x \notin s => s = s \ {x})
      OBVIOUS
    <3>2. g[s \ {x}] \in Nat
      BY <3>1, <2>6
    <3>3. CASE x \in s
      BY <3>2, <3>3, <2>5
    <3>4. CASE x \notin s
      BY <3>1, <3>2, <3>4
    <3> QED
      BY <3>3, <3>4
  <2>8. h[{}] = 0
    BY <2>6
  <2>9. ASSUME NEW s \in SUBSET m, NEW y \in m \ s
        PROVE  h[s \cup {y}] = h[s] + w[y]
    <3>1. CASE y = x
      <4>1. (s \cup {y}) \ {x} = s /\ x \in s \cup {y} /\ x \notin s
        BY <3>1, <2>9
      <4> QED
        BY <4>1, <3>1
    <3>2. CASE y # x /\ x \in s
      <4>1. s \ {x} \in SUBSET (m \ {x}) /\ y \in (m \ {x}) \ (s \ {x})
        BY <3>2
      <4>2. g[(s \ {x}) \cup {y}] = g[s \ {x}] + w[y]
        BY <4>1, <2>4 DEF AddsUp
      <4>3. (s \cup {y}) \ {x} = (s \ {x}) \cup {y} /\ x \in s \cup {y}
        BY <3>2
      <4>4. g[s \ {x}] \in Nat /\ w[y] \in Nat
        BY <4>1, <2>6, <1>1
      <4>5. h[s \cup {y}] = g[(s \ {x}) \cup {y}] + w[x]
        BY <4>3
      <4>6. h[s] = g[s \ {x}] + w[x]
        BY <3>2
      <4> QED
        BY <4>2, <4>4, <4>5, <4>6, <2>5
    <3>3. CASE y # x /\ x \notin s
      <4>1. s \in SUBSET (m \ {x}) /\ y \in (m \ {x}) \ s
        BY <3>3
      <4>2. g[s \cup {y}] = g[s] + w[y]
        BY <4>1, <2>4 DEF AddsUp
      <4> QED
        BY <4>2, <3>3
    <3> QED
      BY <3>1, <3>2, <3>3
  <2>10. AddsUp(h, m, w)
    <3> HIDE DEF h
    <3> QED
      BY <2>7, <2>8, <2>9 DEF AddsUp
  <2> QED
    BY <2>10, <1>1
<1> QED
  BY <1>2, <1>3

(* Whatever adds up gives the sum.                                         *)
LEMMA SumAddsUp ==
  ASSUME NEW T, IsFiniteSet(T), NEW w, \A x \in T : w[x] \in Nat,
         NEW h, AddsUp(h, T, w)
  PROVE  \A S \in SUBSET T : SumOf(S, w) = h[S]
<1> SUFFICES ASSUME NEW S \in SUBSET T PROVE SumOf(S, w) = h[S]
  OBVIOUS
<1> DEFINE Chosen(s) == CHOOSE x \in s : TRUE
           Sums(g) == [s \in SUBSET S |->
                         IF s = {} THEN 0
                         ELSE w[Chosen(s)] + g[s \ {Chosen(s)}]]
           iter == CHOOSE g : g = Sums(g)
           k == [s \in SUBSET S |-> h[s]]
<1>1. SumOf(S, w) = iter[S]
  BY DEF SumOf, MapThenSumSet, MapThenFoldSet
<1>2. \A s \in SUBSET S : s # {} =>
        /\ Chosen(s) \in s /\ s \ {Chosen(s)} \in SUBSET S
        /\ h[s] = w[Chosen(s)] + h[s \ {Chosen(s)}]
  <2> SUFFICES ASSUME NEW s \in SUBSET S, s # {}
               PROVE  /\ Chosen(s) \in s /\ s \ {Chosen(s)} \in SUBSET S
                      /\ h[s] = w[Chosen(s)] + h[s \ {Chosen(s)}]
    OBVIOUS
  <2>1. Chosen(s) \in s
    OBVIOUS
  <2> HIDE DEF Chosen
  <2>2. s \ {Chosen(s)} \in SUBSET T /\ Chosen(s) \in T \ (s \ {Chosen(s)})
    BY <2>1
  <2>3. (s \ {Chosen(s)}) \cup {Chosen(s)} = s
    BY <2>1
  <2>4. h[s] = h[s \ {Chosen(s)}] + w[Chosen(s)]
    BY <2>2, <2>3 DEF AddsUp
  <2>5. h[s \ {Chosen(s)}] \in Nat /\ w[Chosen(s)] \in Nat
    BY <2>2 DEF AddsUp
  <2> QED
    BY <2>1, <2>2, <2>4, <2>5
<1> HIDE DEF Chosen
<1>3. k = Sums(k)
  <2>1. \A s \in SUBSET S :
          k[s] = IF s = {} THEN 0 ELSE w[Chosen(s)] + k[s \ {Chosen(s)}]
    <3> SUFFICES ASSUME NEW s \in SUBSET S
                 PROVE  k[s] = IF s = {} THEN 0
                               ELSE w[Chosen(s)] + k[s \ {Chosen(s)}]
      OBVIOUS
    <3>1. CASE s = {}
      BY <3>1 DEF AddsUp
    <3>2. CASE s # {}
      BY <3>2, <1>2
    <3> QED
      BY <3>1, <3>2
  <2> QED
    BY <2>1
<1>4. iter = Sums(iter)
  <2> HIDE DEF k, Sums
  <2> QED
    BY <1>3
<1> HIDE DEF iter, k
<1>5. \A s \in SUBSET S : iter[s] = IF s = {} THEN 0
                                    ELSE w[Chosen(s)] + iter[s \ {Chosen(s)}]
  BY <1>4
<1> DEFINE D == {s \in SUBSET S : iter[s] # h[s]}
<1>6. ASSUME D # {} PROVE FALSE
  <2>1. PICK m \in D : \A s \in D : s \subseteq m => s = m
    <3>1. D \subseteq SUBSET T
      OBVIOUS
    <3> HIDE DEF D
    <3> QED
      BY <1>6, <3>1, MinimalSubset
  <2>2. CASE m = {}
    BY <2>1, <2>2, <1>5 DEF AddsUp
  <2>3. CASE m # {}
    <3>1. m \ {Chosen(m)} \in SUBSET S /\ m \ {Chosen(m)} # m
      BY <2>1, <2>3, <1>2
    <3>2. iter[m \ {Chosen(m)}] = h[m \ {Chosen(m)}]
      BY <2>1, <3>1
    <3> QED
      BY <2>1, <2>3, <3>2, <1>2, <1>5
  <2> QED
    BY <2>2, <2>3
<1> QED
  BY <1>1, <1>6

(* A sum of naturals is one.                                               *)
LEMMA SumIsNatural ==
  ASSUME NEW S, IsFiniteSet(S), NEW w, \A y \in S : w[y] \in Nat
  PROVE  SumOf(S, w) \in Nat
<1>1. PICK h : AddsUp(h, S, w)
  BY AddsUpExists
<1>2. \A s \in SUBSET S : SumOf(s, w) = h[s]
  BY <1>1, SumAddsUp
<1>3. h[S] \in Nat
  BY <1>1 DEF AddsUp
<1> QED
  BY <1>2, <1>3

(* Only the weights of what is summed count.                               *)
LEMMA SumsAgree ==
  ASSUME NEW S, IsFiniteSet(S), NEW w, NEW v,
         \A y \in S : w[y] \in Nat /\ v[y] = w[y]
  PROVE  SumOf(S, v) = SumOf(S, w)
<1>1. PICK h : AddsUp(h, S, w)
  BY AddsUpExists
<1>2. AddsUp(h, S, v)
  BY <1>1 DEF AddsUp
<1>3. SumOf(S, w) = h[S]
  BY <1>1, SumAddsUp
<1>4. SumOf(S, v) = h[S]
  BY <1>2, SumAddsUp
<1> QED
  BY <1>3, <1>4

(* A total is at least the number of those that contribute to it.          *)
LEMMA SumCountsAtLeast ==
  ASSUME NEW T, IsFiniteSet(T), NEW w, \A x \in T : w[x] \in Nat
  PROVE  Cardinality({x \in T : w[x] >= 1}) <= SumOf(T, w)
<1>1. PICK h : AddsUp(h, T, w)
  BY AddsUpExists
<1>2. SumOf(T, w) = h[T]
  BY <1>1, SumAddsUp
<1> DEFINE C(s) == {x \in s : w[x] >= 1}
           D == {s \in SUBSET T : ~(Cardinality(C(s)) <= h[s])}
<1>3. ASSUME D # {} PROVE FALSE
  <2>1. PICK m \in D : \A s \in D : s \subseteq m => s = m
    <3>1. D \subseteq SUBSET T
      OBVIOUS
    <3> HIDE DEF D
    <3> QED
      BY <1>3, <3>1, MinimalSubset
  <2>2. \A s \in SUBSET T : h[s] \in Nat
    BY <1>1 DEF AddsUp
  <2>3. CASE m = {}
    <3>1. C(m) = {}
      BY <2>3
    <3>2. Cardinality(C(m)) = 0 /\ h[m] = 0
      BY <3>1, <2>3, <1>1, FS_EmptySet DEF AddsUp
    <3> QED
      BY <3>2, <2>1
  <2>4. CASE m # {}
    <3>1. PICK x \in m : TRUE
      BY <2>4
    <3>2. m \ {x} \in SUBSET T /\ m \ {x} # m /\ x \in T \ (m \ {x})
      BY <2>1, <3>1
    <3>3. Cardinality(C(m \ {x})) <= h[m \ {x}]
      BY <2>1, <3>2
    <3>4. h[m] = h[m \ {x}] + w[x]
      <4>1. (m \ {x}) \cup {x} = m
        BY <3>1
      <4> QED
        BY <4>1, <3>2, <1>1 DEF AddsUp
    <3>5. IsFiniteSet(C(m \ {x}))
      <4>1. C(m \ {x}) \in SUBSET T
        BY <3>2
      <4> QED
        BY <4>1, FS_Subset
    <3>6. /\ Cardinality(C(m \ {x})) \in Nat
          /\ h[m \ {x}] \in Nat /\ w[x] \in Nat
      BY <3>2, <3>5, <2>2, FS_CardinalityType
    <3>7. CASE w[x] >= 1
      <4>1. C(m) = C(m \ {x}) \cup {x} /\ x \notin C(m \ {x})
        BY <3>1, <3>7
      <4> HIDE DEF C
      <4>2. Cardinality(C(m)) = Cardinality(C(m \ {x})) + 1
        BY <4>1, <3>5, FS_AddElement
      <4>3. Cardinality(C(m)) <= h[m]
        BY <4>2, <3>3, <3>4, <3>6, <3>7
      <4> QED
        BY <4>3, <2>1 DEF C
    <3>8. CASE ~(w[x] >= 1)
      <4>1. C(m) = C(m \ {x})
        BY <3>1, <3>8
      <4> HIDE DEF C
      <4>2. Cardinality(C(m)) <= h[m]
        BY <4>1, <3>3, <3>4, <3>6
      <4> QED
        BY <4>2, <2>1 DEF C
    <3> QED
      BY <3>7, <3>8
  <2> QED
    BY <2>3, <2>4
<1>4. ~(T \in D)
  BY <1>3
<1> QED
  BY <1>2, <1>4

(* The sizes of finitely many finite sets without a common member add up   *)
(* to the size of their union.                                             *)
LEMMA DisjointUnion ==
  ASSUME NEW T, IsFiniteSet(T), NEW F,
         \A x \in T : IsFiniteSet(F[x]),
         \A x, y \in T : x # y => F[x] \cap F[y] = {}
  PROVE  /\ IsFiniteSet(UNION {F[x] : x \in T})
         /\ Cardinality(UNION {F[x] : x \in T}) =
              SumOf(T, [x \in T |-> Cardinality(F[x])])
<1> DEFINE w == [x \in T |-> Cardinality(F[x])]
           U(s) == UNION {F[x] : x \in s}
<1>1. \A x \in T : w[x] \in Nat /\ w[x] = Cardinality(F[x])
  BY FS_CardinalityType
<1> HIDE DEF w
<1>2. PICK h : AddsUp(h, T, w)
  BY <1>1, AddsUpExists
<1>3. SumOf(T, w) = h[T]
  BY <1>1, <1>2, SumAddsUp
<1> DEFINE D == {s \in SUBSET T :
                   ~(IsFiniteSet(U(s)) /\ Cardinality(U(s)) = h[s])}
<1>4. ASSUME D # {} PROVE FALSE
  <2>1. PICK m \in D : \A s \in D : s \subseteq m => s = m
    <3>1. D \subseteq SUBSET T
      OBVIOUS
    <3> HIDE DEF D
    <3> QED
      BY <1>4, <3>1, MinimalSubset
  <2>2. CASE m = {}
    <3>1. U(m) = {}
      BY <2>2
    <3>2. IsFiniteSet(U(m)) /\ Cardinality(U(m)) = 0 /\ h[m] = 0
      BY <3>1, <2>2, <1>2, FS_EmptySet DEF AddsUp
    <3> QED
      BY <3>2, <2>1
  <2>3. CASE m # {}
    <3>1. PICK x \in m : TRUE
      BY <2>3
    <3>2. m \ {x} \in SUBSET T /\ m \ {x} # m /\ x \in T \ (m \ {x})
      BY <2>1, <3>1
    <3>3. IsFiniteSet(U(m \ {x})) /\ Cardinality(U(m \ {x})) = h[m \ {x}]
      BY <2>1, <3>2
    <3>4. h[m] = h[m \ {x}] + w[x]
      <4>1. (m \ {x}) \cup {x} = m
        BY <3>1
      <4> QED
        BY <4>1, <3>2, <1>2 DEF AddsUp
    <3>5. U(m) = U(m \ {x}) \cup F[x]
      <4>1. m = (m \ {x}) \cup {x}
        BY <3>1
      <4>2. \A e : e \in U(m) <=> \E y \in m : e \in F[y]
        OBVIOUS
      <4>3. \A e : e \in U(m \ {x}) <=> \E y \in m \ {x} : e \in F[y]
        OBVIOUS
      <4> HIDE DEF U
      <4> QED
        BY <4>1, <4>2, <4>3
    <3>6. U(m \ {x}) \cap F[x] = {}
      <4>1. \A y \in m \ {x} : F[y] \cap F[x] = {}
        BY <3>2
      <4> QED
        BY <4>1
    <3>7. IsFiniteSet(F[x]) /\ w[x] = Cardinality(F[x]) /\ w[x] \in Nat
      BY <3>2, <1>1
    <3> HIDE DEF U
    <3>8. IsFiniteSet(U(m))
      <4>1. IsFiniteSet(U(m \ {x}) \cup F[x])
        BY <3>3, <3>7, FS_Union
      <4> QED
        BY <4>1, <3>5
    <3>9. Cardinality(U(m)) = Cardinality(U(m \ {x})) + Cardinality(F[x])
      <4>1. Cardinality(U(m \ {x}) \cup F[x]) =
              Cardinality(U(m \ {x})) + Cardinality(F[x])
                - Cardinality(U(m \ {x}) \cap F[x])
        BY <3>3, <3>7, FS_Union
      <4>2. Cardinality(U(m \ {x}) \cap F[x]) = 0
        BY <3>6, FS_EmptySet
      <4>3. Cardinality(U(m \ {x})) \in Nat /\ Cardinality(F[x]) \in Nat
        BY <3>3, <3>7, FS_CardinalityType
      <4> QED
        BY <4>1, <4>2, <4>3, <3>5
    <3>10. Cardinality(U(m)) = h[m]
      BY <3>3, <3>4, <3>7, <3>9
    <3> QED
      BY <3>8, <3>10, <2>1
  <2> QED
    BY <2>2, <2>3
<1>5. ~(T \in D)
  BY <1>4
<1>6. IsFiniteSet(U(T)) /\ Cardinality(U(T)) = h[T]
  BY <1>5
<1> QED
  BY <1>3, <1>6 DEF w

(* A one-to-one image is as large as what it is an image of.               *)
LEMMA ImageCounts ==
  ASSUME NEW S, IsFiniteSet(S), NEW f,
         \A x, y \in S : f[x] = f[y] => x = y
  PROVE  /\ IsFiniteSet({f[x] : x \in S})
         /\ Cardinality({f[x] : x \in S}) = Cardinality(S)
<1> DEFINE g == [x \in S |-> f[x]]
           T == {f[x] : x \in S}
<1>1. g \in Bijection(S, T)
  BY DEF Bijection, Injection, Surjection, IsInjective
<1>2. ExistsBijection(S, T)
  BY <1>1 DEF ExistsBijection
<1> QED
  BY <1>2, FS_Bijection

(* Any image of a finite set is finite.                                    *)
LEMMA ImageIsFinite ==
  ASSUME NEW S, IsFiniteSet(S), NEW f
  PROVE  IsFiniteSet({f[x] : x \in S})
<1> DEFINE g == [x \in S |-> f[x]]
           T == {f[x] : x \in S}
<1>1. g \in Surjection(S, T)
  BY DEF Surjection
<1> QED
  BY <1>1, FS_Surjection

-----------------------------------------------------------------------------
(* What acquisition makes of a store that Init allows.                     *)

Inputs ==
  /\ store \in [Runs -> Records \cup {None}]
  /\ invalid \subseteq {x \in Recorded : store[x].status # "draft"}
  /\ mapping \in [Runs -> Generations \cup {None}]
  /\ version \in {1, 2}
Agreed == \A p \in Physical : ~Conflicts(p)
Episode(x) == Mapped(Projection(x))

(* The record of a recorded run is a valid one.                            *)
LEMMA RecordedIsValid ==
  ASSUME Inputs, NEW x \in Recorded
  PROVE  x \in Runs /\ Recordable(store[x])
BY RecordsAreValid DEF Inputs, Recorded

(* The projection keeps the fields of the record.                          *)
LEMMA EpisodeFields ==
  ASSUME Inputs, NEW x \in Recorded
  PROVE  /\ Episode(x).run = x
         /\ Episode(x).schema = store[x].schema
         /\ Episode(x).started = store[x].started
         /\ Episode(x).status = store[x].status
         /\ Episode(x).project = store[x].project
         /\ Episode(x).decisions = store[x].decisions
         /\ Episode(x).generation = IF store[x].generation = None
                                    THEN mapping[x] ELSE store[x].generation
<1> DEFINE e == Projection(x)
<1>1. /\ e.run = x /\ e.schema = store[x].schema
      /\ e.started = store[x].started /\ e.status = store[x].status
      /\ e.project = store[x].project /\ e.decisions = store[x].decisions
      /\ e.generation = store[x].generation
  BY DEF Projection
<1>2. CASE store[x].generation = None
  <2>1. Episode(x) = [e EXCEPT !.generation = mapping[x]]
    BY <1>1, <1>2 DEF Episode, Mapped
  <2>2. /\ Episode(x).run = e.run /\ Episode(x).schema = e.schema
        /\ Episode(x).started = e.started /\ Episode(x).status = e.status
        /\ Episode(x).project = e.project
        /\ Episode(x).decisions = e.decisions
        /\ Episode(x).generation = mapping[x]
    BY <2>1 DEF Projection
  <2> QED
    BY <2>2, <1>1, <1>2
<1>3. CASE store[x].generation # None
  <2>1. Episode(x) = e
    BY <1>1, <1>3 DEF Episode, Mapped
  <2> QED
    BY <2>1, <1>1, <1>3
<1> QED
  BY <1>2, <1>3

(* A metric that is not supported says so, and only an observed one has a  *)
(* value.                                                                  *)
LEMMA ProjectedAvailability ==
  ASSUME NEW supported \in BOOLEAN, NEW value
  PROVE  LET p == ProjectedMetric(supported, value) IN
         /\ p.availability \in
              {"observed", "not_recorded", "unsupported_by_schema"}
         /\ supported <=> p.availability # "unsupported_by_schema"
         /\ p.availability # "observed" => p.value = None
<1>1. CASE ~supported
  <2>1. ProjectedMetric(supported, value) =
          [availability |-> "unsupported_by_schema", value |-> None]
    BY <1>1 DEF ProjectedMetric, Missing
  <2> QED
    BY <2>1, <1>1
<1>2. CASE supported /\ value = None
  <2>1. ProjectedMetric(supported, value) =
          [availability |-> "not_recorded", value |-> None]
    BY <1>2 DEF ProjectedMetric, Missing
  <2> QED
    BY <2>1, <1>2
<1>3. CASE supported /\ value # None
  <2>1. ProjectedMetric(supported, value) =
          [availability |-> "observed", value |-> value]
    BY <1>3 DEF ProjectedMetric
  <2> QED
    BY <2>1, <1>3
<1> QED
  BY <1>1, <1>2, <1>3

(* What the projection makes of a metric.                                  *)
LEMMA EpisodeMetric ==
  ASSUME Inputs, NEW x \in Recorded, NEW m \in Metrics
  PROVE  Episode(x).metrics[m] =
           ProjectedMetric(SchemaSupports(store[x].schema, m),
                           IF store[x].status = "draft" THEN None
                           ELSE store[x].values[m])
<1>1. Episode(x).metrics = Projection(x).metrics
  <2>1. CASE Projection(x).generation = None
    <3>1. Episode(x) =
            [Projection(x) EXCEPT !.generation = mapping[Projection(x).run]]
      BY <2>1 DEF Episode, Mapped
    <3> QED
      BY <3>1 DEF Projection
  <2>2. CASE Projection(x).generation # None
    BY <2>2 DEF Episode, Mapped
  <2> QED
    BY <2>1, <2>2
<1> QED
  BY <1>1 DEF Projection

(* The episodes of the bundle, run by run.                                 *)
LEMMA BundledEpisodes ==
  ASSUME Inputs, NEW v
  PROVE  Bundle(v).episodes = {Episode(x) : x \in {y \in Recorded :
                                                     Matches(Episode(y))}}
BY DEF Bundle, Physical, Recorded, Episode

(* What every later stage may rely on.                                     *)
Sound(e) ==
  /\ e.run \in Runs /\ e.schema \in {1, 2} /\ e.status \in Statuses
  /\ e.started \in Nat /\ e.decisions \in Seq(Decisions)
  /\ e.generation \in Generations \cup {None}
  /\ \A m \in Metrics :
       e.metrics[m].availability \in
         {"observed", "not_recorded", "unsupported_by_schema"}
SoundBundle(b) ==
  /\ IsFiniteSet(b.episodes)
  /\ \A e \in b.episodes : Sound(e)
  /\ \A e, f \in b.episodes : e.run = f.run => e = f
  /\ b.invalidations \subseteq {e.run : e \in b.episodes}

(* An episode of a recorded run is sound.                                  *)
LEMMA EpisodeIsSound ==
  ASSUME Inputs, NEW x \in Recorded
  PROVE  Sound(Episode(x))
<1>1. x \in Runs /\ Recordable(store[x])
  BY RecordedIsValid
<1>2. /\ store[x].schema \in {1, 2} /\ store[x].status \in Statuses
      /\ store[x].started \in Nat
      /\ store[x].generation \in Generations \cup {None}
      /\ store[x].decisions \in Seq(Decisions)
  BY <1>1 DEF Recordable
<1>3. mapping[x] \in Generations \cup {None}
  BY <1>1 DEF Inputs
<1>4. ASSUME NEW m \in Metrics
      PROVE  Episode(x).metrics[m].availability \in
               {"observed", "not_recorded", "unsupported_by_schema"}
  <2>1. SchemaSupports(store[x].schema, m) \in BOOLEAN
    BY DEF SchemaSupports
  <2> QED
    BY <2>1, EpisodeMetric, ProjectedAvailability
<1> QED
  BY <1>1, <1>2, <1>3, <1>4, EpisodeFields DEF Sound

(* What is acquired is sound.                                              *)
LEMMA BundleIsSound ==
  ASSUME Inputs, NEW v
  PROVE  SoundBundle(Bundle(v))
<1> DEFINE b == Bundle(v)
           S == {y \in Recorded : Matches(Episode(y))}
           f == [x \in S |-> Episode(x)]
<1>1. b.episodes = {Episode(x) : x \in S}
  BY BundledEpisodes
<1>2. S \subseteq Recorded
  OBVIOUS
<1>3. IsFiniteSet(S)
  <2>1. S \in SUBSET Runs
    BY DEF Recorded
  <2> QED
    BY <2>1, Policy, FS_Subset
<1>4. b.invalidations = invalid \cap {e.run : e \in b.episodes}
  BY DEF Bundle
<1> HIDE DEF S, b
<1>5. IsFiniteSet(b.episodes)
  <2>1. {f[x] : x \in S} = b.episodes
    BY <1>1
  <2> HIDE DEF f
  <2> QED
    BY <2>1, <1>3, ImageIsFinite
<1>6. \A e \in b.episodes : Sound(e)
  BY <1>1, <1>2, EpisodeIsSound
<1>7. \A e, g \in b.episodes : e.run = g.run => e = g
  BY <1>1, <1>2, EpisodeFields
<1> QED
  BY <1>4, <1>5, <1>6, <1>7 DEF SoundBundle, b

(* The constructor finds nothing wrong with what acquisition made.         *)
LEMMA ConstructorIsSatisfied ==
  ASSUME Inputs, Agreed, NEW v \in {1, 2}
  PROVE  ConstructorAccepts(Bundle(v))
<1> DEFINE b == Bundle(v)
<1>1. b.episodes = {Episode(x) : x \in {y \in Recorded :
                                          Matches(Episode(y))}}
  BY BundledEpisodes
<1>2. /\ b.invalidations = invalid \cap {e.run : e \in b.episodes}
      /\ b.counts = Counts(b.episodes, b.invalidations)
      /\ b.version = v
      /\ v = 2 => b.migrations = {<<e.run, e.schema>> : e \in b.episodes}
  BY DEF Bundle
<1> HIDE DEF b
<1>3. ASSUME NEW x \in Recorded, Matches(Episode(x))
      PROVE  CanonicalEpisode(Episode(x))
  <2> DEFINE e == Episode(x)
             r == store[x]
  <2>1. x \in Runs /\ Recordable(r)
    BY RecordedIsValid
  <2>2. /\ e.run = x /\ e.schema = r.schema /\ e.status = r.status
        /\ e.decisions = r.decisions
        /\ e.generation = IF r.generation = None THEN mapping[x]
                          ELSE r.generation
    BY EpisodeFields
  <2>3. Sound(e)
    BY EpisodeIsSound
  <2>4. CanonicalGeneration(e)
    <3>1. CASE r.generation = None
      BY <3>1, <2>2 DEF CanonicalGeneration
    <3>2. CASE r.generation # None
      <4>1. r.schema # 1
        BY <3>2, <2>1 DEF Recordable
      <4>2. Projection(x) \in Physical
        BY DEF Physical, Recorded
      <4>3. Projection(x).generation = r.generation /\ Projection(x).run = x
        BY DEF Projection
      <4>4. mapping[x] \in {None, r.generation}
        BY <4>2, <4>3, <3>2 DEF Agreed, Conflicts
      <4> QED
        BY <4>1, <4>4, <3>2, <2>2 DEF CanonicalGeneration
    <3> QED
      BY <3>1, <3>2
  <2>5. ASSUME NEW m \in Metrics PROVE CanonicalMetric(e, m)
    <3>1. e.metrics[m] =
            ProjectedMetric(SchemaSupports(r.schema, m),
                            IF r.status = "draft" THEN None ELSE r.values[m])
      BY EpisodeMetric
    <3>2. CASE ~SchemaSupports(r.schema, m)
      BY <3>1, <3>2, <2>2 DEF CanonicalMetric, ProjectedMetric
    <3>3. CASE SchemaSupports(r.schema, m) /\ r.status = "draft"
      BY <3>1, <3>3, <2>2 DEF CanonicalMetric, ProjectedMetric
    <3>4. CASE /\ SchemaSupports(r.schema, m) /\ r.status # "draft"
               /\ r.values[m] = None
      <4>1. m # "elapsed_seconds"
        BY <3>4, <2>1 DEF Recordable
      <4>2. m # "verification"
        BY <3>4, <2>1, Policy DEF Recordable
      <4>3. e.metrics[m] = Missing("not_recorded")
        BY <3>1, <3>4 DEF ProjectedMetric
      <4> QED
        BY <4>1, <4>2, <4>3, <3>4, <2>2 DEF CanonicalMetric
    <3>5. CASE /\ SchemaSupports(r.schema, m) /\ r.status # "draft"
               /\ r.values[m] # None
      <4>1. e.metrics[m] =
              [availability |-> "observed", value |-> r.values[m]]
        BY <3>1, <3>5 DEF ProjectedMetric
      <4> QED
        BY <4>1, <3>5, <2>2 DEF CanonicalMetric
    <3> QED
      BY <3>2, <3>3, <3>4, <3>5
  <2>6. e.status = "success" => e.metrics["verification"].value # "fail"
    <3> SUFFICES ASSUME r.status = "success"
                 PROVE  e.metrics["verification"].value # "fail"
      BY <2>2
    <3>1. r.values["verification"] \in Categories
      BY <2>1 DEF Recordable
    <3>2. r.values["verification"] # None /\ r.values["verification"] # "fail"
      BY <3>1, <2>1, Policy DEF Recordable
    <3>3. "verification" \in Metrics
      BY DEF Metrics, Aggregation
    <3>4. SchemaSupports(r.schema, "verification")
      BY DEF SchemaSupports
    <3>5. e.metrics["verification"] =
            [availability |-> "observed", value |-> r.values["verification"]]
      BY <3>2, <3>3, <3>4, EpisodeMetric DEF ProjectedMetric
    <3> QED
      BY <3>2, <3>5
  <2>7. CanonicalDecisions(e)
    BY <2>1, <2>2 DEF CanonicalDecisions, Recordable
  <2>8. e.status \in Statuses
    BY <2>3 DEF Sound
  <2> HIDE DEF e
  <2> QED
    BY <2>4, <2>5, <2>6, <2>7, <2>8, <1>3 DEF CanonicalEpisode, e
<1>4. CanonicalInvalidations(b)
  <2> SUFFICES ASSUME NEW y \in b.invalidations
               PROVE  \E e \in b.episodes : e.status # "draft" /\ e.run = y
    BY DEF CanonicalInvalidations
  <2>1. PICK e \in b.episodes : e.run = y
    BY <1>2
  <2>2. PICK x \in Recorded : e = Episode(x)
    BY <1>1
  <2>3. e.run = x /\ e.status = store[x].status
    BY <2>2, EpisodeFields
  <2>4. y \in invalid
    BY <1>2
  <2> QED
    BY <2>1, <2>3, <2>4 DEF Inputs
<1> QED
  BY <1>1, <1>2, <1>3, <1>4 DEF ConstructorAccepts, CoversSources, b

(* Nor does the analyzer.                                                  *)
LEMMA AnalyzerIsSatisfied ==
  ASSUME Inputs, NEW v
  PROVE  AnalyzerAccepts(Bundle(v))
<1> DEFINE b == Bundle(v)
<1>1. b.episodes = {Episode(x) : x \in {y \in Recorded :
                                          Matches(Episode(y))}}
  BY BundledEpisodes
<1>2. /\ b.invalidations = invalid \cap {e.run : e \in b.episodes}
      /\ b.counts = Counts(b.episodes, b.invalidations)
  BY DEF Bundle
<1> HIDE DEF b
<1>3. ASSUME NEW x \in Recorded, NEW m \in Metrics
      PROVE  /\ SchemaSupports(Episode(x).schema, m) =
                  (Episode(x).metrics[m].availability
                     # "unsupported_by_schema")
             /\ Episode(x).metrics[m].availability # "observed" =>
                  Episode(x).metrics[m].value = None
  <2>1. Episode(x).schema = store[x].schema
    BY EpisodeFields
  <2> DEFINE value == IF store[x].status = "draft" THEN None
                      ELSE store[x].values[m]
  <2>2. Episode(x).metrics[m] =
          ProjectedMetric(SchemaSupports(store[x].schema, m), value)
    BY EpisodeMetric
  <2> HIDE DEF value
  <2>3. SchemaSupports(store[x].schema, m) \in BOOLEAN
    BY DEF SchemaSupports
  <2>4. /\ SchemaSupports(store[x].schema, m) <=>
              Episode(x).metrics[m].availability # "unsupported_by_schema"
        /\ Episode(x).metrics[m].availability # "observed" =>
              Episode(x).metrics[m].value = None
    BY <2>2, <2>3, ProjectedAvailability
  <2> QED
    BY <2>1, <2>3, <2>4
<1> QED
  BY <1>1, <1>2, <1>3 DEF AnalyzerAccepts, b

-----------------------------------------------------------------------------
(* The two schemas: a core of one, with its availability counts cut for    *)
(* the other, is the core of the other.                                    *)

Available(outcomes) ==
  \A e \in outcomes, m \in Metrics :
    e.metrics[m].availability \in
      {"observed", "not_recorded", "unsupported_by_schema"}

(* Nothing was sampled, so the counts of one schema give those of the      *)
(* other.                                                                  *)
LEMMA MissingnessRecut ==
  ASSUME NEW m \in Metrics, NEW o, Available(o),
         NEW v \in {1, 2}, NEW w \in {1, 2}
  PROVE  Partition(Missingness(m, o, v), w) = Missingness(m, o, w)
<1> DEFINE count(b) == IF b = "eligible" THEN Cardinality(o)
                       ELSE Cardinality({e \in o :
                                           e.metrics[m].availability = b})
           D(u) == Availabilities(u) \cup {"eligible"}
<1>1. \A u : Missingness(m, o, u) = [b \in D(u) |-> count(b)]
  BY DEF Missingness, Quantify
<1>2. count("sampled_by_policy") = 0
  <2>1. {e \in o : e.metrics[m].availability = "sampled_by_policy"} = {}
    BY DEF Available
  <2> QED
    BY <2>1, FS_EmptySet
<1>3. CASE w = 1
  <2>1. D(v) \ {"sampled_by_policy"} = D(1)
    BY DEF Availabilities
  <2>2. DOMAIN Missingness(m, o, v) = D(v)
    BY <1>1
  <2> HIDE DEF count, D
  <2>3. \A b \in D(1) : Missingness(m, o, v)[b] = count(b)
    BY <1>1, <2>1
  <2>4. Partition(Missingness(m, o, v), 1) = [b \in D(1) |-> count(b)]
    BY <2>1, <2>2, <2>3 DEF Partition, WithoutSampled
  <2> QED
    BY <2>4, <1>1, <1>3
<1>4. CASE w = 2
  <2>1. D(v) \cup {"sampled_by_policy"} = D(2)
    BY DEF Availabilities
  <2>2. DOMAIN Missingness(m, o, v) = D(v)
    BY <1>1
  <2>3. \A b \in D(2) :
          (IF b = "sampled_by_policy" THEN 0
           ELSE Missingness(m, o, v)[b]) = count(b)
    <3> SUFFICES ASSUME NEW b \in D(2), b # "sampled_by_policy"
                 PROVE  Missingness(m, o, v)[b] = count(b)
      BY <1>2
    <3>1. b \in D(v)
      BY <2>1
    <3> HIDE DEF count, D
    <3> QED
      BY <1>1, <3>1
  <2> HIDE DEF count, D
  <2>4. Partition(Missingness(m, o, v), 2) = [b \in D(2) |-> count(b)]
    BY <2>1, <2>2, <2>3 DEF Partition, WithSampled
  <2> QED
    BY <2>4, <1>1, <1>4
<1> QED
  BY <1>3, <1>4

(* The fields of a metric, of which only the missing values depend on the  *)
(* schema.                                                                 *)
ObservedOf(m, o) == {e \in o : e.metrics[m].availability = "observed"}
MetricFields(m) ==
  {"missingness"}
    \cup (IF Aggregation[m] = "integer-quantiles"
          THEN {"observed_values", "quantiles"} ELSE {})
    \cup (IF Aggregation[m] = "category-counts"
          THEN {"category_counts"} ELSE {})
FieldOf(f, m, o, v) ==
  CASE f = "missingness" -> Missingness(m, o, v)
    [] f = "observed_values" -> SortedValues(m, ObservedOf(m, o))
    [] f = "quantiles" ->
         [n \in 1..3 |-> Quantile(SortedValues(m, ObservedOf(m, o)), n)]
    [] f = "category_counts" ->
         [c \in Categories |->
            Cardinality({e \in ObservedOf(m, o) : e.metrics[m].value = c})]

(* A metric is the function of its fields.                                 *)
LEMMA MetricParts ==
  ASSUME NEW m \in Metrics, NEW o, NEW v
  PROVE  MetricResult(m, o, v) =
           [f \in MetricFields(m) |-> FieldOf(f, m, o, v)]
<1> DEFINE S == SortedValues(m, ObservedOf(m, o))
           Q == [n \in 1..3 |-> Quantile(S, n)]
           C == [c \in Categories |->
                   Cardinality({e \in ObservedOf(m, o) :
                                  e.metrics[m].value = c})]
           M == Missingness(m, o, v)
<1>1. Aggregation[m] \in
        {"integer-quantiles", "category-counts", "missingness-only"}
  BY DEF Metrics, Aggregation
<1>2. CASE Aggregation[m] = "integer-quantiles"
  <2>1. MetricResult(m, o, v) =
          [missingness |-> M, observed_values |-> S, quantiles |-> Q]
    BY <1>2 DEF MetricResult, ObservedOf
  <2>2. MetricFields(m) = {"missingness", "observed_values", "quantiles"}
    BY <1>2 DEF MetricFields
  <2>3. /\ FieldOf("missingness", m, o, v) = M
        /\ FieldOf("observed_values", m, o, v) = S
        /\ FieldOf("quantiles", m, o, v) = Q
    BY DEF FieldOf
  <2> HIDE DEF S, Q, C, M
  <2> QED
    BY <2>1, <2>2, <2>3
<1>3. CASE Aggregation[m] = "category-counts"
  <2>1. MetricResult(m, o, v) = [missingness |-> M, category_counts |-> C]
    BY <1>3 DEF MetricResult, ObservedOf, Quantify
  <2>2. MetricFields(m) = {"missingness", "category_counts"}
    BY <1>3 DEF MetricFields
  <2>3. /\ FieldOf("missingness", m, o, v) = M
        /\ FieldOf("category_counts", m, o, v) = C
    BY DEF FieldOf
  <2> HIDE DEF S, Q, C, M
  <2> QED
    BY <2>1, <2>2, <2>3
<1>4. CASE Aggregation[m] = "missingness-only"
  <2>1. MetricResult(m, o, v) = [missingness |-> M]
    BY <1>4 DEF MetricResult
  <2>2. MetricFields(m) = {"missingness"}
    BY <1>4 DEF MetricFields
  <2>3. FieldOf("missingness", m, o, v) = M
    BY DEF FieldOf
  <2> HIDE DEF S, Q, C, M
  <2> QED
    BY <2>1, <2>2, <2>3
<1> QED
  BY <1>1, <1>2, <1>3, <1>4

(* Two schemas differ in the missing values of a metric.                   *)
LEMMA MetricsDiffer ==
  ASSUME NEW m \in Metrics, NEW o, NEW v, NEW w
  PROVE  /\ DOMAIN MetricResult(m, o, v) = MetricFields(m)
         /\ "missingness" \in MetricFields(m)
         /\ MetricResult(m, o, v).missingness = Missingness(m, o, v)
         /\ \A f \in MetricFields(m) \ {"missingness"} :
              MetricResult(m, o, v)[f] = MetricResult(m, o, w)[f]
<1>1. \A f \in MetricFields(m) \ {"missingness"} :
        FieldOf(f, m, o, v) = FieldOf(f, m, o, w)
  BY DEF MetricFields, FieldOf
<1>2. "missingness" \in MetricFields(m)
  BY DEF MetricFields
<1>3. FieldOf("missingness", m, o, v) = Missingness(m, o, v)
  BY DEF FieldOf
<1> QED
  BY <1>1, <1>2, <1>3, MetricParts

(* So the recut of a metric is the metric of the other schema.             *)
LEMMA MetricRecut ==
  ASSUME NEW m \in Metrics, NEW o, Available(o),
         NEW v \in {1, 2}, NEW w \in {1, 2}
  PROVE  [MetricResult(m, o, v) EXCEPT !.missingness = Partition(@, w)] =
           MetricResult(m, o, w)
<1> DEFINE F == MetricFields(m)
           X == MetricResult(m, o, v)
           Y == MetricResult(m, o, w)
<1>1. X = [f \in F |-> X[f]] /\ Y = [f \in F |-> Y[f]]
  BY MetricParts
<1>2. /\ "missingness" \in F /\ X.missingness = Missingness(m, o, v)
      /\ Y.missingness = Missingness(m, o, w)
      /\ \A f \in F \ {"missingness"} : X[f] = Y[f]
  BY MetricsDiffer
<1>3. Partition(X.missingness, w) = Y.missingness
  BY <1>2, MissingnessRecut
<1> HIDE DEF F, X, Y
<1>4. [X EXCEPT !.missingness = Partition(@, w)] = Y
  BY <1>1, <1>2, <1>3
<1> QED
  BY <1>4 DEF X, Y

(* The fields of a cohort.                                                 *)
LEMMA CohortParts ==
  ASSUME NEW key, NEW S, NEW inv, NEW v
  PROVE  LET c == Cohort(key, S, inv, v)
             o == Outcomes(S, inv) IN
         /\ c.identity = key
         /\ c.comparable = (key.generation # None)
         /\ c.outcomes = Cardinality(o)
         /\ c.outcome_counts =
              [s \in OutcomeStatuses |->
                 Cardinality({e \in o : e.status = s})]
         /\ c.metrics = [m \in Metrics |-> MetricResult(m, o, v)]
BY DEF Cohort, Quantify

(* A cohort of one schema, recounted, is that of the other.                *)
LEMMA CohortRecut ==
  ASSUME NEW key, NEW S, NEW inv, Available(Outcomes(S, inv)),
         NEW v \in {1, 2}, NEW w \in {1, 2}
  PROVE  Recounted(Cohort(key, S, inv, v), w) = Cohort(key, S, inv, w)
<1> DEFINE o == Outcomes(S, inv)
           old == [m \in Metrics |-> MetricResult(m, o, v)]
           new == [m \in Metrics |-> MetricResult(m, o, w)]
           cut == [m \in Metrics |->
                     [old[m] EXCEPT !.missingness = Partition(@, w)]]
<1>1. cut = new
  BY MetricRecut
<1>2. [Cohort(key, S, inv, v) EXCEPT !.metrics = new] =
        Cohort(key, S, inv, w)
  <2> DEFINE X == Cohort(key, S, inv, v)
             Y == Cohort(key, S, inv, w)
             D == {"identity", "comparable", "strength", "outcomes",
                   "outcome_counts", "drafts", "active", "stale_draft_n",
                   "superseded", "invalidated_episode_n",
                   "generation_unavailable_episode_n", "metrics"}
  <2>1. X = [f \in D |-> X[f]] /\ Y = [f \in D |-> Y[f]]
    BY DEF Cohort
  <2>2. \A f \in D \ {"metrics"} : X[f] = Y[f]
    <3>1. /\ X["identity"] = Y["identity"]
          /\ X["comparable"] = Y["comparable"]
          /\ X["strength"] = Y["strength"]
          /\ X["outcomes"] = Y["outcomes"]
          /\ X["outcome_counts"] = Y["outcome_counts"]
      BY DEF Cohort
    <3>2. /\ X["drafts"] = Y["drafts"] /\ X["active"] = Y["active"]
          /\ X["stale_draft_n"] = Y["stale_draft_n"]
          /\ X["superseded"] = Y["superseded"]
      BY DEF Cohort
    <3>3. /\ X["invalidated_episode_n"] = Y["invalidated_episode_n"]
          /\ X["generation_unavailable_episode_n"] =
               Y["generation_unavailable_episode_n"]
      BY DEF Cohort
    <3> HIDE DEF X, Y
    <3> QED
      BY <3>1, <3>2, <3>3
  <2>3. Y["metrics"] = new
    BY DEF Cohort
  <2> HIDE DEF X, Y, new
  <2>4. [X EXCEPT !.metrics = new] = Y
    BY <2>1, <2>2, <2>3
  <2> QED
    BY <2>4 DEF X, Y
<1>3. Cohort(key, S, inv, v).metrics = old
  BY DEF Cohort
<1> HIDE DEF o, old, new
<1>4. Recounted(Cohort(key, S, inv, v), w) =
        [Cohort(key, S, inv, v) EXCEPT !.metrics = cut]
  BY <1>3 DEF Recounted
<1> QED
  BY <1>1, <1>2, <1>4

(* The patterns of a cohort are those of its outcomes.                     *)
LEMMA PatternsFollow ==
  ASSUME NEW c, NEW d, c.identity = d.identity, c.comparable = d.comparable,
         c.outcomes = d.outcomes, NEW o
  PROVE  DecisionPatterns(c, o) = DecisionPatterns(d, o)
BY DEF DecisionPatterns, PatternRow, Recurring

(* What the rules of emission say, kind by kind.                           *)
LEMMA RuleParts ==
  ASSUME NEW r \in EmissionRules
  PROVE  \/ /\ r.kind = "metric" /\ r.source \in Metrics \cup {"any-metric"}
            /\ "missingness" \in r.evidence
            /\ r.predicate \in
                 {"observed-count-positive", "positive-observed-value",
                  "not-recorded-count-positive", "unsupported-count-positive",
                  "non-pass-count-positive"}
         \/ /\ r.kind = "decision" /\ r.evidence = {"counts", "pattern"}
            /\ r.source \in {"single-event", "contiguous-adjacent-pair"}
         \/ /\ r.kind = "lifecycle" /\ r.evidence = {"counts"}
            /\ r.source \in {"generation_unavailable_episode_n",
                             "invalidated_episode_n", "stale_draft_n"}
         \/ /\ r.kind = "outcome" /\ r.evidence = {"counts"}
            /\ r.source = "non_success_outcome_n"
BY DEF EmissionRules, Rule, Distribution, Metrics, Aggregation

(* The parts of a candidate.                                               *)
EvidenceOf(rule, values) ==
  [f \in rule.evidence \cap DOMAIN values |-> values[f]]
LEMMA CandidateParts ==
  ASSUME NEW rule, NEW cohort, NEW source, NEW n, NEW support, NEW values
  PROVE  LET row == Candidate(rule, cohort, source, n, support, values)
             c == row.content IN
         /\ row = Identified(c) /\ row.id = c
         /\ c.type = rule.type /\ c.kind = rule.kind
         /\ c.cohort = cohort.identity /\ c.source = source
         /\ c.eligible = n /\ c.support = support
         /\ c.outcomes = cohort.outcomes
         /\ c.evidence = EvidenceOf(rule, values)
         /\ c.strength =
              IF rule.kind = "decision" THEN "recurring" ELSE "descriptive"
BY DEF Candidate, Identified, EvidenceOf

(* A candidate that counts no missing values is the same in both schemas.  *)
LEMMA CandidateStays ==
  ASSUME NEW rule, "missingness" \notin rule.evidence,
         NEW c, NEW d, c.identity = d.identity, c.outcomes = d.outcomes,
         NEW source, NEW n, NEW support, NEW values, NEW w
  PROVE  Renewed(Candidate(rule, c, source, n, support, values), w) =
           Candidate(rule, d, source, n, support, values)
<1> DEFINE row == Candidate(rule, c, source, n, support, values)
<1>1. row = Candidate(rule, d, source, n, support, values)
  BY DEF Candidate
<1>2. row.content.evidence = EvidenceOf(rule, values)
  BY CandidateParts
<1> HIDE DEF row
<1>3. "missingness" \notin DOMAIN row.content.evidence
  BY <1>2 DEF EvidenceOf
<1>4. Renewed(row, w) = row
  BY <1>3 DEF Renewed
<1> QED
  BY <1>1, <1>4 DEF row

(* One that does is the other schema's, identified anew.                   *)
LEMMA CandidateRecut ==
  ASSUME NEW rule, "missingness" \in rule.evidence,
         NEW c, NEW d, c.identity = d.identity, c.outcomes = d.outcomes,
         NEW m \in Metrics, NEW o, Available(o), NEW n, NEW support,
         NEW v \in {1, 2}, NEW w \in {1, 2}
  PROVE  Renewed(Candidate(rule, c, m, n, support, MetricResult(m, o, v)), w)
           = Candidate(rule, d, m, n, support, MetricResult(m, o, w))
<1> DEFINE X == MetricResult(m, o, v)
           Y == MetricResult(m, o, w)
           EX == EvidenceOf(rule, X)
           EY == EvidenceOf(rule, Y)
           row == Candidate(rule, c, m, n, support, X)
           F == MetricFields(m)
<1>1. /\ DOMAIN X = F /\ DOMAIN Y = F /\ "missingness" \in F
      /\ X["missingness"] = Missingness(m, o, v)
      /\ Y["missingness"] = Missingness(m, o, w)
      /\ \A f \in F \ {"missingness"} : X[f] = Y[f]
  BY MetricsDiffer
<1>2. Partition(X["missingness"], w) = Y["missingness"]
  BY <1>1, MissingnessRecut
<1> HIDE DEF X, Y, F
<1>3. "missingness" \in DOMAIN EX
      /\ [EX EXCEPT !["missingness"] = Partition(@, w)] = EY
  BY <1>1, <1>2 DEF EvidenceOf
<1>4. row.content.evidence = EX
  BY CandidateParts
<1> DEFINE Content(ev) ==
             [type |-> rule.type, cohort |-> d.identity, kind |-> rule.kind,
              source |-> m, eligible |-> n, outcomes |-> d.outcomes,
              support |-> support, evidence |-> ev,
              strength |-> IF rule.kind = "decision" THEN "recurring"
                           ELSE "descriptive"]
<1>5. [row.content EXCEPT !.evidence = EY] =
        Candidate(rule, d, m, n, support, Y).content
  <2>1. row.content = Content(EX)
    BY DEF Candidate, Identified, EvidenceOf
  <2>2. Candidate(rule, d, m, n, support, Y).content = Content(EY)
    BY DEF Candidate, Identified, EvidenceOf
  <2> HIDE DEF EX, EY
  <2>3. [Content(EX) EXCEPT !.evidence = EY] = Content(EY)
    OBVIOUS
  <2> HIDE DEF Content, row
  <2> QED
    BY <2>1, <2>2, <2>3
<1>6. Candidate(rule, d, m, n, support, Y) =
        Identified(Candidate(rule, d, m, n, support, Y).content)
  BY CandidateParts
<1> HIDE DEF EX, EY, row
<1>7. Renewed(row, w) = Identified([row.content EXCEPT !.evidence = EY])
  BY <1>3, <1>4 DEF Renewed
<1>8. Renewed(row, w) = Candidate(rule, d, m, n, support, Y)
  BY <1>5, <1>6, <1>7
<1> QED
  BY <1>8 DEF row, X, Y

(* A predicate of the rules judges a metric alike in both schemas: it      *)
(* looks at no count that one of them lacks.                               *)
LEMMA PredicateStays ==
  ASSUME NEW m \in Metrics, NEW o,
         NEW v \in {1, 2}, NEW w \in {1, 2},
         NEW p \in {"observed-count-positive", "positive-observed-value",
                    "not-recorded-count-positive",
                    "unsupported-count-positive", "non-pass-count-positive"}
  PROVE  /\ MetricPredicate(MetricResult(m, o, v), p) <=>
              MetricPredicate(MetricResult(m, o, w), p)
         /\ MetricResult(m, o, v).missingness["eligible"] = Cardinality(o)
<1> DEFINE X == MetricResult(m, o, v)
           Y == MetricResult(m, o, w)
           F == MetricFields(m)
<1>1. /\ DOMAIN X = F /\ DOMAIN Y = F
      /\ X.missingness = Missingness(m, o, v)
      /\ Y.missingness = Missingness(m, o, w)
      /\ \A f \in F \ {"missingness"} : X[f] = Y[f]
  BY MetricsDiffer
<1>2. /\ Missingness(m, o, v)["eligible"] = Cardinality(o)
      /\ \A b \in {"observed", "not_recorded", "unsupported_by_schema"} :
           Missingness(m, o, v)[b] = Missingness(m, o, w)[b]
  BY DEF Missingness, Availabilities
<1> HIDE DEF X, Y, F
<1>3. MetricPredicate(X, p) <=> MetricPredicate(Y, p)
  <2>1. CASE p \in {"observed-count-positive", "not-recorded-count-positive",
                    "unsupported-count-positive"}
    <3>1. /\ X.missingness["observed"] = Y.missingness["observed"]
          /\ X.missingness["not_recorded"] = Y.missingness["not_recorded"]
          /\ X.missingness["unsupported_by_schema"] =
               Y.missingness["unsupported_by_schema"]
      BY <1>1, <1>2
    <3> QED
      BY <2>1, <3>1 DEF MetricPredicate
  <2>2. CASE p = "positive-observed-value"
    <3>1. /\ MetricPredicate(X, p) <=>
               /\ "observed_values" \in DOMAIN X
               /\ \E i \in DOMAIN X["observed_values"] :
                    X["observed_values"][i] > 0
          /\ MetricPredicate(Y, p) <=>
               /\ "observed_values" \in DOMAIN Y
               /\ \E i \in DOMAIN Y["observed_values"] :
                    Y["observed_values"][i] > 0
      BY <2>2 DEF MetricPredicate
    <3> QED
      BY <3>1, <1>1
  <2>3. CASE p = "non-pass-count-positive"
    <3>1. /\ MetricPredicate(X, p) <=>
               /\ "category_counts" \in DOMAIN X
               /\ \E c \in Categories \ {"pass"} :
                    X["category_counts"][c] > 0
          /\ MetricPredicate(Y, p) <=>
               /\ "category_counts" \in DOMAIN Y
               /\ \E c \in Categories \ {"pass"} :
                    Y["category_counts"][c] > 0
      BY <2>3 DEF MetricPredicate
    <3> QED
      BY <3>1, <1>1
  <2> QED
    BY <2>1, <2>2, <2>3
<1> QED
  BY <1>1, <1>2, <1>3 DEF X, Y

(* The metric candidates of a cohort: whom a rule names, with something to *)
(* be said of it.                                                          *)
Named(rule) == IF rule.source = "any-metric" THEN Metrics ELSE {rule.source}
Telling(rule, o, v) ==
  {m \in Named(rule) :
     /\ Cardinality(o) >= 1
     /\ MetricPredicate(MetricResult(m, o, v), rule.predicate)}
MetricRows(rule, c, o, v) ==
  {Candidate(rule, c, m, Cardinality(o), None, MetricResult(m, o, v)) :
     m \in Telling(rule, o, v)}
LEMMA MetricCandidateParts ==
  ASSUME NEW rule \in EmissionRules, rule.kind = "metric",
         NEW c, NEW o, NEW v \in {1, 2},
         c.metrics = [m \in Metrics |-> MetricResult(m, o, v)]
  PROVE  /\ Named(rule) \subseteq Metrics
         /\ MetricCandidates(rule, c) = MetricRows(rule, c, o, v)
<1>1. Named(rule) \subseteq Metrics
  BY RuleParts DEF Named
<1>2. \A m \in Named(rule) : c.metrics[m] = MetricResult(m, o, v)
  BY <1>1
<1>3. \A m \in Named(rule) :
        MetricResult(m, o, v).missingness["eligible"] = Cardinality(o)
  BY <1>1, RuleParts, PredicateStays
<1> DEFINE H == {n \in Named(rule) :
                   /\ c.metrics[n].missingness["eligible"] >= 1
                   /\ MetricPredicate(c.metrics[n], rule.predicate)}
<1>4. MetricCandidates(rule, c) =
        {Candidate(rule, c, m, c.metrics[m].missingness["eligible"], None,
                   c.metrics[m]) : m \in H}
  BY DEF MetricCandidates, Named
<1>5. H = Telling(rule, o, v)
  BY <1>2, <1>3 DEF Telling
<1> HIDE DEF H
<1>6. \A m \in H : /\ c.metrics[m] = MetricResult(m, o, v)
                   /\ MetricResult(m, o, v).missingness["eligible"] =
                        Cardinality(o)
  BY <1>2, <1>3, <1>5 DEF Telling
<1> DEFINE P(m) == Candidate(rule, c, m,
                             c.metrics[m].missingness["eligible"], None,
                             c.metrics[m])
           Q(m) == Candidate(rule, c, m, Cardinality(o), None,
                             MetricResult(m, o, v))
<1>7. \A m \in H : P(m) = Q(m)
  BY <1>6
<1>8. MetricCandidates(rule, c) = {P(m) : m \in H}
  BY <1>4
<1>9. MetricCandidates(rule, c) = {Q(m) : m \in Telling(rule, o, v)}
  <2> HIDE DEF P, Q
  <2> QED
    BY <1>5, <1>7, <1>8
<1> QED
  BY <1>1, <1>9 DEF MetricRows

(* The same metrics tell something in both schemas.                        *)
LEMMA TellingStays ==
  ASSUME NEW rule \in EmissionRules, rule.kind = "metric", NEW o,
         NEW v \in {1, 2}, NEW w \in {1, 2}
  PROVE  Telling(rule, o, v) = Telling(rule, o, w)
<1>1. Named(rule) \subseteq Metrics
  BY RuleParts DEF Named
<1>2. \A m \in Named(rule) :
        MetricPredicate(MetricResult(m, o, v), rule.predicate) <=>
          MetricPredicate(MetricResult(m, o, w), rule.predicate)
  BY <1>1, RuleParts, PredicateStays
<1> QED
  BY <1>2 DEF Telling

(* The parts of a group that do not depend on the schema, and the cohort.  *)
Same(b, c) ==
  c.episodes = b.episodes /\ c.invalidations = b.invalidations
LEMMA GroupParts ==
  ASSUME NEW key, NEW b
  PROVE  LET S == Members(key, b)
             c == Cohort(key, S, b.invalidations, b.version)
             g == Group(key, b) IN
         /\ g.cohort = c
         /\ g.n = Cardinality(S)
         /\ g.patterns = DecisionPatterns(c, Outcomes(S, b.invalidations))
BY DEF Group

(* Two bundles of the same episodes have the same groups but for the       *)
(* counts.                                                                 *)
LEMMA GroupsFollow ==
  ASSUME NEW key, NEW b, NEW c, Same(b, c)
  PROVE  /\ Members(key, c) = Members(key, b)
         /\ Group(key, c).n = Group(key, b).n
         /\ Group(key, c).patterns = Group(key, b).patterns
<1>1. Members(key, c) = Members(key, b) /\ c.invalidations = b.invalidations
  BY DEF Members, Same
<1> DEFINE S == Members(key, b)
           inv == b.invalidations
           X == Cohort(key, S, inv, b.version)
           Y == Cohort(key, S, inv, c.version)
<1>2. X.identity = Y.identity /\ X.comparable = Y.comparable
      /\ X.outcomes = Y.outcomes
  BY DEF Cohort
<1> HIDE DEF X, Y
<1>3. DecisionPatterns(X, Outcomes(S, inv)) =
        DecisionPatterns(Y, Outcomes(S, inv))
  BY <1>2, PatternsFollow
<1> QED
  BY <1>1, <1>3, GroupParts DEF X, Y

(* What is counted does not depend on the schema.                          *)
LEMMA CountStays ==
  ASSUME NEW r \in EmissionRules, r.kind \in {"lifecycle", "outcome"},
         NEW key, NEW S, NEW inv, NEW v, NEW w
  PROVE  CountOf(r, Cohort(key, S, inv, v)) =
           CountOf(r, Cohort(key, S, inv, w))
<1> DEFINE X == Cohort(key, S, inv, v)
           Y == Cohort(key, S, inv, w)
<1>1. CASE r.kind = "outcome"
  <2>1. X.outcome_counts = Y.outcome_counts
    BY DEF Cohort
  <2> HIDE DEF X, Y
  <2>2. CountOf(r, X) = CountOf(r, Y)
    BY <2>1, <1>1 DEF CountOf
  <2> QED
    BY <2>2 DEF X, Y
<1>2. CASE r.kind = "lifecycle"
  <2>1. X["generation_unavailable_episode_n"] =
          Y["generation_unavailable_episode_n"]
    BY DEF Cohort
  <2>2. X["invalidated_episode_n"] = Y["invalidated_episode_n"]
    BY DEF Cohort
  <2>3. X["stale_draft_n"] = Y["stale_draft_n"]
    BY DEF Cohort
  <2>4. r.source \in {"generation_unavailable_episode_n",
                      "invalidated_episode_n", "stale_draft_n"}
    BY <1>2, RuleParts
  <2> HIDE DEF X, Y
  <2>5. CountOf(r, X) = CountOf(r, Y)
    BY <2>1, <2>2, <2>3, <2>4, <1>2 DEF CountOf
  <2> QED
    BY <2>5 DEF X, Y
<1> QED
  BY <1>1, <1>2

(* The candidates of a group in one schema, renewed, are those of the      *)
(* other.                                                                  *)
LEMMA DraftsRecut ==
  ASSUME NEW key, NEW b, NEW c, Same(b, c), NEW r \in EmissionRules,
         b.version \in {1, 2}, c.version \in {1, 2},
         Available(Outcomes(Members(key, b), b.invalidations))
  PROVE  {Renewed(row, c.version) : row \in Drafted(Group(key, b), r)} =
           Drafted(Group(key, c), r)
<1> DEFINE S == Members(key, b)
           inv == b.invalidations
           o == Outcomes(S, inv)
           v == b.version
           w == c.version
           X == Cohort(key, S, inv, v)
           Y == Cohort(key, S, inv, w)
           g == Group(key, b)
           h == Group(key, c)
           R(row) == Renewed(row, w)
<1>1. /\ g.cohort = X /\ h.cohort = Y /\ h.n = g.n
      /\ h.patterns = g.patterns
  BY GroupsFollow, GroupParts DEF Same
<1>2. /\ X.identity = Y.identity /\ X.outcomes = Y.outcomes
      /\ X.metrics = [m \in Metrics |-> MetricResult(m, o, v)]
      /\ Y.metrics = [m \in Metrics |-> MetricResult(m, o, w)]
  <2>1. X.identity = Y.identity /\ X.outcomes = Y.outcomes
    BY DEF Cohort
  <2>2. X.metrics = [m \in Metrics |-> MetricResult(m, o, v)]
    BY DEF Cohort
  <2>3. Y.metrics = [m \in Metrics |-> MetricResult(m, o, w)]
    BY DEF Cohort
  <2> QED
    BY <2>1, <2>2, <2>3
<1>3. r.kind \in {"lifecycle", "outcome"} => CountOf(r, X) = CountOf(r, Y)
  BY CountStays
<1>4. Available(o) /\ v \in {1, 2} /\ w \in {1, 2}
  OBVIOUS
<1> HIDE DEF S, o, inv, v, w, X, Y, g, h
<1>5. CASE r.kind = "metric"
  <2> DEFINE P(m) == Candidate(r, X, m, Cardinality(o), None,
                               MetricResult(m, o, v))
             Q(m) == Candidate(r, Y, m, Cardinality(o), None,
                               MetricResult(m, o, w))
             T == Telling(r, o, v)
  <2>1. /\ Named(r) \subseteq Metrics
        /\ MetricCandidates(r, X) = {P(m) : m \in T}
    <3>1. /\ Named(r) \subseteq Metrics
          /\ MetricCandidates(r, X) = MetricRows(r, X, o, v)
      BY <1>2, <1>4, <1>5, MetricCandidateParts
    <3> QED
      BY <3>1 DEF MetricRows
  <2>2. MetricCandidates(r, Y) = {Q(m) : m \in Telling(r, o, w)}
    <3>1. MetricCandidates(r, Y) = MetricRows(r, Y, o, w)
      BY <1>2, <1>4, <1>5, MetricCandidateParts
    <3> QED
      BY <3>1 DEF MetricRows
  <2>3. Telling(r, o, w) = T
    BY <1>4, <1>5, TellingStays
  <2>4. \A m \in T : m \in Metrics
    BY <2>1 DEF Telling
  <2>5. "missingness" \in r.evidence
    BY <1>5, RuleParts
  <2>6. \A m \in T : R(P(m)) = Q(m)
    BY <1>2, <1>4, <2>4, <2>5, CandidateRecut
  <2>7. Drafted(g, r) = {P(m) : m \in T} /\ Drafted(h, r) = {Q(m) : m \in T}
    BY <1>1, <1>5, <2>1, <2>2, <2>3 DEF Drafted, CandidatesOf
  <2> HIDE DEF P, Q, T, R
  <2>8. {R(row) : row \in Drafted(g, r)} = Drafted(h, r)
    BY <2>6, <2>7
  <2> QED
    BY <2>8 DEF g, h, w, R
<1>6. CASE r.kind = "decision"
  <2> DEFINE H == {p \in g.patterns :
                     p.kind = r.source /\ p.strength = "recurring"}
             val(p) == [counts |-> PatternCounts(p), pattern |-> p.pattern]
             P(p) == Candidate(r, X, p.kind, p.eligible, p.support, val(p))
             Q(p) == Candidate(r, Y, p.kind, p.eligible, p.support, val(p))
  <2>1. "missingness" \notin r.evidence
    BY <1>6, RuleParts
  <2>2. \A p \in H : R(P(p)) = Q(p)
    BY <1>2, <2>1, CandidateStays
  <2>3. Drafted(g, r) = {P(p) : p \in H}
    BY <1>1, <1>6 DEF Drafted, CandidatesOf, DecisionCandidates
  <2>4. Drafted(h, r) = {Q(p) : p \in H}
    BY <1>1, <1>6 DEF Drafted, CandidatesOf, DecisionCandidates
  <2> HIDE DEF P, Q, H, R
  <2>5. {R(row) : row \in Drafted(g, r)} = Drafted(h, r)
    BY <2>2, <2>3, <2>4
  <2> QED
    BY <2>5 DEF g, h, w, R
<1>7. CASE r.kind \in {"lifecycle", "outcome"}
  <2> DEFINE n == g.n
             count == CountOf(r, X)
             eligible == IF r.kind = "outcome" THEN X.outcomes ELSE n
             counts == IF r.source = "stale_draft_n"
                       THEN [stale_draft_n |-> count, as_of |-> AsOf,
                             stale_after_seconds |-> StaleAfter]
                       ELSE [s \in {r.source} |-> count]
             P == Candidate(r, X, r.source, eligible, None,
                            [counts |-> counts])
             Q == Candidate(r, Y, r.source, eligible, None,
                            [counts |-> counts])
             empty == eligible < 1 \/ count = 0
  <2>1. CountCandidates(r, X, n) = IF empty THEN {} ELSE {P}
    BY DEF CountCandidates
  <2>2. CountCandidates(r, Y, n) = IF empty THEN {} ELSE {Q}
    BY <1>2, <1>3, <1>7 DEF CountCandidates
  <2>3. "missingness" \notin r.evidence
    BY <1>7, RuleParts
  <2>4. R(P) = Q
    BY <1>2, <2>3, CandidateStays
  <2>5. Drafted(g, r) = CountCandidates(r, X, n)
        /\ Drafted(h, r) = CountCandidates(r, Y, n)
    BY <1>1, <1>7 DEF Drafted, CandidatesOf
  <2> HIDE DEF P, Q, empty, n, R
  <2>6. {R(row) : row \in Drafted(g, r)} = Drafted(h, r)
    BY <2>1, <2>2, <2>4, <2>5
  <2> QED
    BY <2>6 DEF g, h, w, R
<1> QED
  BY <1>5, <1>6, <1>7, RuleParts

(* Sets of groups, and what a core is made of.                             *)
Keys(b) == {CohortKey(e) : e \in b.episodes}
RowsOf(b) == {Group(key, b).cohort : key \in Keys(b)}
PatternsIn(b) == UNION {Group(key, b).patterns : key \in Keys(b)}
CandidatesIn(b) ==
  UNION {Drafted(Group(key, b), r) : key \in Keys(b), r \in EmissionRules}
RunsOf(b) == {e.run : e \in b.episodes}
CoreOf(version_, episodes, invalidations, ledger, cohorts, patterns,
       candidates, sampled, retained) ==
  [version |-> version_, episodes |-> episodes,
   invalidations |-> invalidations, ledger |-> ledger, cohorts |-> cohorts,
   patterns |-> patterns, candidates |-> candidates, sampled |-> sampled,
   retained |-> retained]
LEMMA CoreRecord ==
  ASSUME NEW b
  PROVE  BuildCore(b) =
           CoreOf(b.version, RunsOf(b), b.invalidations,
                  Ledger(b.episodes, b.invalidations), RowsOf(b),
                  PatternsIn(b), CandidatesIn(b),
                  IF b.version = 1 THEN None ELSE 0,
                  IF b.version = 1 THEN None
                  ELSE Cardinality(b.episodes) - Cardinality(b.invalidations))
<1> DEFINE rows == {g.cohort : g \in Grouped(b)}
           patterns == UNION {g.patterns : g \in Grouped(b)}
           candidates == UNION {Drafted(g, r) : g \in Grouped(b),
                                                r \in EmissionRules}
<1>1. rows = RowsOf(b)
  BY DEF Grouped, RowsOf, Keys
<1>2. patterns = PatternsIn(b)
  BY DEF Grouped, PatternsIn, Keys
<1>3. candidates = CandidatesIn(b)
  BY DEF Grouped, CandidatesIn, Keys
<1>4. BuildCore(b) =
           CoreOf(b.version, RunsOf(b), b.invalidations,
                  Ledger(b.episodes, b.invalidations), rows,
                  patterns, candidates,
                  IF b.version = 1 THEN None ELSE 0,
                  IF b.version = 1 THEN None
                  ELSE Cardinality(b.episodes) - Cardinality(b.invalidations))
  BY DEF BuildCore, CoreOf, RunsOf
<1> HIDE DEF rows, patterns, candidates
<1> QED
  BY <1>1, <1>2, <1>3, <1>4

(* The same, field by field.                                               *)
LEMMA CoreParts ==
  ASSUME NEW b
  PROVE  LET c == BuildCore(b) IN
         /\ c.version = b.version
         /\ c.episodes = {e.run : e \in b.episodes}
         /\ c.invalidations = b.invalidations
         /\ c.ledger = Ledger(b.episodes, b.invalidations)
         /\ c.cohorts = RowsOf(b)
         /\ c.patterns = PatternsIn(b)
         /\ c.candidates = CandidatesIn(b)
         /\ c.sampled = IF b.version = 1 THEN None ELSE 0
         /\ c.retained = IF b.version = 1 THEN None
                         ELSE Cardinality(b.episodes)
                                - Cardinality(b.invalidations)
BY CoreRecord DEF CoreOf, RunsOf

(* The valid outcomes of a sound bundle have only availabilities that both *)
(* schemas know.                                                           *)
LEMMA SoundIsAvailable ==
  ASSUME NEW b, SoundBundle(b), NEW S, S \subseteq b.episodes, NEW inv
  PROVE  Available(Outcomes(S, inv)) /\ Available(S)
BY DEF SoundBundle, Sound, Available, Outcomes

(* Fields of a core, replaced.                                             *)
Refilled(c, r, k) == [[c EXCEPT !.cohorts = r] EXCEPT !.candidates = k]
Renumbered(c, v, s, t) ==
  [c EXCEPT !.version = v, !.sampled = s, !.retained = t]
LEMMA CoreRefilled ==
  ASSUME NEW v, NEW e, NEW i, NEW l, NEW r, NEW p, NEW k, NEW s, NEW t,
         NEW r1, NEW k1, NEW c, c = CoreOf(v, e, i, l, r, p, k, s, t)
  PROVE  Refilled(c, r1, k1) = CoreOf(v, e, i, l, r1, p, k1, s, t)
<1>1. [CoreOf(v, e, i, l, r, p, k, s, t) EXCEPT !.cohorts = r1] =
        CoreOf(v, e, i, l, r1, p, k, s, t)
  BY DEF CoreOf
<1>2. [CoreOf(v, e, i, l, r1, p, k, s, t) EXCEPT !.candidates = k1] =
        CoreOf(v, e, i, l, r1, p, k1, s, t)
  BY DEF CoreOf
<1> QED
  BY <1>1, <1>2 DEF Refilled

(* The same for the fields that tell the schemas apart.                    *)
LEMMA CoreRenumbered ==
  ASSUME NEW v, NEW e, NEW i, NEW l, NEW r, NEW p, NEW k, NEW s, NEW t,
         NEW v1, NEW s1, NEW t1, NEW c,
         c = CoreOf(v, e, i, l, r, p, k, s, t)
  PROVE  Renumbered(c, v1, s1, t1) = CoreOf(v1, e, i, l, r, p, k, s1, t1)
<1>1. [CoreOf(v, e, i, l, r, p, k, s, t) EXCEPT !.version = v1] =
        CoreOf(v1, e, i, l, r, p, k, s, t)
  BY DEF CoreOf
<1>2. [CoreOf(v1, e, i, l, r, p, k, s, t) EXCEPT !.sampled = s1] =
        CoreOf(v1, e, i, l, r, p, k, s1, t)
  BY DEF CoreOf
<1>3. [CoreOf(v1, e, i, l, r, p, k, s1, t) EXCEPT !.retained = t1] =
        CoreOf(v1, e, i, l, r, p, k, s1, t1)
  BY DEF CoreOf
<1>4. Renumbered(c, v1, s1, t1) =
        [[[c EXCEPT !.version = v1] EXCEPT !.sampled = s1]
           EXCEPT !.retained = t1]
  BY DEF Renumbered
<1> QED
  BY <1>1, <1>2, <1>3, <1>4

(* The core of one schema, partitioned anew, is the core of the other in   *)
(* all but the version and the counts of the whole.                        *)
LEMMA CoreRecut ==
  ASSUME NEW b, SoundBundle(b), NEW c, Same(b, c),
         b.version \in {1, 2}, c.version \in {1, 2}
  PROVE  Repartitioned(BuildCore(b), c.version) =
           CoreOf(b.version, RunsOf(b), b.invalidations,
                  Ledger(b.episodes, b.invalidations), RowsOf(c),
                  PatternsIn(c), CandidatesIn(c),
                  BuildCore(b).sampled, BuildCore(b).retained)
<1> DEFINE w == c.version
           X == BuildCore(b)
           Y == BuildCore(c)
<1>1. Keys(c) = Keys(b)
  BY DEF Keys, Same
<1>2. \A key : Available(Outcomes(Members(key, b), b.invalidations))
  BY SoundIsAvailable DEF Members
<1>3. {Recounted(row, w) : row \in RowsOf(b)} = RowsOf(c)
  <2> DEFINE P(key) == Group(key, b).cohort
             Q(key) == Group(key, c).cohort
             R(row) == Recounted(row, w)
  <2>1. \A key : R(P(key)) = Q(key)
    <3> SUFFICES ASSUME NEW key PROVE R(P(key)) = Q(key)
      OBVIOUS
    <3> DEFINE S == Members(key, b)
               inv == b.invalidations
    <3>1. P(key) = Cohort(key, S, inv, b.version)
      BY GroupParts
    <3>2. Q(key) = Cohort(key, S, inv, w)
      BY GroupParts, GroupsFollow DEF Same
    <3>3. Recounted(Cohort(key, S, inv, b.version), w) =
            Cohort(key, S, inv, w)
      BY <1>2, CohortRecut
    <3> QED
      BY <3>1, <3>2, <3>3
  <2>2. RowsOf(b) = {P(key) : key \in Keys(b)}
    BY DEF RowsOf
  <2>3. RowsOf(c) = {Q(key) : key \in Keys(b)}
    BY <1>1 DEF RowsOf
  <2> HIDE DEF P, Q, R
  <2>4. {R(row) : row \in RowsOf(b)} = RowsOf(c)
    BY <2>1, <2>2, <2>3
  <2> QED
    BY <2>4 DEF R
<1>4. PatternsIn(b) = PatternsIn(c)
  <2>1. \A key : Group(key, b).patterns = Group(key, c).patterns
    BY GroupsFollow
  <2> QED
    BY <1>1, <2>1 DEF PatternsIn
<1>5. {Renewed(row, w) : row \in CandidatesIn(b)} = CandidatesIn(c)
  <2> DEFINE P(key, r) == Drafted(Group(key, b), r)
             Q(key, r) == Drafted(Group(key, c), r)
             R(row) == Renewed(row, w)
  <2>1. \A key : \A r \in EmissionRules :
          {R(row) : row \in P(key, r)} = Q(key, r)
    BY <1>2, DraftsRecut
  <2>2. CandidatesIn(b) = UNION {P(key, r) : key \in Keys(b),
                                             r \in EmissionRules}
    BY DEF CandidatesIn
  <2>3. CandidatesIn(c) = UNION {Q(key, r) : key \in Keys(b),
                                             r \in EmissionRules}
    BY <1>1 DEF CandidatesIn
  <2> HIDE DEF P, Q, R
  <2>4. {R(row) : row \in CandidatesIn(b)} = CandidatesIn(c)
    <3>1. ASSUME NEW row \in CandidatesIn(b)
          PROVE  R(row) \in CandidatesIn(c)
      <4>1. PICK key \in Keys(b), r \in EmissionRules : row \in P(key, r)
        BY <2>2
      <4>2. R(row) \in Q(key, r)
        BY <4>1, <2>1
      <4> QED
        BY <4>2, <2>3
    <3>2. ASSUME NEW x \in CandidatesIn(c)
          PROVE  \E row \in CandidatesIn(b) : R(row) = x
      <4>1. PICK key \in Keys(b), r \in EmissionRules : x \in Q(key, r)
        BY <2>3
      <4>2. PICK row \in P(key, r) : R(row) = x
        BY <4>1, <2>1
      <4> QED
        BY <4>2, <2>2
    <3> QED
      BY <3>1, <3>2
  <2> QED
    BY <2>4 DEF R
<1>6. /\ X.cohorts = RowsOf(b) /\ X.candidates = CandidatesIn(b)
      /\ X.sampled = X.sampled
  BY CoreParts
<1>7. Refilled(X, RowsOf(c), CandidatesIn(c)) =
        CoreOf(b.version, RunsOf(b), b.invalidations,
               Ledger(b.episodes, b.invalidations), RowsOf(c),
               PatternsIn(c), CandidatesIn(c), X.sampled, X.retained)
  <2>1. X = CoreOf(b.version, RunsOf(b), b.invalidations,
                   Ledger(b.episodes, b.invalidations), RowsOf(b),
                   PatternsIn(b), CandidatesIn(b), X.sampled, X.retained)
    BY CoreRecord, CoreParts
  <2> HIDE DEF X
  <2> QED
    BY <2>1, <1>4, CoreRefilled
<1>8. Repartitioned(X, w) = Refilled(X, RowsOf(c), CandidatesIn(c))
  <2> HIDE DEF X, Y, w
  <2> QED
    BY <1>3, <1>5, <1>6 DEF Repartitioned, Refilled
<1> QED
  BY <1>7, <1>8

(* The episodes that are not invalidated are all those that remain.        *)
LEMMA RetainedCounts ==
  ASSUME NEW b, SoundBundle(b)
  PROVE  Cardinality({e.run : e \in b.episodes} \ b.invalidations) =
           Cardinality(b.episodes) - Cardinality(b.invalidations)
<1> DEFINE E == b.episodes
           f == [e \in E |-> e.run]
           R == {e.run : e \in E}
<1>1. IsFiniteSet(E) /\ (\A x, y \in E : f[x] = f[y] => x = y)
      /\ b.invalidations \subseteq R
  BY DEF SoundBundle
<1>2. R = {f[e] : e \in E}
  OBVIOUS
<1> HIDE DEF f, R, E
<1>3. IsFiniteSet(R) /\ Cardinality(R) = Cardinality(E)
  BY <1>1, <1>2, ImageCounts
<1>4. R \cap b.invalidations = b.invalidations
  BY <1>1
<1>5. Cardinality(R \ b.invalidations) =
        Cardinality(R) - Cardinality(R \cap b.invalidations)
  BY <1>3, FS_Difference
<1> QED
  BY <1>3, <1>4, <1>5 DEF R, E

(* The older validator is shown what it would have been shown by the       *)
(* earlier release.                                                        *)
LEMMA LegacyViewIsEarlier ==
  ASSUME NEW b, SoundBundle(b), NEW c, Same(b, c),
         b.version \in {1, 2}, c.version = 1
  PROVE  LegacyView(BuildCore(b)) = BuildCore(c)
<1>1. BuildCore(b).version = b.version
  BY CoreParts
<1>2. BuildCore(c) =
        CoreOf(1, RunsOf(b), b.invalidations,
               Ledger(b.episodes, b.invalidations), RowsOf(c),
               PatternsIn(c), CandidatesIn(c), None, None)
  BY CoreRecord DEF Same, RunsOf
<1>3. CASE b.version = 1
  <2>1. LegacyView(BuildCore(b)) = BuildCore(b)
    BY <1>1, <1>3 DEF LegacyView
  <2>2. \A key : Group(key, b) = Group(key, c)
    <3>1. \A key : Members(key, b) = Members(key, c)
      BY GroupsFollow
    <3> QED
      BY <3>1, <1>3 DEF Group, Same
  <2>3. Keys(b) = Keys(c)
    BY DEF Keys, Same
  <2>4. RowsOf(b) = RowsOf(c) /\ PatternsIn(b) = PatternsIn(c)
        /\ CandidatesIn(b) = CandidatesIn(c)
    BY <2>2, <2>3 DEF RowsOf, PatternsIn, CandidatesIn
  <2>5. BuildCore(b) =
          CoreOf(1, RunsOf(b), b.invalidations,
                 Ledger(b.episodes, b.invalidations), RowsOf(b),
                 PatternsIn(b), CandidatesIn(b), None, None)
    BY <1>3, CoreRecord
  <2> QED
    BY <1>2, <2>1, <2>4, <2>5
<1>4. CASE b.version = 2
  <2>1. LegacyView(BuildCore(b)) =
          Renumbered(Repartitioned(BuildCore(b), 1), 1, None, None)
    BY <1>1, <1>4 DEF LegacyView, Renumbered
  <2>2. Repartitioned(BuildCore(b), 1) =
          CoreOf(b.version, RunsOf(b), b.invalidations,
                 Ledger(b.episodes, b.invalidations), RowsOf(c),
                 PatternsIn(c), CandidatesIn(c),
                 BuildCore(b).sampled, BuildCore(b).retained)
    <3>1. c.version \in {1, 2} /\ c.version = 1
      OBVIOUS
    <3> QED
      BY <3>1, CoreRecut
  <2>3. LegacyView(BuildCore(b)) =
        CoreOf(1, RunsOf(b), b.invalidations,
               Ledger(b.episodes, b.invalidations), RowsOf(c),
               PatternsIn(c), CandidatesIn(c), None, None)
    BY <2>1, <2>2, CoreRenumbered
  <2> QED
    BY <1>2, <2>3
<1> QED
  BY <1>3, <1>4

(* Migration makes of the core of an earlier release the core of today's.  *)
LEMMA MigratedIsToday ==
  ASSUME NEW b, SoundBundle(b), NEW c, Same(b, c),
         b.version = 1, c.version = 2
  PROVE  Migrated(BuildCore(b)) = BuildCore(c)
<1> DEFINE n == Cardinality(b.episodes) - Cardinality(b.invalidations)
<1>1. BuildCore(c) =
        CoreOf(2, RunsOf(b), b.invalidations,
               Ledger(b.episodes, b.invalidations), RowsOf(c),
               PatternsIn(c), CandidatesIn(c), 0, n)
  <2>1. c.episodes = b.episodes /\ c.invalidations = b.invalidations
    BY DEF Same
  <2>2. RunsOf(c) = RunsOf(b)
    BY <2>1 DEF RunsOf
  <2>3. BuildCore(c) =
          CoreOf(2, RunsOf(c), c.invalidations,
                 Ledger(c.episodes, c.invalidations), RowsOf(c),
                 PatternsIn(c), CandidatesIn(c), 0,
                 Cardinality(c.episodes) - Cardinality(c.invalidations))
    BY CoreRecord
  <2> QED
    BY <2>1, <2>2, <2>3
<1>2. Repartitioned(BuildCore(b), 2) =
        CoreOf(b.version, RunsOf(b), b.invalidations,
               Ledger(b.episodes, b.invalidations), RowsOf(c),
               PatternsIn(c), CandidatesIn(c),
               BuildCore(b).sampled, BuildCore(b).retained)
  <2>1. c.version \in {1, 2} /\ c.version = 2 /\ b.version \in {1, 2}
    OBVIOUS
  <2> QED
    BY <2>1, CoreRecut
<1>3. Cardinality(BuildCore(b).episodes \ BuildCore(b).invalidations) = n
  BY CoreParts, RetainedCounts
<1> HIDE DEF n
<1>4. Migrated(BuildCore(b)) =
        Renumbered(Repartitioned(BuildCore(b), 2), 2, 0, n)
  BY <1>3 DEF Migrated, Renumbered
<1>5. Migrated(BuildCore(b)) =
        CoreOf(2, RunsOf(b), b.invalidations,
               Ledger(b.episodes, b.invalidations), RowsOf(c),
               PatternsIn(c), CandidatesIn(c), 0, n)
  BY <1>2, <1>4, CoreRenumbered
<1> QED
  BY <1>1, <1>5

-----------------------------------------------------------------------------
(* From the stages to the analysis: whatever core is at hand is the core   *)
(* of the bundle in the schema that it says it has.                        *)

At(b, v) == [b EXCEPT !.version = v]
Built == {"check", "establish", "publish", "migrate", "done"}
Stages == {"acquire", "construct", "build"} \cup Built
Faithful ==
  /\ Inputs
  /\ stage \in Stages
  /\ stage # "acquire" => Agreed /\ bundle = Bundle(version)
  /\ stage \in Built =>
       /\ core.version \in {version, 2}
       /\ core = BuildCore(At(bundle, core.version))
  /\ stage \in {"publish", "migrate"} => core.version = version
  /\ stage = "migrate" => version = 1
  /\ stage = "done" => core.version = 2

(* The bundle of a schema, and the same in the other.                      *)
LEMMA AtParts ==
  ASSUME Inputs, NEW u, NEW v \in {1, 2}
  PROVE  /\ Bundle(u).version = u
         /\ At(Bundle(u), u) = Bundle(u)
         /\ At(Bundle(u), v).version = v
         /\ At(Bundle(u), v).episodes = Bundle(u).episodes
         /\ At(Bundle(u), v).invalidations = Bundle(u).invalidations
         /\ SoundBundle(At(Bundle(u), v))
<1> DEFINE b == Bundle(u)
<1>1. /\ b = [f \in {"version", "episodes", "invalidations", "counts",
                     "migrations"} |-> b[f]]
      /\ b["version"] = u
  BY DEF Bundle
<1>2. SoundBundle(b)
  BY BundleIsSound
<1> HIDE DEF b
<1>3. At(b, u) = b
  BY <1>1 DEF At
<1>4. /\ At(b, v)["version"] = v
      /\ At(b, v)["episodes"] = b["episodes"]
      /\ At(b, v)["invalidations"] = b["invalidations"]
  BY <1>1 DEF At
<1>5. SoundBundle(At(b, v))
  BY <1>2, <1>4 DEF SoundBundle
<1> QED
  BY <1>1, <1>3, <1>4, <1>5 DEF b

(* Init allows only such inputs.                                           *)
LEMMA InitIsFaithful ==
  ASSUME Init
  PROVE  Faithful
<1>1. Inputs
  BY Policy DEF Init, Inputs, Recorded
<1>2. stage = "acquire"
  BY DEF Init
<1> QED
  BY <1>1, <1>2 DEF Faithful, Stages, Built

(* The inputs never change.                                                *)
LEMMA InputsStay ==
  ASSUME Inputs, UNCHANGED inputs
  PROVE  /\ Inputs'
         /\ Agreed' = Agreed
         /\ \A v : Bundle(v)' = Bundle(v)
<1>1. store' = store /\ invalid' = invalid /\ mapping' = mapping
      /\ wanted' = wanted /\ version' = version
  BY DEF inputs
<1>2. Inputs'
  BY <1>1 DEF Inputs, Recorded
<1>3. Agreed' = Agreed
  BY <1>1 DEF Agreed, Physical, Conflicts, Projection
<1>4. \A v : Bundle(v)' = Bundle(v)
  BY <1>1 DEF Bundle, Physical, Projection, Mapped, Matches
<1> QED
  BY <1>2, <1>3, <1>4

(* Every step keeps the core faithful.                                     *)
LEMMA FaithfulStep ==
  ASSUME Faithful, [Next]_vars
  PROVE  Faithful'
<1>1. UNCHANGED inputs
  BY DEF Next, vars, inputs, Acquire, Construct, Build, Check, Establish,
         Publish, Migrate
<1>2. Inputs' /\ Agreed' = Agreed /\ (\A v : Bundle(v)' = Bundle(v))
      /\ version' = version /\ Inputs
  BY <1>1, InputsStay DEF Faithful, inputs
<1>3. version \in {1, 2}
  BY <1>2 DEF Inputs
<1>4. CASE Acquire
  <2>1. CASE stage' = stage
    BY <2>1, <1>2, <1>4 DEF Faithful, Acquire, Stages, Built
  <2>2. CASE stage' # stage
    <3>1. /\ stage' = "construct" /\ bundle' = Bundle(version)
          /\ ~\E p \in Physical : Conflicts(p)
      BY <2>2, <1>4 DEF Acquire
    <3>2. bundle' = Bundle(version)'
      BY <3>1, <1>2
    <3>3. Agreed'
      BY <3>1, <1>2 DEF Agreed
    <3> QED
      BY <1>2, <3>1, <3>2, <3>3 DEF Faithful, Stages, Built
  <2> QED
    BY <2>1, <2>2
<1>5. CASE Construct
  <2>1. stage = "construct" /\ stage' \in {"construct", "build"}
        /\ bundle' = bundle
    BY <1>5 DEF Construct
  <2> QED
    BY <1>2, <2>1 DEF Faithful, Stages, Built
<1>6. CASE Build
  <2>1. bundle' = bundle /\ stage = "build"
    BY <1>6 DEF Build
  <2>2. CASE stage' = stage
    BY <1>2, <2>1, <2>2 DEF Faithful, Stages, Built
  <2>3. CASE stage' # stage
    <3>1. stage' = "check" /\ core' = BuildCore(bundle)
      BY <1>6, <2>3 DEF Build
    <3>2. bundle = Bundle(version)
      BY <2>1 DEF Faithful
    <3>3. bundle.version = version /\ At(bundle, version) = bundle
      BY <3>2, <1>2, <1>3, AtParts
    <3>4. core'.version = version
      BY <3>1, <3>3, CoreParts
    <3>5. core' = BuildCore(At(bundle', core'.version))
      BY <3>1, <3>3, <3>4, <2>1
    <3>6. Agreed
      BY <2>1 DEF Faithful
    <3> QED
      BY <1>2, <2>1, <3>1, <3>2, <3>4, <3>5, <3>6 DEF Faithful, Stages, Built
  <2> QED
    BY <2>2, <2>3
<1>7. CASE Check
  <2>1. /\ stage = "check" /\ stage' \in {"check", "establish"}
        /\ bundle' = bundle /\ core' = core
    BY <1>7 DEF Check
  <2> QED
    BY <1>2, <2>1 DEF Faithful, Stages, Built
<1>8. CASE Establish
  <2>1. /\ stage = "establish" /\ bundle' = bundle /\ core' = core
        /\ stage' \in {"establish",
                       IF core.version = version THEN "publish" ELSE "done"}
    BY <1>8 DEF Establish
  <2> QED
    BY <1>2, <2>1 DEF Faithful, Stages, Built
<1>9. CASE Publish
  <2>1. /\ stage = "publish" /\ bundle' = bundle /\ core' = core
        /\ stage' \in {"publish", IF version = 1 THEN "migrate" ELSE "done"}
    BY <1>9 DEF Publish
  <2> QED
    BY <1>2, <1>3, <2>1 DEF Faithful, Stages, Built
<1>10. CASE Migrate
  <2>1. /\ stage = "migrate" /\ stage' = "check" /\ bundle' = bundle
        /\ core' = Migrated(core)
    BY <1>10 DEF Migrate
  <2>2. /\ version = 1 /\ core.version = 1 /\ bundle = Bundle(1) /\ Agreed
        /\ core = BuildCore(At(bundle, 1))
    BY <2>1 DEF Faithful, Built
  <2>3. /\ SoundBundle(At(bundle, 1)) /\ At(bundle, 1).version = 1
        /\ At(bundle, 2).version = 2 /\ Same(At(bundle, 1), At(bundle, 2))
    BY <2>2, <1>2, AtParts DEF Same
  <2>4. core' = BuildCore(At(bundle, 2))
    BY <2>1, <2>2, <2>3, MigratedIsToday
  <2>5. core'.version = 2
    BY <2>3, <2>4, CoreParts
  <2> QED
    BY <1>2, <2>1, <2>2, <2>4, <2>5 DEF Faithful, Stages, Built
<1>11. CASE UNCHANGED vars
  <2>1. stage' = stage /\ bundle' = bundle /\ core' = core
    BY <1>11 DEF vars
  <2> QED
    BY <1>2, <2>1 DEF Faithful, Stages, Built
<1> QED
  BY <1>4, <1>5, <1>6, <1>7, <1>8, <1>9, <1>10, <1>11 DEF Next

(* The core is always that of the acquired bundle, in the schema it names. *)
THEOREM CoreIsFaithful == Spec => []Faithful
<1>1. Init => Faithful
  BY InitIsFaithful
<1>2. Faithful /\ [Next]_vars => Faithful'
  BY FaithfulStep
<1> QED
  BY <1>1, <1>2, PTL DEF Spec

(* A migrated snapshot is the one that today's release would have made:    *)
(* the counts of schema 2 that migrate_learning_snapshot_v1_core adds are  *)
(* those of a fresh analysis, and no candidate changes its meaning.        *)
THEOREM MigrationRebuilds == Spec => []MigrationIsARebuild
<1>1. Faithful => MigrationIsARebuild
  BY DEF Faithful, MigrationIsARebuild, At, Built
<1> QED
  BY <1>1, CoreIsFaithful, PTL

-----------------------------------------------------------------------------
(* What is drafted, and that it is finite and all different.               *)

(* A draft of a group and a rule, by the kind of the rule.                 *)
DraftOf(row, r, c, o, v, patterns) ==
  \/ /\ r.kind = "metric"
     /\ \E m \in Named(r) :
          row = Candidate(r, c, m, Cardinality(o), None,
                          MetricResult(m, o, v))
  \/ /\ r.kind = "decision"
     /\ \E p \in patterns :
          /\ p.kind = r.source /\ p.strength = "recurring"
          /\ row = Candidate(r, c, p.kind, p.eligible, p.support,
                             [counts |-> PatternCounts(p),
                              pattern |-> p.pattern])
  \/ /\ r.kind \in {"lifecycle", "outcome"}
     /\ \E n, counts :
          /\ DOMAIN counts = IF r.source = "stale_draft_n"
                             THEN {"stale_draft_n", "as_of",
                                   "stale_after_seconds"}
                             ELSE {r.source}
          /\ row = Candidate(r, c, r.source, n, None, [counts |-> counts])

(* Every draft is such a one.                                              *)
LEMMA DraftForms ==
  ASSUME NEW key, NEW b, b.version \in {1, 2}, NEW r \in EmissionRules,
         NEW row \in Drafted(Group(key, b), r)
  PROVE  LET S == Members(key, b)
             inv == b.invalidations IN
         DraftOf(row, r, Cohort(key, S, inv, b.version), Outcomes(S, inv),
                 b.version, Group(key, b).patterns)
<1> DEFINE S == Members(key, b)
           inv == b.invalidations
           o == Outcomes(S, inv)
           v == b.version
           c == Cohort(key, S, inv, v)
           g == Group(key, b)
<1>1. g.cohort = c
  BY GroupParts
<1>2. c.metrics = [m \in Metrics |-> MetricResult(m, o, v)]
  BY DEF Cohort
<1>3. row \in CandidatesOf(r, c, g.patterns, g.n)
  BY <1>1 DEF Drafted
<1>4. v \in {1, 2}
  OBVIOUS
<1> HIDE DEF S, inv, o, v, c, g
<1>5. CASE r.kind = "metric"
  <2>1. row \in MetricRows(r, c, o, v)
    BY <1>2, <1>3, <1>4, <1>5, MetricCandidateParts DEF CandidatesOf
  <2>2. PICK m \in Telling(r, o, v) :
          row = Candidate(r, c, m, Cardinality(o), None,
                          MetricResult(m, o, v))
    BY <2>1 DEF MetricRows
  <2>3. m \in Named(r)
    BY DEF Telling
  <2>4. DraftOf(row, r, c, o, v, g.patterns)
    BY <2>2, <2>3, <1>5 DEF DraftOf
  <2> QED
    BY <2>4 DEF S, inv, o, v, c, g
<1>6. CASE r.kind = "decision"
  <2>1. PICK p \in g.patterns :
          /\ p.kind = r.source /\ p.strength = "recurring"
          /\ row = Candidate(r, c, p.kind, p.eligible, p.support,
                             [counts |-> PatternCounts(p),
                              pattern |-> p.pattern])
    BY <1>3, <1>6 DEF CandidatesOf, DecisionCandidates
  <2>2. DraftOf(row, r, c, o, v, g.patterns)
    BY <2>1, <1>6 DEF DraftOf
  <2> QED
    BY <2>2 DEF S, inv, o, v, c, g
<1>7. CASE r.kind \in {"lifecycle", "outcome"}
  <2> DEFINE count == CountOf(r, c)
             n == IF r.kind = "outcome" THEN c.outcomes ELSE g.n
             counts == IF r.source = "stale_draft_n"
                       THEN [stale_draft_n |-> count, as_of |-> AsOf,
                             stale_after_seconds |-> StaleAfter]
                       ELSE [s \in {r.source} |-> count]
  <2>1. row = Candidate(r, c, r.source, n, None, [counts |-> counts])
    BY <1>3, <1>7 DEF CandidatesOf, CountCandidates
  <2>2. DOMAIN counts = IF r.source = "stale_draft_n"
                        THEN {"stale_draft_n", "as_of",
                              "stale_after_seconds"}
                        ELSE {r.source}
    OBVIOUS
  <2> HIDE DEF n, counts
  <2>3. DraftOf(row, r, c, o, v, g.patterns)
    BY <2>1, <2>2, <1>7 DEF DraftOf
  <2> QED
    BY <2>3 DEF S, inv, o, v, c, g
<1> QED
  BY <1>5, <1>6, <1>7, RuleParts

(* A draft is identified by its contents and names its rule and cohort.    *)
LEMMA DraftIsNamed ==
  ASSUME NEW key, NEW b, b.version \in {1, 2}, NEW r \in EmissionRules,
         NEW row \in Drafted(Group(key, b), r)
  PROVE  /\ row = Identified(row.content) /\ row.id = row.content
         /\ row.content.type = r.type /\ row.content.kind = r.kind
         /\ row.content.cohort = key
<1> DEFINE S == Members(key, b)
           inv == b.invalidations
           o == Outcomes(S, inv)
           v == b.version
           c == Cohort(key, S, inv, v)
           g == Group(key, b)
<1>1. DraftOf(row, r, c, o, v, g.patterns)
  BY DraftForms
<1>2. c.identity = key
  BY DEF Cohort
<1> HIDE DEF c, o, v, g
<1>3. \E source, n, support, values :
        row = Candidate(r, c, source, n, support, values)
  BY <1>1 DEF DraftOf
<1> QED
  BY <1>2, <1>3, CandidateParts

(* Keys identify groups, and types rules.                                  *)
LEMMA KeysIdentify ==
  ASSUME NEW b, NEW key \in Keys(b)
  PROVE  Group(key, b).cohort.identity = key
<1> DEFINE c == Cohort(key, Members(key, b), b.invalidations, b.version)
<1>1. c.identity = key
  BY DEF Cohort
<1>2. Group(key, b).cohort = c
  BY GroupParts
<1> QED
  BY <1>1, <1>2

(* No two rules of emission have the same type.                            *)
LEMMA TypesIdentify ==
  ASSUME NEW r \in EmissionRules, NEW s \in EmissionRules, r.type = s.type
  PROVE  r = s
BY DEF EmissionRules, Rule

(* There are finitely many patterns in a run.                              *)
LEMMA PatternsAreFinite ==
  ASSUME NEW e, Sound(e)
  PROVE  IsFiniteSet(PatternsOf(e))
<1> DEFINE d == e.decisions
           f(n) == [i \in 1..(Len(d) - n) |-> SubSeq(d, i, i + n)]
           F(n) == {SubSeq(d, i, i + n) : i \in 1..(Len(d) - n)}
<1>1. Len(d) \in Nat
  BY DEF Sound
<1>2. ASSUME NEW n \in {0, 1} PROVE IsFiniteSet(F(n))
  <2> DEFINE g == f(n)
             I == 1..(Len(d) - n)
  <2>1. F(n) = {g[i] : i \in I}
    OBVIOUS
  <2>2. IsFiniteSet(I)
    BY <1>1, FS_Interval
  <2> HIDE DEF g, I, F
  <2> QED
    BY <2>1, <2>2, ImageIsFinite
<1>3. PatternsOf(e) = F(0) \cup F(1)
  BY DEF PatternsOf
<1>4. IsFiniteSet(F(0)) /\ IsFiniteSet(F(1))
  BY <1>2
<1> HIDE DEF F
<1> QED
  BY <1>3, <1>4, FS_Union

Eligible(S, inv) == {e \in Outcomes(S, inv) : e.schema = 2}
SeenIn(eligible) == UNION {PatternsOf(e) : e \in eligible}
PatternRows(c, eligible) ==
  {PatternRow(p, c, eligible) : p \in SeenIn(eligible)}

(* The patterns of a group are the rows of what its eligible runs decided. *)
LEMMA GroupPatterns ==
  ASSUME NEW key, NEW b
  PROVE  LET S == Members(key, b)
             inv == b.invalidations
             c == Cohort(key, S, inv, b.version)
             E == Eligible(S, inv) IN
         Group(key, b).patterns = PatternRows(c, E)
BY DEF Group, DecisionPatterns, Eligible, SeenIn, PatternRows

(* The patterns of a finite set of runs are finite.                        *)
LEMMA SeenIsFinite ==
  ASSUME NEW E, IsFiniteSet(E), \A e \in E : Sound(e)
  PROVE  IsFiniteSet(SeenIn(E))
<1> DEFINE f == [e \in E |-> PatternsOf(e)]
           T == {f[e] : e \in E}
<1>1. SeenIn(E) = UNION T
  BY DEF SeenIn
<1>2. \A t \in T : IsFiniteSet(t)
  BY PatternsAreFinite
<1>3. IsFiniteSet(T)
  <2> HIDE DEF f
  <2> QED
    BY ImageIsFinite
<1> HIDE DEF T
<1> QED
  BY <1>1, <1>2, <1>3, FS_UNION

(* The parts of a sound bundle are finite and sound.                       *)
LEMMA PartsAreSound ==
  ASSUME NEW b, SoundBundle(b), NEW key, NEW inv
  PROVE  LET S == Members(key, b)
             o == Outcomes(S, inv)
             E == Eligible(S, inv) IN
         /\ S \subseteq b.episodes /\ o \subseteq S /\ E \subseteq o
         /\ IsFiniteSet(S) /\ IsFiniteSet(o) /\ IsFiniteSet(E)
         /\ \A e \in S : Sound(e)
         /\ \A e \in E : Sound(e)
<1> DEFINE S == Members(key, b)
           o == Outcomes(S, inv)
           E == Eligible(S, inv)
<1>1. S \subseteq b.episodes /\ o \subseteq S /\ E \subseteq o
  BY DEF Members, Outcomes, Eligible
<1>2. IsFiniteSet(b.episodes) /\ \A e \in b.episodes : Sound(e)
  BY DEF SoundBundle
<1> HIDE DEF S, o, E
<1>3. S \in SUBSET b.episodes /\ o \in SUBSET S /\ E \in SUBSET o
  BY <1>1
<1>4. IsFiniteSet(S)
  BY <1>2, <1>3, FS_Subset
<1>5. IsFiniteSet(o)
  BY <1>3, <1>4, FS_Subset
<1>6. IsFiniteSet(E)
  BY <1>3, <1>5, FS_Subset
<1> QED
  BY <1>1, <1>2, <1>4, <1>5, <1>6 DEF S, o, E

(* Drafts are finitely many.                                               *)
LEMMA DraftsAreFinite ==
  ASSUME NEW b, SoundBundle(b), b.version \in {1, 2}, NEW key,
         NEW r \in EmissionRules
  PROVE  IsFiniteSet(Drafted(Group(key, b), r))
<1> DEFINE S == Members(key, b)
           inv == b.invalidations
           o == Outcomes(S, inv)
           v == b.version
           c == Cohort(key, S, inv, v)
           g == Group(key, b)
           E == Eligible(S, inv)
<1>1. g.cohort = c
  BY GroupParts
<1>2. c.metrics = [m \in Metrics |-> MetricResult(m, o, v)]
  BY DEF Cohort
<1>3. Drafted(g, r) = CandidatesOf(r, c, g.patterns, g.n)
  BY <1>1 DEF Drafted
<1>4. v \in {1, 2}
  OBVIOUS
<1>5. IsFiniteSet(g.patterns)
  <2>1. IsFiniteSet(SeenIn(E))
    BY PartsAreSound, SeenIsFinite
  <2> DEFINE f == [p \in SeenIn(E) |-> PatternRow(p, c, E)]
  <2>2. g.patterns = {f[p] : p \in SeenIn(E)}
    <3>1. g.patterns = PatternRows(c, E)
      BY GroupPatterns
    <3> HIDE DEF c, E, g
    <3> QED
      BY <3>1 DEF PatternRows
  <2> HIDE DEF f, E, g
  <2> QED
    BY <2>1, <2>2, ImageIsFinite
<1> HIDE DEF S, inv, o, v, c, g, E
<1>6. CASE r.kind = "metric"
  <2> DEFINE T == Telling(r, o, v)
             f == [m \in T |-> Candidate(r, c, m, Cardinality(o), None,
                                         MetricResult(m, o, v))]
  <2>1. /\ Named(r) \subseteq Metrics
        /\ Drafted(g, r) = MetricRows(r, c, o, v)
    <3>1. Drafted(g, r) = MetricCandidates(r, c)
      BY <1>3, <1>6 DEF CandidatesOf
    <3>2. /\ Named(r) \subseteq Metrics
          /\ MetricCandidates(r, c) = MetricRows(r, c, o, v)
      BY <1>2, <1>4, <1>6, MetricCandidateParts
    <3> QED
      BY <3>1, <3>2
  <2>2. Drafted(g, r) = {f[m] : m \in T}
    BY <2>1 DEF MetricRows
  <2>3. Metrics = {"elapsed_seconds", "cost_amount", "defects_found",
                   "verification", "input_tokens"}
    BY DEF Metrics, Aggregation
  <2>4. IsFiniteSet(Metrics)
    <3>1. IsFiniteSet({"elapsed_seconds"} \cup {"cost_amount"})
      BY FS_Singleton, FS_Union
    <3>2. IsFiniteSet(({"elapsed_seconds"} \cup {"cost_amount"})
                        \cup {"defects_found"})
      BY <3>1, FS_Singleton, FS_Union
    <3>3. IsFiniteSet({"verification"} \cup {"input_tokens"})
      BY FS_Singleton, FS_Union
    <3>4. IsFiniteSet((({"elapsed_seconds"} \cup {"cost_amount"})
                         \cup {"defects_found"})
                        \cup ({"verification"} \cup {"input_tokens"}))
      BY <3>2, <3>3, FS_Union
    <3>5. Metrics = (({"elapsed_seconds"} \cup {"cost_amount"})
                       \cup {"defects_found"})
                      \cup ({"verification"} \cup {"input_tokens"})
      BY <2>3
    <3> QED
      BY <3>4, <3>5
  <2>5. T \in SUBSET Metrics
    BY <2>1 DEF Telling
  <2>6. IsFiniteSet(T)
    BY <2>4, <2>5, FS_Subset
  <2> HIDE DEF f, T
  <2>7. IsFiniteSet(Drafted(g, r))
    BY <2>2, <2>6, ImageIsFinite
  <2> QED
    BY <2>7 DEF g
<1>7. CASE r.kind = "decision"
  <2> DEFINE H == {p \in g.patterns :
                     p.kind = r.source /\ p.strength = "recurring"}
             f == [p \in H |-> Candidate(r, c, p.kind, p.eligible, p.support,
                                         [counts |-> PatternCounts(p),
                                          pattern |-> p.pattern])]
  <2>1. Drafted(g, r) = {f[p] : p \in H}
    BY <1>3, <1>7 DEF CandidatesOf, DecisionCandidates
  <2>2. H \in SUBSET g.patterns
    OBVIOUS
  <2> HIDE DEF f, H
  <2>3. IsFiniteSet(H)
    BY <2>2, <1>5, FS_Subset
  <2>4. IsFiniteSet(Drafted(g, r))
    BY <2>1, <2>3, ImageIsFinite
  <2> QED
    BY <2>4 DEF g
<1>8. CASE r.kind \in {"lifecycle", "outcome"}
  <2>1. \E x : Drafted(g, r) = {} \/ Drafted(g, r) = {x}
    BY <1>3, <1>8 DEF CandidatesOf, CountCandidates
  <2>2. IsFiniteSet({}) /\ \A x : IsFiniteSet({x})
    BY FS_EmptySet, FS_Singleton
  <2>3. IsFiniteSet(Drafted(g, r))
    BY <2>1, <2>2
  <2> QED
    BY <2>3 DEF g
<1> QED
  BY <1>6, <1>7, <1>8, RuleParts

(* Rules, keys and groups are finitely many.                               *)
LEMMA RulesAreFinite == IsFiniteSet(EmissionRules)
<1>1. PICK r1, r2, r3, r4, r5, r6, r7, r8, r9, r10, r11, r12 :
        EmissionRules = {r1, r2, r3, r4, r5, r6, r7, r8, r9, r10, r11, r12}
  BY DEF EmissionRules
<1>2. \A x, y, z, u : IsFiniteSet({x, y, z, u})
  <2> SUFFICES ASSUME NEW x, NEW y, NEW z, NEW u
               PROVE  IsFiniteSet({x, y, z, u})
    OBVIOUS
  <2>1. IsFiniteSet({x} \cup {y}) /\ IsFiniteSet({z} \cup {u})
    BY FS_Singleton, FS_Union
  <2>2. IsFiniteSet(({x} \cup {y}) \cup ({z} \cup {u}))
    BY <2>1, FS_Union
  <2>3. {x, y, z, u} = ({x} \cup {y}) \cup ({z} \cup {u})
    OBVIOUS
  <2> QED
    BY <2>2, <2>3
<1>3. IsFiniteSet({r1, r2, r3, r4} \cup {r5, r6, r7, r8})
  BY <1>2, FS_Union
<1>4. IsFiniteSet(({r1, r2, r3, r4} \cup {r5, r6, r7, r8})
                    \cup {r9, r10, r11, r12})
  BY <1>2, <1>3, FS_Union
<1>5. EmissionRules = ({r1, r2, r3, r4} \cup {r5, r6, r7, r8})
                        \cup {r9, r10, r11, r12}
  BY <1>1
<1> QED
  BY <1>4, <1>5

(* So are the groups of a sound bundle.                                    *)
LEMMA GroupsAreFinite ==
  ASSUME NEW b, SoundBundle(b)
  PROVE  IsFiniteSet(Keys(b)) /\ IsFiniteSet(Grouped(b))
<1> DEFINE f == [e \in b.episodes |-> CohortKey(e)]
           g == [key \in Keys(b) |-> Group(key, b)]
<1>1. Keys(b) = {f[e] : e \in b.episodes}
  BY DEF Keys
<1>2. Grouped(b) = {g[key] : key \in Keys(b)}
  BY DEF Grouped, Keys
<1>3. IsFiniteSet(b.episodes)
  BY DEF SoundBundle
<1> HIDE DEF f, g
<1>4. IsFiniteSet(Keys(b))
  BY <1>1, <1>3, ImageIsFinite
<1>5. IsFiniteSet(Grouped(b))
  BY <1>2, <1>4, ImageIsFinite
<1> QED
  BY <1>4, <1>5

(* No two drafts of a build are the same.                                  *)
LEMMA DraftsAreDistinct ==
  ASSUME NEW b, SoundBundle(b), b.version \in {1, 2}
  PROVE  /\ AllDistinct(b, BuildCore(b))
         /\ IsFiniteSet(CandidatesIn(b))
<1> DEFINE T == Grouped(b) \X EmissionRules
           F == [d \in T |-> Drafted(d[1], d[2])]
           w == [d \in T |-> Cardinality(Drafted(d[1], d[2]))]
<1>1. IsFiniteSet(T)
  BY GroupsAreFinite, RulesAreFinite, FS_Product
<1>2. \A g \in Grouped(b) : \E key \in Keys(b) : g = Group(key, b)
  BY DEF Grouped, Keys
<1>3. ASSUME NEW d \in T
      PROVE  IsFiniteSet(F[d])
  <2>1. d[1] \in Grouped(b) /\ d[2] \in EmissionRules
    OBVIOUS
  <2>2. PICK key \in Keys(b) : d[1] = Group(key, b)
    BY <2>1, <1>2
  <2>3. IsFiniteSet(Drafted(d[1], d[2]))
    BY <2>1, <2>2, DraftsAreFinite
  <2> QED
    BY <2>3
<1>4. ASSUME NEW d \in T, NEW h \in T, d # h
      PROVE  F[d] \cap F[h] = {}
  <2>1. /\ d[1] \in Grouped(b) /\ d[2] \in EmissionRules
        /\ h[1] \in Grouped(b) /\ h[2] \in EmissionRules
        /\ d = <<d[1], d[2]>> /\ h = <<h[1], h[2]>>
    OBVIOUS
  <2>2. PICK k1 \in Keys(b) : d[1] = Group(k1, b)
    BY <2>1, <1>2
  <2>3. PICK k2 \in Keys(b) : h[1] = Group(k2, b)
    BY <2>1, <1>2
  <2> SUFFICES ASSUME NEW row \in F[d], row \in F[h] PROVE FALSE
    OBVIOUS
  <2>4. row \in Drafted(d[1], d[2]) /\ row \in Drafted(h[1], h[2])
    OBVIOUS
  <2>5. row.content.cohort = k1 /\ row.content.type = d[2].type
    BY <2>1, <2>2, <2>4, DraftIsNamed
  <2>6. row.content.cohort = k2 /\ row.content.type = h[2].type
    BY <2>1, <2>3, <2>4, DraftIsNamed
  <2>7. k1 = k2 /\ d[2] = h[2]
    BY <2>1, <2>5, <2>6, TypesIdentify
  <2> QED
    BY <2>1, <2>2, <2>3, <2>7, <1>4
<1>5. UNION {F[d] : d \in T} = CandidatesIn(b)
  <2>1. \A x \in UNION {F[d] : d \in T} : x \in CandidatesIn(b)
    <3> SUFFICES ASSUME NEW d \in T, NEW x \in F[d]
                 PROVE  x \in CandidatesIn(b)
      OBVIOUS
    <3>1. d[1] \in Grouped(b) /\ d[2] \in EmissionRules
      OBVIOUS
    <3>2. PICK key \in Keys(b) : d[1] = Group(key, b)
      BY <3>1, <1>2
    <3>3. x \in Drafted(Group(key, b), d[2])
      BY <3>2
    <3> QED
      BY <3>1, <3>3 DEF CandidatesIn
  <2>2. \A x \in CandidatesIn(b) : x \in UNION {F[d] : d \in T}
    <3> SUFFICES ASSUME NEW key \in Keys(b), NEW r \in EmissionRules,
                        NEW x \in Drafted(Group(key, b), r)
                 PROVE  \E d \in T : x \in F[d]
      BY DEF CandidatesIn
    <3>1. Group(key, b) \in Grouped(b)
      BY DEF Grouped, Keys
    <3>2. <<Group(key, b), r>> \in T
          /\ F[<<Group(key, b), r>>] = Drafted(Group(key, b), r)
      BY <3>1
    <3> QED
      BY <3>2
  <2> HIDE DEF F, T
  <2> QED
    BY <2>1, <2>2
<1>6. \A d \in T : F[d] = Drafted(d[1], d[2])
  OBVIOUS
<1>7. w = [d \in T |-> Cardinality(F[d])]
  OBVIOUS
<1> HIDE DEF F, T
<1>8. /\ IsFiniteSet(UNION {F[d] : d \in T})
      /\ Cardinality(UNION {F[d] : d \in T}) =
           SumOf(T, [d \in T |-> Cardinality(F[d])])
  <2>1. \A d \in T : IsFiniteSet(F[d])
    BY <1>3
  <2>2. \A d, h \in T : d # h => F[d] \cap F[h] = {}
    BY <1>4
  <2> QED
    BY <1>1, <2>1, <2>2, DisjointUnion
<1> HIDE DEF w
<1>9. Cardinality(CandidatesIn(b)) = SumOf(T, w)
  BY <1>5, <1>7, <1>8
<1>10. BuildCore(b).candidates = CandidatesIn(b)
  BY CoreParts
<1>11. AllDistinct(b, BuildCore(b)) <=>
         Cardinality(BuildCore(b).candidates) = SumOf(T, w)
  BY DEF AllDistinct, SumOf, w, T
<1> QED
  BY <1>5, <1>8, <1>9, <1>10, <1>11

-----------------------------------------------------------------------------
(* What was built passes the validation of its own schema.                 *)

(* Every valid outcome is counted under exactly one availability.          *)
LEMMA CountsAreExhaustive ==
  ASSUME NEW m \in Metrics, NEW o, IsFiniteSet(o), Available(o),
         NEW v \in {1, 2}
  PROVE  Exhaustive(Missingness(m, o, v), v)
<1> DEFINE T == Availabilities(v)
           F == [b \in T |-> {e \in o : e.metrics[m].availability = b}]
           M == Missingness(m, o, v)
           w == [b \in T |-> Cardinality(F[b])]
<1>1. /\ DOMAIN M = T \cup {"eligible"}
      /\ M["eligible"] = Cardinality(o)
  BY DEF Missingness
<1>2. "eligible" \notin T
  BY DEF Availabilities
<1>3. \A b \in T : M[b] = Cardinality(F[b])
  BY <1>2 DEF Missingness, Quantify
<1>4. \A b \in T : F[b] \in SUBSET o
  OBVIOUS
<1>5. \A b, d \in T : b # d => F[b] \cap F[d] = {}
  OBVIOUS
<1>6. UNION {F[b] : b \in T} = o
  <2>1. \A e \in o : e.metrics[m].availability \in T
    BY DEF Available, Availabilities
  <2> HIDE DEF T
  <2> QED
    BY <2>1
<1>7. v = 2 => M["sampled_by_policy"] = 0
  <2> SUFFICES ASSUME v = 2 PROVE M["sampled_by_policy"] = 0
    OBVIOUS
  <2>1. "sampled_by_policy" \in T
    BY DEF Availabilities
  <2>2. F["sampled_by_policy"] = {}
    BY <2>1 DEF Available
  <2> QED
    BY <2>1, <2>2, <1>3, FS_EmptySet
<1>8. IsFiniteSet(T)
  <2>1. IsFiniteSet({"observed"} \cup {"not_recorded"})
    BY FS_Singleton, FS_Union
  <2>2. IsFiniteSet({"unsupported_by_schema"} \cup {"not_applicable"})
    BY FS_Singleton, FS_Union
  <2>3. IsFiniteSet(({"observed"} \cup {"not_recorded"})
                      \cup ({"unsupported_by_schema"}
                              \cup {"not_applicable"}))
    BY <2>1, <2>2, FS_Union
  <2>4. IsFiniteSet(IF v = 2 THEN {"sampled_by_policy"} ELSE {})
    BY FS_Singleton, FS_EmptySet
  <2>5. IsFiniteSet((({"observed"} \cup {"not_recorded"})
                       \cup ({"unsupported_by_schema"}
                               \cup {"not_applicable"}))
                      \cup (IF v = 2 THEN {"sampled_by_policy"} ELSE {}))
    BY <2>3, <2>4, FS_Union
  <2>6. T = (({"observed"} \cup {"not_recorded"})
               \cup ({"unsupported_by_schema"} \cup {"not_applicable"}))
              \cup (IF v = 2 THEN {"sampled_by_policy"} ELSE {})
    BY DEF Availabilities
  <2> QED
    BY <2>5, <2>6
<1> HIDE DEF T, F, M
<1>9. \A b \in T : IsFiniteSet(F[b])
  BY <1>4, FS_Subset
<1>10. Cardinality(o) = SumOf(T, w)
  BY <1>5, <1>6, <1>8, <1>9, DisjointUnion
<1>11. \A b \in T : w[b] \in Nat /\ M[b] = w[b]
  BY <1>3, <1>9, FS_CardinalityType
<1> HIDE DEF w
<1>12. SumOf(T, M) = SumOf(T, w)
  BY <1>8, <1>11, SumsAgree
<1>13. M["eligible"] = SumOf(T, M)
  BY <1>1, <1>10, <1>12
<1>14. M["eligible"] = MapThenSumSet(LAMBDA b : M[b], T)
  BY <1>13 DEF SumOf
<1> QED
  BY <1>1, <1>7, <1>14 DEF Exhaustive, M, T

(* The validator of its own schema accepts what was built.                 *)
LEMMA CoreIsAccepted ==
  ASSUME NEW b, SoundBundle(b), b.version \in {1, 2}
  PROVE  CoreIsExact(BuildCore(b), b.version)
<1> DEFINE c == BuildCore(b)
           v == b.version
<1>1. /\ c.version = v
      /\ c.episodes = {e.run : e \in b.episodes}
      /\ c.invalidations = b.invalidations
      /\ c.cohorts = RowsOf(b)
      /\ c.candidates = CandidatesIn(b)
      /\ c.sampled = IF v = 1 THEN None ELSE 0
      /\ c.retained = IF v = 1 THEN None
                      ELSE Cardinality(b.episodes)
                             - Cardinality(b.invalidations)
  BY CoreParts
<1> HIDE DEF c
<1>2. c.invalidations \subseteq c.episodes
  BY <1>1 DEF SoundBundle
<1>3. \A row \in c.cohorts, m \in Metrics :
        Exhaustive(row.metrics[m].missingness, v)
  <2> SUFFICES ASSUME NEW key \in Keys(b), NEW m \in Metrics
               PROVE  Exhaustive(Group(key, b).cohort.metrics[m].missingness,
                                 v)
    BY <1>1 DEF RowsOf
  <2> DEFINE S == Members(key, b)
             inv == b.invalidations
             o == Outcomes(S, inv)
             row == Cohort(key, S, inv, v)
  <2>1. Group(key, b).cohort = row
    BY GroupParts
  <2>2. row.metrics = [n \in Metrics |-> MetricResult(n, o, v)]
    BY DEF Cohort
  <2>3. IsFiniteSet(o) /\ Available(o)
    BY PartsAreSound, SoundIsAvailable DEF Members
  <2> HIDE DEF S, inv, o, row
  <2>4. MetricResult(m, o, v).missingness = Missingness(m, o, v)
    BY MetricsDiffer
  <2>5. Exhaustive(Missingness(m, o, v), v)
    BY <2>3, CountsAreExhaustive
  <2> QED
    BY <2>1, <2>2, <2>4, <2>5
<1>4. \A row \in c.candidates :
        row = Identified(row.content) /\ row.id = row.content
  BY <1>1, DraftIsNamed DEF CandidatesIn
<1>5. \A row \in c.candidates : CandidateIsExact(row, v)
  <2> SUFFICES ASSUME NEW key \in Keys(b), NEW r \in EmissionRules,
                      NEW row \in Drafted(Group(key, b), r),
                      row \in c.candidates
               PROVE  CandidateIsExact(row, v)
    BY <1>1 DEF CandidatesIn
  <2> DEFINE S == Members(key, b)
             inv == b.invalidations
             o == Outcomes(S, inv)
             d == Cohort(key, S, inv, v)
             g == Group(key, b)
             ev == row.content.evidence
  <2>1. DraftOf(row, r, d, o, v, g.patterns)
    BY DraftForms
  <2>2. row.content.kind = r.kind /\ row.id = row.content
    BY DraftIsNamed
  <2>3. IsFiniteSet(o) /\ Available(o)
    BY PartsAreSound, SoundIsAvailable DEF Members
  <2> HIDE DEF S, inv, o, d, g
  <2>4. CASE r.kind = "metric"
    <3>1. PICK m \in Named(r) :
            row = Candidate(r, d, m, Cardinality(o), None,
                            MetricResult(m, o, v))
      BY <2>1, <2>4 DEF DraftOf
    <3>2. m \in Metrics
      BY <2>4, RuleParts DEF Named
    <3>3. ev = EvidenceOf(r, MetricResult(m, o, v))
      BY <3>1, CandidateParts
    <3>4. "missingness" \in DOMAIN ev =>
            ev["missingness"] = Missingness(m, o, v)
      BY <3>2, <3>3, MetricsDiffer DEF EvidenceOf
    <3>5. Exhaustive(Missingness(m, o, v), v)
      BY <2>3, <3>2, CountsAreExhaustive
    <3> QED
      BY <2>2, <2>4, <3>4, <3>5 DEF CandidateIsExact
  <2>5. CASE r.kind # "metric"
    <3>1. "missingness" \notin r.evidence
      BY <2>5, RuleParts
    <3>2. \E source, n, support, values :
            row = Candidate(r, d, source, n, support, values)
      BY <2>1, <2>5 DEF DraftOf
    <3>3. \E values : ev = EvidenceOf(r, values)
      BY <3>2, CandidateParts
    <3>4. "missingness" \notin DOMAIN ev
      BY <3>1, <3>3 DEF EvidenceOf
    <3> QED
      BY <2>2, <3>4 DEF CandidateIsExact
  <2> QED
    BY <2>4, <2>5
<1>6. Cardinality({row.id : row \in c.candidates}) = Cardinality(c.candidates)
  <2> DEFINE C == c.candidates
             f == [row \in C |-> row.id]
  <2>1. IsFiniteSet(C)
    BY <1>1, DraftsAreDistinct
  <2>2. \A x, y \in C : f[x] = f[y] => x = y
    BY <1>4
  <2>3. {row.id : row \in C} = {f[row] : row \in C}
    OBVIOUS
  <2> HIDE DEF C, f
  <2>4. Cardinality({f[row] : row \in C}) = Cardinality(C)
    BY <2>1, <2>2, ImageCounts
  <2> QED
    BY <2>3, <2>4 DEF C
<1>7. SamplingIsZero(c, v)
  <2>1. Cardinality(c.episodes \ c.invalidations) =
          Cardinality(b.episodes) - Cardinality(b.invalidations)
    BY <1>1, RetainedCounts
  <2> HIDE DEF v
  <2> QED
    BY <1>1, <2>1 DEF SamplingIsZero, v
<1> QED
  BY <1>1, <1>2, <1>3, <1>5, <1>6, <1>7 DEF CoreIsExact, c

-----------------------------------------------------------------------------
(* The older validator accepts it too, unless it refuses the text of a     *)
(* dimension.                                                              *)

Scalar(b) ==
  \A e \in b.episodes : e.generation \notin Unscalar /\ e.project \notin Rooted

(* The identity of a cohort stands.                                        *)
LEMMA KeysStand ==
  ASSUME NEW b, SoundBundle(b), Scalar(b), NEW key \in Keys(b)
  PROVE  IdentityStands(key)
<1>1. PICK e \in b.episodes : key = CohortKey(e)
  BY DEF Keys
<1>2. /\ e.run \in Runs /\ e.generation \notin Unscalar
      /\ e.project \notin Rooted
  BY DEF SoundBundle, Sound, Scalar
<1>3. e.run # None /\ None \notin Unscalar
  BY <1>2, Policy
<1>4. CASE e.generation = None
  <2>1. /\ key.collection = "legacy-generation-unavailable"
        /\ key.generation = None /\ key.legacy = e.run
        /\ key.project = e.project
    BY <1>1, <1>4 DEF CohortKey
  <2> QED
    BY <2>1, <1>2, <1>3 DEF IdentityStands
<1>5. CASE e.generation # None
  <2>1. /\ key.collection = "workflow-generation"
        /\ key.generation = e.generation /\ key.legacy = None
        /\ key.project = e.project
    BY <1>1, <1>5 DEF CohortKey
  <2> QED
    BY <2>1, <1>2, <1>5 DEF IdentityStands
<1> QED
  BY <1>4, <1>5

(* The ledger stands.                                                      *)
LEMMA LedgerIsAccepted ==
  ASSUME NEW b
  PROVE  LedgerStands(BuildCore(b))
<1>1. BuildCore(b).ledger = Ledger(b.episodes, b.invalidations)
  BY CoreParts
<1>2. \A row \in Ledger(b.episodes, b.invalidations) :
        \E e \in b.episodes :
          \/ row = <<e.run, "draft", "outcome-analysis">>
          \/ row = <<e.run, "superseded", "outcome-analysis">>
          \/ row = <<e.run, "invalidated", "outcome-analysis">>
          \/ row = <<e.run, "generation-unavailable",
                     "comparative-inference">>
  BY DEF Ledger, LedgerRow
<1>3. \A row \in Ledger(b.episodes, b.invalidations) :
        /\ row[2] \in {"draft", "generation-unavailable", "invalidated",
                       "superseded"}
        /\ row[3] \in {"outcome-analysis", "comparative-inference"}
  BY <1>2
<1> QED
  BY <1>1, <1>3 DEF LedgerStands

(* Stale drafts are drafts.                                                *)
LEMMA CohortCounts ==
  ASSUME NEW key, NEW S, IsFiniteSet(S), NEW inv, NEW v
  PROVE  LET row == Cohort(key, S, inv, v) IN
         /\ {row.outcomes, row.drafts, row.active, row.stale_draft_n}
              \subseteq Nat
         /\ row.active + row.stale_draft_n = row.drafts
         /\ row.strength \in {"descriptive", "recurring"}
<1> DEFINE row == Cohort(key, S, inv, v)
           o == Outcomes(S, inv)
           D == {e \in S : e.status = "draft"}
           T == {e \in S : Stale(e)}
<1>1. /\ row.outcomes = Cardinality(o)
      /\ row.drafts = Cardinality(D)
      /\ row.stale_draft_n = Cardinality(T)
      /\ row.active = Cardinality(D) - Cardinality(T)
      /\ row.strength \in {"descriptive", "recurring"}
  BY DEF Cohort, Quantify
<1>2. o \in SUBSET S /\ D \in SUBSET S /\ T \in SUBSET D
  BY DEF Outcomes, Stale
<1> HIDE DEF row, o, D, T
<1>3. IsFiniteSet(o) /\ IsFiniteSet(D)
  BY <1>2, FS_Subset
<1>4. IsFiniteSet(T) /\ Cardinality(T) <= Cardinality(D)
  BY <1>2, <1>3, FS_Subset
<1>5. Cardinality(o) \in Nat /\ Cardinality(D) \in Nat
      /\ Cardinality(T) \in Nat
  BY <1>3, <1>4, FS_CardinalityType
<1>6. row.active \in Nat /\ row.active + row.stale_draft_n = row.drafts
  BY <1>1, <1>4, <1>5
<1> QED
  BY <1>1, <1>5, <1>6 DEF row

(* Every row of the cohorts stands.                                        *)
LEMMA CohortsAreAccepted ==
  ASSUME NEW b, SoundBundle(b), Scalar(b), b.version = 1,
         NEW row \in RowsOf(b)
  PROVE  CohortStands(row)
<1>1. PICK key \in Keys(b) : row = Group(key, b).cohort
  BY DEF RowsOf
<1> DEFINE S == Members(key, b)
           inv == b.invalidations
           o == Outcomes(S, inv)
<1>2. row = Cohort(key, S, inv, 1)
  BY <1>1, GroupParts
<1>3. row.metrics = [m \in Metrics |-> MetricResult(m, o, 1)]
      /\ row.identity = key
  BY <1>2 DEF Cohort
<1>4. IdentityStands(key)
  BY KeysStand
<1>5. IsFiniteSet(S)
  BY PartsAreSound
<1> HIDE DEF S, inv, o
<1>6. /\ {row.outcomes, row.drafts, row.active, row.stale_draft_n}
           \subseteq Nat
      /\ row.strength \in {"descriptive", "recurring"}
  BY <1>2, <1>5, CohortCounts
<1>7. \A m \in Metrics : DOMAIN row.metrics[m].missingness =
                           Availabilities(1) \cup {"eligible"}
  <2> SUFFICES ASSUME NEW m \in Metrics
               PROVE  DOMAIN row.metrics[m].missingness =
                        Availabilities(1) \cup {"eligible"}
    OBVIOUS
  <2>1. row.metrics[m].missingness = Missingness(m, o, 1)
    BY <1>3, MetricsDiffer
  <2> QED
    BY <2>1 DEF Missingness
<1> QED
  BY <1>3, <1>4, <1>6, <1>7 DEF CohortStands

(* A cohort is found by its identity.                                      *)
LEMMA CohortIsFound ==
  ASSUME NEW b, NEW key \in Keys(b)
  PROVE  CohortNamed(BuildCore(b), key) = Group(key, b).cohort
<1> DEFINE c == BuildCore(b)
           x == CohortNamed(c, key)
<1>1. c.cohorts = RowsOf(b)
  BY CoreParts
<1>2. /\ Group(key, b).cohort \in c.cohorts
      /\ Group(key, b).cohort.identity = key
  BY <1>1, KeysIdentify DEF RowsOf
<1>3. x \in c.cohorts /\ x.identity = key
  BY <1>2 DEF CohortNamed
<1> HIDE DEF c, x
<1>4. PICK k \in Keys(b) : x = Group(k, b).cohort
  BY <1>1, <1>3 DEF RowsOf
<1>5. k = key
  BY <1>3, <1>4, KeysIdentify
<1> QED
  BY <1>4, <1>5 DEF x, c

(* No two cohorts have the same identity.                                  *)
LEMMA IdentitiesAreDistinct ==
  ASSUME NEW b, SoundBundle(b)
  PROVE  Cardinality({row.identity : row \in RowsOf(b)}) =
           Cardinality(RowsOf(b))
<1> DEFINE C == RowsOf(b)
           f == [row \in C |-> row.identity]
           g == [key \in Keys(b) |-> Group(key, b).cohort]
<1>1. C = {g[key] : key \in Keys(b)}
  BY DEF RowsOf
<1>2. IsFiniteSet(Keys(b))
  BY GroupsAreFinite
<1>3. \A x, y \in C : f[x] = f[y] => x = y
  BY KeysIdentify DEF RowsOf
<1>4. {row.identity : row \in C} = {f[row] : row \in C}
  OBVIOUS
<1> HIDE DEF C, f, g
<1>5. IsFiniteSet(C)
  BY <1>1, <1>2, ImageIsFinite
<1>6. Cardinality({f[row] : row \in C}) = Cardinality(C)
  BY <1>3, <1>5, ImageCounts
<1> QED
  BY <1>4, <1>6 DEF C

(* A pattern of a run is one of its decisions, or two adjacent ones, and   *)
(* occurs in it.                                                           *)
LEMMA PatternOccurs ==
  ASSUME NEW e, Sound(e), NEW p
  PROVE  /\ IsFiniteSet(Occurrences(p, e))
         /\ Cardinality(Occurrences(p, e)) \in Nat
         /\ p \in PatternsOf(e) =>
              Len(p) \in {1, 2} /\ Cardinality(Occurrences(p, e)) >= 1
<1> DEFINE d == e.decisions
           O == Occurrences(p, e)
<1>1. d \in Seq(Decisions) /\ Len(d) \in Nat
  BY DEF Sound
<1>2. O \in SUBSET (1..Len(d))
  BY DEF Occurrences
<1>3. IsFiniteSet(O) /\ Cardinality(O) \in Nat
  <2>1. IsFiniteSet(1..Len(d))
    BY <1>1, FS_Interval
  <2> HIDE DEF O, d
  <2>2. IsFiniteSet(O)
    BY <1>2, <2>1, FS_Subset
  <2> QED
    BY <2>2, FS_CardinalityType
<1>4. ASSUME p \in PatternsOf(e)
      PROVE  Len(p) \in {1, 2} /\ Cardinality(O) >= 1
  <2>1. PICK n \in {0, 1} :
          \E i \in 1..(Len(d) - n) : p = SubSeq(d, i, i + n)
    BY <1>4 DEF PatternsOf
  <2> PICK i \in 1..(Len(d) - n) : p = SubSeq(d, i, i + n)
    BY <2>1
  <2>2. i \in 1..Len(d) /\ i + n <= Len(d) /\ i \in Nat
    BY <1>1
  <2>3. Len(p) = n + 1
    <3> HIDE DEF d
    <3> QED
      BY <1>1, <2>2
  <2>4. i + Len(p) - 1 = i + n
    BY <2>2, <2>3
  <2>5. i \in O
    <3> HIDE DEF O
    <3>1. i + Len(p) - 1 <= Len(d)
      BY <2>2, <2>4
    <3>2. SubSeq(d, i, i + Len(p) - 1) = p
      BY <2>4
    <3> QED
      BY <2>2, <3>1, <3>2 DEF O, Occurrences
  <2>6. Cardinality(O) # 0
    <3> HIDE DEF O
    <3> QED
      BY <2>5, <1>3, FS_EmptySet
  <2> HIDE DEF O, d
  <2> QED
    BY <1>3, <2>3, <2>6
<1> QED
  BY <1>3, <1>4

(* A pattern is supported by no more runs than it has events or runs that  *)
(* could, and by at least one.                                             *)
LEMMA SupportIsBounded ==
  ASSUME NEW E, IsFiniteSet(E), \A e \in E : Sound(e), NEW p \in SeenIn(E)
  PROVE  /\ Support(p, E) \in Nat /\ Support(p, E) >= 1
         /\ Support(p, E) <= Events(p, E)
         /\ Support(p, E) <= Cardinality(E)
         /\ Events(p, E) \in Nat
         /\ Len(p) \in {1, 2}
<1> DEFINE w == [e \in E |-> Cardinality(Occurrences(p, e))]
           T == {e \in E : p \in PatternsOf(e)}
           U == {e \in E : w[e] >= 1}
<1>1. Support(p, E) = Cardinality(T)
  BY DEF Support, Quantify
<1>2. Events(p, E) = SumOf(E, w)
  BY DEF Events, SumOf
<1>3. \A e \in E : w[e] \in Nat
  BY PatternOccurs
<1>4. \A e \in T : w[e] >= 1
  BY PatternOccurs
<1>5. PICK x \in E : p \in PatternsOf(x)
  BY DEF SeenIn
<1>6. Len(p) \in {1, 2}
  BY <1>5, PatternOccurs
<1> HIDE DEF w
<1>7. T \in SUBSET U /\ U \in SUBSET E /\ T \in SUBSET E /\ x \in T
  BY <1>4, <1>5
<1>8. Cardinality(U) <= SumOf(E, w)
  BY <1>3, SumCountsAtLeast
<1>9. SumOf(E, w) \in Nat
  BY <1>3, SumIsNatural
<1> HIDE DEF T, U
<1>10. IsFiniteSet(U) /\ Cardinality(U) \in Nat
  BY <1>7, FS_Subset, FS_CardinalityType
<1>11. /\ IsFiniteSet(T) /\ Cardinality(T) <= Cardinality(U)
       /\ Cardinality(T) <= Cardinality(E)
  BY <1>7, <1>10, FS_Subset
<1>12. Cardinality(T) \in Nat /\ Cardinality(T) # 0
  BY <1>7, <1>11, FS_CardinalityType, FS_EmptySet
<1>13. Cardinality(T) <= SumOf(E, w)
  BY <1>8, <1>9, <1>10, <1>11, <1>12
<1>14. Cardinality(T) >= 1
  BY <1>12
<1> QED
  BY <1>1, <1>2, <1>6, <1>9, <1>11, <1>12, <1>13, <1>14

(* A row of the patterns of a group, field by field.                       *)
LEMMA RowParts ==
  ASSUME NEW b, NEW key, NEW row \in Group(key, b).patterns
  PROVE  LET inv == b.invalidations
             S == Members(key, b)
             E == Eligible(S, inv)
             c == Group(key, b).cohort IN
         \E p \in SeenIn(E) :
           /\ row.pattern = p /\ row.kind = PatternKind(p)
           /\ row.cohort = key
           /\ row.events = Events(p, E) /\ row.support = Support(p, E)
           /\ row.eligible = Cardinality(E)
           /\ row.strength = PatternStrength(row, c)
           /\ row = PatternRow(p, c, E)
<1> DEFINE inv == b.invalidations
           S == Members(key, b)
           E == Eligible(S, inv)
           c == Group(key, b).cohort
<1>1. c = Cohort(key, S, inv, b.version) /\ c.identity = key
  <2>1. c = Cohort(key, S, inv, b.version)
    BY GroupParts
  <2> HIDE DEF c
  <2> QED
    BY <2>1 DEF Cohort
<1> HIDE DEF c
<1>2. PICK p \in SeenIn(E) : row = PatternRow(p, c, E)
  BY <1>1, GroupPatterns DEF PatternRows
<1> HIDE DEF E
<1>3. /\ row.pattern = p /\ row.kind = PatternKind(p)
      /\ row.cohort = key
      /\ row.events = Events(p, E) /\ row.support = Support(p, E)
      /\ row.eligible = Cardinality(E)
  BY <1>1, <1>2 DEF PatternRow
<1>4. row.strength = IF Recurring(Support(p, E), Cardinality(E), c)
                     THEN "recurring" ELSE "descriptive"
  BY <1>2 DEF PatternRow
<1>5. row.strength = PatternStrength(row, c)
  BY <1>3, <1>4 DEF PatternStrength, Recurring
<1> QED
  BY <1>2, <1>3, <1>5 DEF E, c

(* Every row of the patterns stands.                                       *)
LEMMA PatternsAreAccepted ==
  ASSUME NEW b, SoundBundle(b), Scalar(b), NEW row \in PatternsIn(b)
  PROVE  PatternStands(BuildCore(b), row)
<1>1. PICK key \in Keys(b) : row \in Group(key, b).patterns
  BY DEF PatternsIn
<1> DEFINE S == Members(key, b)
           E == Eligible(S, b.invalidations)
           c == Group(key, b).cohort
<1>2. PICK p \in SeenIn(E) :
           /\ row.pattern = p /\ row.kind = PatternKind(p)
           /\ row.cohort = key
           /\ row.events = Events(p, E) /\ row.support = Support(p, E)
           /\ row.eligible = Cardinality(E)
           /\ row.strength = PatternStrength(row, c)
  BY <1>1, RowParts
<1>3. IsFiniteSet(E) /\ \A e \in E : Sound(e)
  BY PartsAreSound
<1> HIDE DEF E
<1>4. /\ Support(p, E) \in Nat /\ Support(p, E) >= 1
      /\ Support(p, E) <= Events(p, E)
      /\ Support(p, E) <= Cardinality(E)
      /\ Len(p) \in {1, 2}
  BY <1>3, SupportIsBounded
<1>5. Len(row.pattern) = IF row.kind = "single-event" THEN 1 ELSE 2
  BY <1>2, <1>4 DEF PatternKind
<1>6. 1 <= row.support /\ row.support <= row.events
      /\ row.support <= row.eligible
  BY <1>2, <1>4
<1>7. IdentityStands(row.cohort)
  BY <1>2, KeysStand
<1>8. row.cohort \in {r.identity : r \in BuildCore(b).cohorts}
  <2>1. c \in RowsOf(b) /\ c.identity = key
    BY KeysIdentify DEF RowsOf
  <2>2. BuildCore(b).cohorts = RowsOf(b)
    BY CoreParts
  <2> HIDE DEF c
  <2> QED
    BY <2>1, <2>2, <1>2
<1>9. CohortNamed(BuildCore(b), row.cohort) = c
  BY <1>2, CohortIsFound
<1>10. row.strength =
         PatternStrength(row, CohortNamed(BuildCore(b), row.cohort))
  BY <1>2, <1>9
<1> HIDE DEF c
<1> QED
  BY <1>5, <1>6, <1>7, <1>8, <1>10 DEF PatternStands

(* The validator's table of candidates says of every rule what the policy  *)
(* of emission says.                                                       *)
CountsOf(r) ==
  IF r.kind = "metric" THEN None
  ELSE IF r.kind = "decision"
  THEN {"event_count", "episode_count_with_event"}
  ELSE IF r.source = "stale_draft_n"
  THEN {"stale_draft_n", "as_of", "stale_after_seconds"}
  ELSE {r.source}
LEMMA TablesAgree ==
  ASSUME NEW r \in EmissionRules
  PROVE  /\ r.type \in DOMAIN CandidateRules
         /\ CandidateRules[r.type] =
              Expected(r.kind, r.source, r.evidence, CountsOf(r))
<1>1. /\ DOMAIN CandidateRules = {s.type : s \in EmissionRules}
      /\ r.type \in {s.type : s \in EmissionRules}
  BY DEF CandidateRules
<1>2. CandidateRules[r.type] =
        Expected(r.kind, r.source, r.evidence, CountsOf(r))
  <2>1. CASE r.type = "decision-adjacent-pair"
    <3>1. /\ r.kind = "decision" /\ r.source = "contiguous-adjacent-pair"
          /\ r.evidence = {"counts", "pattern"}
      BY <2>1 DEF EmissionRules, Rule
    <3>2. CountsOf(r) = {"event_count", "episode_count_with_event"}
      BY <3>1 DEF CountsOf
    <3> QED
      BY <1>1, <2>1, <3>1, <3>2 DEF CandidateRules
  <2>2. CASE r.type = "decision-single-event"
    <3>1. /\ r.kind = "decision" /\ r.source = "single-event"
          /\ r.evidence = {"counts", "pattern"}
      BY <2>2 DEF EmissionRules, Rule
    <3>2. CountsOf(r) = {"event_count", "episode_count_with_event"}
      BY <3>1 DEF CountsOf
    <3> QED
      BY <1>1, <2>2, <3>1, <3>2 DEF CandidateRules
  <2>3. CASE r.type = "defect-observed"
    <3>1. /\ r.kind = "metric" /\ r.source = "defects_found"
          /\ r.evidence = Distribution
      BY <2>3 DEF EmissionRules, Rule
    <3>2. CountsOf(r) = None
      BY <3>1 DEF CountsOf
    <3> QED
      BY <1>1, <2>3, <3>1, <3>2 DEF CandidateRules
  <2>4. CASE r.type = "elapsed-time-distribution"
    <3>1. /\ r.kind = "metric" /\ r.source = "elapsed_seconds"
          /\ r.evidence = Distribution
      BY <2>4 DEF EmissionRules, Rule
    <3>2. CountsOf(r) = None
      BY <3>1 DEF CountsOf
    <3> QED
      BY <1>1, <2>4, <3>1, <3>2 DEF CandidateRules
  <2>5. CASE r.type = "generation-unavailable"
    <3>1. /\ r.kind = "lifecycle"
          /\ r.source = "generation_unavailable_episode_n"
          /\ r.evidence = {"counts"}
      BY <2>5 DEF EmissionRules, Rule
    <3>2. CountsOf(r) = {"generation_unavailable_episode_n"}
      BY <3>1 DEF CountsOf
    <3> QED
      BY <1>1, <2>5, <3>1, <3>2 DEF CandidateRules
  <2>6. CASE r.type = "input-token-distribution"
    <3>1. /\ r.kind = "metric" /\ r.source = "input_tokens"
          /\ r.evidence = Distribution
      BY <2>6 DEF EmissionRules, Rule
    <3>2. CountsOf(r) = None
      BY <3>1 DEF CountsOf
    <3> QED
      BY <1>1, <2>6, <3>1, <3>2 DEF CandidateRules
  <2>7. CASE r.type = "invalidated-episodes"
    <3>1. /\ r.kind = "lifecycle" /\ r.source = "invalidated_episode_n"
          /\ r.evidence = {"counts"}
      BY <2>7 DEF EmissionRules, Rule
    <3>2. CountsOf(r) = {"invalidated_episode_n"}
      BY <3>1 DEF CountsOf
    <3> QED
      BY <1>1, <2>7, <3>1, <3>2 DEF CandidateRules
  <2>8. CASE r.type = "metric-missingness"
    <3>1. /\ r.kind = "metric" /\ r.source = "any-metric"
          /\ r.evidence = {"missingness"}
      BY <2>8 DEF EmissionRules, Rule
    <3>2. CountsOf(r) = None
      BY <3>1 DEF CountsOf
    <3> QED
      BY <1>1, <2>8, <3>1, <3>2 DEF CandidateRules
  <2>9. CASE r.type = "non-success-outcomes"
    <3>1. /\ r.kind = "outcome" /\ r.source = "non_success_outcome_n"
          /\ r.evidence = {"counts"}
      BY <2>9 DEF EmissionRules, Rule
    <3>2. CountsOf(r) = {"non_success_outcome_n"}
      BY <3>1 DEF CountsOf
    <3> QED
      BY <1>1, <2>9, <3>1, <3>2 DEF CandidateRules
  <2>10. CASE r.type = "schema-adoption-gap"
    <3>1. /\ r.kind = "metric" /\ r.source = "any-metric"
          /\ r.evidence = {"missingness"}
      BY <2>10 DEF EmissionRules, Rule
    <3>2. CountsOf(r) = None
      BY <3>1 DEF CountsOf
    <3> QED
      BY <1>1, <2>10, <3>1, <3>2 DEF CandidateRules
  <2>11. CASE r.type = "stale-drafts"
    <3>1. /\ r.kind = "lifecycle" /\ r.source = "stale_draft_n"
          /\ r.evidence = {"counts"}
      BY <2>11 DEF EmissionRules, Rule
    <3>2. CountsOf(r) = {"stale_draft_n", "as_of", "stale_after_seconds"}
      BY <3>1 DEF CountsOf
    <3> QED
      BY <1>1, <2>11, <3>1, <3>2 DEF CandidateRules
  <2>12. CASE r.type = "verification-non-pass"
    <3>1. /\ r.kind = "metric" /\ r.source = "verification"
          /\ r.evidence = {"category_counts", "missingness"}
      BY <2>12 DEF EmissionRules, Rule
    <3>2. CountsOf(r) = None
      BY <3>1 DEF CountsOf
    <3> QED
      BY <1>1, <2>12, <3>1, <3>2 DEF CandidateRules
  <2>13. r.type \in {"decision-adjacent-pair",
                      "decision-single-event",
                      "defect-observed",
                      "elapsed-time-distribution",
                      "generation-unavailable",
                      "input-token-distribution",
                      "invalidated-episodes",
                      "metric-missingness",
                      "non-success-outcomes",
                      "schema-adoption-gap",
                      "stale-drafts",
                      "verification-non-pass"}
    BY DEF EmissionRules, Rule
  <2> QED
    BY <2>1, <2>2, <2>3, <2>4, <2>5, <2>6, <2>7, <2>8,
       <2>9, <2>10, <2>11, <2>12, <2>13
<1> QED
  BY <1>1, <1>2

(* A metric rule asks of the metrics that it names for fields they have.   *)
LEMMA EvidenceIsThere ==
  ASSUME NEW r \in EmissionRules, r.kind = "metric", NEW m \in Named(r)
  PROVE  /\ r.evidence \subseteq MetricFields(m)
         /\ {"counts", "pattern"} \cap r.evidence = {}
         /\ m \in Metrics /\ (r.source # "any-metric" => m = r.source)
BY DEF EmissionRules, Rule, Distribution, Named, MetricFields, Metrics,
       Aggregation

(* Every candidate stands.                                                 *)
LEMMA CandidatesAreAccepted ==
  ASSUME NEW b, SoundBundle(b), Scalar(b), b.version = 1,
         NEW row \in CandidatesIn(b)
  PROVE  CandidateStands(row)
<1>1. PICK key \in Keys(b), r \in EmissionRules :
             row \in Drafted(Group(key, b), r)
  BY DEF CandidatesIn
<1> DEFINE S == Members(key, b)
           inv == b.invalidations
           o == Outcomes(S, inv)
           k == Cohort(key, S, inv, 1)
           P == Group(key, b).patterns
           E == Eligible(S, inv)
           c == row.content
           rule == CandidateRules[c.type]
<1>2. DraftOf(row, r, k, o, 1, P)
  BY <1>1, DraftForms
<1>3. /\ row.id = c /\ c.type = r.type /\ c.kind = r.kind
      /\ c.cohort = key
  BY <1>1, DraftIsNamed
<1>4. /\ r.type \in DOMAIN CandidateRules
      /\ rule.kind = r.kind /\ rule.source = r.source
      /\ rule.evidence = r.evidence /\ rule.counts = CountsOf(r)
  <2>1. rule = CandidateRules[r.type]
    BY <1>3
  <2>2. rule = Expected(r.kind, r.source, r.evidence, CountsOf(r))
    BY <2>1, TablesAgree
  <2> HIDE DEF rule
  <2> QED
    BY <2>2, TablesAgree DEF Expected
<1>5. IdentityStands(key)
  BY KeysStand
<1>6. ASSUME NEW p \in P
      PROVE  p.support \in Nat /\ p.kind = PatternKind(p.pattern)
  <2>1. PICK q \in SeenIn(E) :
               /\ p.pattern = q /\ p.kind = PatternKind(q)
               /\ p.support = Support(q, E)
    BY RowParts
  <2>2. IsFiniteSet(E) /\ \A e \in E : Sound(e)
    BY PartsAreSound
  <2> HIDE DEF E
  <2> QED
    BY <2>1, <2>2, SupportIsBounded
<1> HIDE DEF k, o, P, rule, c
<1>7. /\ IF r.source = "any-metric"
         THEN c.source \in Metrics ELSE c.source = r.source
      /\ IF r.kind = "decision" THEN c.support \in Nat ELSE c.support = None
      /\ DOMAIN c.evidence = r.evidence
      /\ "counts" \in DOMAIN c.evidence =>
           DOMAIN c.evidence["counts"] = CountsOf(r)
      /\ "pattern" \in DOMAIN c.evidence =>
           PatternKind(c.evidence["pattern"]) = c.source
  <2>1. CASE r.kind = "metric"
    <3>1. PICK m \in Named(r) :
                 row = Candidate(r, k, m, Cardinality(o), None,
                                 MetricResult(m, o, 1))
      BY <1>2, <2>1 DEF DraftOf
    <3>2. /\ r.evidence \subseteq MetricFields(m)
          /\ {"counts", "pattern"} \cap r.evidence = {}
          /\ m \in Metrics /\ (r.source # "any-metric" => m = r.source)
      BY <2>1, EvidenceIsThere
    <3>3. DOMAIN MetricResult(m, o, 1) = MetricFields(m)
      BY <3>2, MetricsDiffer
    <3>4. /\ c.source = m /\ c.support = None
          /\ c.evidence = EvidenceOf(r, MetricResult(m, o, 1))
      BY <3>1, CandidateParts DEF c
    <3>5. DOMAIN c.evidence = r.evidence
      BY <3>2, <3>3, <3>4 DEF EvidenceOf
    <3> QED
      BY <2>1, <3>2, <3>4, <3>5
  <2>2. CASE r.kind = "decision"
    <3>1. PICK p \in P :
                 /\ p.kind = r.source
                 /\ row = Candidate(r, k, p.kind, p.eligible, p.support,
                                    [counts |-> PatternCounts(p),
                                     pattern |-> p.pattern])
      BY <1>2, <2>2 DEF DraftOf
    <3> DEFINE values == [counts |-> PatternCounts(p),
                          pattern |-> p.pattern]
    <3>2. /\ c.source = p.kind /\ c.support = p.support
          /\ c.evidence = EvidenceOf(r, values)
      BY <3>1, CandidateParts DEF c
    <3>3. r.evidence = {"counts", "pattern"} /\ r.source # "any-metric"
      BY <2>2, RuleParts
    <3>4. /\ DOMAIN c.evidence = r.evidence
          /\ c.evidence["counts"] = PatternCounts(p)
          /\ c.evidence["pattern"] = p.pattern
      BY <3>2, <3>3 DEF EvidenceOf
    <3>5. DOMAIN PatternCounts(p) = CountsOf(r)
      BY <2>2 DEF PatternCounts, CountsOf
    <3> QED
      BY <1>6, <2>2, <3>1, <3>2, <3>3, <3>4, <3>5
  <2>3. CASE r.kind \in {"lifecycle", "outcome"}
    <3>1. PICK n, counts :
                 /\ DOMAIN counts = IF r.source = "stale_draft_n"
                                    THEN {"stale_draft_n", "as_of",
                                          "stale_after_seconds"}
                                    ELSE {r.source}
                 /\ row = Candidate(r, k, r.source, n, None,
                                    [counts |-> counts])
      BY <1>2, <2>3 DEF DraftOf
    <3> DEFINE values == [counts |-> counts]
    <3>2. /\ c.source = r.source /\ c.support = None
          /\ c.evidence = EvidenceOf(r, values)
      BY <3>1, CandidateParts DEF c
    <3>3. r.evidence = {"counts"} /\ r.source # "any-metric"
      BY <2>3, RuleParts
    <3>4. DOMAIN c.evidence = r.evidence /\ c.evidence["counts"] = counts
      BY <3>2, <3>3 DEF EvidenceOf
    <3>5. DOMAIN counts = CountsOf(r)
      BY <2>3, <3>1 DEF CountsOf
    <3> QED
      BY <2>3, <3>2, <3>3, <3>4, <3>5
  <2> QED
    BY <2>1, <2>2, <2>3, RuleParts
<1>8. c.strength = IF r.kind = "decision" THEN "recurring" ELSE "descriptive"
  <2>1. \E source, n, support, values :
          row = Candidate(r, k, source, n, support, values)
    BY <1>2 DEF DraftOf
  <2> QED
    BY <2>1, CandidateParts DEF c
<1>9. r.source = "any-metric" => r.kind = "metric"
  BY RuleParts
<1> QED
  BY <1>3, <1>4, <1>5, <1>7, <1>8 DEF CandidateStands, c, rule

(* The candidate of a recurring pattern.                                   *)
DecisionRow(r, c, p) ==
  Candidate(r, c, p.kind, p.eligible, p.support,
            [counts |-> PatternCounts(p), pattern |-> p.pattern])
LEMMA DecisionRowParts ==
  ASSUME NEW r \in EmissionRules, r.kind = "decision", NEW key, NEW b,
         NEW p \in Group(key, b).patterns
  PROVE  LET row == DecisionRow(r, Group(key, b).cohort, p)
             c == row.content IN
         /\ Binds(row, p)
         /\ c.kind = "decision" /\ c.cohort = key
         /\ c.source = p.kind /\ c.eligible = p.eligible
         /\ c.support = p.support
         /\ c.outcomes = Group(key, b).cohort.outcomes
         /\ c.evidence["pattern"] = p.pattern
         /\ c.evidence["counts"] = PatternCounts(p)
<1> DEFINE k == Group(key, b).cohort
           row == DecisionRow(r, k, p)
           c == row.content
           values == [counts |-> PatternCounts(p), pattern |-> p.pattern]
<1>1. k.identity = key
  <2> DEFINE S == Members(key, b)
  <2>1. k = Cohort(key, S, b.invalidations, b.version)
    BY GroupParts
  <2> HIDE DEF k
  <2> QED
    BY <2>1 DEF Cohort
<1>2. p.cohort = key
  BY RowParts
<1> HIDE DEF k
<1>3. row = Candidate(r, k, p.kind, p.eligible, p.support, values)
  BY DEF DecisionRow
<1>4. /\ c.kind = "decision" /\ c.cohort = key /\ c.source = p.kind
      /\ c.eligible = p.eligible /\ c.support = p.support
      /\ c.outcomes = k.outcomes /\ c.evidence = EvidenceOf(r, values)
  <2> HIDE DEF row, values
  <2> QED
    BY <1>1, <1>3, CandidateParts
<1>5. r.evidence = {"counts", "pattern"}
  BY RuleParts
<1>6. /\ c.evidence["pattern"] = p.pattern
      /\ c.evidence["counts"] = PatternCounts(p)
  <2> HIDE DEF row
  <2> QED
    BY <1>4, <1>5 DEF EvidenceOf
<1> HIDE DEF row
<1>7. Binds(row, p)
  BY <1>2, <1>4, <1>6 DEF Binds
<1> QED
  BY <1>4, <1>6, <1>7 DEF row, k

(* The candidates of decisions are those of the recurring patterns.        *)
LEMMA DecisionDrafts ==
  ASSUME NEW key, NEW b, NEW r \in EmissionRules, r.kind = "decision"
  PROVE  Drafted(Group(key, b), r) =
           {DecisionRow(r, Group(key, b).cohort, p) :
              p \in {q \in Group(key, b).patterns :
                       q.kind = r.source /\ q.strength = "recurring"}}
BY DEF Drafted, CandidatesOf, DecisionCandidates, DecisionRow

(* There is one rule for each kind of pattern.                             *)
LEMMA DecisionRules ==
  /\ \A r, s \in EmissionRules :
       r.kind = "decision" /\ s.kind = "decision" /\ r.source = s.source
         => r = s
  /\ \A kind \in {"single-event", "contiguous-adjacent-pair"} :
       \E r \in EmissionRules : r.kind = "decision" /\ r.source = kind
BY DEF EmissionRules, Rule

(* A decision candidate is that of a recurring pattern of its group.       *)
LEMMA DecisionForms ==
  ASSUME NEW b, b.version \in {1, 2}, NEW row \in CandidatesIn(b),
         row.content.kind = "decision"
  PROVE  \E key \in Keys(b) : \E r \in EmissionRules :
           \E p \in Group(key, b).patterns :
             /\ r.kind = "decision" /\ r.source = p.kind
             /\ p.strength = "recurring"
             /\ row = DecisionRow(r, Group(key, b).cohort, p)
<1>1. PICK key \in Keys(b), r \in EmissionRules :
             row \in Drafted(Group(key, b), r)
  BY DEF CandidatesIn
<1>2. r.kind = "decision"
  BY <1>1, DraftIsNamed
<1>3. PICK p \in Group(key, b).patterns :
             /\ p.kind = r.source /\ p.strength = "recurring"
             /\ row = DecisionRow(r, Group(key, b).cohort, p)
  BY <1>1, <1>2, DecisionDrafts
<1> QED
  BY <1>2, <1>3

(* And every recurring pattern has such a candidate.                       *)
LEMMA DecisionExists ==
  ASSUME NEW b, NEW key \in Keys(b), NEW p \in Group(key, b).patterns,
         p.strength = "recurring"
  PROVE  \E r \in EmissionRules :
           /\ r.kind = "decision" /\ r.source = p.kind
           /\ DecisionRow(r, Group(key, b).cohort, p) \in CandidatesIn(b)
<1>1. p.kind \in {"single-event", "contiguous-adjacent-pair"}
  BY RowParts DEF PatternKind
<1>2. PICK r \in EmissionRules : r.kind = "decision" /\ r.source = p.kind
  BY <1>1, DecisionRules
<1>3. DecisionRow(r, Group(key, b).cohort, p) \in Drafted(Group(key, b), r)
  BY <1>2, DecisionDrafts
<1> QED
  BY <1>2, <1>3 DEF CandidatesIn

(* A pattern of a group is named by what was decided.                      *)
LEMMA RowsAreNamed ==
  ASSUME NEW b, NEW key, NEW p \in Group(key, b).patterns,
         NEW q \in Group(key, b).patterns, p.pattern = q.pattern
  PROVE  p = q
BY RowParts

(* Each recurring pattern has exactly one candidate, and the other way.    *)
LEMMA DecisionsBind ==
  ASSUME NEW b, SoundBundle(b), b.version \in {1, 2}
  PROVE  DecisionsAreCovered(BuildCore(b))
<1> DEFINE c == BuildCore(b)
           recurring == {p \in c.patterns : p.strength = "recurring"}
           decisions == {row \in c.candidates :
                           row.content.kind = "decision"}
<1>1. c.patterns = PatternsIn(b) /\ c.candidates = CandidatesIn(b)
  BY CoreParts
<1>2. \A key \in Keys(b) : CohortNamed(c, key) = Group(key, b).cohort
  BY CohortIsFound
<1> HIDE DEF c
<1>3. ASSUME NEW row \in decisions
      PROVE  \E p \in recurring :
               /\ Binds(row, p)
               /\ row.content.evidence["counts"] = PatternCounts(p)
               /\ row.content.eligible = p.eligible
               /\ row.content.support = p.support
               /\ row.content.outcomes = CohortNamed(c, p.cohort).outcomes
  <2>1. row \in CandidatesIn(b) /\ row.content.kind = "decision"
    BY <1>1
  <2>2. PICK key \in Keys(b) : \E r \in EmissionRules :
               \E p \in Group(key, b).patterns :
                 /\ r.kind = "decision" /\ r.source = p.kind
                 /\ p.strength = "recurring"
                 /\ row = DecisionRow(r, Group(key, b).cohort, p)
    BY <2>1, DecisionForms
  <2>3. PICK r \in EmissionRules, p \in Group(key, b).patterns :
                 /\ r.kind = "decision" /\ r.source = p.kind
                 /\ p.strength = "recurring"
                 /\ row = DecisionRow(r, Group(key, b).cohort, p)
    BY <2>2
  <2>4. p \in recurring
    BY <2>3, <1>1 DEF PatternsIn
  <2>5. p.cohort = key
    BY RowParts
  <2>6. CohortNamed(c, p.cohort).outcomes = Group(key, b).cohort.outcomes
    BY <2>5, <1>2
  <2>7. /\ Binds(row, p)
        /\ row.content.evidence["counts"] = PatternCounts(p)
        /\ row.content.eligible = p.eligible
        /\ row.content.support = p.support
        /\ row.content.outcomes = Group(key, b).cohort.outcomes
    BY <2>3, DecisionRowParts
  <2> HIDE DEF recurring
  <2> QED
    BY <2>4, <2>6, <2>7
<1>4. ASSUME NEW p \in recurring
      PROVE  Quantify(decisions, LAMBDA row : Binds(row, p)) = 1
  <2> DEFINE B == {row \in decisions : Binds(row, p)}
  <2>1. PICK key \in Keys(b) : p \in Group(key, b).patterns
    BY <1>1 DEF PatternsIn
  <2>2. PICK r \in EmissionRules :
               /\ r.kind = "decision" /\ r.source = p.kind
               /\ DecisionRow(r, Group(key, b).cohort, p) \in CandidatesIn(b)
    BY <2>1, DecisionExists
  <2> DEFINE x == DecisionRow(r, Group(key, b).cohort, p)
  <2>3. Binds(x, p) /\ x.content.kind = "decision"
    BY <2>1, <2>2, DecisionRowParts
  <2>4. x \in B
    BY <1>1, <2>2, <2>3
  <2>5. ASSUME NEW y \in B PROVE y = x
    <3>1. y \in CandidatesIn(b) /\ y.content.kind = "decision"
          /\ Binds(y, p)
      BY <1>1
    <3>2. PICK k \in Keys(b) : \E s \in EmissionRules :
                 \E q \in Group(k, b).patterns :
                   /\ s.kind = "decision" /\ s.source = q.kind
                   /\ q.strength = "recurring"
                   /\ y = DecisionRow(s, Group(k, b).cohort, q)
      BY <3>1, DecisionForms
    <3>3. PICK s \in EmissionRules, q \in Group(k, b).patterns :
                   /\ s.kind = "decision" /\ s.source = q.kind
                   /\ q.strength = "recurring"
                   /\ y = DecisionRow(s, Group(k, b).cohort, q)
      BY <3>2
    <3>4. /\ y.content.cohort = k /\ y.content.source = q.kind
          /\ y.content.evidence["pattern"] = q.pattern
      BY <3>3, DecisionRowParts
    <3>5. /\ y.content.cohort = p.cohort /\ y.content.source = p.kind
          /\ y.content.evidence["pattern"] = p.pattern
      BY <3>1 DEF Binds
    <3>6. p.cohort = key
      BY <2>1, RowParts
    <3>7. k = key /\ q.pattern = p.pattern /\ q.kind = p.kind
      BY <3>4, <3>5, <3>6
    <3>8. q = p
      BY <2>1, <3>7, RowsAreNamed
    <3>9. s = r
      BY <2>2, <3>3, <3>7, DecisionRules
    <3> QED
      BY <3>3, <3>7, <3>8, <3>9
  <2> HIDE DEF B, x
  <2>6. B = {x}
    BY <2>4, <2>5
  <2>7. Cardinality(B) = 1
    BY <2>6, FS_Singleton
  <2> QED
    BY <2>7 DEF B, Quantify
<1> QED
  BY <1>3, <1>4 DEF DecisionsAreCovered, c

(* The older validator accepts what was built of texts that it takes.      *)
LEMMA EstablishedIsSatisfied ==
  ASSUME NEW b, SoundBundle(b), Scalar(b), b.version = 1
  PROVE  EstablishedAccepts(BuildCore(b))
<1>1. /\ BuildCore(b).cohorts = RowsOf(b)
      /\ BuildCore(b).patterns = PatternsIn(b)
      /\ BuildCore(b).candidates = CandidatesIn(b)
  BY CoreParts
<1>2. LedgerStands(BuildCore(b))
  BY LedgerIsAccepted
<1>3. \A row \in RowsOf(b) : CohortStands(row)
  BY CohortsAreAccepted
<1>4. Cardinality({row.identity : row \in RowsOf(b)}) =
        Cardinality(RowsOf(b))
  BY IdentitiesAreDistinct
<1>5. \A row \in PatternsIn(b) : PatternStands(BuildCore(b), row)
  BY PatternsAreAccepted
<1>6. \A row \in CandidatesIn(b) : CandidateStands(row)
  BY CandidatesAreAccepted
<1>7. DecisionsAreCovered(BuildCore(b))
  BY DecisionsBind
<1> QED
  BY <1>1, <1>2, <1>3, <1>4, <1>5, <1>6, <1>7 DEF EstablishedAccepts

-----------------------------------------------------------------------------
(* Whatever refuses an accepted bundle is the older validator, and what it *)
(* refuses is a text, or the limit on the size of a document: every other  *)
(* check repeats what is known.                                            *)

Justified ==
  /\ OnlyTheseAreRefused
  /\ stage = "publish" => EstablishedAccepts(LegacyView(core))

(* What the checks of a faithful core find.                                *)
LEMMA CoreIsChecked ==
  ASSUME Faithful, stage \in Built
  PROVE  /\ CoreIsExact(core, core.version)
         /\ Scalar(bundle) => EstablishedAccepts(LegacyView(core))
<1> DEFINE v == core.version
           b == At(bundle, v)
           c == At(bundle, 1)
<1>1. Inputs /\ bundle = Bundle(version) /\ version \in {1, 2}
  BY DEF Faithful, Built, Inputs
<1>2. v \in {1, 2} /\ core = BuildCore(b)
  BY <1>1 DEF Faithful
<1>3. /\ SoundBundle(b) /\ SoundBundle(c) /\ Same(b, c)
      /\ b.version = v /\ c.version = 1 /\ c.episodes = bundle.episodes
  BY <1>1, <1>2, AtParts DEF Same
<1> HIDE DEF b, c
<1>4. CoreIsExact(core, v)
  BY <1>2, <1>3, CoreIsAccepted
<1>5. ASSUME Scalar(bundle) PROVE EstablishedAccepts(LegacyView(core))
  <2>1. Scalar(c)
    BY <1>3, <1>5 DEF Scalar
  <2>2. EstablishedAccepts(BuildCore(c))
    BY <1>3, <2>1, EstablishedIsSatisfied
  <2>3. LegacyView(core) = BuildCore(c)
    BY <1>2, <1>3, LegacyViewIsEarlier
  <2> QED
    BY <2>2, <2>3
<1> QED
  BY <1>4, <1>5

(* Every step keeps every refusal justified.                               *)
LEMMA JustifiedStep ==
  ASSUME Faithful, Justified, [Next]_vars
  PROVE  Justified'
<1>1. CASE Acquire
  <2>1. stage = "acquire" /\ ~refused
    BY <1>1 DEF Acquire
  <2>2. CASE \E p \in Physical : Conflicts(p)
    <3>1. ~Agreed /\ stage' = stage
      BY <1>1, <2>2 DEF Agreed, Acquire
    <3>2. ~(Agreed')
      <4>1. UNCHANGED inputs /\ Inputs
        BY <1>1 DEF Acquire, inputs, Faithful
      <4> QED
        BY <3>1, <4>1, InputsStay
    <3> QED
      BY <2>1, <3>1, <3>2 DEF Justified, OnlyTheseAreRefused, Agreed
  <2>3. CASE ~\E p \in Physical : Conflicts(p)
    <3>1. ~refused' /\ stage' = "construct"
      BY <1>1, <2>1, <2>3 DEF Acquire
    <3> QED
      BY <3>1 DEF Justified, OnlyTheseAreRefused
  <2> QED
    BY <2>2, <2>3
<1>2. CASE Construct
  <2>1. /\ stage = "construct" /\ ~refused /\ Inputs /\ Agreed
        /\ bundle = Bundle(version) /\ version \in {1, 2}
    BY <1>2 DEF Construct, Faithful, Inputs
  <2>2. ConstructorAccepts(bundle)
    BY <2>1, ConstructorIsSatisfied
  <2>3. ~refused' /\ stage' = "build"
    BY <1>2, <2>1, <2>2 DEF Construct
  <2> QED
    BY <2>3 DEF Justified, OnlyTheseAreRefused
<1>3. CASE Build
  <2>1. /\ stage = "build" /\ ~refused /\ Inputs
        /\ bundle = Bundle(version) /\ version \in {1, 2}
    BY <1>3 DEF Build, Faithful, Inputs
  <2>2. AnalyzerAccepts(bundle)
    BY <2>1, AnalyzerIsSatisfied
  <2>3. SoundBundle(bundle) /\ bundle.version = version
    BY <2>1, AtParts
  <2>4. AllDistinct(bundle, BuildCore(bundle))
    BY <2>1, <2>3, DraftsAreDistinct
  <2>5. ~refused' /\ stage' = "check"
    BY <1>3, <2>1, <2>2, <2>4 DEF Build
  <2> QED
    BY <2>5 DEF Justified, OnlyTheseAreRefused
<1>4. CASE Check
  <2>1. stage = "check" /\ ~refused /\ stage \in Built
    BY <1>4 DEF Check, Built
  <2>2. CoreIsExact(core, core.version)
    BY <2>1, CoreIsChecked
  <2>3. ~refused' /\ stage' = "establish"
    BY <1>4, <2>1, <2>2 DEF Check
  <2> QED
    BY <2>3 DEF Justified, OnlyTheseAreRefused
<1>5. CASE Establish
  <2>1. /\ stage = "establish" /\ ~refused /\ stage \in Built
        /\ bundle' = bundle /\ core' = core
    BY <1>5 DEF Establish, Built
  <2>2. CASE EstablishedAccepts(LegacyView(core))
    <3>1. EstablishedAccepts(LegacyView(core))'
      BY <2>1, <2>2
    <3>2. ~refused'
      BY <1>5, <2>1, <2>2 DEF Establish
    <3> QED
      BY <3>1, <3>2 DEF Justified, OnlyTheseAreRefused
  <2>3. CASE ~EstablishedAccepts(LegacyView(core))
    <3>1. ~Scalar(bundle)
      BY <2>1, <2>3, CoreIsChecked
    <3>2. stage' = "establish"
      BY <1>5, <2>1, <2>3 DEF Establish
    <3>3. \E e \in bundle'.episodes :
            e.generation \in Unscalar \/ e.project \in Rooted
      BY <2>1, <3>1 DEF Scalar
    <3> QED
      BY <3>2, <3>3 DEF Justified, OnlyTheseAreRefused
  <2> QED
    BY <2>2, <2>3
<1>6. CASE Publish
  <2>1. /\ stage = "publish" /\ ~refused /\ stage \in Built
        /\ core' = core
    BY <1>6 DEF Publish, Built
  <2>2. CoreIsExact(core, core.version) /\ core.version \in {1, 2}
    BY <2>1, CoreIsChecked DEF Faithful, Inputs
  <2>3. EstablishedAccepts(LegacyView(core))
    BY <2>1 DEF Justified
  <2>4. CASE WithinLimit(core)
    <3>1. Readable(core)
      BY <2>2, <2>3, <2>4 DEF Readable, LegacyView
    <3>2. ~refused' /\ stage' \in {"migrate", "done"}
      BY <1>6, <2>1, <3>1 DEF Publish
    <3> QED
      BY <3>2 DEF Justified, OnlyTheseAreRefused
  <2>5. CASE ~WithinLimit(core)
    <3>1. stage' = "publish"
      BY <1>6, <2>1, <2>5 DEF Publish, Readable
    <3>2. OnlyTheseAreRefused'
      BY <2>1, <2>5, <3>1 DEF OnlyTheseAreRefused
    <3>3. EstablishedAccepts(LegacyView(core))'
      BY <2>1, <2>3
    <3> QED
      BY <3>2, <3>3 DEF Justified
  <2> QED
    BY <2>4, <2>5
<1>7. CASE Migrate
  <2>1. ~refused' /\ stage' = "check"
    BY <1>7 DEF Migrate
  <2> QED
    BY <2>1 DEF Justified, OnlyTheseAreRefused
<1>8. CASE UNCHANGED vars
  <2>1. /\ stage' = stage /\ refused' = refused /\ bundle' = bundle
        /\ core' = core /\ UNCHANGED inputs /\ Inputs
    BY <1>8 DEF vars, inputs, Faithful
  <2>2. Agreed' = Agreed
    BY <2>1, InputsStay
  <2>3. EstablishedAccepts(LegacyView(core))' =
          EstablishedAccepts(LegacyView(core))
    BY <2>1
  <2>4. OnlyTheseAreRefused'
    BY <2>1, <2>2 DEF Justified, OnlyTheseAreRefused, Agreed
  <2> QED
    BY <2>1, <2>3, <2>4 DEF Justified
<1> QED
  BY <1>1, <1>2, <1>3, <1>4, <1>5, <1>6, <1>7, <1>8 DEF Next

(* A learning snapshot is refused for a conflict between a record and a    *)
(* reviewed mapping, for the text of a generation or of another dimension  *)
(* of a cohort, or for the size of its document, and for nothing else: the *)
(* constructor, build_snapshot_core, both validators and the publication   *)
(* accept whatever else acquisition made.                                  *)
THEOREM RefusalsAreKnown == Spec => []OnlyTheseAreRefused
<1>1. Init => Faithful /\ Justified
  <2> SUFFICES ASSUME Init PROVE Faithful /\ Justified
    OBVIOUS
  <2>1. ~refused /\ stage = "acquire"
    BY DEF Init
  <2> QED
    BY <2>1, InitIsFaithful DEF Justified, OnlyTheseAreRefused
<1>2. Faithful /\ Justified /\ [Next]_vars => (Faithful /\ Justified)'
  BY FaithfulStep, JustifiedStep
<1>3. Faithful /\ Justified => OnlyTheseAreRefused
  BY DEF Justified
<1> QED
  BY <1>1, <1>2, <1>3, PTL DEF Spec

-----------------------------------------------------------------------------
(* The cohorts and the ledger are two accounts of the same episodes.       *)

(* An episode is of the cohort whose identity fits it.                     *)
Fits(e, key) ==
  /\ e.project = key.project
  /\ e.generation = key.generation
  /\ key.legacy \in {None, e.run}
LEMMA FitsItsCohort ==
  ASSUME NEW b, SoundBundle(b), NEW key \in Keys(b), NEW e \in b.episodes
  PROVE  Fits(e, key) <=> CohortKey(e) = key
<1>1. PICK f \in b.episodes : key = CohortKey(f)
  BY DEF Keys
<1>2. f.run \in Runs /\ e.run \in Runs /\ None \notin Runs
  BY Policy DEF SoundBundle, Sound
<1>3. CASE f.generation = None
  <2>1. /\ key.project = f.project /\ key.generation = None
        /\ key.legacy = f.run
    BY <1>1, <1>3 DEF CohortKey
  <2>2. CASE Fits(e, key)
    BY <1>1, <1>2, <1>3, <2>1, <2>2 DEF Fits, CohortKey
  <2>3. CASE CohortKey(e) = key
    <3>1. e.generation = None
      BY <1>2, <2>1, <2>3 DEF CohortKey
    <3> QED
      BY <2>3, <3>1 DEF Fits, CohortKey
  <2> QED
    BY <2>2, <2>3
<1>4. CASE f.generation # None
  <2>1. /\ key.project = f.project /\ key.generation = f.generation
        /\ key.legacy = None
    BY <1>1, <1>4 DEF CohortKey
  <2>2. CASE Fits(e, key)
    BY <1>1, <1>4, <2>1, <2>2 DEF Fits, CohortKey
  <2>3. CASE CohortKey(e) = key
    <3>1. e.generation # None
      BY <1>2, <2>1, <2>3 DEF CohortKey
    <3> QED
      BY <2>3, <3>1 DEF Fits, CohortKey
  <2> QED
    BY <2>2, <2>3
<1> QED
  BY <1>3, <1>4

(* What the ledger says of an episode.                                     *)
LEMMA LedgerRows ==
  ASSUME NEW S, NEW inv, NEW l
  PROVE  l \in Ledger(S, inv) <=>
           \E e \in S :
             \/ l = <<e.run, "draft", "outcome-analysis">>
                /\ e.status = "draft"
             \/ l = <<e.run, "superseded", "outcome-analysis">>
                /\ e.status = "superseded"
             \/ l = <<e.run, "invalidated", "outcome-analysis">>
                /\ e.run \in inv
             \/ l = <<e.run, "generation-unavailable",
                      "comparative-inference">>
                /\ e.generation = None
BY DEF Ledger, LedgerRow

Says(L, e, reason) == \E l \in L : l[1] = e.run /\ l[2] = reason
LeftOut(L, e) == \E l \in L : l[1] = e.run /\ l[3] = "outcome-analysis"
LEMMA LedgerTells ==
  ASSUME NEW b, SoundBundle(b), NEW e \in b.episodes
  PROVE  LET L == Ledger(b.episodes, b.invalidations) IN
         /\ Says(L, e, "draft") <=> e.status = "draft"
         /\ Says(L, e, "superseded") <=> e.status = "superseded"
         /\ Says(L, e, "invalidated") <=> e.run \in b.invalidations
         /\ Says(L, e, "generation-unavailable") <=> e.generation = None
         /\ LeftOut(L, e) <=> \/ e.status \in {"draft", "superseded"}
                              \/ e.run \in b.invalidations
         /\ \A l \in L : l[1] \in {f.run : f \in b.episodes}
<1> DEFINE E == b.episodes
           inv == b.invalidations
           L == Ledger(E, inv)
           Row(f, reason, from) == <<f.run, reason, from>>
<1>1. \A l : l \in L <=>
        \E f \in E :
          \/ l = Row(f, "draft", "outcome-analysis") /\ f.status = "draft"
          \/ l = Row(f, "superseded", "outcome-analysis")
             /\ f.status = "superseded"
          \/ l = Row(f, "invalidated", "outcome-analysis") /\ f.run \in inv
          \/ l = Row(f, "generation-unavailable", "comparative-inference")
             /\ f.generation = None
  BY LedgerRows
<1>2. \A f \in E : f.run = e.run => f = e
  BY DEF SoundBundle
<1>3. \A f, r, s : /\ Row(f, r, s)[1] = f.run /\ Row(f, r, s)[2] = r
                   /\ Row(f, r, s)[3] = s
  OBVIOUS
<1>4. e \in E
  OBVIOUS
<1> HIDE DEF E, inv, L, Row
<1>5. Says(L, e, "draft") <=> e.status = "draft"
  BY <1>1, <1>2, <1>3, <1>4 DEF Says
<1>6. Says(L, e, "superseded") <=> e.status = "superseded"
  BY <1>1, <1>2, <1>3, <1>4 DEF Says
<1>7. Says(L, e, "invalidated") <=> e.run \in inv
  BY <1>1, <1>2, <1>3, <1>4 DEF Says
<1>8. Says(L, e, "generation-unavailable") <=> e.generation = None
  BY <1>1, <1>2, <1>3, <1>4 DEF Says
<1>9. LeftOut(L, e) <=>
        \/ e.status \in {"draft", "superseded"}
        \/ e.run \in inv
  BY <1>1, <1>2, <1>3, <1>4 DEF LeftOut
<1>10. \A l \in L : l[1] \in {f.run : f \in E}
  BY <1>1, <1>3
<1> QED
  BY <1>5, <1>6, <1>7, <1>8, <1>9, <1>10 DEF L, E, inv

(* What the cohort says, and what the ledger says of those who fit it.     *)
Accounted(E, L, row) ==
  LET S == {e \in E : Fits(e, row.identity)}
      A == {e \in S : ~LeftOut(L, e)}
      For(reason) == Cardinality({e \in S : Says(L, e, reason)}) IN
  /\ row.outcomes = Cardinality(A)
  /\ \A s \in OutcomeStatuses :
       row.outcome_counts[s] = Cardinality({e \in A : e.status = s})
  /\ row.drafts = For("draft")
  /\ row.active + row.stale_draft_n = row.drafts
  /\ row.superseded = For("superseded")
  /\ row.invalidated_episode_n = For("invalidated")
  /\ row.generation_unavailable_episode_n = For("generation-unavailable")
LEMMA CohortIsAccounted ==
  ASSUME NEW b, SoundBundle(b), NEW key \in Keys(b),
         NEW E, E = b.episodes, NEW L, L = Ledger(E, b.invalidations),
         NEW row, row = Group(key, b).cohort
  PROVE  Accounted(E, L, row)
<1> DEFINE inv == b.invalidations
           S == {e \in E : Fits(e, row.identity)}
           A == {e \in S : ~LeftOut(L, e)}
           O == Outcomes(S, inv)
           For(reason) == Cardinality({e \in S : Says(L, e, reason)})
<1>0. row.identity = key
  BY KeysIdentify
<1>1. S = Members(key, b) /\ IsFiniteSet(S)
  <2>1. S = Members(key, b)
    BY <1>0, FitsItsCohort DEF Members
  <2> HIDE DEF S
  <2> QED
    BY <2>1, PartsAreSound
<1>2. \A e \in S : e \in E /\ e.generation = key.generation
                   /\ e.status \in Statuses
  BY <1>0 DEF Fits, SoundBundle, Sound
<1>3. \A e \in S :
        /\ Says(L, e, "draft") <=> e.status = "draft"
        /\ Says(L, e, "superseded") <=> e.status = "superseded"
        /\ Says(L, e, "invalidated") <=> e.run \in inv
        /\ Says(L, e, "generation-unavailable") <=> e.generation = None
        /\ LeftOut(L, e) <=> \/ e.status \in {"draft", "superseded"}
                             \/ e.run \in inv
  BY <1>2, LedgerTells
<1> HIDE DEF S, inv
<1>4. A = O
  <2>1. \A e \in S : ~LeftOut(L, e) <=>
                       e.status \in OutcomeStatuses /\ e.run \notin inv
    BY <1>2, <1>3 DEF Statuses, OutcomeStatuses
  <2> QED
    BY <2>1 DEF Outcomes
<1>5. row = Cohort(key, S, inv, b.version)
  BY <1>1, GroupParts DEF inv
<1> HIDE DEF A
<1>6. /\ row.outcomes = Cardinality(O)
      /\ row.outcome_counts =
           [s \in OutcomeStatuses |-> Cardinality({e \in O : e.status = s})]
  <2> DEFINE x == Cohort(key, S, inv, b.version)
  <2>1. /\ x.outcomes = Cardinality(O)
        /\ x.outcome_counts =
             [s \in OutcomeStatuses |->
                Cardinality({e \in O : e.status = s})]
    BY DEF Cohort, Quantify
  <2> HIDE DEF x, O
  <2> QED
    BY <1>5, <2>1 DEF x
<1>7. \A s \in OutcomeStatuses :
        row.outcome_counts[s] = Cardinality({e \in A : e.status = s})
  <2> HIDE DEF O
  <2> QED
    BY <1>4, <1>6
<1>8. row.active + row.stale_draft_n = row.drafts
  BY <1>1, <1>5, CohortCounts
<1>9. /\ row.drafts = Cardinality({e \in S : e.status = "draft"})
      /\ row.superseded = Cardinality({e \in S : e.status = "superseded"})
      /\ row.invalidated_episode_n = Cardinality({e \in S : e.run \in inv})
      /\ row.generation_unavailable_episode_n =
           IF key.generation # None THEN 0 ELSE Cardinality(S)
  <2> DEFINE x == Cohort(key, S, inv, b.version)
             X == {e \in S : e.status = "draft"}
             Y == {e \in S : e.status = "superseded"}
             Z == {e \in S : e.run \in inv}
  <2>1. /\ x.drafts = Cardinality(X) /\ x.superseded = Cardinality(Y)
        /\ x.invalidated_episode_n = Cardinality(Z)
        /\ x.generation_unavailable_episode_n =
             IF key.generation # None THEN 0 ELSE Cardinality(S)
    BY DEF Cohort, Quantify
  <2> HIDE DEF x, X, Y, Z
  <2>2. /\ row.drafts = Cardinality(X) /\ row.superseded = Cardinality(Y)
        /\ row.invalidated_episode_n = Cardinality(Z)
        /\ row.generation_unavailable_episode_n =
             IF key.generation # None THEN 0 ELSE Cardinality(S)
    BY <1>5, <2>1 DEF x
  <2> QED
    BY <2>2 DEF X, Y, Z
<1>10. row.drafts = For("draft")
  <2>1. {e \in S : e.status = "draft"} = {e \in S : Says(L, e, "draft")}
    BY <1>3
  <2> QED
    BY <1>9, <2>1
<1>11. row.superseded = For("superseded")
  <2>1. {e \in S : e.status = "superseded"} =
          {e \in S : Says(L, e, "superseded")}
    BY <1>3
  <2> QED
    BY <1>9, <2>1
<1>12. row.invalidated_episode_n = For("invalidated")
  <2>1. {e \in S : e.run \in inv} = {e \in S : Says(L, e, "invalidated")}
    BY <1>3
  <2> QED
    BY <1>9, <2>1
<1>13. row.generation_unavailable_episode_n = For("generation-unavailable")
  <2> DEFINE U == {e \in S : Says(L, e, "generation-unavailable")}
  <2>1. CASE key.generation # None
    <3>1. U = {}
      BY <1>2, <1>3, <2>1
    <3> HIDE DEF U
    <3>2. Cardinality(U) = 0
      BY <3>1, FS_EmptySet
    <3> QED
      BY <1>9, <2>1, <3>2 DEF U
  <2>2. CASE key.generation = None
    <3>1. U = S
      BY <1>2, <1>3, <2>2
    <3> HIDE DEF U
    <3> QED
      BY <1>9, <2>2, <3>1 DEF U
  <2> QED
    BY <2>1, <2>2
<1>14. row.outcomes = Cardinality(A)
  BY <1>4, <1>6
<1> QED
  BY <1>6, <1>7, <1>8, <1>10, <1>11, <1>12, <1>13, <1>14
     DEF A, S, Accounted

(* An episode is counted in exactly one cohort.                            *)
LEMMA CohortIsUnique ==
  ASSUME NEW b, SoundBundle(b), NEW e \in b.episodes
  PROVE  Cardinality({row \in RowsOf(b) : Fits(e, row.identity)}) = 1
<1> DEFINE key == CohortKey(e)
           x == Group(key, b).cohort
           X == {row \in RowsOf(b) : Fits(e, row.identity)}
<1>1. key \in Keys(b)
  BY DEF Keys
<1>2. x \in RowsOf(b) /\ x.identity = key /\ Fits(e, key)
  BY <1>1, KeysIdentify, FitsItsCohort DEF RowsOf
<1>3. ASSUME NEW y \in X PROVE y = x
  <2>1. PICK k \in Keys(b) : y = Group(k, b).cohort
    BY DEF RowsOf
  <2>2. y.identity = k
    BY <2>1, KeysIdentify
  <2>3. Fits(e, k)
    BY <2>2
  <2>4. k = key
    BY <2>3, FitsItsCohort
  <2> QED
    BY <2>1, <2>4
<1> HIDE DEF x
<1>4. x \in X
  BY <1>2
<1> HIDE DEF X
<1>5. X = {x}
  BY <1>3, <1>4
<1> QED
  BY <1>5, FS_Singleton DEF X

(* The cohorts of a finished snapshot count every episode of the bundle    *)
(* exactly once, and count as left out of the analysis just those that the *)
(* exclusion ledger names, each for the reason that it gives.              *)
THEOREM EpisodesAreAccounted == Spec => []EveryEpisodeIsAccounted
<1>1. Faithful => EveryEpisodeIsAccounted
  <2> SUFFICES ASSUME Faithful, stage = "done"
               PROVE  EveryEpisodeIsAccounted
    BY DEF EveryEpisodeIsAccounted
  <2> DEFINE b == At(bundle, 2)
             E == bundle.episodes
             L == core.ledger
             Belonging(row) ==
               {e \in bundle.episodes :
                  /\ e.project = row.identity.project
                  /\ e.generation = row.identity.generation
                  /\ row.identity.legacy \in {None, e.run}}
             For(reason, row) ==
               Quantify(Belonging(row), LAMBDA e :
                 \E l \in core.ledger : l[1] = e.run /\ l[2] = reason)
             Analysed(row) ==
               {e \in Belonging(row) : ~\E l \in core.ledger :
                   l[1] = e.run /\ l[3] = "outcome-analysis"}
  <2>1. /\ core = BuildCore(b) /\ SoundBundle(b) /\ b.episodes = E
        /\ b.version = 2
    <3>1. core = BuildCore(b) /\ bundle = Bundle(version) /\ Inputs
      BY DEF Faithful, Built
    <3> QED
      BY <3>1, AtParts
  <2> HIDE DEF b
  <2>2. /\ core.cohorts = RowsOf(b) /\ core.episodes = {e.run : e \in E}
        /\ L = Ledger(E, b.invalidations)
    BY <2>1, CoreParts
  <2>3. \A row : Belonging(row) = {e \in E : Fits(e, row.identity)}
    BY DEF Fits
  <2>4. \A row : Analysed(row) =
          {e \in {f \in E : Fits(f, row.identity)} : ~LeftOut(L, e)}
    BY <2>3 DEF LeftOut
  <2>5. \A row, reason : For(reason, row) =
          Cardinality({e \in {f \in E : Fits(f, row.identity)} :
                         Says(L, e, reason)})
    BY <2>3 DEF Quantify, Says
  <2>6. ASSUME NEW e \in E
        PROVE  Quantify(core.cohorts, LAMBDA row : e \in Belonging(row)) = 1
    <3>1. {row \in core.cohorts : e \in Belonging(row)} =
            {row \in RowsOf(b) : Fits(e, row.identity)}
      BY <2>2, <2>3
    <3>2. Cardinality({row \in RowsOf(b) : Fits(e, row.identity)}) = 1
      BY <2>1, CohortIsUnique
    <3> HIDE DEF Belonging
    <3> QED
      BY <3>1, <3>2 DEF Quantify
  <2>7. ASSUME NEW l \in L PROVE l[1] \in core.episodes
    <3>1. PICK e \in E : l[1] = e.run
      BY <2>2, LedgerRows
    <3> QED
      BY <2>2, <3>1
  <2>8. ASSUME NEW row \in core.cohorts
        PROVE  /\ row.outcomes = Cardinality(Analysed(row))
               /\ \A s \in OutcomeStatuses :
                    row.outcome_counts[s] =
                      Quantify(Analysed(row), LAMBDA e : e.status = s)
               /\ row.drafts = For("draft", row)
               /\ row.active + row.stale_draft_n = row.drafts
               /\ row.superseded = For("superseded", row)
               /\ row.invalidated_episode_n = For("invalidated", row)
               /\ row.generation_unavailable_episode_n =
                    For("generation-unavailable", row)
    <3>1. PICK key \in Keys(b) : row = Group(key, b).cohort
      BY <2>2 DEF RowsOf
    <3> DEFINE S == {f \in E : Fits(f, row.identity)}
               A == {e \in S : ~LeftOut(L, e)}
               Of(reason) == Cardinality({e \in S : Says(L, e, reason)})
    <3>2. /\ row.outcomes = Cardinality(A)
          /\ \A s \in OutcomeStatuses :
               row.outcome_counts[s] = Cardinality({e \in A : e.status = s})
          /\ row.drafts = Of("draft")
          /\ row.active + row.stale_draft_n = row.drafts
          /\ row.superseded = Of("superseded")
          /\ row.invalidated_episode_n = Of("invalidated")
          /\ row.generation_unavailable_episode_n =
               Of("generation-unavailable")
      <4>1. Accounted(E, L, row)
        BY <2>1, <2>2, <3>1, CohortIsAccounted
      <4> QED
        BY <4>1 DEF Accounted
    <3> HIDE DEF For, Analysed
    <3>3. \A reason : For(reason, row) = Of(reason)
      BY <2>5
    <3>4. Analysed(row) = A
      BY <2>4
    <3> HIDE DEF A, Of
    <3> QED
      BY <3>2, <3>3, <3>4 DEF Quantify, A
  <2> QED
    BY <2>6, <2>7, <2>8 DEF EveryEpisodeIsAccounted
<1> QED
  BY <1>1, CoreIsFaithful, PTL

-----------------------------------------------------------------------------
(* A decision is reported as recurring exactly when it was earned.         *)

(* The episodes of runs, and the cohort of a known generation.             *)
EpisodesOf(V) == {Episode(x) : x \in V}
Known(p, g) == [collection |-> "workflow-generation", project |-> p,
                generation |-> g, legacy |-> None]

(* A run takes a decision, or two in a row, if they are a pattern of its   *)
(* episode.                                                                *)
LEMMA TakenIsPattern ==
  ASSUME Inputs, NEW x \in Recorded, NEW s, Len(s) \in {1, 2}
  PROVE  Took(x, s) <=> s \in PatternsOf(Episode(x))
<1> DEFINE d == store[x].decisions
           e == Episode(x)
<1>1. e.decisions = d /\ d \in Seq(Decisions)
  BY EpisodeFields, EpisodeIsSound DEF Sound
<1>2. s \in PatternsOf(e) <=>
        \E n \in {0, 1} : \E i \in 1..(Len(d) - n) : s = SubSeq(d, i, i + n)
  <2> HIDE DEF e
  <2> QED
    BY <1>1 DEF PatternsOf
<1>3. Len(d) \in Nat
  BY <1>1
<1> HIDE DEF d, e
<1>4. ASSUME NEW i \in 1..Len(d), NEW j \in 1..Len(d), SubSeq(d, i, j) = s
      PROVE  \E n \in {0, 1} :
               \E k \in 1..(Len(d) - n) : s = SubSeq(d, k, k + n)
  <2>1. Len(SubSeq(d, i, j)) = IF i <= j THEN j - i + 1 ELSE 0
    BY <1>1, <1>3
  <2>2. i \in Nat /\ j \in Nat /\ i <= j /\ j - i + 1 \in {1, 2}
    BY <1>3, <1>4, <2>1
  <2>3. CASE j - i + 1 = 1
    <3>1. j = i + 0 /\ i \in 1..(Len(d) - 0)
      BY <1>3, <2>2, <2>3
    <3> QED
      BY <3>1, <1>4
  <2>4. CASE j - i + 1 = 2
    <3>1. j = i + 1 /\ i \in 1..(Len(d) - 1)
      BY <1>3, <2>2, <2>4
    <3> QED
      BY <3>1, <1>4
  <2> QED
    BY <2>2, <2>3, <2>4
<1>5. ASSUME NEW n \in {0, 1}, NEW i \in 1..(Len(d) - n),
             s = SubSeq(d, i, i + n)
      PROVE  \E k, j \in 1..Len(d) : SubSeq(d, k, j) = s
  <2>1. i \in 1..Len(d) /\ i + n \in 1..Len(d)
    BY <1>3
  <2> QED
    BY <1>5, <2>1
<1>6. Took(x, s) <=> \E i, j \in 1..Len(d) : SubSeq(d, i, j) = s
  BY DEF Took, d
<1> QED
  BY <1>2, <1>4, <1>5, <1>6 DEF e

(* The generation of an episode is the one that the record or the review   *)
(* names: they do not conflict.                                            *)
LEMMA GenerationIsNamed ==
  ASSUME Inputs, Agreed, NEW x \in Recorded, NEW g \in Generations
  PROVE  Episode(x).generation = g <=>
           g \in {store[x].generation, mapping[x]}
<1>1. Episode(x).generation = IF store[x].generation = None
                              THEN mapping[x] ELSE store[x].generation
  BY EpisodeFields
<1>2. g # None
  BY Policy
<1>3. store[x].generation = None \/ mapping[x] \in {None, store[x].generation}
  <2>1. Projection(x) \in Physical
    BY DEF Physical, Recorded
  <2>2. ~Conflicts(Projection(x))
    BY <2>1 DEF Agreed
  <2>3. /\ Projection(x).generation = store[x].generation
        /\ Projection(x).run = x
    BY DEF Projection
  <2> QED
    BY <2>2, <2>3 DEF Conflicts
<1> QED
  BY <1>1, <1>2, <1>3

(* The valid outcomes of a cohort are the episodes of those runs.          *)
LEMMA ValidAreOutcomes ==
  ASSUME Inputs, Agreed, NEW u, NEW b, b.episodes = Bundle(u).episodes,
         b.invalidations = Bundle(u).invalidations,
         NEW p, wanted \in {None, p}, NEW g \in Generations
  PROVE  Outcomes(Members(Known(p, g), b), b.invalidations) =
           EpisodesOf(Valid(p, g))
<1> DEFINE O == Outcomes(Members(Known(p, g), b), b.invalidations)
           V == Valid(p, g)
<1>1. b.episodes = {Episode(x) : x \in {y \in Recorded :
                                          Matches(Episode(y))}}
  BY BundledEpisodes
<1>2. b.invalidations = invalid \cap {e.run : e \in b.episodes}
  BY DEF Bundle
<1>3. g # None
  BY Policy
<1>4. ASSUME NEW x \in Recorded
      PROVE  /\ Episode(x).run = x
             /\ Episode(x).status = store[x].status
             /\ Matches(Episode(x)) /\ CohortKey(Episode(x)) = Known(p, g)
                  <=> /\ store[x].project = p
                      /\ g \in {store[x].generation, mapping[x]}
                      /\ Since <= store[x].started
                      /\ store[x].started < Until
  <2>1. /\ Episode(x).run = x /\ Episode(x).status = store[x].status
        /\ Episode(x).started = store[x].started
        /\ Episode(x).project = store[x].project
    BY EpisodeFields
  <2>2. Episode(x).generation = g <=> g \in {store[x].generation, mapping[x]}
    BY GenerationIsNamed
  <2>3. CohortKey(Episode(x)) = Known(p, g) <=>
          /\ Episode(x).generation = g /\ Episode(x).project = p
    BY <1>3 DEF CohortKey, Known
  <2> QED
    BY <2>1, <2>2, <2>3 DEF Matches
<1>5. ASSUME NEW e \in O PROVE e \in {Episode(x) : x \in V}
  <2>1. /\ e \in b.episodes /\ CohortKey(e) = Known(p, g)
        /\ e.status \in OutcomeStatuses /\ e.run \notin b.invalidations
    BY DEF Outcomes, Members
  <2>2. PICK x \in Recorded : e = Episode(x) /\ Matches(Episode(x))
    BY <1>1, <2>1
  <2>3. x \notin invalid
    BY <1>2, <1>4, <2>1, <2>2
  <2>4. x \in V
    BY <1>4, <2>1, <2>2, <2>3 DEF Valid
  <2> QED
    BY <2>2, <2>4
<1>6. ASSUME NEW x \in V PROVE Episode(x) \in O
  <2>1. /\ x \in Recorded /\ x \notin invalid
        /\ store[x].status \in OutcomeStatuses /\ store[x].project = p
        /\ g \in {store[x].generation, mapping[x]}
        /\ Since <= store[x].started /\ store[x].started < Until
    BY DEF Valid
  <2>2. Matches(Episode(x)) /\ CohortKey(Episode(x)) = Known(p, g)
    BY <1>4, <2>1
  <2>3. Episode(x) \in b.episodes
    BY <1>1, <2>1, <2>2
  <2>4. Episode(x).run \notin b.invalidations
    BY <1>2, <1>4, <2>1
  <2>5. Episode(x).status \in OutcomeStatuses
    BY <1>4, <2>1
  <2> QED
    BY <2>2, <2>3, <2>4, <2>5 DEF Outcomes, Members
<1> HIDE DEF O, V
<1>7. O = {Episode(x) : x \in V}
  BY <1>5, <1>6
<1> QED
  BY <1>7 DEF O, V, EpisodesOf

(* As many episodes as runs.                                               *)
LEMMA RunsAreCounted ==
  ASSUME Inputs, NEW V, V \subseteq Recorded
  PROVE  /\ Cardinality(EpisodesOf(V)) = Cardinality(V)
         /\ IsFiniteSet(V)
<1> DEFINE f == [x \in V |-> Episode(x)]
<1>1. IsFiniteSet(V)
  BY Policy, FS_Subset DEF Recorded
<1>2. \A x, y \in V : f[x] = f[y] => x = y
  BY EpisodeFields
<1>3. EpisodesOf(V) = {f[x] : x \in V}
  BY DEF EpisodesOf
<1>4. Cardinality({f[x] : x \in V}) = Cardinality(V)
  <2> HIDE DEF f
  <2> QED
    BY <1>1, <1>2, ImageCounts
<1> QED
  BY <1>1, <1>3, <1>4

(* The numbers on which a decision is judged are those of the store.       *)
LEMMA NumbersAreThoseOfTheStore ==
  ASSUME Inputs, Agreed, NEW u, NEW b, b.episodes = Bundle(u).episodes,
         b.invalidations = Bundle(u).invalidations,
         NEW p, wanted \in {None, p}, NEW g \in Generations,
         NEW s, Len(s) \in {1, 2}
  PROVE  LET deciding == Deciding(p, g)
             took == Taking(p, g, s)
             O == Outcomes(Members(Known(p, g), b), b.invalidations)
             E == Eligible(Members(Known(p, g), b), b.invalidations) IN
         /\ Cardinality(O) = Cardinality(Valid(p, g))
         /\ Cardinality(E) = Cardinality(deciding)
         /\ Support(s, E) = Cardinality(took)
         /\ took # {} => s \in SeenIn(E)
<1> DEFINE V == Valid(p, g)
           deciding == Deciding(p, g)
           took == Taking(p, g, s)
           O == Outcomes(Members(Known(p, g), b), b.invalidations)
           E == Eligible(Members(Known(p, g), b), b.invalidations)
           F == {e \in E : s \in PatternsOf(e)}
<1>1. O = EpisodesOf(V)
  BY ValidAreOutcomes
<1>2. V \subseteq Recorded
  BY DEF Valid
<1>3. \A x \in V : Episode(x).schema = store[x].schema
  BY <1>2, EpisodeFields
<1>4. E = {e \in O : e.schema = 2}
  BY DEF Eligible
<1> HIDE DEF V, O, E
<1>5. E = EpisodesOf(deciding)
  BY <1>1, <1>3, <1>4 DEF EpisodesOf, Deciding, V
<1>6. \A x \in deciding : Took(x, s) <=> s \in PatternsOf(Episode(x))
  BY <1>2, TakenIsPattern DEF Deciding, V
<1>7. F = EpisodesOf(took)
  BY <1>5, <1>6 DEF EpisodesOf, Taking
<1>8. took # {} => s \in SeenIn(E)
  BY <1>5, <1>6 DEF SeenIn, EpisodesOf, Taking
<1>9. deciding \subseteq Recorded /\ took \subseteq Recorded
  BY <1>2 DEF Deciding, Taking, V
<1> HIDE DEF deciding, took
<1>10. /\ Cardinality(EpisodesOf(V)) = Cardinality(V)
       /\ Cardinality(EpisodesOf(deciding)) = Cardinality(deciding)
       /\ Cardinality(EpisodesOf(took)) = Cardinality(took)
  BY <1>2, <1>9, RunsAreCounted
<1> HIDE DEF F
<1>11. Support(s, E) = Cardinality(F)
  BY DEF Support, Quantify, F
<1> QED
  BY <1>1, <1>5, <1>7, <1>8, <1>10, <1>11 DEF V, O, E, deciding, took

(* What is judged of the numbers of a group.                               *)
LEMMA JudgedByNumbers ==
  ASSUME Inputs, Agreed, NEW u, NEW b, b.episodes = Bundle(u).episodes,
         b.invalidations = Bundle(u).invalidations,
         NEW p, wanted \in {None, p}, NEW g \in Generations,
         NEW s, Len(s) \in {1, 2}
  PROVE  LET k == Known(p, g)
             c == Group(k, b).cohort
             E == Eligible(Members(k, b), b.invalidations) IN
         /\ PatternRow(s, c, E).strength = "recurring" <=> Earned(p, g, s)
         /\ Earned(p, g, s) => s \in SeenIn(E) /\ k \in Keys(b)
<1> DEFINE k == Known(p, g)
           c == Group(k, b).cohort
           S == Members(k, b)
           O == Outcomes(S, b.invalidations)
           E == Eligible(S, b.invalidations)
           V == Valid(p, g)
           deciding == Deciding(p, g)
           took == Taking(p, g, s)
<1>1. /\ Cardinality(O) = Cardinality(V)
      /\ Cardinality(E) = Cardinality(deciding)
      /\ Support(s, E) = Cardinality(took)
      /\ took # {} => s \in SeenIn(E)
  BY NumbersAreThoseOfTheStore
<1>2. c.comparable /\ c.outcomes = Cardinality(O)
  <2> DEFINE x == Cohort(k, S, b.invalidations, b.version)
  <2>1. x.comparable = (k.generation # None)
        /\ x.outcomes = Cardinality(O)
    BY DEF Cohort
  <2>2. k.generation = g /\ g # None
    BY Policy DEF Known
  <2>3. c = x
    BY GroupParts
  <2> HIDE DEF x, c, k, O
  <2> QED
    BY <2>1, <2>2, <2>3
<1>3. Earned(p, g, s) <=>
        /\ Cardinality(V) >= MinOutcomes
        /\ Cardinality(took) >= MinSupport
        /\ Cardinality(took) * MinRatio[2] >=
             MinRatio[1] * Cardinality(deciding)
  BY DEF Earned
<1>4. V = {} => ~(Cardinality(V) >= MinOutcomes)
  <2>1. Cardinality({}) = 0
    BY FS_EmptySet
  <2>2. ~(0 >= MinOutcomes)
    BY Policy
  <2> QED
    BY <2>1, <2>2
<1>5. took = {} => ~(Cardinality(took) >= MinSupport)
  <2>1. Cardinality({}) = 0
    BY FS_EmptySet
  <2>2. ~(0 >= MinSupport)
    BY Policy
  <2> HIDE DEF took
  <2> QED
    BY <2>1, <2>2
<1>6. V # {} => k \in Keys(b)
  <2>1. O = EpisodesOf(V)
    BY ValidAreOutcomes
  <2>2. \A e \in O : e \in b.episodes /\ CohortKey(e) = k
    BY DEF Outcomes, Members
  <2> HIDE DEF O, k, V
  <2> QED
    BY <2>1, <2>2 DEF Keys, EpisodesOf
<1> HIDE DEF c, O, E, V, took, deciding, k
<1>7. PatternRow(s, c, E).strength = "recurring" <=>
        Recurring(Support(s, E), Cardinality(E), c)
  BY DEF PatternRow
<1>8. PatternRow(s, c, E).strength = "recurring" <=> Earned(p, g, s)
  BY <1>1, <1>2, <1>3, <1>7 DEF Recurring
<1>9. Earned(p, g, s) => s \in SeenIn(E) /\ k \in Keys(b)
  BY <1>1, <1>3, <1>4, <1>5, <1>6
<1> QED
  BY <1>8, <1>9 DEF c, E, k

(* A group reports what its runs earned.                                   *)
LEMMA ReportedIsEarned ==
  ASSUME Inputs, Agreed, NEW u, NEW b, b.episodes = Bundle(u).episodes,
         b.invalidations = Bundle(u).invalidations,
         SoundBundle(b), b.version \in {1, 2},
         NEW p, NEW g \in Generations, NEW s, Len(s) \in {1, 2}
  PROVE  Reported(CandidatesIn(b), p, g, s) <=> Earned(p, g, s)
<1> DEFINE k == Known(p, g)
           c == Group(k, b).cohort
           E == Eligible(Members(k, b), b.invalidations)
<1>1. g # None
  BY Policy
<1>2. ASSUME Reported(CandidatesIn(b), p, g, s) PROVE Earned(p, g, s)
  <2>1. PICK row \in CandidatesIn(b) :
               /\ row.content.kind = "decision"
               /\ row.content.cohort.project = p
               /\ row.content.cohort.generation = g
               /\ row.content.evidence["pattern"] = s
    BY <1>2 DEF Reported
  <2>2. PICK h \in Keys(b) : \E r \in EmissionRules :
               \E q \in Group(h, b).patterns :
                 /\ r.kind = "decision" /\ r.source = q.kind
                 /\ q.strength = "recurring"
                 /\ row = DecisionRow(r, Group(h, b).cohort, q)
    BY <2>1, DecisionForms
  <2>3. PICK r \in EmissionRules, q \in Group(h, b).patterns :
                 /\ r.kind = "decision" /\ r.source = q.kind
                 /\ q.strength = "recurring"
                 /\ row = DecisionRow(r, Group(h, b).cohort, q)
    BY <2>2
  <2>4. row.content.cohort = h /\ row.content.evidence["pattern"] = q.pattern
    BY <2>3, DecisionRowParts
  <2>5. h.project = p /\ h.generation = g /\ q.pattern = s
    BY <2>1, <2>4
  <2>6. PICK e \in b.episodes : h = CohortKey(e)
    BY DEF Keys
  <2>7. h = k /\ e.project = p
    BY <1>1, <2>5, <2>6 DEF CohortKey, Known
  <2>8. wanted \in {None, p}
    <3>1. e \in {Episode(x) : x \in {y \in Recorded : Matches(Episode(y))}}
      BY BundledEpisodes
    <3>2. Matches(e)
      BY <3>1
    <3> QED
      BY <2>7, <3>2 DEF Matches
  <2>9. q = PatternRow(s, c, E)
    <3>1. q \in Group(k, b).patterns
      BY <2>7
    <3> QED
      BY <2>5, <3>1, RowParts
  <2> HIDE DEF k, c, E
  <2>10. PatternRow(s, c, E).strength = "recurring"
    BY <2>3, <2>9
  <2> QED
    BY <2>8, <2>10, JudgedByNumbers DEF k, c, E
<1>3. ASSUME Earned(p, g, s) PROVE Reported(CandidatesIn(b), p, g, s)
  <2>1. wanted \in {None, p}
    BY <1>3 DEF Earned
  <2>2. /\ PatternRow(s, c, E).strength = "recurring"
        /\ s \in SeenIn(E) /\ k \in Keys(b)
    BY <1>3, <2>1, JudgedByNumbers
  <2> DEFINE q == PatternRow(s, c, E)
  <2>3. q \in Group(k, b).patterns
    <3>1. c = Cohort(k, Members(k, b), b.invalidations, b.version)
      BY GroupParts
    <3>2. Group(k, b).patterns = PatternRows(c, E)
      BY <3>1, GroupPatterns
    <3> HIDE DEF c, E
    <3> QED
      BY <2>2, <3>2 DEF PatternRows
  <2>4. q.pattern = s
    BY DEF PatternRow
  <2> HIDE DEF q, c, E
  <2>5. PICK r \in EmissionRules :
               /\ r.kind = "decision" /\ r.source = q.kind
               /\ DecisionRow(r, Group(k, b).cohort, q) \in CandidatesIn(b)
    BY <2>2, <2>3, DecisionExists DEF q
  <2> DEFINE row == DecisionRow(r, Group(k, b).cohort, q)
  <2>6. /\ row.content.kind = "decision" /\ row.content.cohort = k
        /\ row.content.evidence["pattern"] = q.pattern
    BY <2>3, <2>5, DecisionRowParts
  <2>7. k.project = p /\ k.generation = g
    BY DEF Known
  <2>8. row \in CandidatesIn(b)
    BY <2>5
  <2> HIDE DEF row, k
  <2> QED
    BY <2>4, <2>6, <2>7, <2>8 DEF Reported
<1> QED
  BY <1>2, <1>3

(* The snapshot reports a decision as recurring for a project and a        *)
(* generation exactly when the store holds enough distinct valid runs of   *)
(* them that took it, and a large enough share of those that could have.   *)
THEOREM RecurringDecisionsAreEarned == Spec => []RecurringIsEarned
<1>1. Faithful => RecurringIsEarned
  <2> SUFFICES ASSUME Faithful, stage = "done",
                      NEW p, NEW g \in Generations,
                      NEW s \in {<<x>> : x \in Decisions}
                                  \cup {<<x, y>> : x, y \in Decisions}
               PROVE  Reported(core.candidates, p, g, s) <=> Earned(p, g, s)
    BY DEF RecurringIsEarned
  <2> DEFINE b == At(bundle, 2)
  <2>1. /\ core = BuildCore(b) /\ bundle = Bundle(version) /\ Inputs
        /\ Agreed
    BY DEF Faithful, Built
  <2>2. /\ SoundBundle(b) /\ b.version = 2
        /\ b.episodes = Bundle(version).episodes
        /\ b.invalidations = Bundle(version).invalidations
    BY <2>1, AtParts
  <2> HIDE DEF b
  <2>3. core.candidates = CandidatesIn(b)
    BY <2>1, CoreParts
  <2>4. Reported(CandidatesIn(b), p, g, s) <=> Earned(p, g, s)
    <3>1. Len(s) \in {1, 2}
      OBVIOUS
    <3> QED
      BY <2>1, <2>2, <3>1, ReportedIsEarned
  <2> QED
    BY <2>3, <2>4
<1> QED
  BY <1>1, CoreIsFaithful, PTL

-----------------------------------------------------------------------------
(* What a snapshot says of results does not depend on the invalidated, the *)
(* drafts and the superseded.                                              *)

SpeakingKinds == {"metric", "decision", "outcome"}

(* A candidate keeps of the cohort its identity and its outcomes.          *)
LEMMA CandidateFollows ==
  ASSUME NEW r, NEW x, NEW y, x.identity = y.identity,
         x.outcomes = y.outcomes, NEW source, NEW n, NEW support, NEW values
  PROVE  Candidate(r, x, source, n, support, values) =
           Candidate(r, y, source, n, support, values)
BY DEF Candidate

(* Two groups with the same results and patterns say the same of results.  *)
LEMMA DraftsFollow ==
  ASSUME NEW g, NEW h, NEW x, NEW y, g.cohort = x, h.cohort = y,
         x.identity = y.identity, x.outcomes = y.outcomes,
         x.outcome_counts = y.outcome_counts, x.metrics = y.metrics,
         g.patterns = h.patterns,
         NEW r \in EmissionRules, r.kind \in SpeakingKinds
  PROVE  Drafted(g, r) = Drafted(h, r)
<1>1. CASE r.kind = "metric"
  <2> DEFINE elig(c, m) == c.metrics[m].missingness["eligible"]
             P(m) == Candidate(r, x, m, elig(x, m), None, x.metrics[m])
             Q(m) == Candidate(r, y, m, elig(y, m), None, y.metrics[m])
             H(c) == {m \in Named(r) :
                        /\ elig(c, m) >= 1
                        /\ MetricPredicate(c.metrics[m], r.predicate)}
  <2>1. \A m : P(m) = Q(m)
    BY CandidateFollows
  <2>2. H(x) = H(y)
    OBVIOUS
  <2>3. MetricCandidates(r, x) = {P(m) : m \in H(x)}
    BY DEF MetricCandidates, Named
  <2>4. MetricCandidates(r, y) = {Q(m) : m \in H(y)}
    BY DEF MetricCandidates, Named
  <2> HIDE DEF P, Q, H
  <2>5. MetricCandidates(r, x) = MetricCandidates(r, y)
    BY <2>1, <2>2, <2>3, <2>4
  <2> QED
    BY <1>1, <2>5 DEF Drafted, CandidatesOf
<1>2. CASE r.kind = "decision"
  <2> DEFINE P(p) == DecisionRow(r, x, p)
             Q(p) == DecisionRow(r, y, p)
             H(patterns) == {p \in patterns : p.kind = r.source
                                              /\ p.strength = "recurring"}
  <2>1. \A p : P(p) = Q(p)
    BY CandidateFollows DEF DecisionRow
  <2>2. Drafted(g, r) = {P(p) : p \in H(g.patterns)}
    BY <1>2 DEF Drafted, CandidatesOf, DecisionCandidates, DecisionRow
  <2>3. Drafted(h, r) = {Q(p) : p \in H(h.patterns)}
    BY <1>2 DEF Drafted, CandidatesOf, DecisionCandidates, DecisionRow
  <2> HIDE DEF P, Q, H
  <2> QED
    BY <2>1, <2>2, <2>3
<1>3. CASE r.kind = "outcome"
  <2> DEFINE count(c) == CountOf(r, c)
             counts(c) == IF r.source = "stale_draft_n"
                          THEN [stale_draft_n |-> count(c), as_of |-> AsOf,
                                stale_after_seconds |-> StaleAfter]
                          ELSE [s \in {r.source} |-> count(c)]
             P == Candidate(r, x, r.source, x.outcomes, None,
                            [counts |-> counts(x)])
             Q == Candidate(r, y, r.source, y.outcomes, None,
                            [counts |-> counts(y)])
             empty(c) == c.outcomes < 1 \/ count(c) = 0
  <2>1. count(x) = count(y)
    <3> DEFINE R(c) == [s \in OutcomeStatuses |-> c.outcome_counts[s]]
    <3>1. CountOf(r, x) =
            MapThenSumSet(LAMBDA s : x.outcome_counts[s],
                          OutcomeStatuses \ {"success"})
      BY <1>3 DEF CountOf
    <3>2. CountOf(r, y) =
            MapThenSumSet(LAMBDA s : y.outcome_counts[s],
                          OutcomeStatuses \ {"success"})
      BY <1>3 DEF CountOf
    <3>3. CountOf(r, x) =
            SumOf(OutcomeStatuses \ {"success"}, x.outcome_counts)
      BY <3>1 DEF SumOf
    <3>4. CountOf(r, y) =
            SumOf(OutcomeStatuses \ {"success"}, y.outcome_counts)
      BY <3>2 DEF SumOf
    <3> QED
      BY <3>3, <3>4
  <2> HIDE DEF count
  <2>2. counts(x) = counts(y) /\ (empty(x) <=> empty(y))
    BY <2>1
  <2> HIDE DEF counts, empty
  <2>3. P = Q
    BY <2>2, CandidateFollows
  <2>4. \A n : CountCandidates(r, x, n) = IF empty(x) THEN {} ELSE {P}
    BY <1>3 DEF CountCandidates, empty, counts, count
  <2>5. \A n : CountCandidates(r, y, n) = IF empty(y) THEN {} ELSE {Q}
    BY <1>3 DEF CountCandidates, empty, counts, count
  <2>6. /\ Drafted(g, r) = CountCandidates(r, x, g.n)
        /\ Drafted(h, r) = CountCandidates(r, y, h.n)
    BY <1>3 DEF Drafted, CandidatesOf
  <2> HIDE DEF P, Q
  <2> QED
    BY <2>2, <2>3, <2>4, <2>5, <2>6
<1> QED
  BY <1>1, <1>2, <1>3 DEF SpeakingKinds

(* The outcomes of a group decide what it says of results.                 *)
ResultOf(row) ==
  [identity |-> row.identity, outcomes |-> row.outcome_counts,
   metrics |-> row.metrics]
Heard(key, b) == Outcomes(Members(key, b), b.invalidations)
LEMMA GroupsSpeak ==
  ASSUME NEW b, NEW d, b.version = d.version, NEW key,
         Heard(key, d) = Heard(key, b)
  PROVE  LET x == Group(key, b).cohort
             y == Group(key, d).cohort IN
         /\ ResultOf(x) = ResultOf(y) /\ x.outcomes = y.outcomes
         /\ x.outcomes = Cardinality(Heard(key, b))
         /\ Group(key, b).patterns = Group(key, d).patterns
         /\ \A r \in EmissionRules : r.kind \in SpeakingKinds =>
              Drafted(Group(key, b), r) = Drafted(Group(key, d), r)
<1> DEFINE v == b.version
           S == Members(key, b)
           T == Members(key, d)
           X == Cohort(key, S, b.invalidations, v)
           Y == Cohort(key, T, d.invalidations, v)
           o == Heard(key, b)
           g == Group(key, b)
           h == Group(key, d)
           n(s) == Cardinality({e \in o : e.status = s})
<1>1. /\ g.cohort = X /\ h.cohort = Y
      /\ g.patterns = DecisionPatterns(X, o)
      /\ h.patterns = DecisionPatterns(Y, o)
  BY GroupParts DEF Heard
<1>2. /\ X.identity = key /\ X.comparable = (key.generation # None)
      /\ X.outcomes = Cardinality(o)
      /\ X.outcome_counts = [s \in OutcomeStatuses |-> n(s)]
      /\ X.metrics = [m \in Metrics |-> MetricResult(m, o, v)]
  BY DEF Cohort, Quantify, Heard
<1>3. o = Outcomes(T, d.invalidations)
  BY DEF Heard
<1> HIDE DEF o
<1>4. /\ Y.identity = key /\ Y.comparable = (key.generation # None)
      /\ Y.outcomes = Cardinality(o)
      /\ Y.outcome_counts = [s \in OutcomeStatuses |-> n(s)]
      /\ Y.metrics = [m \in Metrics |-> MetricResult(m, o, v)]
  <2>1. \A q : q = Outcomes(T, d.invalidations) =>
          /\ Y.identity = key /\ Y.comparable = (key.generation # None)
          /\ Y.outcomes = Cardinality(q)
          /\ Y.outcome_counts =
               [s \in OutcomeStatuses |->
                  Cardinality({e \in q : e.status = s})]
          /\ Y.metrics = [m \in Metrics |-> MetricResult(m, q, v)]
    BY DEF Cohort, Quantify
  <2> QED
    BY <1>3, <2>1
<1> HIDE DEF X, Y, g, h, n
<1>5. DecisionPatterns(X, o) = DecisionPatterns(Y, o)
  BY <1>2, <1>4, PatternsFollow
<1>6. \A r \in EmissionRules : r.kind \in SpeakingKinds =>
        Drafted(g, r) = Drafted(h, r)
  <2> SUFFICES ASSUME NEW r \in EmissionRules, r.kind \in SpeakingKinds
               PROVE  Drafted(g, r) = Drafted(h, r)
    OBVIOUS
  <2>1. X.identity = Y.identity /\ X.outcomes = Y.outcomes
    BY <1>2, <1>4
  <2>2. X.outcome_counts = Y.outcome_counts
    BY <1>2, <1>4
  <2>3. X.metrics = Y.metrics
    BY <1>2, <1>4
  <2>4. g.cohort = X /\ h.cohort = Y /\ g.patterns = h.patterns
    BY <1>1, <1>5
  <2> QED
    BY <2>1, <2>2, <2>3, <2>4, DraftsFollow
<1>7. ResultOf(X) = ResultOf(Y) /\ X.outcomes = Y.outcomes
      /\ X.outcomes = Cardinality(o)
  BY <1>2, <1>4 DEF ResultOf
<1> QED
  BY <1>1, <1>5, <1>6, <1>7 DEF g, h, o

(* A group without valid outcomes says nothing of results.                 *)
LEMMA SilentGroups ==
  ASSUME NEW b, b.version \in {1, 2}, NEW key, Heard(key, b) = {}
  PROVE  /\ Group(key, b).patterns = {}
         /\ Group(key, b).cohort.outcomes = 0
         /\ \A r \in EmissionRules : r.kind \in SpeakingKinds =>
              Drafted(Group(key, b), r) = {}
<1> DEFINE v == b.version
           S == Members(key, b)
           o == Outcomes(S, b.invalidations)
           X == Cohort(key, S, b.invalidations, v)
           g == Group(key, b)
<1>1. o = {} /\ Cardinality(o) = 0
  <2>1. o = {}
    BY DEF Heard
  <2> HIDE DEF o
  <2> QED
    BY <2>1, FS_EmptySet
<1>2. g.cohort = X /\ g.patterns = DecisionPatterns(X, o)
  BY GroupParts
<1>3. /\ X.outcomes = Cardinality(o)
      /\ X.metrics = [m \in Metrics |-> MetricResult(m, o, v)]
  BY DEF Cohort
<1> HIDE DEF X, o, g
<1>4. g.patterns = {}
  BY <1>1, <1>2 DEF DecisionPatterns
<1>5. ASSUME NEW r \in EmissionRules, r.kind \in SpeakingKinds
      PROVE  Drafted(g, r) = {}
  <2>1. CASE r.kind = "metric"
    <3>1. MetricCandidates(r, X) = MetricRows(r, X, o, v)
      BY <1>3, <2>1, MetricCandidateParts
    <3>2. Telling(r, o, v) = {}
      BY <1>1 DEF Telling
    <3>3. MetricRows(r, X, o, v) = {}
      BY <3>2 DEF MetricRows
    <3> QED
      BY <1>2, <2>1, <3>1, <3>3 DEF Drafted, CandidatesOf
  <2>2. CASE r.kind = "decision"
    BY <1>4, <2>2 DEF Drafted, CandidatesOf, DecisionCandidates
  <2>3. CASE r.kind = "outcome"
    <3>1. \A n : CountCandidates(r, X, n) = {}
      BY <1>1, <1>3, <2>3 DEF CountCandidates
    <3> QED
      BY <1>2, <2>3, <3>1 DEF Drafted, CandidatesOf
  <2> QED
    BY <1>5, <2>1, <2>2, <2>3 DEF SpeakingKinds
<1> QED
  BY <1>1, <1>2, <1>3, <1>4, <1>5 DEF g

(* A bundle of the valid outcomes only, and what both say of results.      *)
Cleaned(b, d) ==
  /\ d.version = b.version /\ d.invalidations = {}
  /\ d.episodes = Outcomes(b.episodes, b.invalidations)
LEMMA CleanKeys ==
  ASSUME NEW b, NEW d, Cleaned(b, d)
  PROVE  /\ \A key : Heard(key, d) = Heard(key, b)
         /\ Keys(d) \subseteq Keys(b)
         /\ \A key \in Keys(b) \ Keys(d) : Heard(key, b) = {}
         /\ \A key \in Keys(d) : Heard(key, b) # {}
<1>1. \A e : e \in d.episodes <=>
               /\ e \in b.episodes /\ e.status \in OutcomeStatuses
               /\ e.run \notin b.invalidations
  BY DEF Cleaned, Outcomes
<1>2. \A key, e : e \in Heard(key, b) <=> e \in d.episodes
                                          /\ CohortKey(e) = key
  BY <1>1 DEF Heard, Outcomes, Members
<1>3. \A key, e : e \in Heard(key, d) <=> e \in d.episodes
                                          /\ CohortKey(e) = key
  BY <1>1 DEF Heard, Outcomes, Members, Cleaned
<1>4. ASSUME NEW key PROVE Heard(key, d) = Heard(key, b)
  <2>1. \A e \in Heard(key, d) : e \in Heard(key, b)
    BY <1>2, <1>3
  <2>2. \A e \in Heard(key, b) : e \in Heard(key, d)
    BY <1>2, <1>3
  <2> QED
    BY <2>1, <2>2 DEF Heard, Outcomes
<1>5. \A key \in Keys(d) : key \in Keys(b) /\ Heard(key, b) # {}
  BY <1>1, <1>2 DEF Keys
<1>6. \A key \in Keys(b) \ Keys(d) : Heard(key, b) = {}
  <2> SUFFICES ASSUME NEW key \in Keys(b) \ Keys(d), NEW e \in Heard(key, b)
               PROVE  FALSE
    OBVIOUS
  <2> QED
    BY <1>2 DEF Keys
<1> QED
  BY <1>4, <1>5, <1>6

LoudRows(b) == {r \in RowsOf(b) : r.outcomes > 0}
LEMMA CleanSaysTheSame ==
  ASSUME NEW b, SoundBundle(b), b.version \in {1, 2}, NEW d, Cleaned(b, d)
  PROVE  /\ {ResultOf(row) : row \in LoudRows(b)} =
              {ResultOf(row) : row \in LoudRows(d)}
         /\ PatternsIn(b) = PatternsIn(d)
         /\ {row \in CandidatesIn(b) : row.content.kind \in SpeakingKinds} =
              {row \in CandidatesIn(d) : row.content.kind \in SpeakingKinds}
<1>1. /\ \A key : Heard(key, d) = Heard(key, b)
      /\ Keys(d) \subseteq Keys(b)
      /\ \A key \in Keys(b) \ Keys(d) : Heard(key, b) = {}
      /\ \A key \in Keys(d) : Heard(key, b) # {}
  BY CleanKeys
<1>2. b.version = d.version /\ d.version \in {1, 2}
  BY DEF Cleaned
<1> DEFINE x(key) == Group(key, b).cohort
           y(key) == Group(key, d).cohort
<1>3. \A key :
        /\ ResultOf(x(key)) = ResultOf(y(key))
        /\ x(key).outcomes = y(key).outcomes
        /\ x(key).outcomes = Cardinality(Heard(key, b))
        /\ Group(key, b).patterns = Group(key, d).patterns
        /\ \A r \in EmissionRules : r.kind \in SpeakingKinds =>
             Drafted(Group(key, b), r) = Drafted(Group(key, d), r)
  BY <1>1, <1>2, GroupsSpeak
<1>4. \A key \in Keys(b) \ Keys(d) :
        /\ x(key).outcomes = 0 /\ Group(key, b).patterns = {}
        /\ \A r \in EmissionRules : r.kind \in SpeakingKinds =>
             Drafted(Group(key, b), r) = {}
  BY <1>1, SilentGroups
<1>5. \A row : row \in RowsOf(b) <=> \E key \in Keys(b) : row = x(key)
  BY DEF RowsOf
<1>6. \A row : row \in RowsOf(d) <=> \E key \in Keys(d) : row = y(key)
  BY DEF RowsOf
<1> HIDE DEF x, y
<1>7. {ResultOf(row) : row \in LoudRows(b)} =
        {ResultOf(row) : row \in LoudRows(d)}
  <2>1. ASSUME NEW row \in LoudRows(b)
        PROVE  \E s \in LoudRows(d) : ResultOf(row) = ResultOf(s)
    <3>1. PICK key \in Keys(b) : row = x(key)
      BY <1>5 DEF LoudRows
    <3>2. key \in Keys(d)
      BY <1>4, <3>1 DEF LoudRows
    <3>3. y(key) \in LoudRows(d)
      BY <1>3, <1>6, <3>1, <3>2 DEF LoudRows
    <3> QED
      BY <1>3, <3>1, <3>3
  <2>2. ASSUME NEW row \in LoudRows(d)
        PROVE  \E s \in LoudRows(b) : ResultOf(row) = ResultOf(s)
    <3>1. PICK key \in Keys(d) : row = y(key)
      BY <1>6 DEF LoudRows
    <3>2. x(key) \in LoudRows(b)
      BY <1>1, <1>3, <1>5, <3>1 DEF LoudRows
    <3> QED
      BY <1>3, <3>1, <3>2
  <2> QED
    BY <2>1, <2>2
<1>8. PatternsIn(b) = PatternsIn(d)
  <2>1. \A p : p \in PatternsIn(b) <=>
                 \E key \in Keys(b) : p \in Group(key, b).patterns
    BY DEF PatternsIn
  <2>2. \A p : p \in PatternsIn(d) <=>
                 \E key \in Keys(d) : p \in Group(key, d).patterns
    BY DEF PatternsIn
  <2>3. \A p : p \in PatternsIn(b) <=> p \in PatternsIn(d)
    BY <1>1, <1>3, <1>4, <2>1, <2>2
  <2> QED
    BY <2>3 DEF PatternsIn
<1>9. {row \in CandidatesIn(b) : row.content.kind \in SpeakingKinds} =
        {row \in CandidatesIn(d) : row.content.kind \in SpeakingKinds}
  <2>1. ASSUME NEW c \in {b, d}, NEW row
        PROVE  row \in CandidatesIn(c)
                 /\ row.content.kind \in SpeakingKinds <=>
                 \E key \in Keys(c), r \in EmissionRules :
                   /\ r.kind \in SpeakingKinds
                   /\ row \in Drafted(Group(key, c), r)
    <3>1. c.version \in {1, 2}
      BY <1>2
    <3> QED
      BY <3>1, DraftIsNamed DEF CandidatesIn
  <2>2. ASSUME NEW row
        PROVE  (\E key \in Keys(b), r \in EmissionRules :
                  /\ r.kind \in SpeakingKinds
                  /\ row \in Drafted(Group(key, b), r)) <=>
               \E key \in Keys(d), r \in EmissionRules :
                  /\ r.kind \in SpeakingKinds
                  /\ row \in Drafted(Group(key, d), r)
    BY <1>1, <1>3, <1>4
  <2> QED
    BY <2>1, <2>2
<1> QED
  BY <1>7, <1>8, <1>9

(* What a snapshot says of results - the counts of outcomes and metrics of *)
(* its cohorts, its patterns, and its candidates about metrics, decisions  *)
(* and outcomes - is what it would say if the invalidated runs, the drafts *)
(* and the superseded had never been recorded.                             *)
THEOREM OnlyOutcomesSpeak == Spec => []OnlyValidOutcomesSpeak
<1>1. Faithful => OnlyValidOutcomesSpeak
  <2> SUFFICES ASSUME Faithful, stage = "done"
               PROVE  OnlyValidOutcomesSpeak
    BY DEF OnlyValidOutcomesSpeak
  <2> DEFINE b == At(bundle, 2)
             outcomes == {e \in bundle.episodes :
                            /\ e.status \in OutcomeStatuses
                            /\ e.run \notin invalid}
             d == [bundle EXCEPT !.version = 2, !.episodes = outcomes,
                                 !.invalidations = {}]
  <2>1. /\ core = BuildCore(b) /\ bundle = Bundle(version) /\ Inputs
        /\ SoundBundle(b) /\ b.version = 2
        /\ b.episodes = bundle.episodes
        /\ b.invalidations = bundle.invalidations
    <3>1. core = BuildCore(b) /\ bundle = Bundle(version) /\ Inputs
      BY DEF Faithful, Built
    <3> QED
      BY <3>1, AtParts
  <2>2. bundle.invalidations = invalid \cap {e.run : e \in bundle.episodes}
    BY <2>1 DEF Bundle
  <2>3. outcomes = Outcomes(b.episodes, b.invalidations)
    <3> HIDE DEF b
    <3> QED
      BY <2>1, <2>2 DEF Outcomes
  <2>4. bundle = [f \in {"version", "episodes", "invalidations", "counts",
                         "migrations"} |-> bundle[f]]
    BY <2>1 DEF Bundle
  <2> HIDE DEF b, outcomes
  <2>5. d.version = 2 /\ d.episodes = outcomes /\ d.invalidations = {}
    BY <2>4
  <2> HIDE DEF d
  <2>6. Cleaned(b, d)
    BY <2>1, <2>3, <2>5 DEF Cleaned
  <2>7. /\ {ResultOf(row) : row \in LoudRows(b)} =
             {ResultOf(row) : row \in LoudRows(d)}
        /\ PatternsIn(b) = PatternsIn(d)
        /\ {row \in CandidatesIn(b) : row.content.kind \in SpeakingKinds} =
             {row \in CandidatesIn(d) : row.content.kind \in SpeakingKinds}
    BY <2>1, <2>6, CleanSaysTheSame
  <2> DEFINE clean == BuildCore(d)
  <2>8. /\ core.cohorts = RowsOf(b) /\ clean.cohorts = RowsOf(d)
        /\ core.patterns = PatternsIn(b) /\ clean.patterns = PatternsIn(d)
        /\ core.candidates = CandidatesIn(b)
        /\ clean.candidates = CandidatesIn(d)
    BY <2>1, CoreParts
  <2> HIDE DEF clean
  <2>9. Results(core) = Results(clean)
    BY <2>7, <2>8 DEF Results, ResultOf, LoudRows
  <2>10. Speaking(core) = Speaking(clean)
    BY <2>7, <2>8 DEF Speaking, SpeakingKinds
  <2>11. core.patterns = clean.patterns
    BY <2>7, <2>8
  <2> QED
    BY <2>9, <2>10, <2>11 DEF OnlyValidOutcomesSpeak, clean, d, outcomes
<1> QED
  BY <1>1, CoreIsFaithful, PTL
=============================================================================
