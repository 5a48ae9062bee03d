----------------------- MODULE EvaluationProtocolProofs -----------------------
(***************************************************************************)
(* For any number of lanes, cases, coordinators, kills and failures: the   *)
(* acknowledgements are a log of decisions as DecisionLog promises it, a   *)
(* resume can always rebuild the ledger and arrives at what the durable    *)
(* decisions make it, nothing is alive while a run is classified or        *)
(* cleaned up, the records bear out every message, and no ledger refuses   *)
(* one.                                                                    *)
(*                                                                         *)
(* What a ledger holds is stated of any messages and decisions (Balanced), *)
(* so that the one lemma about accepting a message (AcceptKeepsBalance)    *)
(* serves both the coordinator that decides and the one that replays.      *)
(***************************************************************************)
EXTENDS EvaluationProtocol, FiniteSetTheorems, SequenceTheorems, TLAPS

-----------------------------------------------------------------------------
(* Sums over finite sets.  MapThenSumSet takes the elements in an order of *)
(* its own; a sum does not depend on it.                                   *)

SumOf(S, w) == MapThenSumSet(LAMBDA p : w[p], S)

(* A family of subsets of a finite set has a minimal member.               *)
LEMMA MinimalSubset ==
  ASSUME NEW T, IsFiniteSet(T), NEW D, D \subseteq SUBSET T, D # {}
  PROVE  \E m \in D : \A s \in D : s \subseteq m => s = m
<1>1. FiniteSubsetsOf(T) = SUBSET T
  BY FS_FiniteSubsetsOfFinite
<1>2. IsWellFoundedOn(StrictSubsetOrdering(T), SUBSET T)
  BY <1>1, FS_StrictSubsetOrderingWellFounded
<1>3. PICK m \in D : \A s \in D : <<s, m>> \notin StrictSubsetOrdering(T)
  BY <1>2, WFMin
<1> QED
  BY <1>3 DEF StrictSubsetOrdering

(* h adds up w over every subset of T.                                     *)
AddsUp(h, T, w) ==
  /\ h \in [SUBSET T -> Nat] /\ h[{}] = 0
  /\ \A s \in SUBSET T : \A x \in T \ s : h[s \cup {x}] = h[s] + w[x]

(* Such an h exists: a smallest counterexample has an element to spare.    *)
LEMMA AddsUpExists ==
  ASSUME NEW T, IsFiniteSet(T), NEW w, \A x \in T : w[x] \in Nat
  PROVE  \E h : AddsUp(h, T, w)
<1> DEFINE D == {s \in SUBSET T : ~(\E h : AddsUp(h, s, w))}
<1> SUFFICES ASSUME D # {} PROVE FALSE
  BY DEF D
<1>1. PICK m \in D : \A s \in D : s \subseteq m => s = m
  <2> HIDE DEF D
  <2>1. D \subseteq SUBSET T
    BY DEF D
  <2> QED
    BY <2>1, MinimalSubset
<1>2. CASE m = {}
  <2>1. AddsUp([s \in SUBSET m |-> 0], m, w)
    BY <1>2 DEF AddsUp
  <2> QED
    BY <2>1, <1>1
<1>3. CASE m # {}
  <2>1. PICK x \in m : TRUE
    BY <1>3
  <2>2. m \ {x} \notin D
    BY <1>1, <2>1
  <2>3. m \ {x} \in SUBSET T
    BY <1>1
  <2>4. PICK g : AddsUp(g, m \ {x}, w)
    BY <2>2, <2>3
  <2> DEFINE h == [s \in SUBSET m |-> IF x \in s THEN g[s \ {x}] + w[x]
                                      ELSE g[s]]
  <2>5. w[x] \in Nat
    BY <1>1, <2>1
  <2>6. g \in [SUBSET (m \ {x}) -> Nat] /\ g[{}] = 0
    BY <2>4 DEF AddsUp
  <2>7. h \in [SUBSET m -> Nat]
    <3> SUFFICES ASSUME NEW s \in SUBSET m
                 PROVE  (IF x \in s THEN g[s \ {x}] + w[x] ELSE g[s]) \in Nat
      OBVIOUS
    <3>1. s \ {x} \in SUBSET (m \ {x}) /\ (x \notin s => s = s \ {x})
      OBVIOUS
    <3>2. g[s \ {x}] \in Nat
      BY <3>1, <2>6
    <3>3. CASE x \in s
      BY <3>2, <3>3, <2>5
    <3>4. CASE x \notin s
      BY <3>1, <3>2, <3>4
    <3> QED
      BY <3>3, <3>4
  <2>8. h[{}] = 0
    BY <2>6
  <2>9. ASSUME NEW s \in SUBSET m, NEW y \in m \ s
        PROVE  h[s \cup {y}] = h[s] + w[y]
    <3>1. CASE y = x
      <4>1. (s \cup {y}) \ {x} = s /\ x \in s \cup {y} /\ x \notin s
        BY <3>1, <2>9
      <4> QED
        BY <4>1, <3>1
    <3>2. CASE y # x /\ x \in s
      <4>1. s \ {x} \in SUBSET (m \ {x}) /\ y \in (m \ {x}) \ (s \ {x})
        BY <3>2
      <4>2. g[(s \ {x}) \cup {y}] = g[s \ {x}] + w[y]
        BY <4>1, <2>4 DEF AddsUp
      <4>3. (s \cup {y}) \ {x} = (s \ {x}) \cup {y} /\ x \in s \cup {y}
        BY <3>2
      <4>4. g[s \ {x}] \in Nat /\ w[y] \in Nat
        BY <4>1, <2>6, <1>1
      <4>5. h[s \cup {y}] = g[(s \ {x}) \cup {y}] + w[x]
        BY <4>3
      <4>6. h[s] = g[s \ {x}] + w[x]
        BY <3>2
      <4> QED
        BY <4>2, <4>4, <4>5, <4>6, <2>5
    <3>3. CASE y # x /\ x \notin s
      <4>1. s \in SUBSET (m \ {x}) /\ y \in (m \ {x}) \ s
        BY <3>3
      <4>2. g[s \cup {y}] = g[s] + w[y]
        BY <4>1, <2>4 DEF AddsUp
      <4> QED
        BY <4>2, <3>3
    <3> QED
      BY <3>1, <3>2, <3>3
  <2>10. AddsUp(h, m, w)
    <3> HIDE DEF h
    <3> QED
      BY <2>7, <2>8, <2>9 DEF AddsUp
  <2> QED
    BY <2>10, <1>1
<1> QED
  BY <1>2, <1>3

(* Whatever adds up gives the sum.                                         *)
LEMMA SumAddsUp ==
  ASSUME NEW T, IsFiniteSet(T), NEW w, \A x \in T : w[x] \in Nat,
         NEW h, AddsUp(h, T, w)
  PROVE  \A S \in SUBSET T : SumOf(S, w) = h[S]
<1> SUFFICES ASSUME NEW S \in SUBSET T PROVE SumOf(S, w) = h[S]
  OBVIOUS
<1> DEFINE Chosen(s) == CHOOSE x \in s : TRUE
           Sums(g) == [s \in SUBSET S |->
                         IF s = {} THEN 0
                         ELSE w[Chosen(s)] + g[s \ {Chosen(s)}]]
           iter == CHOOSE g : g = Sums(g)
           k == [s \in SUBSET S |-> h[s]]
<1>1. SumOf(S, w) = iter[S]
  BY DEF SumOf, MapThenSumSet, MapThenFoldSet
<1>2. \A s \in SUBSET S : s # {} =>
        /\ Chosen(s) \in s /\ s \ {Chosen(s)} \in SUBSET S
        /\ h[s] = w[Chosen(s)] + h[s \ {Chosen(s)}]
  <2> SUFFICES ASSUME NEW s \in SUBSET S, s # {}
               PROVE  /\ Chosen(s) \in s /\ s \ {Chosen(s)} \in SUBSET S
                      /\ h[s] = w[Chosen(s)] + h[s \ {Chosen(s)}]
    OBVIOUS
  <2>1. Chosen(s) \in s
    OBVIOUS
  <2> HIDE DEF Chosen
  <2>2. s \ {Chosen(s)} \in SUBSET T /\ Chosen(s) \in T \ (s \ {Chosen(s)})
    BY <2>1
  <2>3. (s \ {Chosen(s)}) \cup {Chosen(s)} = s
    BY <2>1
  <2>4. h[s] = h[s \ {Chosen(s)}] + w[Chosen(s)]
    BY <2>2, <2>3 DEF AddsUp
  <2>5. h[s \ {Chosen(s)}] \in Nat /\ w[Chosen(s)] \in Nat
    BY <2>2 DEF AddsUp
  <2> QED
    BY <2>1, <2>2, <2>4, <2>5
<1> HIDE DEF Chosen
<1>3. k = Sums(k)
  <2>1. \A s \in SUBSET S :
          k[s] = IF s = {} THEN 0 ELSE w[Chosen(s)] + k[s \ {Chosen(s)}]
    <3> SUFFICES ASSUME NEW s \in SUBSET S
                 PROVE  k[s] = IF s = {} THEN 0
                               ELSE w[Chosen(s)] + k[s \ {Chosen(s)}]
      OBVIOUS
    <3>1. CASE s = {}
      BY <3>1 DEF AddsUp
    <3>2. CASE s # {}
      BY <3>2, <1>2
    <3> QED
      BY <3>1, <3>2
  <2> QED
    BY <2>1
<1>4. iter = Sums(iter)
  <2> HIDE DEF k, Sums
  <2> QED
    BY <1>3
<1> HIDE DEF iter, k
<1>5. \A s \in SUBSET S : iter[s] = IF s = {} THEN 0
                                    ELSE w[Chosen(s)] + iter[s \ {Chosen(s)}]
  BY <1>4
<1> DEFINE D == {s \in SUBSET S : iter[s] # h[s]}
<1>6. ASSUME D # {} PROVE FALSE
  <2>1. PICK m \in D : \A s \in D : s \subseteq m => s = m
    <3>1. D \subseteq SUBSET T
      OBVIOUS
    <3> HIDE DEF D
    <3> QED
      BY <1>6, <3>1, MinimalSubset
  <2>2. CASE m = {}
    BY <2>1, <2>2, <1>5 DEF AddsUp
  <2>3. CASE m # {}
    <3>1. m \ {Chosen(m)} \in SUBSET S /\ m \ {Chosen(m)} # m
      BY <2>1, <2>3, <1>2
    <3>2. iter[m \ {Chosen(m)}] = h[m \ {Chosen(m)}]
      BY <2>1, <3>1
    <3> QED
      BY <2>1, <2>3, <3>2, <1>2, <1>5
  <2> QED
    BY <2>2, <2>3
<1> QED
  BY <1>1, <1>6

(* The laws of sums that the ledger needs.                                 *)
LEMMA SumOfNothing == ASSUME NEW w PROVE SumOf({}, w) = 0
<1> DEFINE v == [p \in {} |-> 0]
<1>1. SumOf({}, v) = 0
  <2>1. PICK h : AddsUp(h, {}, v)
    BY FS_EmptySet, AddsUpExists
  <2>2. \A S \in SUBSET {} : SumOf(S, v) = h[S]
    BY <2>1, FS_EmptySet, SumAddsUp
  <2>3. h[{}] = 0
    BY <2>1 DEF AddsUp
  <2> QED
    BY <2>2, <2>3
<1> QED
  BY <1>1 DEF SumOf, MapThenSumSet, MapThenFoldSet

(* One element more adds its weight.                                       *)
LEMMA SumOfOneMore ==
  ASSUME NEW S, IsFiniteSet(S), NEW x, x \notin S, NEW w,
         \A y \in S \cup {x} : w[y] \in Nat
  PROVE  SumOf(S \cup {x}, w) = SumOf(S, w) + w[x]
<1> DEFINE T == S \cup {x}
<1>1. IsFiniteSet(T)
  BY FS_AddElement
<1>2. \A y \in T : w[y] \in Nat
  OBVIOUS
<1>3. S \in SUBSET T /\ T \in SUBSET T /\ x \in T \ S
  OBVIOUS
<1>4. S \cup {x} = T
  OBVIOUS
<1> HIDE DEF T
<1>5. PICK h : AddsUp(h, T, w)
  BY <1>1, <1>2, AddsUpExists
<1>6. \A s \in SUBSET T : SumOf(s, w) = h[s]
  BY <1>1, <1>2, <1>5, SumAddsUp
<1>7. h[S \cup {x}] = h[S] + w[x]
  BY <1>3, <1>5 DEF AddsUp
<1> QED
  BY <1>3, <1>4, <1>6, <1>7

(* A sum of naturals is one.                                               *)
LEMMA SumIsNatural ==
  ASSUME NEW S, IsFiniteSet(S), NEW w, \A y \in S : w[y] \in Nat
  PROVE  SumOf(S, w) \in Nat
<1>1. PICK h : AddsUp(h, S, w)
  BY AddsUpExists
<1>2. \A s \in SUBSET S : SumOf(s, w) = h[s]
  BY <1>1, SumAddsUp
<1>3. h[S] \in Nat
  BY <1>1 DEF AddsUp
<1> QED
  BY <1>2, <1>3

(* A part weighs no more than the whole.                                   *)
LEMMA SumOfPart ==
  ASSUME NEW T, IsFiniteSet(T), NEW S, S \subseteq T, NEW w,
         \A y \in T : w[y] \in Nat
  PROVE  SumOf(S, w) <= SumOf(T, w)
<1>1. PICK h : AddsUp(h, T, w)
  BY AddsUpExists
<1>2. \A s \in SUBSET T : SumOf(s, w) = h[s]
  BY <1>1, SumAddsUp
<1> DEFINE D == {s \in SUBSET T : S \subseteq s /\ ~(h[S] <= h[s])}
<1>3. ASSUME D # {} PROVE FALSE
  <2>1. PICK m \in D : \A s \in D : s \subseteq m => s = m
    <3>1. D \subseteq SUBSET T
      OBVIOUS
    <3> HIDE DEF D
    <3> QED
      BY <1>3, <3>1, MinimalSubset
  <2>2. \A s \in SUBSET T : h[s] \in Nat
    BY <1>1 DEF AddsUp
  <2>3. m # S
    BY <2>1, <2>2
  <2>4. PICK x \in m : x \notin S
    BY <2>1, <2>3
  <2>5. m \ {x} \in SUBSET T /\ m \ {x} # m /\ S \subseteq m \ {x}
    BY <2>1, <2>4
  <2>6. h[S] <= h[m \ {x}]
    BY <2>1, <2>5
  <2>7. h[(m \ {x}) \cup {x}] = h[m \ {x}] + w[x]
    BY <2>1, <2>5, <1>1 DEF AddsUp
  <2>8. (m \ {x}) \cup {x} = m
    BY <2>4
  <2>9. w[x] \in Nat /\ h[m \ {x}] \in Nat /\ h[S] \in Nat
    BY <2>1, <2>2, <2>4, <2>5
  <2>10. h[S] <= h[m]
    BY <2>6, <2>7, <2>8, <2>9
  <2> QED
    BY <2>1, <2>10
<1>4. h[S] <= h[T]
  BY <1>3
<1> QED
  BY <1>2, <1>4

(* Only the weights of what is summed count.                               *)
LEMMA SumsAgree ==
  ASSUME NEW S, IsFiniteSet(S), NEW w, NEW v,
         \A y \in S : w[y] \in Nat /\ v[y] = w[y]
  PROVE  SumOf(S, v) = SumOf(S, w)
<1>1. PICK h : AddsUp(h, S, w)
  BY AddsUpExists
<1>2. AddsUp(h, S, v)
  BY <1>1 DEF AddsUp
<1>3. SumOf(S, w) = h[S]
  BY <1>1, SumAddsUp
<1>4. SumOf(S, v) = h[S]
  BY <1>2, SumAddsUp
<1> QED
  BY <1>3, <1>4

-----------------------------------------------------------------------------
(* What the variables hold.                                                *)

Decisions == {"continue", "retry", "stop-launches", "abort"}
Going == {"continue", "retry"}
OfCase == {"case-started", "case-terminal"}
Launched == {"launch", "record", "run", "exit"}

EndsWell(a) ==
  /\ a.end # "open" /\ a.tokens \in Usages \cup {0}
  /\ a.end # "success" => a.tokens = 0
Sound(m) ==
  /\ m.kind \in OfCase => Len(m.attempt) = 1
  /\ m.kind = "case-terminal" => EndsWell(m.attempt[1])
Messages == {m \in Message : Sound(m)}
Names == Nat \X {1, 2}
Ledgers == [total : Nat, stop : BOOLEAN, aborted : BOOLEAN,
            seen : [Lanes -> Nat], active : [Lanes -> SUBSET Names],
            retry : [Lanes -> SUBSET Names], done : SUBSET (Lanes \X Names),
            exited : SUBSET Lanes]

(* A worker that is about to say something has something to say.           *)
WorkerTypes(l) ==
  /\ wpc[l] \in {"drive", "write", "wait"} /\ say[l] \in OfCase =>
       tried[l] # << >>
  /\ wpc[l] = "drive" => tried[l] # << >>
  /\ wpc[l] = "write" =>
       /\ say[l] \in Kinds
       /\ say[l] = "case-terminal" => EndsWell(LastOf(tried[l]))
  /\ wpc[l] = "wait" => prog[l] # << >> /\ LastOf(prog[l]).kind = say[l]

TypedLanes ==
  /\ tried \in [Lanes -> Seq(Attempt)]
  /\ prog \in [Lanes -> Seq(Messages)]
  /\ acks \in [Lanes -> Seq(Decisions)]
  /\ wpc \in [Lanes -> WorkerStages] /\ say \in [Lanes -> Kinds \cup {"none"}]
  /\ todo \in [Lanes -> SUBSET Nat]
  /\ \A l \in Lanes : Len(acks[l]) <= Len(prog[l]) /\ WorkerTypes(l)
Typed == TypedLanes /\ led \in Ledgers /\ cpc \in Stages

(* Nothing was ever said before the credentials were armed.                *)
Pristine ==
  armed = "none" =>
    /\ cpc \in {"down", "open", "stop", "cleanup"}
    /\ \A l \in Lanes : /\ prog[l] = << >> /\ tried[l] = << >>
                       /\ wpc[l] = "none"

-----------------------------------------------------------------------------
(* What a ledger holds of the messages P and the decisions K about them.   *)

Places(n) == UNION {{<<l, i>> : i \in 1 .. n[l]} : l \in Lanes}
Lengths(K) == [l \in Lanes |-> Len(K[l])]
Seen(L) == Places(L.seen)
TokensAt(P) == [p \in Lanes \X (Nat \ {0}) |-> TokensOf(P[p[1]][p[2]])]
NamesIn(P, S) ==
  UNION {{<<p[1], a>> : a \in AttemptOf(P[p[1]][p[2]])} :
         p \in {q \in S : P[q[1]][q[2]].kind = "case-terminal"}}

(* Where a lane has begun a case and where it has ended one.               *)
Begins(P, K, l, i) == P[l][i].kind = "case-started" /\ K[l][i] = "continue"
IsEnd(P, l, i) == P[l][i].kind = "case-terminal"
Last(P, K, l, n, i) ==
  \A j \in i + 1 .. n : ~Begins(P, K, l, j) /\ ~IsEnd(P, l, j)
ActiveAfter(P, K, l, n) ==
  UNION {AttemptOf(P[l][i]) : i \in {j \in 1 .. n :
           Begins(P, K, l, j) /\ Last(P, K, l, n, j)}}
RetryAfter(P, K, l, n) ==
  {<<P[l][i].attempt[1].case, 2>> : i \in {j \in 1 .. n :
     IsEnd(P, l, j) /\ K[l][j] = "retry" /\ Last(P, K, l, n, j)}}

Balanced(L, P, K) ==
  /\ \A l \in Lanes : L.seen[l] <= Len(K[l])
  /\ L.total = SumOf(Seen(L), TokensAt(P))
  /\ L.stop <=> L.total >= MaxTokens
  /\ L.aborted <=> \E p \in Seen(L) : K[p[1]][p[2]] = "abort"
  /\ \A p \in Seen(L) : K[p[1]][p[2]] = "stop-launches" => L.stop
  /\ L.done = NamesIn(P, Seen(L))
  /\ \A l \in Lanes : /\ L.active[l] = ActiveAfter(P, K, l, L.seen[l])
                      /\ L.retry[l] = RetryAfter(P, K, l, L.seen[l])

LedgerStands ==
  /\ cpc \in {"down", "open", "quiesce"} => led = Fresh
  /\ cpc \in Launched \cup {"replay"} => Balanced(led, prog, acks)
  /\ cpc \in Launched =>
       ~led.aborted /\ \A l \in Lanes : led.seen[l] = Len(acks[l])

-----------------------------------------------------------------------------
(* What the decisions on disk hold, so that another order fits them too.   *)

SaidAt(K, D) == {p \in Places(Lengths(K)) : K[p[1]][p[2]] \in D}
(* The decision was the only one that its message and its lane allow.      *)
LeftOver(P, K, l, i) ==
  /\ P[l][i].kind = "worker-stopped"
  /\ ActiveAfter(P, K, l, i - 1) \cup RetryAfter(P, K, l, i - 1) # {}
Forced(P, K, l, i) ==
  LET m == P[l][i]
  IN /\ K[l][i] = "retry" => FailedCase(m) /\ Retryable(m)
     /\ K[l][i] \in {"continue", "stop-launches"} =>
          ~FailedCase(m) /\ ~FailedShard(m) /\ ~LeftOver(P, K, l, i)
     /\ K[l][i] = "abort" =>
          \/ FailedCase(m) /\ ~Retryable(m)
          \/ FailedShard(m) \/ LeftOver(P, K, l, i)
          \/ /\ FailedCase(m) /\ Retryable(m)
             /\ SumOf(Places(Lengths(K)), TokensAt(P)) >= MaxTokens

Sensible(P, K) ==
  /\ \A l \in Lanes : \A i \in 1 .. Len(K[l]) : Forced(P, K, l, i)
  /\ \A p \in SaidAt(K, {"stop-launches"}) : \A i \in p[2] .. Len(K[p[1]]) :
       K[p[1]][i] \notin Going
  /\ \A p \in SaidAt(K, {"abort"}) :
       p[2] = Len(K[p[1]]) /\ SaidAt(K, {"abort"}) = {p}
  /\ SaidAt(K, Going) # {} =>
       SumOf(SaidAt(K, Going), TokensAt(P)) < MaxTokens
  /\ SaidAt(K, {"stop-launches"}) # {} =>
       \E p \in SaidAt(K, {"stop-launches"}) :
         /\ \A i \in 1 .. p[2] - 1 : K[p[1]][i] \in Going
         /\ SumOf(SaidAt(K, Going) \cup {p}, TokensAt(P)) >= MaxTokens

(* A replay takes what goes on first, and the abort last.                  *)
InOrder(L, K) ==
  /\ SaidAt(K, Going) \subseteq Seen(L)
       \/ Seen(L) \subseteq SaidAt(K, Going)
  /\ SaidAt(K, Decisions \ {"abort"}) \subseteq Seen(L)
       \/ Seen(L) \cap SaidAt(K, {"abort"}) = {}

LogStands ==
  /\ Sensible(prog, acks)
  /\ cpc = "replay" => InOrder(led, acks)

ProtocolInv ==
  Typed /\ CleanupIsQuiet /\ Pristine /\ LedgerStands /\ LogStands


-----------------------------------------------------------------------------
(* Places in the lanes.                                                    *)

(* There is a lane, and finitely many.                                     *)
LEMMA LanesAreFinite == IsFiniteSet(Lanes) /\ Lanes # {}
<1>1. Lanes = 1 .. Len(Plan) /\ Len(Plan) \in Nat \ {0}
  BY ProtocolConstants DEF Lanes
<1>2. 1 \in Lanes
  BY <1>1
<1>3. IsFiniteSet(1 .. Len(Plan))
  BY <1>1, FS_Interval
<1> QED
  BY <1>1, <1>2, <1>3

(* What a place is, and that there are finitely many.                      *)
LEMMA PlacesAre ==
  ASSUME NEW n \in [Lanes -> Nat]
  PROVE  /\ \A p : p \in Places(n) <=> /\ p = <<p[1], p[2]>>
                                       /\ p[1] \in Lanes
                                       /\ p[2] \in 1 .. n[p[1]]
         /\ \A l, i : <<l, i>> \in Places(n)
                        <=> l \in Lanes /\ i \in 1 .. n[l]
         /\ Places(n) \subseteq Lanes \X (Nat \ {0})
         /\ IsFiniteSet(Places(n))
<1>1. \A p : p \in Places(n) <=> \E l \in Lanes : \E i \in 1 .. n[l] :
                                   p = <<l, i>>
  BY DEF Places
<1>2. IsFiniteSet(Places(n))
  <2> DEFINE f == [l \in Lanes |-> {<<l, i>> : i \in 1 .. n[l]}]
             T == {{<<l, i>> : i \in 1 .. n[l]} : l \in Lanes}
  <2>1. f \in Surjection(Lanes, T)
    BY DEF Surjection
  <2>2. IsFiniteSet(T)
    <3> HIDE DEF f, T
    <3> QED
      BY <2>1, LanesAreFinite, FS_Surjection
  <2>3. ASSUME NEW l \in Lanes
        PROVE  IsFiniteSet({<<l, i>> : i \in 1 .. n[l]})
    <3> DEFINE g == [i \in 1 .. n[l] |-> <<l, i>>]
               U == {<<l, i>> : i \in 1 .. n[l]}
    <3>1. g \in Surjection(1 .. n[l], U)
      BY DEF Surjection
    <3>2. IsFiniteSet(1 .. n[l])
      BY FS_Interval
    <3> HIDE DEF g, U
    <3>3. IsFiniteSet(U)
      BY <3>1, <3>2, FS_Surjection
    <3> QED
      BY <3>3 DEF U
  <2>4. \A U \in T : IsFiniteSet(U)
    BY <2>3
  <2>5. IsFiniteSet(UNION T)
    <3> HIDE DEF T
    <3> QED
      BY <2>2, <2>4, FS_UNION
  <2> QED
    BY <2>5 DEF Places
<1> QED
  BY <1>1, <1>2

(* A lane that is one message longer has one place more.                   *)
LEMMA OnePlaceMore ==
  ASSUME NEW n \in [Lanes -> Nat], NEW l \in Lanes
  PROVE  /\ [n EXCEPT ![l] = @ + 1] \in [Lanes -> Nat]
         /\ Places([n EXCEPT ![l] = @ + 1])
              = Places(n) \cup {<<l, n[l] + 1>>}
         /\ <<l, n[l] + 1>> \notin Places(n)
<1> DEFINE m == [n EXCEPT ![l] = @ + 1]
<1>1. m \in [Lanes -> Nat] /\ m[l] = n[l] + 1
        /\ \A k \in Lanes : k # l => m[k] = n[k]
  OBVIOUS
<1> HIDE DEF m
<1>2. \A p : p \in Places(n) <=> /\ p = <<p[1], p[2]>> /\ p[1] \in Lanes
                                 /\ p[2] \in 1 .. n[p[1]]
  BY PlacesAre
<1>3. \A p : p \in Places(m) <=> /\ p = <<p[1], p[2]>> /\ p[1] \in Lanes
                                 /\ p[2] \in 1 .. m[p[1]]
  BY <1>1, PlacesAre
<1>4. ASSUME NEW p PROVE p \in Places(m) <=> p \in Places(n)
                                               \/ p = <<l, n[l] + 1>>
  <2>1. CASE p = <<p[1], p[2]>> /\ p[1] \in Lanes
    <3>1. CASE p[1] = l
      BY <2>1, <3>1, <1>1, <1>2, <1>3
    <3>2. CASE p[1] # l
      BY <2>1, <3>2, <1>1, <1>2, <1>3
    <3> QED
      BY <3>1, <3>2
  <2>2. CASE ~(p = <<p[1], p[2]>> /\ p[1] \in Lanes)
    BY <2>2, <1>2, <1>3
  <2> QED
    BY <2>1, <2>2
<1>5. <<l, n[l] + 1>> \notin Places(n)
  BY <1>2
<1> QED
  BY <1>1, <1>4, <1>5 DEF m

(* What messages weigh.                                                    *)
LEMMA TokensAre ==
  ASSUME NEW m \in Messages
  PROVE  /\ TokensOf(m) \in Nat /\ TokensOf(m) \in Usages \cup {0}
         /\ FailedCase(m) => TokensOf(m) = 0
         /\ AttemptOf(m) \in SUBSET Names
         /\ m.kind \in OfCase =>
              /\ Len(m.attempt) = 1 /\ m.attempt[1] \in Attempt
              /\ AttemptOf(m)
                   = {<<m.attempt[1].case, m.attempt[1].try>>}
<1>1. m \in Message /\ Sound(m)
  BY DEF Messages
<1>2. m.attempt \in Seq(Attempt) /\ m.kind \in Kinds
  BY <1>1 DEF Message
<1>3. \A i \in DOMAIN m.attempt : /\ m.attempt[i].case \in Nat
                                  /\ m.attempt[i].try \in {1, 2}
  <2>1. \A i \in DOMAIN m.attempt : m.attempt[i] \in Attempt
    BY <1>2
  <2> QED
    BY <2>1 DEF Attempt
<1>4. AttemptOf(m) \in SUBSET Names
  BY <1>3 DEF AttemptOf, Names
<1>5. ASSUME m.kind \in OfCase
      PROVE  /\ Len(m.attempt) = 1 /\ m.attempt[1] \in Attempt
             /\ DOMAIN m.attempt = {1}
  <2>1. Len(m.attempt) = 1
    BY <1>1, <1>5 DEF Sound
  <2> QED
    BY <2>1, <1>2
<1>6. Usages \cup {0} \subseteq Nat
  BY ProtocolConstants
<1>7. CASE m.kind = "case-terminal"
  <2>1. EndsWell(m.attempt[1])
    BY <1>1, <1>7 DEF Sound
  <2>2. TokensOf(m) = m.attempt[1].tokens
    BY <1>7 DEF TokensOf
  <2> QED
    BY <2>1, <2>2, <1>4, <1>5, <1>6 DEF EndsWell, FailedCase, AttemptOf
<1>8. CASE m.kind # "case-terminal"
  <2>1. TokensOf(m) = 0 /\ ~FailedCase(m)
    BY <1>8 DEF TokensOf, FailedCase
  <2> QED
    BY <2>1, <1>4, <1>5 DEF AttemptOf
<1> QED
  BY <1>7, <1>8

(* The messages and decisions there can be.                                *)
Logs(P, K) ==
  /\ P \in [Lanes -> Seq(Messages)] /\ K \in [Lanes -> Seq(Decisions)]
  /\ \A l \in Lanes : Len(K[l]) <= Len(P[l])

(* What is at the places of messages and of decisions.                     *)
LEMMA LogsAre ==
  ASSUME NEW P, NEW K, Logs(P, K)
  PROVE  /\ Lengths(K) \in [Lanes -> Nat] /\ Lengths(P) \in [Lanes -> Nat]
         /\ \A l \in Lanes : /\ P[l] \in Seq(Messages)
                             /\ K[l] \in Seq(Decisions)
                             /\ Lengths(K)[l] = Len(K[l])
                             /\ Lengths(P)[l] = Len(P[l])
                             /\ Len(K[l]) \in Nat /\ Len(P[l]) \in Nat
         /\ \A p \in Places(Lengths(P)) :
              /\ P[p[1]][p[2]] \in Messages
              /\ TokensAt(P)[p] = TokensOf(P[p[1]][p[2]])
              /\ TokensAt(P)[p] \in Nat
         /\ \A p \in Places(Lengths(K)) : K[p[1]][p[2]] \in Decisions
         /\ Places(Lengths(K)) \subseteq Places(Lengths(P))
<1>1. \A l \in Lanes : /\ P[l] \in Seq(Messages)
                       /\ K[l] \in Seq(Decisions)
                       /\ Lengths(K)[l] = Len(K[l])
                       /\ Lengths(P)[l] = Len(P[l])
                       /\ Len(K[l]) \in Nat /\ Len(P[l]) \in Nat
                       /\ Len(K[l]) <= Len(P[l])
  BY DEF Logs, Lengths
<1>2. Lengths(K) \in [Lanes -> Nat] /\ Lengths(P) \in [Lanes -> Nat]
  BY <1>1 DEF Lengths
<1>3. \A p \in Places(Lengths(P)) :
        /\ p = <<p[1], p[2]>> /\ p[1] \in Lanes
        /\ p[2] \in 1 .. Len(P[p[1]])
        /\ p \in Lanes \X (Nat \ {0})
  BY <1>1, <1>2, PlacesAre
<1>4. \A p \in Places(Lengths(P)) : P[p[1]][p[2]] \in Messages
  BY <1>1, <1>3
<1>5. \A p \in Places(Lengths(P)) :
        TokensAt(P)[p] = TokensOf(P[p[1]][p[2]])
  BY <1>3 DEF TokensAt
<1>6. \A p \in Places(Lengths(P)) : TokensAt(P)[p] \in Nat
  BY <1>4, <1>5, TokensAre
<1>7. \A p \in Places(Lengths(K)) :
        /\ p = <<p[1], p[2]>> /\ p[1] \in Lanes
        /\ p[2] \in 1 .. Len(K[p[1]])
  BY <1>1, <1>2, PlacesAre
<1>8. \A p \in Places(Lengths(K)) : K[p[1]][p[2]] \in Decisions
  BY <1>1, <1>7
<1>9. \A p \in Places(Lengths(K)) : p \in Places(Lengths(P))
  <2> SUFFICES ASSUME NEW p \in Places(Lengths(K))
               PROVE  p \in Places(Lengths(P))
    OBVIOUS
  <2>1. p = <<p[1], p[2]>> /\ p[1] \in Lanes /\ p[2] \in 1 .. Len(K[p[1]])
    BY <1>7
  <2>2. p[2] \in 1 .. Lengths(P)[p[1]]
    BY <2>1, <1>1
  <2> QED
    BY <2>1, <2>2, <1>2, PlacesAre
<1> QED
  BY <1>1, <1>2, <1>4, <1>5, <1>6, <1>8, <1>9

-----------------------------------------------------------------------------
(* A ledger accepts a message.                                             *)

(* R is what the ledger L becomes when it decides d of lane l's message m. *)
Becomes(L, l, m, d, R) ==
  /\ R \in Ledgers
  /\ R.total = L.total + TokensOf(m)
  /\ R.stop = ReachesCeiling(L, m)
  /\ R.aborted = (L.aborted \/ d = "abort")
  /\ R.seen = [L.seen EXCEPT ![l] = @ + 1]
  /\ R.active = [L.active EXCEPT ![l] =
       IF m.kind = "case-started" /\ d = "continue" THEN AttemptOf(m)
       ELSE IF m.kind = "case-terminal" THEN {} ELSE @]
  /\ R.retry = [L.retry EXCEPT ![l] =
       IF m.kind = "case-started" /\ d = "continue" THEN {}
       ELSE IF m.kind # "case-terminal" THEN @
       ELSE IF d = "retry" THEN {<<m.attempt[1].case, 2>>} ELSE {}]
  /\ R.done = IF m.kind = "case-terminal"
              THEN L.done \cup {<<l, a>> : a \in AttemptOf(m)}
              ELSE L.done
  /\ R.exited = IF m.kind = "worker-stopped" THEN L.exited \cup {l}
                ELSE L.exited

(* Accepted, field by field.                                               *)
LEMMA AcceptedIs ==
  ASSUME NEW L \in Ledgers, NEW l \in Lanes, NEW m \in Messages,
         NEW R, R = Accepted(L, l, m), NEW d, d = Decision(L, l, m)
  PROVE  Becomes(L, l, m, d, R)
<1>1. /\ L.total \in Nat /\ L.stop \in BOOLEAN /\ L.aborted \in BOOLEAN
      /\ L.seen \in [Lanes -> Nat] /\ L.active \in [Lanes -> SUBSET Names]
      /\ L.retry \in [Lanes -> SUBSET Names]
      /\ L.done \in SUBSET (Lanes \X Names) /\ L.exited \in SUBSET Lanes
  BY DEF Ledgers
<1>2. /\ TokensOf(m) \in Nat /\ AttemptOf(m) \in SUBSET Names
      /\ m.kind \in OfCase => m.attempt[1] \in Attempt
  BY TokensAre
<1>3. m.kind \in OfCase => m.attempt[1].case \in Nat
  BY <1>2 DEF Attempt
<1> DEFINE act == IF m.kind = "case-started" /\ d = "continue"
                  THEN AttemptOf(m)
                  ELSE IF m.kind = "case-terminal" THEN {} ELSE L.active[l]
           ret == IF m.kind = "case-started" /\ d = "continue" THEN {}
                  ELSE IF m.kind # "case-terminal" THEN L.retry[l]
                  ELSE IF d = "retry" THEN {<<m.attempt[1].case, 2>>} ELSE {}
           don == IF m.kind = "case-terminal"
                  THEN L.done \cup {<<l, a>> : a \in AttemptOf(m)}
                  ELSE L.done
           exi == IF m.kind = "worker-stopped" THEN L.exited \cup {l}
                  ELSE L.exited
<1>4. act \in SUBSET Names
  BY <1>1, <1>2
<1>5. ret \in SUBSET Names
  BY <1>1, <1>3 DEF Names, OfCase
<1>6. don \in SUBSET (Lanes \X Names)
  BY <1>1, <1>2
<1>7. exi \in SUBSET Lanes
  BY <1>1
<1>8. ReachesCeiling(L, m) \in BOOLEAN
  BY <1>1 DEF ReachesCeiling
<1>9. R = [L EXCEPT !.total = @ + TokensOf(m), !.stop = ReachesCeiling(L, m),
                    !.aborted = @ \/ d = "abort", !.seen[l] = @ + 1,
                    !.active[l] = act, !.retry[l] = ret, !.done = don,
                    !.exited = exi]
  BY DEF Accepted
<1> HIDE DEF act, ret, don, exi
<1>10. R = [total |-> L.total + TokensOf(m), stop |-> ReachesCeiling(L, m),
            aborted |-> (L.aborted \/ d = "abort"),
            seen |-> [L.seen EXCEPT ![l] = @ + 1],
            active |-> [L.active EXCEPT ![l] = act],
            retry |-> [L.retry EXCEPT ![l] = ret],
            done |-> don, exited |-> exi]
  BY <1>9 DEF Ledgers
<1>11. R \in Ledgers
  <2>1. [L.seen EXCEPT ![l] = @ + 1] \in [Lanes -> Nat]
    BY <1>1
  <2>2. [L.active EXCEPT ![l] = act] \in [Lanes -> SUBSET Names]
    BY <1>1, <1>4
  <2>3. [L.retry EXCEPT ![l] = ret] \in [Lanes -> SUBSET Names]
    BY <1>1, <1>5
  <2>4. (L.aborted \/ d = "abort") \in BOOLEAN
    OBVIOUS
  <2>5. L.total + TokensOf(m) \in Nat
    BY <1>1, <1>2
  <2> QED
    BY <1>10, <2>1, <2>2, <2>3, <2>4, <2>5, <1>6, <1>7, <1>8 DEF Ledgers
<1>12. /\ R.total = L.total + TokensOf(m) /\ R.stop = ReachesCeiling(L, m)
       /\ R.aborted = (L.aborted \/ d = "abort")
       /\ R.seen = [L.seen EXCEPT ![l] = @ + 1]
       /\ R.active = [L.active EXCEPT ![l] = act]
       /\ R.retry = [L.retry EXCEPT ![l] = ret] /\ R.done = don
       /\ R.exited = exi
  BY <1>10
<1> QED
  BY <1>11, <1>12 DEF act, ret, don, exi, Becomes

(* What is begun and what is to be tried again, one message on.            *)
LEMMA AfterOneMore ==
  ASSUME NEW P, NEW K, NEW l, NEW n \in Nat
  PROVE  /\ ActiveAfter(P, K, l, n + 1) =
              IF Begins(P, K, l, n + 1) THEN AttemptOf(P[l][n + 1])
              ELSE IF IsEnd(P, l, n + 1) THEN {} ELSE ActiveAfter(P, K, l, n)
         /\ RetryAfter(P, K, l, n + 1) =
              IF Begins(P, K, l, n + 1) THEN {}
              ELSE IF ~IsEnd(P, l, n + 1) THEN RetryAfter(P, K, l, n)
              ELSE IF K[l][n + 1] = "retry"
                   THEN {<<P[l][n + 1].attempt[1].case, 2>>} ELSE {}
<1> DEFINE A(k) == {j \in 1 .. k : Begins(P, K, l, j)
                                     /\ Last(P, K, l, k, j)}
           B(k) == {j \in 1 .. k : IsEnd(P, l, j) /\ K[l][j] = "retry"
                                     /\ Last(P, K, l, k, j)}
<1>1. Begins(P, K, l, n + 1) => ~IsEnd(P, l, n + 1)
  BY DEF Begins, IsEnd
<1>2. Last(P, K, l, n + 1, n + 1)
  BY DEF Last
<1>3. \A j \in 1 .. n : Last(P, K, l, n + 1, j) <=>
        /\ Last(P, K, l, n, j)
        /\ ~Begins(P, K, l, n + 1) /\ ~IsEnd(P, l, n + 1)
  <2> SUFFICES ASSUME NEW j \in 1 .. n
               PROVE  Last(P, K, l, n + 1, j) <=>
                        /\ Last(P, K, l, n, j)
                        /\ ~Begins(P, K, l, n + 1) /\ ~IsEnd(P, l, n + 1)
    OBVIOUS
  <2>1. j + 1 .. n + 1 = (j + 1 .. n) \cup {n + 1}
    OBVIOUS
  <2> QED
    BY <2>1 DEF Last
<1>4. 1 .. n + 1 = (1 .. n) \cup {n + 1}
  OBVIOUS
<1>5. A(n + 1) = IF Begins(P, K, l, n + 1) THEN {n + 1}
                 ELSE IF IsEnd(P, l, n + 1) THEN {} ELSE A(n)
  BY <1>1, <1>2, <1>3, <1>4
<1>6. B(n + 1) = IF Begins(P, K, l, n + 1) THEN {}
                 ELSE IF ~IsEnd(P, l, n + 1) THEN B(n)
                 ELSE IF K[l][n + 1] = "retry" THEN {n + 1} ELSE {}
  BY <1>1, <1>2, <1>3, <1>4
<1>7. \A k : ActiveAfter(P, K, l, k) = UNION {AttemptOf(P[l][i]) : i \in A(k)}
  BY DEF ActiveAfter
<1>8. \A k : RetryAfter(P, K, l, k)
               = {<<P[l][i].attempt[1].case, 2>> : i \in B(k)}
  BY DEF RetryAfter
<1> HIDE DEF A, B
<1>9. UNION {AttemptOf(P[l][i]) : i \in {n + 1}} = AttemptOf(P[l][n + 1])
        /\ UNION {AttemptOf(P[l][i]) : i \in {}} = {}
  OBVIOUS
<1>10. ActiveAfter(P, K, l, n + 1) =
         IF Begins(P, K, l, n + 1) THEN AttemptOf(P[l][n + 1])
         ELSE IF IsEnd(P, l, n + 1) THEN {} ELSE ActiveAfter(P, K, l, n)
  BY <1>5, <1>7, <1>9
<1>11. RetryAfter(P, K, l, n + 1) =
         IF Begins(P, K, l, n + 1) THEN {}
         ELSE IF ~IsEnd(P, l, n + 1) THEN RetryAfter(P, K, l, n)
         ELSE IF K[l][n + 1] = "retry"
              THEN {<<P[l][n + 1].attempt[1].case, 2>>} ELSE {}
  BY <1>6, <1>8
<1> QED
  BY <1>10, <1>11

(* Only the messages and decisions up to there count.                      *)
LEMMA AfterAgrees ==
  ASSUME NEW P, NEW K, NEW P2, NEW K2, NEW l, NEW n \in Nat,
         \A i \in 1 .. n : P2[l][i] = P[l][i] /\ K2[l][i] = K[l][i]
  PROVE  /\ ActiveAfter(P2, K2, l, n) = ActiveAfter(P, K, l, n)
         /\ RetryAfter(P2, K2, l, n) = RetryAfter(P, K, l, n)
<1>1. \A i \in 1 .. n : /\ Begins(P2, K2, l, i) <=> Begins(P, K, l, i)
                        /\ IsEnd(P2, l, i) <=> IsEnd(P, l, i)
  BY DEF Begins, IsEnd
<1>2. \A i \in 1 .. n : Last(P2, K2, l, n, i) <=> Last(P, K, l, n, i)
  BY <1>1 DEF Last
<1>3. {j \in 1 .. n : Begins(P2, K2, l, j) /\ Last(P2, K2, l, n, j)}
        = {j \in 1 .. n : Begins(P, K, l, j) /\ Last(P, K, l, n, j)}
  BY <1>1, <1>2
<1>4. {j \in 1 .. n : IsEnd(P2, l, j) /\ K2[l][j] = "retry"
                        /\ Last(P2, K2, l, n, j)}
        = {j \in 1 .. n : IsEnd(P, l, j) /\ K[l][j] = "retry"
                            /\ Last(P, K, l, n, j)}
  BY <1>1, <1>2
<1> QED
  BY <1>3, <1>4 DEF ActiveAfter, RetryAfter

(* The same for other decisions about the same messages.                   *)
LEMMA AfterSame ==
  ASSUME NEW P, NEW K, NEW K2, NEW l, NEW n \in Nat,
         \A i \in 1 .. n : K2[l][i] = K[l][i]
  PROVE  /\ ActiveAfter(P, K2, l, n) = ActiveAfter(P, K, l, n)
         /\ RetryAfter(P, K2, l, n) = RetryAfter(P, K, l, n)
BY AfterAgrees

(* What a ledger has seen is there.                                        *)
LEMMA SeenIsThere ==
  ASSUME NEW P, NEW K, Logs(P, K), NEW n \in [Lanes -> Nat],
         \A l \in Lanes : n[l] <= Len(K[l])
  PROVE  Places(n) \subseteq Places(Lengths(K))
<1> SUFFICES ASSUME NEW p \in Places(n) PROVE p \in Places(Lengths(K))
  OBVIOUS
<1>1. p = <<p[1], p[2]>> /\ p[1] \in Lanes /\ p[2] \in 1 .. n[p[1]]
  BY PlacesAre
<1>2. Lengths(K) \in [Lanes -> Nat] /\ Lengths(K)[p[1]] = Len(K[p[1]])
  BY <1>1, LogsAre
<1>3. p[2] \in 1 .. Lengths(K)[p[1]]
  BY <1>1, <1>2
<1> QED
  BY <1>1, <1>2, <1>3, PlacesAre

(* One message more ends the case that it is the end of.                   *)
LEMMA NamesOfOneMore ==
  ASSUME NEW P, NEW S, NEW l, NEW i
  PROVE  NamesIn(P, S \cup {<<l, i>>}) =
           IF P[l][i].kind = "case-terminal"
           THEN NamesIn(P, S) \cup {<<l, a>> : a \in AttemptOf(P[l][i])}
           ELSE NamesIn(P, S)
<1>1. ASSUME NEW T, NEW z
      PROVE  z \in NamesIn(P, T) <=>
               \E p \in T : /\ P[p[1]][p[2]].kind = "case-terminal"
                            /\ \E a \in AttemptOf(P[p[1]][p[2]]) :
                                 z = <<p[1], a>>
  BY DEF NamesIn
<1> DEFINE x == <<l, i>>
<1>2. x[1] = l /\ x[2] = i
  OBVIOUS
<1> HIDE DEF x
<1>3. ASSUME NEW z
      PROVE  z \in NamesIn(P, S \cup {x}) <=>
               \/ z \in NamesIn(P, S)
               \/ /\ P[l][i].kind = "case-terminal"
                  /\ \E a \in AttemptOf(P[l][i]) : z = <<l, a>>
  BY <1>1, <1>2
<1> QED
  BY <1>3 DEF x

(* A decision about the next message of the lane is there.                 *)
Answered(L, K, l) == L.seen[l] < Len(K[l])

(* The decisions K2 are those of K on what the ledger has seen.            *)
SameSoFar(L, K, K2) ==
  \A k \in Lanes : /\ L.seen[k] <= Len(K2[k])
                   /\ \A i \in 1 .. L.seen[k] : K2[k][i] = K[k][i]

(* Decisions beyond what was seen change nothing about it.                 *)
LEMMA AfterSoFar ==
  ASSUME NEW P, NEW K, NEW K2, NEW L, NEW k \in Lanes, L.seen[k] \in Nat,
         SameSoFar(L, K, K2)
  PROVE  /\ ActiveAfter(P, K2, k, L.seen[k]) = ActiveAfter(P, K, k, L.seen[k])
         /\ RetryAfter(P, K2, k, L.seen[k]) = RetryAfter(P, K, k, L.seen[k])
<1>1. \A i \in 1 .. L.seen[k] : K2[k][i] = K[k][i]
  BY DEF SameSoFar
<1> QED
  BY <1>1, AfterSame

(* Accepting a message, whether its decision is made or found, keeps the   *)
(* ledger in balance with messages and decisions.                          *)
LEMMA AcceptKeepsBalance ==
  ASSUME NEW P, NEW K, NEW K2, Logs(P, K), Logs(P, K2),
         NEW L \in Ledgers, Balanced(L, P, K),
         NEW l \in Lanes, Answered(L, K2, l),
         SameSoFar(L, K, K2),
         NEW m, m = P[l][L.seen[l] + 1],
         K2[l][L.seen[l] + 1] = Decision(L, l, m)
  PROVE  /\ Accepted(L, l, m) \in Ledgers
         /\ Balanced(Accepted(L, l, m), P, K2)
<1> DEFINE d == Decision(L, l, m)
           R == Accepted(L, l, m)
           n == L.seen[l]
           x == <<l, n + 1>>
<1>1. L.seen \in [Lanes -> Nat] /\ n \in Nat /\ L.total \in Nat
        /\ L.stop \in BOOLEAN /\ L.aborted \in BOOLEAN
        /\ L.active \in [Lanes -> SUBSET Names]
        /\ L.retry \in [Lanes -> SUBSET Names]
  BY DEF Ledgers
<1>2. P[l] \in Seq(Messages) /\ Len(K2[l]) <= Len(P[l])
        /\ Len(K2[l]) \in Nat /\ Len(P[l]) \in Nat
  BY LogsAre DEF Logs
<1>3. n + 1 \in 1 .. Len(K2[l]) /\ n + 1 \in 1 .. Len(P[l])
  BY <1>1, <1>2 DEF Answered
<1>4. m \in Messages
  BY <1>2, <1>3
<1>5. Becomes(L, l, m, d, R)
  BY <1>4, AcceptedIs
<1>6. TokensOf(m) \in Nat
  BY <1>4, TokensAre
<1>7. K2[l][n + 1] = d
  OBVIOUS
<1> HIDE DEF d, R, x
<1>8. /\ R \in Ledgers /\ R.total = L.total + TokensOf(m)
       /\ R.stop = ReachesCeiling(L, m)
       /\ R.aborted = (L.aborted \/ d = "abort")
  BY <1>5 DEF Becomes
<1>9. R.seen = [L.seen EXCEPT ![l] = @ + 1]
  BY <1>5 DEF Becomes
<1>10. Seen(R) = Seen(L) \cup {x} /\ x \notin Seen(L)
  <2>1. Places(R.seen) = Places(L.seen) \cup {<<l, L.seen[l] + 1>>}
          /\ <<l, L.seen[l] + 1>> \notin Places(L.seen)
    BY <1>1, <1>9, OnePlaceMore
  <2> QED
    BY <2>1 DEF Seen, x
<1>11. \A k \in Lanes : R.seen[k] = IF k = l THEN n + 1 ELSE L.seen[k]
  BY <1>1, <1>9
<1>12. \A k \in Lanes : R.seen[k] <= Len(K2[k])
  BY <1>3, <1>11 DEF SameSoFar
<1>13. IsFiniteSet(Seen(L)) /\ Seen(L) \subseteq Places(Lengths(K))
         /\ \A p \in Seen(L) : /\ p[1] \in Lanes
                               /\ p[2] \in 1 .. L.seen[p[1]]
  BY <1>1, PlacesAre, SeenIsThere DEF Seen, Balanced
<1>14. x \in Places(Lengths(P)) /\ x[1] = l /\ x[2] = n + 1
  BY <1>3, LogsAre, PlacesAre DEF x
<1>15. \A p \in Seen(L) \cup {x} : p \in Places(Lengths(P))
  BY <1>13, <1>14, LogsAre
<1>16. \A p \in Seen(L) : K2[p[1]][p[2]] = K[p[1]][p[2]]
  BY <1>13 DEF SameSoFar
<1>17. R.total = SumOf(Seen(R), TokensAt(P))
  <2>1. \A p \in Seen(L) \cup {x} : TokensAt(P)[p] \in Nat
    BY <1>15, LogsAre
  <2>2. TokensAt(P)[x] = TokensOf(m)
    BY <1>14, LogsAre
  <2>3. SumOf(Seen(L) \cup {x}, TokensAt(P))
          = SumOf(Seen(L), TokensAt(P)) + TokensAt(P)[x]
    BY <2>1, <1>10, <1>13, SumOfOneMore
  <2>4. L.total = SumOf(Seen(L), TokensAt(P))
    BY DEF Balanced
  <2> QED
    BY <2>2, <2>3, <2>4, <1>8, <1>10
<1>18. R.stop <=> R.total >= MaxTokens
  <2>1. L.stop <=> L.total >= MaxTokens
    BY DEF Balanced
  <2>2. MaxTokens \in Nat
    BY ProtocolConstants
  <2>3. L.total >= MaxTokens => L.total + TokensOf(m) >= MaxTokens
    BY <2>2, <1>1, <1>6
  <2>4. R.stop = (L.stop \/ L.total + TokensOf(m) >= MaxTokens)
    BY <1>8 DEF ReachesCeiling
  <2>5. R.total = L.total + TokensOf(m)
    BY <1>8
  <2> QED
    BY <2>1, <2>3, <2>4, <2>5
<1>19. R.aborted <=> \E p \in Seen(R) : K2[p[1]][p[2]] = "abort"
  <2>1. L.aborted <=> \E p \in Seen(L) : K[p[1]][p[2]] = "abort"
    BY DEF Balanced
  <2>2. K2[x[1]][x[2]] = d
    BY <1>7, <1>14
  <2> QED
    BY <2>1, <2>2, <1>1, <1>8, <1>10, <1>16
<1>20. \A p \in Seen(R) : K2[p[1]][p[2]] = "stop-launches" => R.stop
  <2>1. \A p \in Seen(L) : K[p[1]][p[2]] = "stop-launches" => L.stop
    BY DEF Balanced
  <2>2. L.stop => R.stop
    BY <1>8 DEF ReachesCeiling
  <2>3. d = "stop-launches" => R.stop
    BY <1>8 DEF d, Decision
  <2>4. K2[x[1]][x[2]] = d
    BY <1>7, <1>14
  <2> QED
    BY <2>1, <2>2, <2>3, <2>4, <1>10, <1>16
<1>21. R.done = NamesIn(P, Seen(R))
  <2>1. L.done = NamesIn(P, Seen(L))
    BY DEF Balanced
  <2>2. NamesIn(P, Seen(L) \cup {<<l, n + 1>>}) =
          IF m.kind = "case-terminal"
          THEN NamesIn(P, Seen(L)) \cup {<<l, a>> : a \in AttemptOf(m)}
          ELSE NamesIn(P, Seen(L))
    <3>1. P[l][n + 1] = m
      OBVIOUS
    <3> HIDE DEF n
    <3>2. NamesIn(P, Seen(L) \cup {<<l, n + 1>>}) =
            IF P[l][n + 1].kind = "case-terminal"
            THEN NamesIn(P, Seen(L))
                   \cup {<<l, a>> : a \in AttemptOf(P[l][n + 1])}
            ELSE NamesIn(P, Seen(L))
      BY NamesOfOneMore
    <3> QED
      BY <3>1, <3>2
  <2>3. R.done = IF m.kind = "case-terminal"
                 THEN L.done \cup {<<l, a>> : a \in AttemptOf(m)}
                 ELSE L.done
    BY <1>5 DEF Becomes
  <2> QED
    BY <2>1, <2>2, <2>3, <1>10 DEF x
<1>22. ASSUME NEW k \in Lanes
       PROVE  /\ R.active[k] = ActiveAfter(P, K2, k, R.seen[k])
              /\ R.retry[k] = RetryAfter(P, K2, k, R.seen[k])
  <2>1. L.active[k] = ActiveAfter(P, K, k, L.seen[k])
          /\ L.retry[k] = RetryAfter(P, K, k, L.seen[k])
    BY DEF Balanced
  <2>2. L.seen[k] \in Nat
    BY <1>1
  <2>3. L.active[k] = ActiveAfter(P, K2, k, L.seen[k])
          /\ L.retry[k] = RetryAfter(P, K2, k, L.seen[k])
    BY <2>1, <2>2, AfterSoFar
  <2>4. CASE k # l
    BY <2>3, <2>4, <1>1, <1>5 DEF Becomes
  <2>5. CASE k = l
    <3>1. R.seen[k] = n + 1
      BY <2>5, <1>11
    <3>2. Begins(P, K2, l, n + 1) <=>
            m.kind = "case-started" /\ d = "continue"
      BY <1>7 DEF Begins
    <3>3. IsEnd(P, l, n + 1) <=> m.kind = "case-terminal"
      BY DEF IsEnd
    <3>4. R.active[k] = IF Begins(P, K2, l, n + 1) THEN AttemptOf(m)
                        ELSE IF IsEnd(P, l, n + 1) THEN {} ELSE L.active[l]
      BY <3>2, <3>3, <2>5, <1>1, <1>5 DEF Becomes
    <3>5. R.retry[k] = IF Begins(P, K2, l, n + 1) THEN {}
                       ELSE IF ~IsEnd(P, l, n + 1) THEN L.retry[l]
                       ELSE IF d = "retry"
                            THEN {<<m.attempt[1].case, 2>>} ELSE {}
      BY <3>2, <3>3, <2>5, <1>1, <1>5 DEF Becomes
    <3>6. /\ ActiveAfter(P, K2, l, n + 1) =
               IF Begins(P, K2, l, n + 1) THEN AttemptOf(P[l][n + 1])
               ELSE IF IsEnd(P, l, n + 1) THEN {}
               ELSE ActiveAfter(P, K2, l, n)
          /\ RetryAfter(P, K2, l, n + 1) =
               IF Begins(P, K2, l, n + 1) THEN {}
               ELSE IF ~IsEnd(P, l, n + 1) THEN RetryAfter(P, K2, l, n)
               ELSE IF K2[l][n + 1] = "retry"
                    THEN {<<P[l][n + 1].attempt[1].case, 2>>} ELSE {}
      BY <1>1, AfterOneMore
    <3>7. R.active[k] = ActiveAfter(P, K2, l, n + 1)
      BY <3>4, <3>6, <2>3, <2>5
    <3>8. R.retry[k] = RetryAfter(P, K2, l, n + 1)
      BY <3>5, <3>6, <2>3, <2>5, <1>7
    <3> QED
      BY <3>1, <3>7, <3>8, <2>5
  <2> QED
    BY <2>4, <2>5
<1>23. Balanced(R, P, K2)
  BY <1>12, <1>17, <1>18, <1>19, <1>20, <1>21, <1>22 DEF Balanced
<1> QED
  BY <1>8, <1>23 DEF R


-----------------------------------------------------------------------------
(* What a ledger decides.                                                  *)

Leaves(L, l, m) ==
  m.kind = "worker-stopped" /\ L.active[l] \cup L.retry[l] # {}

(* What must hold of message and ledger for a decision.                    *)
LEMMA DecisionIs ==
  ASSUME NEW L \in Ledgers, NEW l, NEW m, NEW d, d = Decision(L, l, m)
  PROVE  /\ d \in Decisions
         /\ L.aborted => d = "abort"
         /\ d = "retry" =>
              FailedCase(m) /\ Retryable(m) /\ ~ReachesCeiling(L, m)
         /\ d = "continue" => ~ReachesCeiling(L, m)
         /\ d = "stop-launches" => ReachesCeiling(L, m)
         /\ d \in {"continue", "stop-launches"} =>
              ~FailedCase(m) /\ ~FailedShard(m) /\ ~Leaves(L, l, m)
         /\ d = "abort" /\ ~L.aborted =>
              \/ FailedCase(m) /\ ~Retryable(m)
              \/ FailedShard(m) \/ Leaves(L, l, m)
              \/ FailedCase(m) /\ Retryable(m) /\ ReachesCeiling(L, m)
<1>1. FailedCase(m) => m.kind = "case-terminal"
  BY DEF FailedCase
<1>2. FailedShard(m) => m.kind = "shard-terminal"
  BY DEF FailedShard
<1>7. L.aborted \in BOOLEAN
  BY DEF Ledgers
<1>3. CASE L.aborted
  <2>1. d = "abort"
    BY <1>3, <1>7 DEF Decision
  <2> QED
    BY <2>1, <1>3 DEF Decisions
<1>4. CASE ~L.aborted /\ FailedCase(m)
  <2>1. d = IF Retryable(m) /\ ~ReachesCeiling(L, m) THEN "retry" ELSE "abort"
    BY <1>1, <1>4, <1>7 DEF Decision
  <2> QED
    BY <2>1, <1>4 DEF Decisions
<1>5. CASE ~L.aborted /\ ~FailedCase(m) /\ (FailedShard(m) \/ Leaves(L, l, m))
  <2>1. d = "abort"
    BY <1>2, <1>5 DEF Decision, Leaves
  <2> QED
    BY <2>1, <1>5 DEF Decisions
<1>6. CASE ~L.aborted /\ ~FailedCase(m) /\ ~FailedShard(m) /\ ~Leaves(L, l, m)
  <2>1. d = IF ReachesCeiling(L, m) THEN "stop-launches" ELSE "continue"
    BY <1>6 DEF Decision, Leaves
  <2> QED
    BY <2>1, <1>6 DEF Decisions
<1> QED
  BY <1>3, <1>4, <1>5, <1>6

(* The decision that is forced is the one that is made.                    *)
LEMMA DecisionMustBe ==
  ASSUME NEW L, NEW l, NEW m, ~L.aborted
  PROVE  /\ FailedCase(m) /\ Retryable(m) /\ ~ReachesCeiling(L, m) =>
              Decision(L, l, m) = "retry"
         /\ ~FailedCase(m) /\ ~FailedShard(m) /\ ~Leaves(L, l, m) =>
              Decision(L, l, m) = IF ReachesCeiling(L, m)
                                  THEN "stop-launches" ELSE "continue"
         /\ \/ FailedCase(m) /\ ~Retryable(m)
            \/ FailedShard(m) \/ Leaves(L, l, m)
            \/ FailedCase(m) /\ Retryable(m) /\ ReachesCeiling(L, m)
            => Decision(L, l, m) = "abort"
<1>1. FailedCase(m) => m.kind = "case-terminal"
  BY DEF FailedCase
<1>2. FailedShard(m) => m.kind = "shard-terminal"
  BY DEF FailedShard
<1> QED
  BY <1>1, <1>2 DEF Decision, Leaves

-----------------------------------------------------------------------------
(* More messages change nothing about what is decided.                     *)

SameAnswered(P, P2, K) ==
  \A l \in Lanes : \A i \in 1 .. Len(K[l]) : P2[l][i] = P[l][i]

(* Answered messages weigh what they did.                                  *)
LEMMA WeighsTheSame ==
  ASSUME NEW P, NEW P2, NEW K, Logs(P, K), Logs(P2, K),
         SameAnswered(P, P2, K), NEW S, S \subseteq Places(Lengths(K))
  PROVE  SumOf(S, TokensAt(P2)) = SumOf(S, TokensAt(P))
<1>1. Lengths(K) \in [Lanes -> Nat]
        /\ \A l \in Lanes : Lengths(K)[l] = Len(K[l])
  BY LogsAre
<1>2. IsFiniteSet(S)
  BY <1>1, PlacesAre, FS_Subset
<1>3. ASSUME NEW p \in S
      PROVE  TokensAt(P)[p] \in Nat /\ TokensAt(P2)[p] = TokensAt(P)[p]
  <2>1. p \in Places(Lengths(K))
    BY <1>3
  <2>2. p[1] \in Lanes /\ p[2] \in 1 .. Len(K[p[1]])
    BY <1>1, <2>1, PlacesAre
  <2>3. P2[p[1]][p[2]] = P[p[1]][p[2]]
    BY <2>2 DEF SameAnswered
  <2>4. p \in Places(Lengths(P)) /\ p \in Places(Lengths(P2))
    BY <2>1, LogsAre
  <2>5. TokensAt(P)[p] = TokensOf(P[p[1]][p[2]]) /\ TokensAt(P)[p] \in Nat
    BY <2>4, LogsAre
  <2>6. TokensAt(P2)[p] = TokensOf(P2[p[1]][p[2]])
    BY <2>4, LogsAre
  <2> QED
    BY <2>3, <2>5, <2>6
<1> QED
  BY <1>2, <1>3, SumsAgree

(* So do they begin and end what they did.                                 *)
LEMMA AfterAnswered ==
  ASSUME NEW P, NEW P2, NEW K, Logs(P, K), SameAnswered(P, P2, K),
         NEW l \in Lanes, NEW n \in Nat, n <= Len(K[l])
  PROVE  /\ ActiveAfter(P2, K, l, n) = ActiveAfter(P, K, l, n)
         /\ RetryAfter(P2, K, l, n) = RetryAfter(P, K, l, n)
<1>1. Len(K[l]) \in Nat
  BY LogsAre
<1>2. \A i \in 1 .. n : P2[l][i] = P[l][i] /\ K[l][i] = K[l][i]
  BY <1>1 DEF SameAnswered
<1> QED
  BY <1>2, AfterAgrees

(* A ledger in balance stays so when messages are added.                   *)
LEMMA BalancedStill ==
  ASSUME NEW P, NEW P2, NEW K, Logs(P, K), Logs(P2, K),
         SameAnswered(P, P2, K), NEW L \in Ledgers, Balanced(L, P, K)
  PROVE  Balanced(L, P2, K)
<1>1. L.seen \in [Lanes -> Nat] /\ \A l \in Lanes : L.seen[l] <= Len(K[l])
  BY DEF Ledgers, Balanced
<1>2. Seen(L) \subseteq Places(Lengths(K))
  BY <1>1, SeenIsThere DEF Seen
<1>3. L.total = SumOf(Seen(L), TokensAt(P2))
  BY <1>2, WeighsTheSame DEF Balanced
<1>4. \A p \in Seen(L) : P2[p[1]][p[2]] = P[p[1]][p[2]]
  <2> SUFFICES ASSUME NEW p \in Seen(L)
               PROVE  P2[p[1]][p[2]] = P[p[1]][p[2]]
    OBVIOUS
  <2>1. p[1] \in Lanes /\ p[2] \in 1 .. L.seen[p[1]]
    BY <1>1, PlacesAre DEF Seen
  <2>2. p[2] \in 1 .. Len(K[p[1]])
    BY <1>1, <2>1, LogsAre
  <2> QED
    BY <2>1, <2>2 DEF SameAnswered
<1>5. L.done = NamesIn(P2, Seen(L))
  <2>1. {q \in Seen(L) : P2[q[1]][q[2]].kind = "case-terminal"}
          = {q \in Seen(L) : P[q[1]][q[2]].kind = "case-terminal"}
    BY <1>4
  <2> DEFINE T == {q \in Seen(L) : P[q[1]][q[2]].kind = "case-terminal"}
  <2>2. \A q \in T : P2[q[1]][q[2]] = P[q[1]][q[2]]
    BY <1>4
  <2>3. NamesIn(P2, Seen(L))
          = UNION {{<<q[1], a>> : a \in AttemptOf(P2[q[1]][q[2]])} : q \in T}
    BY <2>1 DEF NamesIn
  <2>4. NamesIn(P, Seen(L))
          = UNION {{<<q[1], a>> : a \in AttemptOf(P[q[1]][q[2]])} : q \in T}
    BY DEF NamesIn
  <2> HIDE DEF T
  <2>5. NamesIn(P2, Seen(L)) = NamesIn(P, Seen(L))
    BY <2>2, <2>3, <2>4
  <2> QED
    BY <2>5 DEF Balanced
<1>6. \A l \in Lanes : /\ L.active[l] = ActiveAfter(P2, K, l, L.seen[l])
                       /\ L.retry[l] = RetryAfter(P2, K, l, L.seen[l])
  <2> SUFFICES ASSUME NEW l \in Lanes
               PROVE  /\ L.active[l] = ActiveAfter(P2, K, l, L.seen[l])
                      /\ L.retry[l] = RetryAfter(P2, K, l, L.seen[l])
    OBVIOUS
  <2>1. PICK n \in Nat : n = L.seen[l] /\ n <= Len(K[l])
    BY <1>1
  <2>2. /\ ActiveAfter(P2, K, l, n) = ActiveAfter(P, K, l, n)
        /\ RetryAfter(P2, K, l, n) = RetryAfter(P, K, l, n)
    BY <2>1, AfterAnswered
  <2> QED
    BY <2>1, <2>2 DEF Balanced
<1>7. /\ L.stop <=> L.total >= MaxTokens
      /\ L.aborted <=> \E p \in Seen(L) : K[p[1]][p[2]] = "abort"
      /\ \A p \in Seen(L) : K[p[1]][p[2]] = "stop-launches" => L.stop
  BY DEF Balanced
<1> QED
  BY <1>1, <1>3, <1>5, <1>6, <1>7 DEF Balanced

(* Decisions that are sensible stay so when messages are added.            *)
LEMMA SensibleStill ==
  ASSUME NEW P, NEW P2, NEW K, Logs(P, K), Logs(P2, K),
         SameAnswered(P, P2, K), Sensible(P, K)
  PROVE  Sensible(P2, K)
<1>1. \A S : S \subseteq Places(Lengths(K)) =>
               SumOf(S, TokensAt(P2)) = SumOf(S, TokensAt(P))
  BY WeighsTheSame
<1>2. \A D : SaidAt(K, D) \subseteq Places(Lengths(K))
  BY DEF SaidAt
<1>3. \A l \in Lanes : \A i \in 1 .. Len(K[l]) : Forced(P2, K, l, i)
  <2> SUFFICES ASSUME NEW l \in Lanes, NEW i \in 1 .. Len(K[l])
               PROVE  Forced(P2, K, l, i)
    OBVIOUS
  <2>1. Len(K[l]) \in Nat
    BY LogsAre
  <2>2. i - 1 \in Nat /\ i - 1 <= Len(K[l])
    BY <2>1
  <2>3. /\ ActiveAfter(P2, K, l, i - 1) = ActiveAfter(P, K, l, i - 1)
        /\ RetryAfter(P2, K, l, i - 1) = RetryAfter(P, K, l, i - 1)
    BY <2>2, AfterAnswered
  <2>4. P2[l][i] = P[l][i]
    BY DEF SameAnswered
  <2>5. LeftOver(P2, K, l, i) <=> LeftOver(P, K, l, i)
    BY <2>3, <2>4 DEF LeftOver
  <2>6. SumOf(Places(Lengths(K)), TokensAt(P2))
          = SumOf(Places(Lengths(K)), TokensAt(P))
    BY <1>1
  <2>7. Forced(P, K, l, i)
    BY DEF Sensible
  <2> QED
    BY <2>4, <2>5, <2>6, <2>7 DEF Forced
<1>4. SumOf(SaidAt(K, Going), TokensAt(P2))
        = SumOf(SaidAt(K, Going), TokensAt(P))
  BY <1>1, <1>2
<1>5. \A p \in SaidAt(K, {"stop-launches"}) :
        SumOf(SaidAt(K, Going) \cup {p}, TokensAt(P2))
          = SumOf(SaidAt(K, Going) \cup {p}, TokensAt(P))
  <2> SUFFICES ASSUME NEW p \in SaidAt(K, {"stop-launches"})
               PROVE  SumOf(SaidAt(K, Going) \cup {p}, TokensAt(P2))
                        = SumOf(SaidAt(K, Going) \cup {p}, TokensAt(P))
    OBVIOUS
  <2>1. SaidAt(K, Going) \cup {p} \subseteq Places(Lengths(K))
    BY <1>2
  <2> QED
    BY <2>1, <1>1
<1>6. Sensible(P, K)
  OBVIOUS
<1> QED
  BY <1>3, <1>4, <1>5, <1>6 DEF Sensible

-----------------------------------------------------------------------------
(* A decision is made.                                                     *)

(* Every answer that there is has been seen.                               *)
AllSeen(L, K) == \A l \in Lanes : L.seen[l] = Len(K[l])
(* The lane has a message without an answer.                               *)
Waits(P, K, l) == Len(K[l]) < Len(P[l])
Answers(K, l, d) == [K EXCEPT ![l] = Append(@, d)]

(* Then the ledger has seen exactly the answered places.                   *)
LEMMA AllSeenMeans ==
  ASSUME NEW P, NEW K, Logs(P, K), NEW L \in Ledgers, AllSeen(L, K)
  PROVE  L.seen = Lengths(K) /\ Seen(L) = Places(Lengths(K))
<1>1. L.seen \in [Lanes -> Nat] /\ Lengths(K) \in [Lanes -> Nat]
  BY LogsAre DEF Ledgers
<1>2. \A l \in Lanes : L.seen[l] = Lengths(K)[l]
  BY LogsAre DEF AllSeen
<1> QED
  BY <1>1, <1>2 DEF Seen

(* K2 is K with the answer d to lane l, at the place x.                    *)
Extended(P, K, l, d, K2, x) ==
  /\ Logs(P, K2)
  /\ \A k \in Lanes : Len(K2[k]) = IF k = l THEN Len(K[l]) + 1
                                   ELSE Len(K[k])
  /\ \A k \in Lanes : \A i \in 1 .. Len(K[k]) : K2[k][i] = K[k][i]
  /\ K2[l][Len(K[l]) + 1] = d
  /\ Places(Lengths(K2)) = Places(Lengths(K)) \cup {x}
  /\ x \notin Places(Lengths(K)) /\ x[1] = l /\ x[2] = Len(K[l]) + 1
  /\ \A p \in Places(Lengths(K)) : K2[p[1]][p[2]] = K[p[1]][p[2]]
  /\ \A D : SaidAt(K2, D) = IF d \in D THEN SaidAt(K, D) \cup {x}
                            ELSE SaidAt(K, D)

(* What one more answer makes of the answers.                              *)
LEMMA AnswersAre ==
  ASSUME NEW P, NEW K, Logs(P, K), NEW l \in Lanes, NEW d \in Decisions,
         Waits(P, K, l), NEW K2, K2 = Answers(K, l, d)
  PROVE  Extended(P, K, l, d, K2, <<l, Len(K[l]) + 1>>)
<1> DEFINE x == <<l, Len(K[l]) + 1>>
<1>1. K \in [Lanes -> Seq(Decisions)] /\ P \in [Lanes -> Seq(Messages)]
        /\ \A k \in Lanes : /\ K[k] \in Seq(Decisions) /\ Len(K[k]) \in Nat
                            /\ Len(P[k]) \in Nat /\ Len(K[k]) <= Len(P[k])
  BY DEF Logs
<1>2. K2 \in [Lanes -> Seq(Decisions)] /\ K2[l] = Append(K[l], d)
        /\ \A k \in Lanes : k # l => K2[k] = K[k]
  BY <1>1 DEF Answers
<1>3. \A k \in Lanes : Len(K2[k]) = IF k = l THEN Len(K[l]) + 1
                                    ELSE Len(K[k])
  BY <1>1, <1>2
<1>4. \A k \in Lanes : \A i \in 1 .. Len(K[k]) : K2[k][i] = K[k][i]
  <2> SUFFICES ASSUME NEW k \in Lanes, NEW i \in 1 .. Len(K[k])
               PROVE  K2[k][i] = K[k][i]
    OBVIOUS
  <2>1. CASE k = l
    BY <2>1, <1>1, <1>2
  <2>2. CASE k # l
    BY <2>2, <1>2
  <2> QED
    BY <2>1, <2>2
<1>5. K2[l][Len(K[l]) + 1] = d
  BY <1>1, <1>2
<1>6. Logs(P, K2)
  BY <1>1, <1>2, <1>3 DEF Logs, Waits
<1>7. Lengths(K2) = [Lengths(K) EXCEPT ![l] = @ + 1]
        /\ Lengths(K)[l] = Len(K[l]) /\ Lengths(K) \in [Lanes -> Nat]
  BY <1>1, <1>3 DEF Lengths
<1>8. Places(Lengths(K2)) = Places(Lengths(K)) \cup {x}
        /\ x \notin Places(Lengths(K))
  <2>1. Places([Lengths(K) EXCEPT ![l] = @ + 1])
          = Places(Lengths(K)) \cup {<<l, Lengths(K)[l] + 1>>}
        /\ <<l, Lengths(K)[l] + 1>> \notin Places(Lengths(K))
    BY <1>7, OnePlaceMore
  <2> QED
    BY <2>1, <1>7
<1>9. x[1] = l /\ x[2] = Len(K[l]) + 1
  OBVIOUS
<1>10. \A p \in Places(Lengths(K)) : K2[p[1]][p[2]] = K[p[1]][p[2]]
  <2>1. \A p \in Places(Lengths(K)) : p[1] \in Lanes
                                        /\ p[2] \in 1 .. Len(K[p[1]])
    <3>1. Lengths(K) \in [Lanes -> Nat]
            /\ \A k \in Lanes : Lengths(K)[k] = Len(K[k])
      BY LogsAre
    <3> QED
      BY <3>1, PlacesAre
  <2> QED
    BY <2>1, <1>4
<1>11. \A D : SaidAt(K2, D) = IF d \in D THEN SaidAt(K, D) \cup {x}
                               ELSE SaidAt(K, D)
  <2>1. K2[x[1]][x[2]] = d
    BY <1>5, <1>9
  <2> QED
    BY <2>1, <1>8, <1>10 DEF SaidAt
<1> QED
  BY <1>3, <1>4, <1>5, <1>6, <1>8, <1>9, <1>10, <1>11 DEF Extended

(* What the decision of a ledger that has seen everything depends on.      *)
LEMMA DecisionFits ==
  ASSUME NEW P, NEW K, Logs(P, K), NEW L \in Ledgers, Balanced(L, P, K),
         AllSeen(L, K), ~L.aborted, NEW l \in Lanes, Waits(P, K, l),
         NEW m, m = P[l][Len(K[l]) + 1], NEW d, d = Decision(L, l, m)
  PROVE  /\ d \in Decisions /\ m \in Messages
         /\ L.total = SumOf(Places(Lengths(K)), TokensAt(P))
         /\ L.total \in Nat /\ TokensOf(m) \in Nat /\ MaxTokens \in Nat
         /\ L.stop <=> L.total >= MaxTokens
         /\ ReachesCeiling(L, m) <=> L.total + TokensOf(m) >= MaxTokens
         /\ SaidAt(K, {"abort"}) = {}
         /\ SaidAt(K, {"stop-launches"}) # {} => L.stop
         /\ Leaves(L, l, m) <=> LeftOver(P, K, l, Len(K[l]) + 1)
<1>1. L.seen = Lengths(K) /\ Seen(L) = Places(Lengths(K))
  BY AllSeenMeans
<1>2. Len(K[l]) \in Nat /\ P[l] \in Seq(Messages) /\ Len(P[l]) \in Nat
        /\ Lengths(K)[l] = Len(K[l])
  BY LogsAre
<1>3. m \in Messages
  BY <1>2 DEF Waits
<1>4. TokensOf(m) \in Nat
  BY <1>3, TokensAre
<1>5. L.total \in Nat /\ L.stop \in BOOLEAN /\ L.aborted \in BOOLEAN
  BY DEF Ledgers
<1>6. MaxTokens \in Nat
  BY ProtocolConstants
<1>7. L.total = SumOf(Places(Lengths(K)), TokensAt(P))
        /\ (L.stop <=> L.total >= MaxTokens)
  BY <1>1 DEF Balanced
<1>8. ReachesCeiling(L, m) <=> L.total + TokensOf(m) >= MaxTokens
  <2>1. L.total >= MaxTokens => L.total + TokensOf(m) >= MaxTokens
    BY <1>4, <1>5, <1>6
  <2> QED
    BY <2>1, <1>7 DEF ReachesCeiling
<1>9. SaidAt(K, {"abort"}) = {}
  BY <1>1 DEF SaidAt, Balanced
<1>10. SaidAt(K, {"stop-launches"}) # {} => L.stop
  BY <1>1 DEF SaidAt, Balanced
<1>11. Leaves(L, l, m) <=> LeftOver(P, K, l, Len(K[l]) + 1)
  <2>1. L.active[l] = ActiveAfter(P, K, l, Len(K[l]))
          /\ L.retry[l] = RetryAfter(P, K, l, Len(K[l]))
    BY <1>1, <1>2 DEF Balanced
  <2>2. (Len(K[l]) + 1) - 1 = Len(K[l])
    BY <1>2
  <2> QED
    BY <2>1, <2>2 DEF Leaves, LeftOver
<1>12. d \in Decisions
  BY DecisionIs
<1> QED
  BY <1>3, <1>4, <1>5, <1>6, <1>7, <1>8, <1>9, <1>10, <1>11, <1>12

(* What has been decided stays sensible when a ledger that has seen all of *)
(* it decides the next.                                                    *)
LEMMA SensibleDecides ==
  ASSUME NEW P, NEW K, Logs(P, K), NEW L \in Ledgers, Balanced(L, P, K),
         AllSeen(L, K), ~L.aborted, NEW l \in Lanes, Waits(P, K, l),
         NEW m, m = P[l][Len(K[l]) + 1], NEW d, d = Decision(L, l, m),
         NEW K2, K2 = Answers(K, l, d), Sensible(P, K)
  PROVE  Sensible(P, K2)
<1> DEFINE x == <<l, Len(K[l]) + 1>>
           W == TokensAt(P)
           all == Places(Lengths(K))
<1>1. /\ d \in Decisions /\ m \in Messages
      /\ L.total = SumOf(all, W)
      /\ L.total \in Nat /\ TokensOf(m) \in Nat /\ MaxTokens \in Nat
      /\ L.stop <=> L.total >= MaxTokens
      /\ ReachesCeiling(L, m) <=> L.total + TokensOf(m) >= MaxTokens
      /\ SaidAt(K, {"abort"}) = {}
      /\ SaidAt(K, {"stop-launches"}) # {} => L.stop
      /\ Leaves(L, l, m) <=> LeftOver(P, K, l, Len(K[l]) + 1)
  BY DecisionFits
<1>2. Extended(P, K, l, d, K2, x)
  BY <1>1, AnswersAre
<1>3. /\ Logs(P, K2)
      /\ \A k \in Lanes : Len(K2[k]) = IF k = l THEN Len(K[l]) + 1
                                       ELSE Len(K[k])
      /\ \A k \in Lanes : \A i \in 1 .. Len(K[k]) : K2[k][i] = K[k][i]
      /\ K2[l][Len(K[l]) + 1] = d
  BY <1>2 DEF Extended
<1>4. \A k \in Lanes : Len(K[k]) \in Nat
  BY LogsAre
<1>5. PICK n \in Nat : n = Len(K[l])
  BY <1>4
<1> HIDE DEF x, W, all
<1>6. x \notin all /\ x[1] = l /\ x[2] = Len(K[l]) + 1
         /\ Places(Lengths(K2)) = all \cup {x}
  BY <1>2 DEF Extended, all
<1>7. \A D : SaidAt(K2, D) = IF d \in D THEN SaidAt(K, D) \cup {x}
                               ELSE SaidAt(K, D)
  BY <1>2 DEF Extended
<1>8. /\ SaidAt(K2, {"stop-launches"}) =
           IF d = "stop-launches" THEN SaidAt(K, {"stop-launches"}) \cup {x}
           ELSE SaidAt(K, {"stop-launches"})
      /\ SaidAt(K2, {"abort"}) =
           IF d = "abort" THEN SaidAt(K, {"abort"}) \cup {x}
           ELSE SaidAt(K, {"abort"})
  <2>1. (d \in {"stop-launches"} <=> d = "stop-launches")
          /\ (d \in {"abort"} <=> d = "abort")
    OBVIOUS
  <2> QED
    BY <2>1, <1>7
<1>9. SaidAt(K2, Going) = IF d \in Going THEN SaidAt(K, Going) \cup {x}
                          ELSE SaidAt(K, Going)
  BY <1>7
<1>10. \A k \in Lanes : \A j \in Nat :
         (\A h \in 1 .. j : K2[k][h] = K[k][h]) =>
           /\ ActiveAfter(P, K2, k, j) = ActiveAfter(P, K, k, j)
           /\ RetryAfter(P, K2, k, j) = RetryAfter(P, K, k, j)
  BY AfterSame
<1>11. IsFiniteSet(all) /\ \A D : SaidAt(K, D) \subseteq all
  BY LogsAre, PlacesAre DEF all, SaidAt
<1>12. /\ \A p \in all \cup {x} : W[p] \in Nat
       /\ W[x] = TokensOf(m)
  <2>1. \A p \in all \cup {x} : p \in Places(Lengths(P))
    BY <1>6, <1>3, LogsAre
  <2>2. \A p \in Places(Lengths(P)) :
          W[p] \in Nat /\ W[p] = TokensOf(P[p[1]][p[2]])
    BY LogsAre DEF W
  <2> QED
    BY <2>1, <2>2, <1>6, <1>3
<1>13. SumOf(all \cup {x}, W) = L.total + TokensOf(m)
  <2>1. SumOf(all \cup {x}, W) = SumOf(all, W) + W[x]
    BY <1>11, <1>12, <1>6, SumOfOneMore
  <2> QED
    BY <2>1, <1>1, <1>12
<1>14. /\ d = "retry" =>
            FailedCase(m) /\ Retryable(m) /\ ~ReachesCeiling(L, m)
       /\ d = "continue" => ~ReachesCeiling(L, m)
       /\ d = "stop-launches" => ReachesCeiling(L, m)
       /\ d \in {"continue", "stop-launches"} =>
            ~FailedCase(m) /\ ~FailedShard(m) /\ ~Leaves(L, l, m)
       /\ d = "abort" =>
            \/ FailedCase(m) /\ ~Retryable(m)
            \/ FailedShard(m) \/ Leaves(L, l, m)
            \/ FailedCase(m) /\ Retryable(m) /\ ReachesCeiling(L, m)
  BY DecisionIs
<1>15. ASSUME NEW k \in Lanes, NEW i \in 1 .. Len(K2[k])
      PROVE  Forced(P, K2, k, i)
  <2>1. CASE i \in 1 .. Len(K[k])
    <3>1. PICK j \in Nat : j = i - 1 /\ j <= Len(K[k]) /\ i = j + 1
      BY <2>1, <1>4
    <3>2. K2[k][i] = K[k][i] /\ \A h \in 1 .. j : K2[k][h] = K[k][h]
      BY <2>1, <3>1, <1>6, <1>7, <1>3, <1>4
    <3>3. /\ ActiveAfter(P, K2, k, j) = ActiveAfter(P, K, k, j)
          /\ RetryAfter(P, K2, k, j) = RetryAfter(P, K, k, j)
      BY <3>2, <1>10
    <3>4. LeftOver(P, K2, k, i) <=> LeftOver(P, K, k, i)
      BY <3>1, <3>3 DEF LeftOver
    <3>5. Forced(P, K, k, i)
      BY <2>1 DEF Sensible
    <3>6. K[k][i] # "abort"
      <4>1. <<k, i>> \in all
        <5>1. Lengths(K) \in [Lanes -> Nat] /\ i \in 1 .. Lengths(K)[k]
          BY <2>1, LogsAre
        <5> QED
          BY <5>1, PlacesAre DEF all
      <4> QED
        BY <4>1, <1>1 DEF SaidAt, all
    <3> QED
      BY <3>2, <3>4, <3>5, <3>6 DEF Forced
  <2>2. CASE i \notin 1 .. Len(K[k])
    <3>1. k = l /\ i = n + 1
      BY <2>2, <1>6, <1>7, <1>3, <1>4, <1>5, <1>15
    <3>2. K2[k][i] = d /\ P[k][i] = m
      BY <3>1, <1>6, <1>7, <1>3, <1>5
    <3>3. \A h \in 1 .. n : K2[l][h] = K[l][h]
      BY <1>6, <1>7, <1>3, <1>5
    <3>4. /\ ActiveAfter(P, K2, l, n) = ActiveAfter(P, K, l, n)
          /\ RetryAfter(P, K2, l, n) = RetryAfter(P, K, l, n)
      BY <3>3, <1>10
    <3>5. (n + 1) - 1 = n
      OBVIOUS
    <3>6. LeftOver(P, K2, k, i) <=> LeftOver(P, K, l, n + 1)
      BY <3>1, <3>4, <3>5 DEF LeftOver
    <3>7. LeftOver(P, K2, k, i) <=> Leaves(L, l, m)
      BY <3>6, <1>1, <1>5
    <3>8. ReachesCeiling(L, m) =>
            SumOf(Places(Lengths(K2)), W) >= MaxTokens
      BY <1>1, <1>6, <1>7, <1>3, <1>13
    <3> QED
      BY <3>2, <3>7, <3>8, <1>14 DEF Forced, W
  <2> QED
    BY <2>1, <2>2
<1>16. ASSUME NEW p \in SaidAt(K2, {"stop-launches"}),
              NEW i \in p[2] .. Len(K2[p[1]])
       PROVE  K2[p[1]][i] \notin Going
  <2>1. SaidAt(K, {"stop-launches"}) # {} => d \notin Going
    BY <1>1, <1>14 DEF Going, ReachesCeiling
  <2>2. CASE p \in SaidAt(K, {"stop-launches"})
    <3>1. p[1] \in Lanes /\ p[2] \in 1 .. Len(K[p[1]])
      <4>1. p \in Places(Lengths(K)) /\ Lengths(K) \in [Lanes -> Nat]
        BY <2>2, LogsAre DEF SaidAt
      <4>2. p[1] \in Lanes /\ p[2] \in 1 .. Lengths(K)[p[1]]
        BY <4>1, PlacesAre
      <4> QED
        BY <4>2, LogsAre
    <3>2. i \in p[2] .. Len(K[p[1]]) \/ (p[1] = l /\ i = n + 1)
      BY <3>1, <1>6, <1>7, <1>3, <1>4, <1>5, <1>16
    <3>3. CASE i \in p[2] .. Len(K[p[1]])
      <4>1. K[p[1]][i] \notin Going
        BY <2>2, <3>3 DEF Sensible
      <4>2. K2[p[1]][i] = K[p[1]][i]
        BY <3>1, <3>3, <1>6, <1>7, <1>3, <1>4
      <4> QED
        BY <4>1, <4>2
    <3>4. CASE p[1] = l /\ i = n + 1
      BY <2>1, <2>2, <3>4, <1>6, <1>7, <1>3, <1>5
    <3> QED
      BY <3>2, <3>3, <3>4
  <2>3. CASE p \notin SaidAt(K, {"stop-launches"})
    <3>1. p = x /\ d = "stop-launches"
      BY <2>3, <1>8, <1>16
    <3>2. p[1] = l /\ i = n + 1
      BY <3>1, <1>6, <1>7, <1>3, <1>5, <1>16
    <3> QED
      BY <3>1, <3>2, <1>6, <1>7, <1>3, <1>5 DEF Going
  <2> QED
    BY <2>2, <2>3
<1>17. ASSUME NEW p \in SaidAt(K2, {"abort"})
       PROVE  p[2] = Len(K2[p[1]]) /\ SaidAt(K2, {"abort"}) = {p}
  <2>1. p = x /\ SaidAt(K2, {"abort"}) = {x}
    BY <1>1, <1>8, <1>17
  <2> QED
    BY <2>1, <1>6, <1>7, <1>3
<1>18. SaidAt(K2, Going) # {} => SumOf(SaidAt(K2, Going), W) < MaxTokens
  <2>1. CASE d \in Going
    <3>1. L.total + TokensOf(m) < MaxTokens
      BY <2>1, <1>1, <1>14 DEF Going
    <3>2. SaidAt(K2, Going) \subseteq all \cup {x}
      BY <1>9, <1>11
    <3>3. IsFiniteSet(all \cup {x})
      BY <1>11, FS_AddElement
    <3>4. SumOf(SaidAt(K2, Going), W) <= SumOf(all \cup {x}, W)
      BY <3>2, <3>3, <1>12, SumOfPart
    <3>5. SumOf(SaidAt(K2, Going), W) \in Nat
      <4>1. IsFiniteSet(SaidAt(K2, Going))
        BY <3>2, <3>3, FS_Subset
      <4> QED
        BY <4>1, <3>2, <1>12, SumIsNatural
    <3> QED
      BY <3>1, <3>4, <3>5, <1>1, <1>13
  <2>2. CASE d \notin Going
    <3>1. SaidAt(K2, Going) = SaidAt(K, Going)
      BY <2>2, <1>9
    <3> QED
      BY <3>1 DEF Sensible, W
  <2> QED
    BY <2>1, <2>2
<1>19. ASSUME SaidAt(K2, {"stop-launches"}) # {}
       PROVE  \E p \in SaidAt(K2, {"stop-launches"}) :
                /\ \A i \in 1 .. p[2] - 1 : K2[p[1]][i] \in Going
                /\ SumOf(SaidAt(K2, Going) \cup {p}, W) >= MaxTokens
  <2>1. CASE SaidAt(K, {"stop-launches"}) # {}
    <3>1. PICK p \in SaidAt(K, {"stop-launches"}) :
            /\ \A i \in 1 .. p[2] - 1 : K[p[1]][i] \in Going
            /\ SumOf(SaidAt(K, Going) \cup {p}, W) >= MaxTokens
      BY <2>1 DEF Sensible, W
    <3>2. d \notin Going
      BY <2>1, <1>1, <1>14 DEF Going, ReachesCeiling
    <3>3. SaidAt(K2, Going) = SaidAt(K, Going)
      BY <3>2, <1>9
    <3>4. p[1] \in Lanes /\ p[2] \in 1 .. Len(K[p[1]])
      <4>1. p \in Places(Lengths(K)) /\ Lengths(K) \in [Lanes -> Nat]
        BY LogsAre DEF SaidAt
      <4>2. p[1] \in Lanes /\ p[2] \in 1 .. Lengths(K)[p[1]]
        BY <4>1, PlacesAre
      <4> QED
        BY <4>2, LogsAre
    <3>5. \A i \in 1 .. p[2] - 1 : K2[p[1]][i] = K[p[1]][i]
      <4>1. \A i \in 1 .. p[2] - 1 : i \in 1 .. Len(K[p[1]])
        BY <3>4, <1>4
      <4> QED
        BY <4>1, <3>4, <1>6, <1>7, <1>3
    <3>6. p \in SaidAt(K2, {"stop-launches"})
      BY <1>6, <1>7, <1>3
    <3> QED
      BY <3>1, <3>3, <3>5, <3>6
  <2>2. CASE SaidAt(K, {"stop-launches"}) = {}
    <3>1. d = "stop-launches"
      BY <2>2, <1>6, <1>7, <1>3, <1>19
    <3>2. x \in SaidAt(K2, {"stop-launches"})
      BY <3>1, <1>6, <1>7, <1>3
    <3>3. all = SaidAt(K, Going)
      <4>1. \A p \in all : K[p[1]][p[2]] \in Decisions
        BY LogsAre DEF all
      <4>2. \A p \in all : K[p[1]][p[2]] \notin {"stop-launches", "abort"}
        BY <2>2, <1>1 DEF SaidAt, all
      <4> QED
        BY <4>1, <4>2 DEF SaidAt, all, Going, Decisions
    <3>4. SaidAt(K2, Going) = all
      <4>1. d \notin Going
        BY <3>1 DEF Going
      <4> QED
        BY <4>1, <3>3, <1>9
    <3>5. SumOf(SaidAt(K2, Going) \cup {x}, W) >= MaxTokens
      BY <3>1, <3>4, <1>1, <1>13, <1>14
    <3>6. \A i \in 1 .. Len(K[l]) : <<l, i>> \in all
      <4>1. Lengths(K) \in [Lanes -> Nat] /\ Lengths(K)[l] = Len(K[l])
        BY LogsAre
      <4>2. \A i :
              <<l, i>> \in Places(Lengths(K)) <=> i \in 1 .. Lengths(K)[l]
        BY <4>1, PlacesAre
      <4> QED
        BY <4>1, <4>2 DEF all
    <3>7. \A i \in 1 .. x[2] - 1 : K2[x[1]][i] \in Going
      <4> SUFFICES ASSUME NEW i \in 1 .. x[2] - 1
                   PROVE  K2[x[1]][i] \in Going
        OBVIOUS
      <4>1. i \in 1 .. Len(K[l]) /\ x[1] = l
        BY <1>6, <1>7, <1>3, <1>5
      <4>2. <<l, i>> \in all
        BY <4>1, <3>6
      <4>3. K[l][i] \in Going
        BY <4>2, <3>3 DEF SaidAt
      <4> QED
        BY <4>1, <4>3, <1>6, <1>7, <1>3
    <3> QED
      BY <3>2, <3>5, <3>7
  <2> QED
    BY <2>1, <2>2
<1> QED
  BY <1>15, <1>16, <1>17, <1>18, <1>19 DEF Sensible, W

-----------------------------------------------------------------------------
(* A replay always finds a message to accept, and accepts in order.        *)

(* The next message of lane l has the decision that L would make.          *)
Fits(L, P, K, l) ==
  /\ Answered(L, K, l)
  /\ Decision(L, l, P[l][L.seen[l] + 1]) = K[l][L.seen[l] + 1]

(* x is the next place of lane l, m and d what is there.                   *)
NextIs(L, P, K, l, x, m, d) ==
  /\ x[1] = l /\ x[2] = L.seen[l] + 1
  /\ m = P[l][L.seen[l] + 1] /\ d = K[l][L.seen[l] + 1]
  /\ m = P[x[1]][x[2]] /\ d = K[x[1]][x[2]]
  /\ x \in Places(Lengths(K)) /\ x \notin Seen(L)
  /\ m \in Messages /\ d \in Decisions
  /\ TokensOf(m) \in Nat /\ L.total \in Nat
  /\ SumOf(Seen(L) \cup {x}, TokensAt(P)) = L.total + TokensOf(m)
  /\ Leaves(L, l, m) <=> LeftOver(P, K, l, x[2])

(* The next place of a lane, and what a ledger would add up there.         *)
LEMMA NextPlace ==
  ASSUME NEW P, NEW K, Logs(P, K), NEW L \in Ledgers, Balanced(L, P, K),
         NEW l \in Lanes, Answered(L, K, l)
  PROVE  NextIs(L, P, K, l, <<l, L.seen[l] + 1>>,
                P[l][L.seen[l] + 1], K[l][L.seen[l] + 1])
<1>1. PICK n \in Nat : n = L.seen[l]
  BY DEF Ledgers
<1> DEFINE x == <<l, n + 1>>
           m == P[l][n + 1]
           d == K[l][n + 1]
<1>2. /\ P[l] \in Seq(Messages) /\ K[l] \in Seq(Decisions)
      /\ Len(K[l]) \in Nat /\ Len(P[l]) \in Nat /\ Len(K[l]) <= Len(P[l])
      /\ Lengths(K) \in [Lanes -> Nat] /\ Lengths(K)[l] = Len(K[l])
      /\ L.seen \in [Lanes -> Nat] /\ L.total \in Nat
  BY LogsAre DEF Logs, Ledgers
<1>3. n + 1 \in 1 .. Len(K[l]) /\ n + 1 \in 1 .. Len(P[l])
  BY <1>1, <1>2 DEF Answered
<1>4. m \in Messages /\ d \in Decisions
  BY <1>2, <1>3
<1>5. x[1] = l /\ x[2] = n + 1
  OBVIOUS
<1> HIDE DEF x, m, d
<1>6. x \in Places(Lengths(K))
  BY <1>2, <1>3, PlacesAre DEF x
<1>7. x \notin Seen(L) /\ IsFiniteSet(Seen(L))
  BY <1>1, <1>2, PlacesAre DEF Seen, x
<1>8. TokensOf(m) \in Nat
  BY <1>4, TokensAre
<1>9. SumOf(Seen(L) \cup {x}, TokensAt(P)) = L.total + TokensOf(m)
  <2>1. \A k \in Lanes : L.seen[k] <= Len(K[k])
    BY DEF Balanced
  <2>2. Seen(L) \subseteq Places(Lengths(K))
    BY <1>2, <2>1, SeenIsThere DEF Seen
  <2>3. \A p \in Seen(L) \cup {x} : p \in Places(Lengths(P))
    BY <2>2, <1>6, LogsAre
  <2>4. \A p \in Seen(L) \cup {x} : TokensAt(P)[p] \in Nat
    BY <2>3, LogsAre
  <2>5. TokensAt(P)[x] = TokensOf(P[x[1]][x[2]])
    BY <2>3, LogsAre
  <2>6. TokensAt(P)[x] = TokensOf(m)
    BY <2>5, <1>5 DEF m
  <2>7. SumOf(Seen(L) \cup {x}, TokensAt(P))
          = SumOf(Seen(L), TokensAt(P)) + TokensAt(P)[x]
    BY <2>4, <1>7, SumOfOneMore
  <2> QED
    BY <2>6, <2>7 DEF Balanced
<1>10. Leaves(L, l, m) <=> LeftOver(P, K, l, x[2])
  <2>1. L.active[l] = ActiveAfter(P, K, l, n)
          /\ L.retry[l] = RetryAfter(P, K, l, n)
    BY <1>1 DEF Balanced
  <2>2. x[2] - 1 = n /\ P[l][x[2]] = m
    BY <1>5 DEF m
  <2> QED
    BY <2>1, <2>2 DEF Leaves, LeftOver
<1>11. m = P[x[1]][x[2]] /\ d = K[x[1]][x[2]]
  BY <1>5 DEF m, d
<1>12. NextIs(L, P, K, l, x, m, d)
  BY <1>1, <1>2, <1>4, <1>5, <1>6, <1>7, <1>8, <1>9, <1>10, <1>11
     DEF NextIs, m, d
<1> QED
  BY <1>1, <1>12 DEF x, m, d

(* Of a decision that was forced only the ceiling is open.                 *)
LEMMA NextFits ==
  ASSUME NEW P, NEW K, Logs(P, K), NEW L \in Ledgers, Balanced(L, P, K),
         Sensible(P, K), ~L.aborted, NEW l \in Lanes, Answered(L, K, l),
         NEW x, NEW m, NEW d, NextIs(L, P, K, l, x, m, d)
  PROVE  /\ d \in Going /\ ~ReachesCeiling(L, m) => Fits(L, P, K, l)
         /\ d = "stop-launches" /\ ReachesCeiling(L, m) => Fits(L, P, K, l)
         /\ /\ d = "abort"
            /\ FailedCase(m)
                 /\ SumOf(Places(Lengths(K)), TokensAt(P)) >= MaxTokens
                 => ReachesCeiling(L, m)
            => Fits(L, P, K, l)
<1>1. Forced(P, K, l, x[2]) /\ P[l][x[2]] = m /\ K[l][x[2]] = d
  <2>1. x \in Places(Lengths(K)) /\ x[1] = l
    BY DEF NextIs
  <2>2. Lengths(K) \in [Lanes -> Nat] /\ Lengths(K)[l] = Len(K[l])
    BY LogsAre
  <2>3. x[2] \in 1 .. Len(K[l])
    BY <2>1, <2>2, PlacesAre
  <2> QED
    BY <2>3 DEF Sensible, NextIs
<1>2. Leaves(L, l, m) <=> LeftOver(P, K, l, x[2])
  BY DEF NextIs
<1>3. /\ d = "retry" => FailedCase(m) /\ Retryable(m)
      /\ d \in {"continue", "stop-launches"} =>
           ~FailedCase(m) /\ ~FailedShard(m) /\ ~Leaves(L, l, m)
      /\ d = "abort" =>
           \/ FailedCase(m) /\ ~Retryable(m)
           \/ FailedShard(m) \/ Leaves(L, l, m)
           \/ /\ FailedCase(m) /\ Retryable(m)
              /\ SumOf(Places(Lengths(K)), TokensAt(P)) >= MaxTokens
  BY <1>1, <1>2 DEF Forced
<1>4. Decision(L, l, m) = d => Fits(L, P, K, l)
  BY DEF Fits, NextIs
<1>5. /\ FailedCase(m) /\ Retryable(m) /\ ~ReachesCeiling(L, m) =>
           Decision(L, l, m) = "retry"
      /\ ~FailedCase(m) /\ ~FailedShard(m) /\ ~Leaves(L, l, m) =>
           Decision(L, l, m) = IF ReachesCeiling(L, m)
                               THEN "stop-launches" ELSE "continue"
      /\ \/ FailedCase(m) /\ ~Retryable(m)
         \/ FailedShard(m) \/ Leaves(L, l, m)
         \/ FailedCase(m) /\ Retryable(m) /\ ReachesCeiling(L, m)
         => Decision(L, l, m) = "abort"
  BY DecisionMustBe
<1> QED
  BY <1>3, <1>4, <1>5 DEF Going

Replaying(L, P, K) ==
  Logs(P, K) /\ Balanced(L, P, K) /\ Sensible(P, K) /\ InOrder(L, K)

(* An answered place that was not seen is beyond the seen ones.            *)
LEMMA UnseenPlace ==
  ASSUME NEW P, NEW K, Logs(P, K), NEW L \in Ledgers,
         NEW p \in Places(Lengths(K)), p \notin Seen(L)
  PROVE  /\ p[1] \in Lanes /\ Answered(L, K, p[1]) /\ L.seen[p[1]] \in Nat
         /\ p = <<p[1], p[2]>>
         /\ p[2] \in L.seen[p[1]] + 1 .. Len(K[p[1]])
         /\ Len(K[p[1]]) \in Nat
<1>1. Lengths(K) \in [Lanes -> Nat] /\ L.seen \in [Lanes -> Nat]
        /\ \A l \in Lanes : Lengths(K)[l] = Len(K[l]) /\ Len(K[l]) \in Nat
  BY LogsAre DEF Ledgers
<1>2. p = <<p[1], p[2]>> /\ p[1] \in Lanes
        /\ p[2] \in 1 .. Lengths(K)[p[1]]
  BY <1>1, PlacesAre
<1>3. p[2] \notin 1 .. L.seen[p[1]]
  BY <1>1, <1>2, PlacesAre DEF Seen
<1>4. p[2] \in L.seen[p[1]] + 1 .. Len(K[p[1]])
  BY <1>1, <1>2, <1>3
<1> QED
  BY <1>1, <1>2, <1>4 DEF Answered

(* As long as there is a decision to go on, one of them fits.              *)
LEMMA GoingComes ==
  ASSUME NEW P, NEW K, NEW L \in Ledgers, Replaying(L, P, K),
         NEW p \in SaidAt(K, Going), p \notin Seen(L)
  PROVE  /\ p[1] \in Lanes /\ Fits(L, P, K, p[1])
         /\ K[p[1]][L.seen[p[1]] + 1] \in Going
<1>1. Logs(P, K) /\ Balanced(L, P, K) /\ Sensible(P, K)
  BY DEF Replaying
<1>2. Seen(L) \subseteq SaidAt(K, Going)
  BY DEF Replaying, InOrder
<1>3. p \in Places(Lengths(K)) /\ K[p[1]][p[2]] \in Going
  BY DEF SaidAt
<1>4. PICK l \in Lanes : l = p[1] /\ Answered(L, K, l)
  BY <1>1, <1>3, UnseenPlace
<1>5. PICK n \in Nat : n = L.seen[l]
  BY DEF Ledgers
<1>6. PICK e \in Nat : e = Len(K[l])
  BY <1>1, LogsAre
<1>7. p = <<l, p[2]>> /\ p[2] \in n + 1 .. e
  BY <1>1, <1>3, <1>4, <1>5, <1>6, UnseenPlace
<1>8. PICK x, m, d : x = <<l, L.seen[l] + 1>> /\ m = P[l][L.seen[l] + 1]
                       /\ d = K[l][L.seen[l] + 1]
  OBVIOUS
<1>9. NextIs(L, P, K, l, x, m, d)
  BY <1>1, <1>4, <1>8, NextPlace
<1>10. x \in Places(Lengths(K)) /\ x \notin Seen(L) /\ d \in Decisions
         /\ x = <<l, n + 1>> /\ d = K[x[1]][x[2]] /\ x[1] = l
         /\ x[2] = n + 1 /\ TokensOf(m) \in Nat /\ L.total \in Nat
  BY <1>5, <1>8, <1>9 DEF NextIs
<1>11. d \in Going
  <2>1. CASE d = "stop-launches"
    <3>1. x \in SaidAt(K, {"stop-launches"})
      BY <2>1, <1>10 DEF SaidAt
    <3>2. p[2] \in x[2] .. Len(K[x[1]])
      BY <1>6, <1>7, <1>10
    <3>3. K[x[1]][p[2]] \notin Going
      BY <3>1, <3>2, <1>1 DEF Sensible
    <3> QED
      BY <3>3, <1>3, <1>4, <1>10
  <2>2. CASE d = "abort"
    <3>1. x \in SaidAt(K, {"abort"})
      BY <2>2, <1>10 DEF SaidAt
    <3>2. x[2] = Len(K[x[1]])
      BY <3>1, <1>1 DEF Sensible
    <3>3. p[2] = n + 1
      BY <3>2, <1>6, <1>7, <1>10
    <3>4. K[p[1]][p[2]] = d
      BY <3>3, <1>4, <1>10
    <3> QED
      BY <3>4, <2>2, <1>3 DEF Going
  <2> QED
    BY <2>1, <2>2, <1>10 DEF Going, Decisions
<1>12. ~L.aborted
  <2>1. \A q \in Seen(L) : K[q[1]][q[2]] # "abort"
    BY <1>2 DEF SaidAt, Going
  <2> QED
    BY <2>1, <1>1 DEF Balanced
<1>13. L.total + TokensOf(m) < MaxTokens
  <2> DEFINE C == SaidAt(K, Going)
             W == TokensAt(P)
  <2>1. Seen(L) \cup {x} \subseteq C
    BY <1>2, <1>10, <1>11 DEF SaidAt
  <2>2. C \subseteq Places(Lengths(K))
    BY DEF SaidAt
  <2>3. IsFiniteSet(C)
    <3>1. IsFiniteSet(Places(Lengths(K)))
      BY <1>1, LogsAre, PlacesAre
    <3> QED
      BY <3>1, <2>2, FS_Subset
  <2>4. \A q \in C : W[q] \in Nat
    <3>1. \A q \in C : q \in Places(Lengths(P))
      BY <1>1, <2>2, LogsAre
    <3> QED
      BY <3>1, <1>1, LogsAre
  <2>5. SumOf(C, W) < MaxTokens
    BY <1>1 DEF Sensible
  <2>6. SumOf(Seen(L) \cup {x}, W) = L.total + TokensOf(m)
    BY <1>9 DEF NextIs
  <2> HIDE DEF C, W
  <2>7. SumOf(Seen(L) \cup {x}, W) <= SumOf(C, W)
    BY <2>1, <2>3, <2>4, SumOfPart
  <2>8. SumOf(C, W) \in Nat
    BY <2>3, <2>4, SumIsNatural
  <2> QED
    BY <2>5, <2>6, <2>7, <2>8, <1>10, ProtocolConstants
<1>14. ~ReachesCeiling(L, m)
  <2>1. L.total < MaxTokens
    BY <1>10, <1>13, ProtocolConstants
  <2>2. ~L.stop
    BY <2>1, <1>1, <1>10, ProtocolConstants DEF Balanced
  <2>3. ~(L.total + TokensOf(m) >= MaxTokens)
    BY <1>10, <1>13, ProtocolConstants
  <2> QED
    BY <2>2, <2>3 DEF ReachesCeiling
<1>15. Fits(L, P, K, l)
  BY <1>1, <1>4, <1>9, <1>11, <1>12, <1>14, NextFits
<1> QED
  BY <1>4, <1>8, <1>11, <1>15

(* When only stops and an abort are left, a stop fits.                     *)
LEMMA StopComes ==
  ASSUME NEW P, NEW K, NEW L \in Ledgers, Replaying(L, P, K),
         SaidAt(K, Going) \subseteq Seen(L),
         NEW p \in SaidAt(K, {"stop-launches"}), p \notin Seen(L)
  PROVE  \E l \in Lanes : /\ Fits(L, P, K, l)
                          /\ K[l][L.seen[l] + 1] = "stop-launches"
<1>1. Logs(P, K) /\ Balanced(L, P, K) /\ Sensible(P, K)
  BY DEF Replaying
<1>2. Seen(L) \cap SaidAt(K, {"abort"}) = {}
  <2>1. p \in SaidAt(K, Decisions \ {"abort"})
    BY DEF SaidAt, Decisions
  <2> QED
    BY <2>1 DEF Replaying, InOrder
<1>3. Seen(L) \subseteq Places(Lengths(K))
  BY <1>1, SeenIsThere DEF Seen, Balanced, Ledgers
<1>4. ~L.aborted
  <2>1. \A q \in Seen(L) : K[q[1]][q[2]] # "abort"
    BY <1>2, <1>3 DEF SaidAt
  <2> QED
    BY <2>1, <1>1 DEF Balanced
<1>5. ASSUME NEW q \in SaidAt(K, {"stop-launches"}), q \notin Seen(L)
      PROVE  LET l == q[1]
             IN /\ l \in Lanes /\ Answered(L, K, l)
                /\ K[l][L.seen[l] + 1] = "stop-launches"
  <2>1. q \in Places(Lengths(K)) /\ K[q[1]][q[2]] = "stop-launches"
    BY DEF SaidAt
  <2>2. PICK l \in Lanes : l = q[1] /\ Answered(L, K, l)
    BY <1>1, <1>5, <2>1, UnseenPlace
  <2>3. PICK n \in Nat : n = L.seen[l]
    BY DEF Ledgers
  <2>4. PICK e \in Nat : e = Len(K[l])
    BY <1>1, LogsAre
  <2>5. q = <<l, q[2]>> /\ q[2] \in n + 1 .. e
    BY <1>1, <1>5, <2>1, <2>2, <2>3, <2>4, UnseenPlace
  <2>6. PICK x, m, d : x = <<l, L.seen[l] + 1>> /\ m = P[l][L.seen[l] + 1]
                         /\ d = K[l][L.seen[l] + 1]
    OBVIOUS
  <2>7. NextIs(L, P, K, l, x, m, d)
    BY <1>1, <2>2, <2>6, NextPlace
  <2>8. x \in Places(Lengths(K)) /\ x \notin Seen(L) /\ d \in Decisions
          /\ d = K[x[1]][x[2]] /\ x[1] = l /\ x[2] = n + 1
    BY <2>3, <2>7 DEF NextIs
  <2>9. d \notin Going
    <3>1. ASSUME d \in Going PROVE x \in SaidAt(K, Going)
      BY <3>1, <2>8 DEF SaidAt
    <3> QED
      BY <3>1, <2>8
  <2>10. d # "abort"
    <3> SUFFICES ASSUME d = "abort" PROVE FALSE
      OBVIOUS
    <3>1. x \in SaidAt(K, {"abort"})
      BY <2>8 DEF SaidAt
    <3>2. x[2] = Len(K[x[1]])
      BY <3>1, <1>1 DEF Sensible
    <3>3. q[2] = n + 1
      BY <3>2, <2>4, <2>5, <2>8
    <3>4. K[q[1]][q[2]] = d
      BY <3>3, <2>2, <2>8
    <3> QED
      BY <3>4, <2>1
  <2>11. d = "stop-launches"
    BY <2>8, <2>9, <2>10 DEF Going, Decisions
  <2> QED
    BY <2>2, <2>6, <2>11
<1>6. CASE L.stop
  <2>1. PICK l \in Lanes : /\ Answered(L, K, l)
                           /\ K[l][L.seen[l] + 1] = "stop-launches"
    BY <1>5
  <2>2. PICK x, m, d : x = <<l, L.seen[l] + 1>> /\ m = P[l][L.seen[l] + 1]
                         /\ d = K[l][L.seen[l] + 1]
    OBVIOUS
  <2>3. NextIs(L, P, K, l, x, m, d)
    BY <1>1, <2>1, <2>2, NextPlace
  <2>4. ReachesCeiling(L, m)
    BY <1>6 DEF ReachesCeiling
  <2>5. Fits(L, P, K, l)
    BY <2>1, <2>2, <2>3, <2>4, <1>1, <1>4, NextFits
  <2> QED
    BY <2>1, <2>5
<1>7. CASE ~L.stop
  <2>1. \A q \in SaidAt(K, {"stop-launches"}) : q \notin Seen(L)
    BY <1>1, <1>7 DEF SaidAt, Balanced
  <2>2. Seen(L) = SaidAt(K, Going)
    <3>1. \A q \in Seen(L) : K[q[1]][q[2]] \in Decisions
      BY <1>1, <1>3, LogsAre
    <3>2. \A q \in Seen(L) : K[q[1]][q[2]] \notin {"stop-launches", "abort"}
      BY <2>1, <1>2, <1>3 DEF SaidAt
    <3>3. Seen(L) \subseteq SaidAt(K, Going)
      BY <3>1, <3>2, <1>3 DEF SaidAt, Going, Decisions
    <3> QED
      BY <3>3
  <2>3. PICK q \in SaidAt(K, {"stop-launches"}) :
          /\ \A i \in 1 .. q[2] - 1 : K[q[1]][i] \in Going
          /\ SumOf(SaidAt(K, Going) \cup {q}, TokensAt(P)) >= MaxTokens
    BY <1>1 DEF Sensible
  <2>4. q \in Places(Lengths(K)) /\ q \notin Seen(L)
    BY <2>1 DEF SaidAt
  <2>5. PICK l \in Lanes : /\ l = q[1] /\ Answered(L, K, l)
                           /\ K[l][L.seen[l] + 1] = "stop-launches"
    BY <2>4, <1>5
  <2>6. PICK x, m, d : x = <<l, L.seen[l] + 1>> /\ m = P[l][L.seen[l] + 1]
                         /\ d = K[l][L.seen[l] + 1]
    OBVIOUS
  <2>7. NextIs(L, P, K, l, x, m, d)
    BY <1>1, <2>5, <2>6, NextPlace
  <2>8. x = q
    <3>1. PICK n \in Nat : n = L.seen[l]
      BY DEF Ledgers
    <3>2. PICK e \in Nat : e = Len(K[l])
      BY <1>1, LogsAre
    <3>3. q = <<l, q[2]>> /\ q[2] \in n + 1 .. e
      BY <1>1, <2>4, <2>5, <3>1, <3>2, UnseenPlace
    <3>4. ASSUME q[2] # n + 1 PROVE FALSE
      <4>1. n + 1 \in 1 .. q[2] - 1
        BY <3>3, <3>4
      <4>2. K[l][n + 1] \in Going
        BY <4>1, <2>3, <2>5
      <4> QED
        BY <4>2, <2>5, <3>1 DEF Going
    <3> QED
      BY <3>1, <3>3, <3>4, <2>6
  <2>9. ReachesCeiling(L, m)
    <3>1. SumOf(Seen(L) \cup {x}, TokensAt(P)) = L.total + TokensOf(m)
      BY <2>7 DEF NextIs
    <3> QED
      BY <3>1, <2>2, <2>3, <2>8 DEF ReachesCeiling
  <2>10. Fits(L, P, K, l)
    BY <2>5, <2>6, <2>7, <2>9, <1>1, <1>4, NextFits
  <2> QED
    BY <2>5, <2>10
<1> QED
  BY <1>6, <1>7

(* When only the abort is left, it fits.                                   *)
LEMMA AbortComes ==
  ASSUME NEW P, NEW K, NEW L \in Ledgers, Replaying(L, P, K),
         SaidAt(K, Decisions \ {"abort"}) \subseteq Seen(L),
         NEW p \in SaidAt(K, {"abort"}), p \notin Seen(L)
  PROVE  p[1] \in Lanes /\ Fits(L, P, K, p[1])
<1>1. Logs(P, K) /\ Balanced(L, P, K) /\ Sensible(P, K)
  BY DEF Replaying
<1>2. SaidAt(K, {"abort"}) = {p} /\ p[2] = Len(K[p[1]])
  BY <1>1 DEF Sensible
<1>3. Seen(L) \subseteq Places(Lengths(K))
  BY <1>1, SeenIsThere DEF Seen, Balanced, Ledgers
<1>4. p \in Places(Lengths(K)) /\ K[p[1]][p[2]] = "abort"
  BY DEF SaidAt
<1>5. ~L.aborted
  <2>1. \A q \in Seen(L) : K[q[1]][q[2]] # "abort"
    BY <1>2, <1>3 DEF SaidAt
  <2> QED
    BY <2>1, <1>1 DEF Balanced
<1>6. PICK l \in Lanes : l = p[1] /\ Answered(L, K, l)
  BY <1>1, <1>4, UnseenPlace
<1>7. PICK x, m, d : x = <<l, L.seen[l] + 1>> /\ m = P[l][L.seen[l] + 1]
                       /\ d = K[l][L.seen[l] + 1]
  OBVIOUS
<1>8. NextIs(L, P, K, l, x, m, d)
  BY <1>1, <1>6, <1>7, NextPlace
<1>9. x \in Places(Lengths(K)) /\ x \notin Seen(L) /\ d \in Decisions
        /\ d = K[x[1]][x[2]] /\ m \in Messages
        /\ TokensOf(m) \in Nat /\ L.total \in Nat
        /\ SumOf(Seen(L) \cup {x}, TokensAt(P)) = L.total + TokensOf(m)
  BY <1>8 DEF NextIs
<1>10. d = "abort" /\ x = p
  <2>1. d = "abort"
    <3>1. ASSUME d # "abort" PROVE x \in SaidAt(K, Decisions \ {"abort"})
      BY <3>1, <1>9 DEF SaidAt
    <3> QED
      BY <3>1, <1>9
  <2>2. x \in SaidAt(K, {"abort"})
    BY <2>1, <1>9 DEF SaidAt
  <2> QED
    BY <2>1, <2>2, <1>2
<1>11. Places(Lengths(K)) = Seen(L) \cup {x}
  <2>1. \A q \in Places(Lengths(K)) :
          q \in SaidAt(K, Decisions \ {"abort"})
            \/ q \in SaidAt(K, {"abort"})
    BY <1>1, LogsAre DEF SaidAt
  <2> QED
    BY <2>1, <1>2, <1>3, <1>9, <1>10
<1>12. FailedCase(m) /\ SumOf(Places(Lengths(K)), TokensAt(P)) >= MaxTokens
         => ReachesCeiling(L, m)
  BY <1>9, <1>11 DEF ReachesCeiling
<1>13. Fits(L, P, K, l)
  BY <1>1, <1>5, <1>6, <1>8, <1>10, <1>12, NextFits
<1> QED
  BY <1>6, <1>13

-----------------------------------------------------------------------------
(* What the steps do to messages, answers and ledger.                      *)

Moves ==
  \/ cpc' = cpc \/ cpc' \in {"cancel", "stop", "cleanup"}
  \/ cpc = "down" /\ cpc' = "open"
  \/ cpc = "open" /\ cpc' = "quiesce"
  \/ cpc \in Launched /\ cpc' \in Launched
Quiet == UNCHANGED <<prog, acks, led>> /\ Moves
Ends2 == UNCHANGED <<prog, acks>> /\ Over

(* A worker that writes no message changes no log and no ledger.           *)
LEMMA WorkerIsQuiet ==
  ASSUME NEW l \in Lanes, WorkerSteps(l), ~WriteProgress(l)
  PROVE  Quiet
<1> USE DEF Quiet, Moves, DiskKeeps, WorkerKeeps, memory
<1>1. CASE Boot(l)
  BY <1>1 DEF Boot
<1>2. CASE Pick(l)
  BY <1>2 DEF Pick
<1>3. CASE NothingLeft(l)
  BY <1>3 DEF NothingLeft
<1>4. CASE SealShard(l)
  BY <1>4 DEF SealShard
<1>5. CASE CaseSucceeds(l)
  BY <1>5 DEF CaseSucceeds, Finish
<1>6. CASE GoOn(l)
  BY <1>6 DEF GoOn
<1>7. CASE TryAgain(l)
  BY <1>7 DEF TryAgain
<1>8. CASE StopHere(l)
  BY <1>8 DEF StopHere
<1>9. CASE AfterShard(l)
  BY <1>9 DEF AfterShard
<1>10. CASE Exit(l)
  BY <1>10 DEF Exit
<1>11. CASE AckTimesOut(l)
  BY <1>11 DEF AckTimesOut
<1>12. CASE GivesUp(l)
  BY <1>12 DEF GivesUp
<1> QED
  BY <1>1, <1>2, <1>3, <1>4, <1>5, <1>6, <1>7, <1>8, <1>9, <1>10, <1>11,
     <1>12 DEF WorkerSteps

(* The steps that matter here, and all others.                             *)
LEMMA StepsOfLedger ==
  ASSUME Next
  PROVE  \/ \E l \in Lanes : WriteProgress(l) \/ Accept(l) \/ ReplayRecord(l)
         \/ Quiesce \/ OpenFresh \/ ReplayLaunches
         \/ Ends2 \/ Quiet
<1> USE DEF Quiet, Moves, Ends2, DiskKeeps, Enters, Launched, disk, workers,
            memory
<1>1. CASE \E l \in Lanes : WorkerSteps(l)
  BY <1>1, WorkerIsQuiet
<1>2. CASE CoordinatorSteps
  <2>1. CASE OpenForCleanup
    BY <2>1 DEF OpenForCleanup
  <2>2. CASE OpenResume
    BY <2>2 DEF OpenResume
  <2>3. CASE StopWorkers
    BY <2>3 DEF StopWorkers
  <2>4. CASE RefusesToGoOn
    BY <2>4 DEF RefusesToGoOn
  <2>5. CASE ReplayCleansUp
    BY <2>5 DEF ReplayCleansUp
  <2>6. CASE SeeExit
    BY <2>6 DEF SeeExit
  <2>7. CASE MarkStop
    BY <2>7 DEF MarkStop
  <2>8. CASE CleanUp
    BY <2>8 DEF CleanUp
  <2>9. CASE \E l \in Lanes : Spawn(l) \/ Register(l) \/ SeeDeath(l)
    BY <2>9 DEF Spawn, Register, SeeDeath
  <2>10. CASE \E l \in Lanes : \E c \in Cases(l) : Entomb(l, c)
    BY <2>10 DEF Entomb
  <2> QED
    BY <1>2, <2>1, <2>2, <2>3, <2>4, <2>5, <2>6, <2>7, <2>8, <2>9, <2>10
       DEF CoordinatorSteps
<1>3. CASE CoordinatorStarts
  BY <1>3 DEF CoordinatorStarts
<1>4. CASE Faults
  <2>1. CASE CoordinatorDies
    BY <2>1 DEF CoordinatorDies
  <2>2. CASE MachineDies
    BY <2>2 DEF MachineDies
  <2>3. CASE \E l \in Lanes : CaseFails(l)
    BY <2>3 DEF CaseFails, Finish
  <2>4. CASE \E l \in Lanes : AcceptFails(l)
    BY <2>4 DEF AcceptFails
  <2>5. CASE \E l \in Lanes : WorkerDies(l)
    BY <2>5 DEF WorkerDies
  <2> QED
    BY <1>4, <2>1, <2>2, <2>3, <2>4, <2>5 DEF Faults
<1> QED
  BY <1>1, <1>2, <1>3, <1>4 DEF Next

-----------------------------------------------------------------------------
(* The types stay.                                                         *)

(* A lane that is left alone keeps its type.                               *)
LEMMA WorkerAsBefore ==
  ASSUME NEW k, WorkerTypes(k), tried'[k] = tried[k], prog'[k] = prog[k],
         wpc'[k] = wpc[k], say'[k] = say[k]
  PROVE  WorkerTypes(k)'
BY DEF WorkerTypes, LastOf

(* Processes end.                                                          *)
LEMMA EndIsTyped ==
  ASSUME TypedLanes, NEW gone, NEW stage \in {"exited", "dead"},
         End(gone, stage), UNCHANGED <<tried, prog, acks>>
  PROVE  TypedLanes'
<1>1. wpc' \in [Lanes -> WorkerStages]
  BY DEF TypedLanes, End, WorkerStages, Dead
<1>2. say' \in [Lanes -> Kinds \cup {"none"}]
  BY DEF TypedLanes, End
<1>3. todo' \in [Lanes -> SUBSET Nat]
  BY DEF TypedLanes, End
<1>4. ASSUME NEW k \in Lanes PROVE WorkerTypes(k)'
  <2>1. CASE k \in gone
    <3>1. wpc'[k] = stage
      BY <2>1 DEF End
    <3> QED
      BY <3>1 DEF WorkerTypes
  <2>2. CASE k \notin gone
    <3>1. wpc'[k] = wpc[k] /\ say'[k] = say[k]
      BY <2>2 DEF End
    <3>2. WorkerTypes(k)
      BY DEF TypedLanes
    <3> QED
      BY <3>1, <3>2, WorkerAsBefore
  <2> QED
    BY <2>1, <2>2
<1> QED
  BY <1>1, <1>2, <1>3, <1>4 DEF TypedLanes

(* Worker l goes to a stage where it has something to say, or nothing.     *)
LEMMA LaneIsTyped ==
  ASSUME TypedLanes, NEW l \in Lanes,
         tried' \in [Lanes -> Seq(Attempt)],
         \A k \in Lanes : k # l => tried'[k] = tried[k],
         UNCHANGED <<prog, acks>>,
         NEW stage \in WorkerStages, NEW what \in Kinds \cup {"none"},
         wpc' = [wpc EXCEPT ![l] = stage], say' = [say EXCEPT ![l] = what],
         todo' \in [Lanes -> SUBSET Nat],
         stage # "wait",
         stage = "drive" \/ (stage = "write" /\ what \in OfCase) =>
           tried'[l] # << >>,
         stage = "write" => what \in Kinds,
         stage = "write" /\ what = "case-terminal" =>
           EndsWell(LastOf(tried[l])')
  PROVE  TypedLanes'
<1>1. /\ wpc' \in [Lanes -> WorkerStages]
      /\ say' \in [Lanes -> Kinds \cup {"none"}]
  BY DEF TypedLanes
<1>2. wpc'[l] = stage /\ say'[l] = what
        /\ \A k \in Lanes : k # l => wpc'[k] = wpc[k] /\ say'[k] = say[k]
  BY DEF TypedLanes
<1>3. ASSUME NEW k \in Lanes PROVE WorkerTypes(k)'
  <2>1. CASE k = l
    <3>1. wpc'[k] = stage /\ say'[k] = what /\ tried'[k] = tried'[l]
      BY <2>1, <1>2
    <3>2. stage = "write" /\ what = "case-terminal" =>
            EndsWell(LastOf(tried[k])')
      BY <2>1
    <3> QED
      BY <3>1, <3>2 DEF WorkerTypes, LastOf
  <2>2. CASE k # l
    <3>1. WorkerTypes(k) /\ tried'[k] = tried[k] /\ prog'[k] = prog[k]
            /\ wpc'[k] = wpc[k] /\ say'[k] = say[k]
      BY <2>2, <1>2 DEF TypedLanes
    <3> QED
      BY <3>1, WorkerAsBefore
  <2> QED
    BY <2>1, <2>2
<1> QED
  BY <1>1, <1>3 DEF TypedLanes

(* A sequence with one element more.                                       *)
LEMMA AppendIs ==
  ASSUME NEW S, NEW s \in Seq(S), NEW e \in S
  PROVE  /\ Append(s, e) \in Seq(S) /\ Append(s, e) # << >>
         /\ Len(Append(s, e)) = Len(s) + 1 /\ LastOf(Append(s, e)) = e
<1>1. Append(s, e) \in Seq(S) /\ Len(Append(s, e)) = Len(s) + 1
        /\ Len(s) \in Nat
  OBVIOUS
<1>2. Append(s, e)[Len(s) + 1] = e
  OBVIOUS
<1>3. Append(s, e) # << >>
  BY <1>1
<1> QED
  BY <1>1, <1>2, <1>3 DEF LastOf

(* The last element of a sequence that has one.                            *)
LEMMA LastIs ==
  ASSUME NEW S, NEW s \in Seq(S), s # << >>
  PROVE  LastOf(s) \in S /\ Len(s) \in Nat /\ Len(s) >= 1
<1>1. Len(s) \in Nat \ {0}
  BY EmptySeq
<1> QED
  BY <1>1 DEF LastOf

(* A retry is the answer to the end of a case.                             *)
LEMMA RetryIsOfCase ==
  ASSUME TypedLanes, Sensible(prog, acks), NEW l \in Lanes, HasAnswer(l),
         Answer(l) = "retry"
  PROVE  say[l] = "case-terminal" /\ tried[l] # << >>
<1>1. prog[l] # << >> /\ LastOf(prog[l]).kind = say[l] /\ wpc[l] = "wait"
        /\ Len(acks[l]) = Len(prog[l])
  BY DEF TypedLanes, WorkerTypes, HasAnswer
<1>2. PICK n \in Nat \ {0} : n = Len(prog[l])
  BY <1>1, EmptySeq DEF TypedLanes
<1>3. acks[l][n] = "retry" /\ n \in 1 .. Len(acks[l])
  BY <1>1, <1>2 DEF Answer, LastOf
<1>4. Forced(prog, acks, l, n)
  BY <1>3 DEF Sensible
<1>5. FailedCase(prog[l][n])
  BY <1>3, <1>4 DEF Forced
<1>6. say[l] = "case-terminal"
  BY <1>1, <1>2, <1>5 DEF FailedCase, LastOf
<1> QED
  BY <1>1, <1>6 DEF TypedLanes, WorkerTypes, OfCase

(* Worker l begins an attempt and announces it.                            *)
LEMMA BeginsTyped ==
  ASSUME TypedLanes, NEW l \in Lanes, NEW a \in Attempt,
         tried' = [tried EXCEPT ![l] = Append(@, a)],
         WillSay(l, "case-started"), UNCHANGED <<prog, acks>>,
         todo' \in [Lanes -> SUBSET Nat]
  PROVE  TypedLanes'
<1>1. tried' \in [Lanes -> Seq(Attempt)] /\ tried'[l] = Append(tried[l], a)
        /\ \A k \in Lanes : k # l => tried'[k] = tried[k]
  BY DEF TypedLanes
<1>2. tried'[l] # << >>
  <2>1. tried[l] \in Seq(Attempt)
    BY DEF TypedLanes
  <2>2. Append(tried[l], a) # << >>
    BY <2>1, AppendIs
  <2> QED
    BY <2>2, <1>1
<1>3. /\ wpc' = [wpc EXCEPT ![l] = "write"]
      /\ say' = [say EXCEPT ![l] = "case-started"]
  BY DEF WillSay, Goes
<1>4. "write" \in WorkerStages /\ "case-started" \in Kinds
  BY DEF WorkerStages, Kinds
<1> QED
  BY <1>1, <1>2, <1>3, <1>4, LaneIsTyped

(* Worker l says something that is not about a case.                       *)
LEMMA SaysTyped ==
  ASSUME TypedLanes, NEW l \in Lanes, NEW kind \in Kinds \ OfCase,
         WillSay(l, kind), UNCHANGED <<tried, prog, acks, todo>>
  PROVE  TypedLanes'
<1>1. tried' \in [Lanes -> Seq(Attempt)] /\ todo' \in [Lanes -> SUBSET Nat]
        /\ \A k \in Lanes : k # l => tried'[k] = tried[k]
  BY DEF TypedLanes
<1>2. wpc' = [wpc EXCEPT ![l] = "write"] /\ say' = [say EXCEPT ![l] = kind]
  BY DEF WillSay, Goes
<1>3. "write" \in WorkerStages /\ kind \notin OfCase /\ kind \in Kinds
        /\ kind # "case-terminal"
  BY DEF WorkerStages, OfCase
<1> QED
  BY <1>1, <1>2, <1>3, LaneIsTyped

(* Worker l comes to the end of its lane.                                  *)
LEMMA EndOfLaneTyped ==
  ASSUME TypedLanes, NEW l \in Lanes, EndOfLane(l),
         UNCHANGED <<tried, prog, acks, todo>>
  PROVE  TypedLanes'
<1>1. CASE WillSay(l, "worker-stopped")
  BY <1>1, SaysTyped DEF Kinds, OfCase
<1>2. CASE Goes(l, "seal") /\ say' = [say EXCEPT ![l] = "none"]
  <2>1. tried' \in [Lanes -> Seq(Attempt)] /\ todo' \in [Lanes -> SUBSET Nat]
          /\ \A k \in Lanes : k # l => tried'[k] = tried[k]
    BY DEF TypedLanes
  <2>2. wpc' = [wpc EXCEPT ![l] = "seal"] /\ say' = [say EXCEPT ![l] = "none"]
    BY <1>2 DEF Goes
  <2>3. "seal" \in WorkerStages
    BY DEF WorkerStages
  <2> QED
    BY <2>1, <2>2, <2>3, LaneIsTyped
<1> QED
  BY <1>1, <1>2 DEF EndOfLane

(* A case ends.                                                            *)
LEMMA FinishTyped ==
  ASSUME TypedLanes, NEW l \in Lanes, NEW end \in Ends \ {"open"}, NEW tokens,
         NEW proved \in BOOLEAN,
         tokens \in Usages \cup {0}, end # "success" => tokens = 0,
         Finish(l, end, tokens, proved)
  PROVE  TypedLanes'
<1>1. wpc[l] = "drive" /\ tried[l] \in Seq(Attempt) /\ tried[l] # << >>
  BY DEF Finish, TypedLanes, WorkerTypes
<1>2. LastOf(tried[l]) \in Attempt /\ Len(tried[l]) \in Nat
        /\ Len(tried[l]) >= 1
  BY <1>1, LastIs
<1>3. PICK n \in 1 .. Len(tried[l]) : n = Len(tried[l])
  BY <1>2
<1>4. PICK a : a = [LastOf(tried[l]) EXCEPT !.end = end, !.tokens = tokens,
                                            !.proved = proved]
  OBVIOUS
<1>5. a \in Attempt /\ EndsWell(a)
  <2>1. tokens \in Nat
    BY ProtocolConstants
  <2> QED
    BY <2>1, <1>2, <1>4 DEF Attempt, EndsWell
<1>6. tried'[l] = [tried[l] EXCEPT ![n] = a]
        /\ \A k \in Lanes : k # l => tried'[k] = tried[k]
  BY <1>3, <1>4 DEF Finish, TypedLanes, LastOf
<1>7. tried'[l] \in Seq(Attempt) /\ Len(tried'[l]) = Len(tried[l])
        /\ tried'[l][n] = a
  BY <1>1, <1>3, <1>5, <1>6, ExceptSeq
<1>8. tried' \in [Lanes -> Seq(Attempt)]
  <2>1. tried' = [tried EXCEPT ![l] = tried'[l]]
    BY <1>6 DEF Finish, TypedLanes
  <2> QED
    BY <2>1, <1>7 DEF TypedLanes
<1>9. tried'[l] # << >> /\ LastOf(tried[l])' = a
  BY <1>3, <1>7 DEF LastOf
<1>10. /\ wpc' = [wpc EXCEPT ![l] = "write"]
       /\ say' = [say EXCEPT ![l] = "case-terminal"]
       /\ UNCHANGED <<prog, acks, todo>>
  BY DEF Finish, WillSay, Goes
<1>11. "write" \in WorkerStages /\ "case-terminal" \in Kinds
         /\ todo' \in [Lanes -> SUBSET Nat]
  BY <1>10 DEF WorkerStages, Kinds, TypedLanes
<1> QED
  BY <1>5, <1>6, <1>8, <1>9, <1>10, <1>11, LaneIsTyped

(* What a worker says is a message.                                        *)
LEMMA SaysIs ==
  ASSUME TypedLanes, NEW l \in Lanes, wpc[l] = "write"
  PROVE  Says(l) \in Messages /\ Says(l).kind = say[l]
<1>1. say[l] \in Kinds /\ tried[l] \in Seq(Attempt)
        /\ (say[l] \in OfCase => tried[l] # << >>)
        /\ (say[l] = "case-terminal" => EndsWell(LastOf(tried[l])))
  BY DEF TypedLanes, WorkerTypes
<1>2. LastFailed(l) => tried[l] # << >>
  BY DEF LastFailed
<1>3. tried[l] # << >> => LastOf(tried[l]) \in Attempt
  BY <1>1, LastIs
<1>4. Says(l).kind = say[l]
  BY DEF Says
<1>5. CASE Says(l).attempt = << >> /\ say[l] \notin OfCase
  <2>1. Says(l) = [kind |-> say[l], attempt |-> << >>]
    BY <1>5 DEF Says
  <2> QED
    BY <2>1, <1>1, <1>4, <1>5 DEF Messages, Message, Sound, OfCase
<1>6. CASE Says(l).attempt = <<LastOf(tried[l])>> /\ tried[l] # << >>
  <2>1. Says(l) = [kind |-> say[l], attempt |-> <<LastOf(tried[l])>>]
    BY <1>6 DEF Says
  <2>2. <<LastOf(tried[l])>> \in Seq(Attempt)
          /\ Len(<<LastOf(tried[l])>>) = 1
          /\ <<LastOf(tried[l])>>[1] = LastOf(tried[l])
    BY <1>3, <1>6
  <2>3. Says(l) \in Message
    BY <2>1, <2>2, <1>1 DEF Message
  <2>4. Sound(Says(l))
    BY <2>1, <2>2, <1>1, <1>4 DEF Sound
  <2> QED
    BY <2>3, <2>4, <1>4 DEF Messages
<1> QED
  BY <1>1, <1>2, <1>5, <1>6 DEF Says, OfCase

(* A message is written.                                                   *)
LEMMA WriteTyped ==
  ASSUME TypedLanes, NEW l \in Lanes, WriteProgress(l)
  PROVE  TypedLanes'
<1>1. Says(l) \in Messages /\ Says(l).kind = say[l]
  BY SaysIs DEF WriteProgress
<1>2. PICK m \in Messages : m = Says(l) /\ m.kind = say[l]
  BY <1>1
<1>3. prog' = [prog EXCEPT ![l] = Append(@, m)]
        /\ wpc' = [wpc EXCEPT ![l] = "wait"]
        /\ UNCHANGED <<tried, acks, say, todo>>
        /\ wpc[l] = "write"
  BY <1>2 DEF WriteProgress, Goes
<1>4. prog' \in [Lanes -> Seq(Messages)] /\ prog'[l] = Append(prog[l], m)
        /\ \A k \in Lanes : k # l => prog'[k] = prog[k]
  BY <1>3 DEF TypedLanes
<1>5. prog'[l] # << >> /\ Len(prog'[l]) = Len(prog[l]) + 1
        /\ LastOf(prog[l])' = m
  <2>1. prog[l] \in Seq(Messages)
    BY DEF TypedLanes
  <2>2. Append(prog[l], m) # << >>
          /\ Len(Append(prog[l], m)) = Len(prog[l]) + 1
          /\ LastOf(Append(prog[l], m)) = m
    BY <2>1, AppendIs
  <2> QED
    BY <2>2, <1>4 DEF LastOf
<1>6. wpc' \in [Lanes -> WorkerStages] /\ wpc'[l] = "wait"
        /\ \A k \in Lanes : k # l => wpc'[k] = wpc[k]
  BY <1>3 DEF TypedLanes, WorkerStages
<1>7. ASSUME NEW k \in Lanes
      PROVE  Len(acks'[k]) <= Len(prog'[k]) /\ WorkerTypes(k)'
  <2>1. Len(acks[k]) <= Len(prog[k]) /\ WorkerTypes(k)
          /\ Len(acks[k]) \in Nat /\ Len(prog[k]) \in Nat
    BY DEF TypedLanes
  <2>2. CASE k = l
    <3>1. WorkerTypes(k)'
      BY <2>1, <2>2, <1>2, <1>3, <1>5, <1>6 DEF WorkerTypes
    <3> QED
      BY <3>1, <2>1, <2>2, <1>3, <1>5
  <2>3. CASE k # l
    BY <2>1, <2>3, <1>3, <1>4, <1>6, WorkerAsBefore
  <2> QED
    BY <2>2, <2>3
<1> QED
  BY <1>3, <1>4, <1>6, <1>7 DEF TypedLanes

(* No step of a worker breaks the types.                                   *)
LEMMA WorkerStaysTyped ==
  ASSUME TypedLanes, Sensible(prog, acks), NEW l \in Lanes, WorkerSteps(l)
  PROVE  TypedLanes'
<1>1. tried[l] \in Seq(Attempt) /\ todo[l] \in SUBSET Nat
        /\ say[l] \in Kinds \cup {"none"}
  BY DEF TypedLanes
<1>2. CASE Boot(l)
  <2>1. WillSay(l, "lane-ready") /\ UNCHANGED <<tried, prog, acks, todo>>
    BY <1>2 DEF Boot, DiskKeeps
  <2>2. "lane-ready" \in Kinds \ OfCase
    BY DEF Kinds, OfCase
  <2> QED
    BY <2>1, <2>2, SaysTyped
<1>3. CASE Pick(l)
  <2>1. PICK c \in todo[l] :
          /\ todo' = [todo EXCEPT ![l] = @ \ {c}]
          /\ tried' = [tried EXCEPT ![l] = Append(@,
               [case |-> c, try |-> 1, end |-> "open", tokens |-> 0,
                proved |-> FALSE])]
          /\ WillSay(l, "case-started") /\ UNCHANGED <<prog, acks>>
    BY <1>3 DEF Pick
  <2>2. todo' \in [Lanes -> SUBSET Nat]
    BY <2>1, <1>1 DEF TypedLanes
  <2>3. [case |-> c, try |-> 1, end |-> "open", tokens |-> 0,
         proved |-> FALSE] \in Attempt
    BY <1>1, <2>1 DEF Attempt, Ends
  <2> QED
    BY <2>1, <2>2, <2>3, BeginsTyped
<1>4. CASE NothingLeft(l)
  <2>1. EndOfLane(l) /\ UNCHANGED <<tried, prog, acks, todo>>
    BY <1>4 DEF NothingLeft, DiskKeeps
  <2> QED
    BY <2>1, EndOfLaneTyped
<1>5. CASE SealShard(l)
  <2>1. WillSay(l, "shard-terminal") /\ UNCHANGED <<tried, prog, acks, todo>>
    BY <1>5 DEF SealShard
  <2>2. "shard-terminal" \in Kinds \ OfCase
    BY DEF Kinds, OfCase
  <2> QED
    BY <2>1, <2>2, SaysTyped
<1>6. CASE CaseSucceeds(l)
  <2>1. PICK t \in Usages : Finish(l, "success", t, TRUE)
    BY <1>6 DEF CaseSucceeds
  <2>2. "success" \in Ends \ {"open"}
    BY DEF Ends
  <2> QED
    BY <2>1, <2>2, FinishTyped
<1>7. CASE WriteProgress(l)
  BY <1>7, WriteTyped
<1>8. CASE GoOn(l)
  <2>1. UNCHANGED <<tried, prog, acks>> /\ wpc[l] = "wait"
    BY <1>8 DEF GoOn, DiskKeeps, HasAnswer
  <2>2. CASE End({l}, "dead")
    BY <2>1, <2>2, EndIsTyped
  <2>3. ASSUME NEW stage, stage = IF say[l] = "case-started" THEN "drive"
                                  ELSE "pick",
               Goes(l, stage), UNCHANGED <<say, todo>>
        PROVE  TypedLanes'
    <3>1. stage \in WorkerStages /\ stage # "wait" /\ stage # "write"
      BY <2>3 DEF WorkerStages
    <3>2. /\ wpc' = [wpc EXCEPT ![l] = stage]
          /\ say' = [say EXCEPT ![l] = say[l]]
      BY <2>3 DEF Goes, TypedLanes
    <3>3. /\ tried' \in [Lanes -> Seq(Attempt)]
          /\ \A k \in Lanes : k # l => tried'[k] = tried[k]
          /\ todo' \in [Lanes -> SUBSET Nat] /\ UNCHANGED <<prog, acks>>
      BY <2>1, <2>3 DEF TypedLanes
    <3>4. stage = "drive" => tried'[l] # << >>
      BY <2>1, <2>3 DEF TypedLanes, WorkerTypes, OfCase
    <3> HIDE <2>3
    <3> QED
      BY <3>1, <3>2, <3>3, <3>4, <1>1, LaneIsTyped
  <2> QED
    BY <1>8, <2>2, <2>3 DEF GoOn
<1>9. CASE TryAgain(l)
  <2>1. /\ tried' = [tried EXCEPT ![l] = Append(@,
             [case |-> LastOf(@).case, try |-> 2, end |-> "open",
              tokens |-> 0, proved |-> FALSE])]
        /\ WillSay(l, "case-started") /\ UNCHANGED <<prog, acks, todo>>
    BY <1>9 DEF TryAgain
  <2>2. tried[l] # << >>
    BY <1>9, RetryIsOfCase DEF TryAgain
  <2>3. LastOf(tried[l]) \in Attempt
    BY <1>1, <2>2, LastIs
  <2>4. PICK a : a = [case |-> LastOf(tried[l]).case, try |-> 2,
                      end |-> "open", tokens |-> 0, proved |-> FALSE]
    OBVIOUS
  <2>5. a \in Attempt
    BY <2>3, <2>4 DEF Attempt, Ends
  <2>6. tried' = [tried EXCEPT ![l] = Append(@, a)]
    BY <2>1, <2>4
  <2>7. todo' \in [Lanes -> SUBSET Nat]
    BY <2>1 DEF TypedLanes
  <2> QED
    BY <2>1, <2>5, <2>6, <2>7, BeginsTyped
<1>10. CASE StopHere(l)
  <2>1. EndOfLane(l) /\ UNCHANGED <<tried, prog, acks, todo>>
    BY <1>10 DEF StopHere, DiskKeeps
  <2> QED
    BY <2>1, EndOfLaneTyped
<1>11. CASE AfterShard(l)
  <2>1. WillSay(l, "worker-stopped") /\ UNCHANGED <<tried, prog, acks, todo>>
    BY <1>11 DEF AfterShard, DiskKeeps
  <2>2. "worker-stopped" \in Kinds \ OfCase
    BY DEF Kinds, OfCase
  <2> QED
    BY <2>1, <2>2, SaysTyped
<1>12. CASE Exit(l)
  BY <1>12, EndIsTyped DEF Exit, DiskKeeps
<1>13. CASE AckTimesOut(l)
  BY <1>13, EndIsTyped DEF AckTimesOut, DiskKeeps
<1>14. CASE GivesUp(l)
  BY <1>14, EndIsTyped DEF GivesUp, DiskKeeps
<1> QED
  BY <1>2, <1>3, <1>4, <1>5, <1>6, <1>7, <1>8, <1>9, <1>10, <1>11, <1>12,
     <1>13, <1>14 DEF WorkerSteps

(* A worker is launched.                                                   *)
LEMMA SpawnTyped ==
  ASSUME TypedLanes, NEW l \in Lanes, Spawn(l)
  PROVE  TypedLanes'
<1>1. /\ wpc' = [wpc EXCEPT ![l] = "boot"]
      /\ todo' = [todo EXCEPT ![l] = Pending(l)]
      /\ UNCHANGED <<tried, prog, acks, say>>
  BY DEF Spawn, DiskKeeps
<1>2. Pending(l) \in SUBSET Nat
  <2>1. Plan[l] \in Nat
    BY ProtocolConstants DEF Lanes
  <2> QED
    BY <2>1 DEF Pending, Cases
<1>3. /\ tried' \in [Lanes -> Seq(Attempt)]
      /\ \A k \in Lanes : k # l => tried'[k] = tried[k]
      /\ todo' \in [Lanes -> SUBSET Nat]
      /\ say[l] \in Kinds \cup {"none"}
      /\ say' = [say EXCEPT ![l] = say[l]]
      /\ "boot" \in WorkerStages
  BY <1>1, <1>2 DEF TypedLanes, WorkerStages
<1> QED
  BY <1>1, <1>3, LaneIsTyped

(* The directories hold messages and decisions.                            *)
LEMMA TypedMeansLogs ==
  ASSUME Typed PROVE Logs(prog, acks) /\ led \in Ledgers /\ TypedLanes
BY DEF Typed, TypedLanes, Logs

-----------------------------------------------------------------------------
(* The ledger and the log stand after every step.                          *)

Stands == LedgerStands /\ LogStands

(* The same of the next state.                                             *)
LEMMA StandsNext ==
  Stands' <=>
    /\ cpc' \in {"down", "open", "quiesce"} => led' = Fresh
    /\ cpc' \in Launched \cup {"replay"} => Balanced(led', prog', acks')
    /\ cpc' \in Launched => ~led'.aborted /\ AllSeen(led', acks')
    /\ Sensible(prog', acks')
    /\ cpc' = "replay" => InOrder(led', acks')
BY DEF Stands, LedgerStands, LogStands, AllSeen

(* The coordinator answers.                                                *)
LEMMA AcceptStands ==
  ASSUME Typed, Stands, NEW l \in Lanes, Accept(l)
  PROVE  Typed' /\ Stands'
<1>1. Logs(prog, acks) /\ led \in Ledgers /\ TypedLanes
  BY TypedMeansLogs
<1>2. /\ cpc = "run" /\ Unseen(l)
      /\ UNCHANGED <<tried, prog, wpc, say, todo>>
  BY DEF Accept, Readable, workers
<1>3. Balanced(led, prog, acks) /\ ~led.aborted /\ AllSeen(led, acks)
        /\ Sensible(prog, acks)
  BY <1>2 DEF Stands, LedgerStands, LogStands, Launched, AllSeen
<1>4. Waits(prog, acks, l) /\ led.seen[l] = Len(acks[l])
  BY <1>2, <1>3 DEF Waits, Unseen, AllSeen
<1>5. PICK m, d : m = NextOf(l) /\ d = Decision(led, l, m)
  OBVIOUS
<1>6. m = prog[l][led.seen[l] + 1] /\ m = prog[l][Len(acks[l]) + 1]
  BY <1>4, <1>5 DEF NextOf
<1>7. /\ acks' = Answers(acks, l, d) /\ led' = Accepted(led, l, m)
      /\ cpc' = IF d = "abort" THEN "cancel"
                ELSE IF m.kind = "worker-stopped" THEN "exit" ELSE cpc
  BY <1>5 DEF Accept, Answers
<1>8. d \in Decisions /\ m \in Messages
  BY <1>1, <1>3, <1>4, <1>5, <1>6, DecisionFits
<1>9. Extended(prog, acks, l, d, acks', <<l, Len(acks[l]) + 1>>)
  BY <1>1, <1>4, <1>7, <1>8, AnswersAre
<1>10. Logs(prog, acks')
  BY <1>9 DEF Extended
<1>11. Sensible(prog, acks')
  BY <1>1, <1>3, <1>4, <1>5, <1>6, <1>7, SensibleDecides
<1>12. /\ \A k \in Lanes : Len(acks[k]) \in Nat
       /\ \A k \in Lanes : Len(acks'[k]) = IF k = l THEN Len(acks[l]) + 1
                                           ELSE Len(acks[k])
       /\ \A k \in Lanes : \A i \in 1 .. Len(acks[k]) :
            acks'[k][i] = acks[k][i]
       /\ acks'[l][Len(acks[l]) + 1] = d
  BY <1>1, <1>9, LogsAre DEF Extended
<1>13. Answered(led, acks', l) /\ SameSoFar(led, acks, acks')
         /\ acks'[l][led.seen[l] + 1] = d
  BY <1>3, <1>4, <1>12 DEF Answered, SameSoFar, AllSeen
<1>14. led' \in Ledgers /\ Balanced(led', prog, acks')
  BY <1>1, <1>3, <1>5, <1>6, <1>7, <1>10, <1>13, AcceptKeepsBalance
<1>15. /\ led'.aborted = (led.aborted \/ d = "abort")
       /\ led'.seen = [led.seen EXCEPT ![l] = @ + 1]
  <2>1. Becomes(led, l, m, d, led')
    BY <1>1, <1>5, <1>7, <1>8, AcceptedIs
  <2> QED
    BY <2>1 DEF Becomes
<1>16. AllSeen(led', acks')
  <2>1. led.seen \in [Lanes -> Nat]
    BY <1>1 DEF Ledgers
  <2> QED
    BY <2>1, <1>3, <1>12, <1>15 DEF AllSeen
<1>17. cpc' \in {"cancel", "exit", "run"} /\ (cpc' # "cancel" => d # "abort")
  BY <1>2, <1>7
<1>18. Stands'
  BY <1>2, <1>3, <1>11, <1>14, <1>15, <1>16, <1>17, StandsNext DEF Launched
<1>19. TypedLanes'
  <2>1. acks' \in [Lanes -> Seq(Decisions)]
          /\ \A k \in Lanes : Len(acks'[k]) <= Len(prog[k])
    BY <1>10 DEF Logs
  <2>2. ASSUME NEW k \in Lanes PROVE WorkerTypes(k)'
    <3>1. WorkerTypes(k)
      BY <1>1 DEF TypedLanes
    <3> QED
      BY <3>1, <1>2, WorkerAsBefore
  <2> QED
    BY <2>1, <2>2, <1>1, <1>2 DEF TypedLanes
<1> QED
  BY <1>14, <1>17, <1>18, <1>19 DEF Typed, Stages

(* A worker says something: nothing that was answered changes.             *)
LEMMA WriteAdds ==
  ASSUME Typed, NEW l \in Lanes, WriteProgress(l)
  PROVE  TypedLanes' /\ Logs(prog', acks) /\ SameAnswered(prog, prog', acks)
<1>1. Logs(prog, acks) /\ TypedLanes
  BY TypedMeansLogs
<1>2. /\ prog' = [prog EXCEPT ![l] = Append(@, Says(l))]
      /\ acks' = acks
  BY DEF WriteProgress
<1>3. TypedLanes'
  BY <1>1, WriteTyped
<1>4. Logs(prog', acks)
  BY <1>2, <1>3 DEF TypedLanes, Logs
<1>5. SameAnswered(prog, prog', acks)
  <2> SUFFICES ASSUME NEW k \in Lanes, NEW i \in 1 .. Len(acks[k])
               PROVE  prog'[k][i] = prog[k][i]
    BY DEF SameAnswered
  <2>1. prog[k] \in Seq(Messages) /\ Len(prog[k]) \in Nat
          /\ Len(acks[k]) \in Nat /\ Len(acks[k]) <= Len(prog[k])
    BY <1>1, LogsAre DEF Logs
  <2>2. CASE k = l
    <3>1. prog'[k] = Append(prog[k], Says(l))
      BY <2>2, <1>1, <1>2 DEF Logs
    <3>2. i \in 1 .. Len(prog[k])
      BY <2>1
    <3>3. Says(l) \in Messages
      BY <1>1, SaysIs DEF WriteProgress
    <3> QED
      BY <2>1, <3>1, <3>2, <3>3
  <2>3. CASE k # l
    BY <2>3, <1>1, <1>2 DEF Logs
  <2> QED
    BY <2>2, <2>3
<1> QED
  BY <1>3, <1>4, <1>5

(* That is why the ledger stays in balance.                                *)
LEMMA WriteStands ==
  ASSUME Typed, Stands, NEW l \in Lanes, WriteProgress(l)
  PROVE  Typed' /\ Stands'
<1>1. Logs(prog, acks) /\ led \in Ledgers
  BY TypedMeansLogs
<1>2. UNCHANGED <<acks, led, cpc>>
  BY DEF WriteProgress, WorkerKeeps, memory
<1>3. TypedLanes' /\ Logs(prog', acks) /\ SameAnswered(prog, prog', acks)
  BY WriteAdds
<1>4. Sensible(prog', acks)
  BY <1>1, <1>3, SensibleStill DEF Stands, LogStands
<1>5. cpc \in Launched \cup {"replay"} => Balanced(led, prog', acks)
  BY <1>1, <1>3, BalancedStill DEF Stands, LedgerStands
<1>6. Stands'
  BY <1>2, <1>4, <1>5, StandsNext DEF Stands, LedgerStands, LogStands, AllSeen
<1> QED
  BY <1>2, <1>3, <1>6 DEF Typed

(* A ledger that has seen nothing.                                         *)
LEMMA FreshIsBalanced ==
  ASSUME NEW P, NEW K, Logs(P, K)
  PROVE  Fresh \in Ledgers /\ Balanced(Fresh, P, K) /\ InOrder(Fresh, K)
<1>1. /\ Fresh \in Ledgers /\ Fresh.total = 0 /\ Fresh.stop = (MaxTokens = 0)
      /\ Fresh.aborted = FALSE /\ Fresh.done = {}
      /\ \A l \in Lanes : /\ Fresh.seen[l] = 0 /\ Fresh.active[l] = {}
                          /\ Fresh.retry[l] = {}
  BY DEF Fresh, Ledgers
<1>2. Seen(Fresh) = {}
  <2>1. \A l \in Lanes : {<<l, i>> : i \in 1 .. Fresh.seen[l]} = {}
    BY <1>1
  <2> QED
    BY <2>1 DEF Seen, Places
<1>3. SumOf(Seen(Fresh), TokensAt(P)) = 0
  BY <1>2, SumOfNothing
<1>4. NamesIn(P, Seen(Fresh)) = {}
  BY <1>2 DEF NamesIn
<1>5. \A l \in Lanes : /\ ActiveAfter(P, K, l, 0) = {}
                       /\ RetryAfter(P, K, l, 0) = {}
  BY DEF ActiveAfter, RetryAfter
<1>6. \A l \in Lanes : Fresh.seen[l] <= Len(K[l])
  BY <1>1, LogsAre
<1>7. Fresh.stop <=> Fresh.total >= MaxTokens
  <2>1. Fresh.total = 0 /\ Fresh.stop = (MaxTokens = 0)
    BY <1>1
  <2>2. MaxTokens \in Nat
    BY ProtocolConstants
  <2>3. MaxTokens = 0 <=> 0 >= MaxTokens
    BY <2>2
  <2> QED
    BY <2>1, <2>3
<1>8. Balanced(Fresh, P, K)
  BY <1>1, <1>2, <1>3, <1>4, <1>5, <1>6, <1>7 DEF Balanced
<1>9. InOrder(Fresh, K)
  BY <1>2 DEF InOrder
<1> QED
  BY <1>1, <1>8, <1>9

(* What comes first of what fits keeps the order of the replay.            *)
LEMMA FirstKeepsOrder ==
  ASSUME NEW P, NEW K, NEW L \in Ledgers, Replaying(L, P, K),
         NEW l \in Lanes, Fits(L, P, K, l),
         \A k \in Lanes : Fits(L, P, K, k) =>
           Priority(K[l][L.seen[l] + 1]) <= Priority(K[k][L.seen[k] + 1]),
         NEW R, Seen(R) = Seen(L) \cup {<<l, L.seen[l] + 1>>}
  PROVE  InOrder(R, K)
<1>1. Logs(P, K) /\ Balanced(L, P, K) /\ Sensible(P, K) /\ InOrder(L, K)
  BY DEF Replaying
<1>2. PICK x, m, d : x = <<l, L.seen[l] + 1>> /\ m = P[l][L.seen[l] + 1]
                       /\ d = K[l][L.seen[l] + 1]
  OBVIOUS
<1>3. NextIs(L, P, K, l, x, m, d)
  BY <1>1, <1>2, NextPlace DEF Fits
<1>4. x \in Places(Lengths(K)) /\ d \in Decisions /\ d = K[x[1]][x[2]]
        /\ Seen(R) = Seen(L) \cup {x}
  BY <1>2, <1>3 DEF NextIs
<1>5. \A e : Priority(e) = IF e \in Going THEN 0
                           ELSE IF e = "stop-launches" THEN 1 ELSE 2
  BY DEF Priority, Going
<1>6. ASSUME NEW k \in Lanes, Fits(L, P, K, k)
      PROVE  Priority(d) <= Priority(K[k][L.seen[k] + 1])
  BY <1>2, <1>6
<1>7. ASSUME NEW p \in SaidAt(K, Going), p \notin Seen(L)
      PROVE  d \in Going
  <2>1. p[1] \in Lanes /\ Fits(L, P, K, p[1])
          /\ K[p[1]][L.seen[p[1]] + 1] \in Going
    BY <1>7, GoingComes
  <2>2. Priority(d) <= 0
    BY <2>1, <1>5, <1>6
  <2> QED
    BY <2>2, <1>5
<1>8. ASSUME NEW p \in SaidAt(K, Decisions \ {"abort"}), p \notin Seen(L)
      PROVE  d # "abort"
  <2>1. CASE SaidAt(K, Going) \subseteq Seen(L)
    <3>1. p \in SaidAt(K, {"stop-launches"})
      BY <1>8, <2>1 DEF SaidAt, Going, Decisions
    <3>2. PICK k \in Lanes : /\ Fits(L, P, K, k)
                             /\ K[k][L.seen[k] + 1] = "stop-launches"
      BY <2>1, <3>1, <1>8, StopComes
    <3>3. Priority(d) <= 1
      BY <3>2, <1>5, <1>6 DEF Going
    <3> QED
      BY <3>3, <1>5 DEF Going
  <2>2. CASE ~(SaidAt(K, Going) \subseteq Seen(L))
    BY <2>2, <1>7 DEF Going
  <2> QED
    BY <2>1, <2>2
<1>9. SaidAt(K, Going) \subseteq Seen(R) \/ Seen(R) \subseteq SaidAt(K, Going)
  <2>1. CASE SaidAt(K, Going) \subseteq Seen(L)
    BY <2>1, <1>4
  <2>2. CASE ~(SaidAt(K, Going) \subseteq Seen(L))
    <3>1. d \in Going
      BY <2>2, <1>7
    <3>2. x \in SaidAt(K, Going)
      BY <3>1, <1>4 DEF SaidAt
    <3>3. Seen(L) \subseteq SaidAt(K, Going)
      BY <2>2, <1>1 DEF InOrder
    <3> QED
      BY <3>2, <3>3, <1>4
  <2> QED
    BY <2>1, <2>2
<1>10. SaidAt(K, Decisions \ {"abort"}) \subseteq Seen(R)
         \/ Seen(R) \cap SaidAt(K, {"abort"}) = {}
  <2>1. CASE SaidAt(K, Decisions \ {"abort"}) \subseteq Seen(L)
    BY <2>1, <1>4
  <2>2. CASE ~(SaidAt(K, Decisions \ {"abort"}) \subseteq Seen(L))
    <3>1. d # "abort"
      BY <2>2, <1>8
    <3>2. x \notin SaidAt(K, {"abort"})
      BY <3>1, <1>4 DEF SaidAt
    <3>3. Seen(L) \cap SaidAt(K, {"abort"}) = {}
      BY <2>2, <1>1 DEF InOrder
    <3> QED
      BY <3>2, <3>3, <1>4
  <2> QED
    BY <2>1, <2>2
<1> QED
  BY <1>9, <1>10 DEF InOrder

(* When every message has its answer, what is replayable is what fits.     *)
LEMMA ReplayableIs ==
  ASSUME Complete, NEW l \in Lanes
  PROVE  Replayable(l) <=> Fits(led, prog, acks, l)
BY DEF Complete, Replayable, Unseen, NextOf, Fits, Answered

(* A resume replays a message.                                             *)
LEMMA ReplayStands ==
  ASSUME Typed, Stands, NEW l \in Lanes, ReplayRecord(l)
  PROVE  Typed' /\ Stands'
<1>1. Logs(prog, acks) /\ led \in Ledgers /\ TypedLanes
  BY TypedMeansLogs
<1>2. /\ cpc = "replay" /\ Complete /\ Replayable(l) /\ ComesFirst(l)
      /\ led' = Accepted(led, l, NextOf(l))
      /\ UNCHANGED <<tried, prog, acks, wpc, say, todo, cpc>>
  BY DEF ReplayRecord, disk, workers
<1>3. Replaying(led, prog, acks)
  BY <1>1, <1>2 DEF Stands, LedgerStands, LogStands, Replaying
<1>4. Balanced(led, prog, acks) /\ Sensible(prog, acks)
  BY <1>3 DEF Replaying
<1>5. Fits(led, prog, acks, l)
  BY <1>2, ReplayableIs
<1>6. PICK m, d : m = prog[l][led.seen[l] + 1] /\ d = acks[l][led.seen[l] + 1]
  OBVIOUS
<1>7. Answered(led, acks, l) /\ d = Decision(led, l, m)
        /\ led' = Accepted(led, l, m)
  BY <1>2, <1>5, <1>6 DEF Fits, NextOf
<1>8. SameSoFar(led, acks, acks)
  BY <1>4 DEF SameSoFar, Balanced
<1>9. led' \in Ledgers /\ Balanced(led', prog, acks)
  BY <1>1, <1>4, <1>6, <1>7, <1>8, AcceptKeepsBalance
<1>10. Seen(led') = Seen(led) \cup {<<l, led.seen[l] + 1>>}
  <2>1. m \in Messages
    BY <1>1, <1>4, <1>6, <1>7, NextPlace DEF NextIs
  <2>2. Becomes(led, l, m, d, led')
    BY <2>1, <1>1, <1>7, AcceptedIs
  <2>3. led'.seen = [led.seen EXCEPT ![l] = @ + 1]
    BY <2>2 DEF Becomes
  <2>4. led.seen \in [Lanes -> Nat]
    BY <1>1 DEF Ledgers
  <2> QED
    BY <2>3, <2>4, OnePlaceMore DEF Seen
<1>11. \A k \in Lanes : Fits(led, prog, acks, k) =>
         Priority(acks[l][led.seen[l] + 1])
           <= Priority(acks[k][led.seen[k] + 1])
  <2> SUFFICES ASSUME NEW k \in Lanes, Fits(led, prog, acks, k)
               PROVE  Priority(acks[l][led.seen[l] + 1])
                        <= Priority(acks[k][led.seen[k] + 1])
    OBVIOUS
  <2>1. PICK p, q : p = Priority(acks[l][led.seen[l] + 1])
                      /\ q = Priority(acks[k][led.seen[k] + 1])
    OBVIOUS
  <2>2. p < q \/ p = q
    BY <2>1, <1>2, ReplayableIs DEF ComesFirst
  <2>3. p \in Nat /\ q \in Nat
    BY <2>1 DEF Priority
  <2>4. p <= q
    BY <2>2, <2>3
  <2> QED
    BY <2>1, <2>4
<1>12. InOrder(led', acks)
  BY <1>1, <1>3, <1>5, <1>10, <1>11, FirstKeepsOrder
<1>13. Stands'
  BY <1>2, <1>4, <1>9, <1>12, StandsNext DEF Launched
<1>14. TypedLanes'
  BY <1>1, <1>2, WorkerAsBefore DEF TypedLanes
<1> QED
  BY <1>1, <1>2, <1>9, <1>13, <1>14 DEF Typed

(* Only what is alive does something of its own accord.                    *)
LEMMA OnlyTheLivingAct ==
  ASSUME NEW l \in Lanes, WorkerSteps(l) \/ CaseFails(l) \/ WorkerDies(l)
  PROVE  Alive(l) /\ UNCHANGED <<cpc, armed>>
<1> USE DEF Alive, Dead, WorkerKeeps, memory, HasAnswer
<1>1. CASE Boot(l)
  BY <1>1 DEF Boot
<1>2. CASE Pick(l)
  BY <1>2 DEF Pick
<1>3. CASE NothingLeft(l)
  BY <1>3 DEF NothingLeft
<1>4. CASE SealShard(l)
  BY <1>4 DEF SealShard
<1>5. CASE CaseSucceeds(l)
  BY <1>5 DEF CaseSucceeds, Finish
<1>6. CASE WriteProgress(l)
  BY <1>6 DEF WriteProgress
<1>7. CASE GoOn(l)
  BY <1>7 DEF GoOn
<1>8. CASE TryAgain(l)
  BY <1>8 DEF TryAgain
<1>9. CASE StopHere(l)
  BY <1>9 DEF StopHere
<1>10. CASE AfterShard(l)
  BY <1>10 DEF AfterShard
<1>11. CASE Exit(l)
  BY <1>11 DEF Exit
<1>12. CASE AckTimesOut(l)
  BY <1>12 DEF AckTimesOut
<1>13. CASE GivesUp(l)
  BY <1>13 DEF GivesUp
<1>14. CASE CaseFails(l)
  BY <1>14 DEF CaseFails, Finish
<1>15. CASE WorkerDies(l)
  BY <1>15 DEF WorkerDies
<1> QED
  BY <1>1, <1>2, <1>3, <1>4, <1>5, <1>6, <1>7, <1>8, <1>9, <1>10, <1>11,
     <1>12, <1>13, <1>14, <1>15 DEF WorkerSteps

(* The lanes keep their types.                                             *)
LEMMA LanesStayTyped ==
  ASSUME Typed, Stands, Next
  PROVE  TypedLanes'
<1>1. TypedLanes /\ Sensible(prog, acks)
  BY DEF Typed, Stands, LogStands
<1>2. ASSUME UNCHANGED <<tried, prog, acks, wpc, say, todo>>
      PROVE  TypedLanes'
  BY <1>1, <1>2, WorkerAsBefore DEF TypedLanes
<1>3. CASE \E l \in Lanes : WorkerSteps(l)
  BY <1>1, <1>3, WorkerStaysTyped
<1>4. CASE CoordinatorSteps
  <2> USE DEF DiskKeeps, disk, workers
  <2>1. CASE OpenForCleanup \/ OpenFresh \/ OpenResume
    BY <2>1, <1>2 DEF OpenForCleanup, OpenFresh, OpenResume
  <2>2. CASE Quiesce \/ StopWorkers
    BY <2>2, <1>1, EndIsTyped DEF Quiesce, StopWorkers, KillRecorded
  <2>3. CASE RefusesToGoOn \/ ReplayLaunches \/ ReplayCleansUp
    BY <2>3, <1>2 DEF RefusesToGoOn, ReplayLaunches, ReplayCleansUp
  <2>4. CASE SeeExit \/ MarkStop \/ CleanUp
    BY <2>4, <1>2 DEF SeeExit, MarkStop, CleanUp
  <2>5. CASE \E l \in Lanes : ReplayRecord(l)
    BY <2>5, <1>2 DEF ReplayRecord
  <2>6. CASE \E l \in Lanes : Spawn(l)
    BY <2>6, <1>1, SpawnTyped
  <2>7. CASE \E l \in Lanes : Register(l) \/ SeeDeath(l)
    BY <2>7, <1>2 DEF Register, SeeDeath
  <2>8. CASE \E l \in Lanes : Accept(l)
    BY <2>8, AcceptStands DEF Typed
  <2>9. CASE \E l \in Lanes : \E c \in Cases(l) : Entomb(l, c)
    BY <2>9, <1>2 DEF Entomb
  <2> QED
    BY <1>4, <2>1, <2>2, <2>3, <2>4, <2>5, <2>6, <2>7, <2>8, <2>9
       DEF CoordinatorSteps
<1>5. CASE CoordinatorStarts
  BY <1>5, <1>2 DEF CoordinatorStarts, disk, workers
<1>6. CASE Faults
  <2> USE DEF DiskKeeps, disk, workers
  <2>1. CASE CoordinatorDies
    BY <2>1, <1>2 DEF CoordinatorDies
  <2>2. CASE MachineDies
    BY <2>2, <1>1, EndIsTyped DEF MachineDies
  <2>3. CASE \E l \in Lanes : CaseFails(l)
    <3>1. PICK l \in Lanes, end \in {"retryable", "failed"},
               proved \in BOOLEAN : Finish(l, end, 0, proved)
      BY <2>3 DEF CaseFails
    <3>2. end \in Ends \ {"open"} /\ 0 \in Usages \cup {0}
      BY DEF Ends
    <3> QED
      BY <3>1, <3>2, <1>1, FinishTyped
  <2>4. CASE \E l \in Lanes : AcceptFails(l)
    BY <2>4, <1>2 DEF AcceptFails
  <2>5. CASE \E l \in Lanes : WorkerDies(l)
    BY <2>5, <1>1, EndIsTyped DEF WorkerDies
  <2> QED
    BY <1>6, <2>1, <2>2, <2>3, <2>4, <2>5 DEF Faults
<1> QED
  BY <1>3, <1>4, <1>5, <1>6 DEF Next

(* So do the ledger and the log of decisions.                              *)
LEMMA LedgerStays ==
  ASSUME Typed, Pristine, Stands, Next
  PROVE  Typed' /\ Stands'
<1>1. Logs(prog, acks) /\ led \in Ledgers /\ TypedLanes /\ cpc \in Stages
  BY TypedMeansLogs DEF Typed
<1>2. TypedLanes'
  BY LanesStayTyped
<1>3. Sensible(prog, acks)
  BY DEF Stands, LogStands
<1>4. Fresh \in Ledgers /\ Balanced(Fresh, prog, acks)
        /\ InOrder(Fresh, acks)
  BY <1>1, FreshIsBalanced
<1>5. CASE \E l \in Lanes : WriteProgress(l) \/ Accept(l) \/ ReplayRecord(l)
  BY <1>5, WriteStands, AcceptStands, ReplayStands
<1>6. CASE Quiesce
  <2>1. cpc = "quiesce" /\ cpc' = "replay" /\ UNCHANGED <<prog, acks, led>>
    BY <1>6 DEF Quiesce, Enters, DiskKeeps
  <2>2. led = Fresh
    BY <2>1 DEF Stands, LedgerStands
  <2>3. Stands'
    BY <2>1, <2>2, <1>3, <1>4, StandsNext DEF Launched
  <2> QED
    BY <2>1, <2>3, <1>1, <1>2 DEF Typed, Stages
<1>7. CASE OpenFresh
  <2>1. cpc = "open" /\ cpc' = "launch" /\ UNCHANGED <<prog, acks, led>>
          /\ armed = "none"
    BY <1>7 DEF OpenFresh, CleanupOnly, Enters, DiskKeeps
  <2>2. led = Fresh
    BY <2>1 DEF Stands, LedgerStands
  <2>3. ~Fresh.aborted /\ \A l \in Lanes : Fresh.seen[l] = 0
    BY DEF Fresh
  <2>4. \A l \in Lanes : Len(acks[l]) = 0
    <3> SUFFICES ASSUME NEW l \in Lanes PROVE Len(acks[l]) = 0
      OBVIOUS
    <3>1. prog[l] = << >>
      BY <2>1 DEF Pristine
    <3>2. Len(acks[l]) \in Nat /\ Len(acks[l]) <= Len(prog[l])
      BY <1>1, LogsAre DEF Logs
    <3> QED
      BY <3>1, <3>2
  <2>5. AllSeen(led', acks')
    BY <2>1, <2>2, <2>3, <2>4 DEF AllSeen
  <2>6. Stands'
    BY <2>1, <2>2, <2>3, <2>5, <1>3, <1>4, StandsNext DEF Launched
  <2> QED
    BY <2>1, <2>6, <1>1, <1>2 DEF Typed, Stages
<1>8. CASE ReplayLaunches
  <2>1. cpc = "replay" /\ MayLaunch /\ cpc' = "launch"
          /\ UNCHANGED <<prog, acks, led>>
    BY <1>8 DEF ReplayLaunches, Enters, disk
  <2>2. Balanced(led, prog, acks)
    BY <2>1 DEF Stands, LedgerStands
  <2>3. AllSeen(led, acks)
    <3> SUFFICES ASSUME NEW l \in Lanes PROVE led.seen[l] = Len(acks[l])
      BY DEF AllSeen
    <3>1. ~(led.seen[l] < Len(acks[l]))
      BY <2>1 DEF MayLaunch, Replayed, Complete, Unseen
    <3>2. led.seen[l] <= Len(acks[l])
      BY <2>2 DEF Balanced
    <3>3. led.seen[l] \in Nat /\ Len(acks[l]) \in Nat
      BY <1>1, LogsAre DEF Ledgers
    <3> QED
      BY <3>1, <3>2, <3>3
  <2>4. ~led.aborted
    BY <2>1 DEF MayLaunch, RequiresCleanup
  <2>5. AllSeen(led', acks')
    BY <2>1, <2>3 DEF AllSeen
  <2>6. Stands'
    BY <2>1, <2>2, <2>4, <2>5, <1>3, StandsNext DEF Launched
  <2> QED
    BY <2>1, <2>6, <1>1, <1>2 DEF Typed, Stages
<1>9. CASE Ends2
  <2>1. cpc' = "down" /\ led' = Fresh /\ UNCHANGED <<prog, acks>>
    BY <1>9 DEF Ends2, Over
  <2>2. Stands'
    BY <2>1, <1>3, StandsNext DEF Launched
  <2> QED
    BY <2>1, <2>2, <1>2, <1>4 DEF Typed, Stages
<1>10. CASE Quiet
  <2>1. Moves /\ UNCHANGED <<prog, acks, led>>
    BY <1>10 DEF Quiet
  <2>2. cpc' \in Stages
    BY <2>1, <1>1 DEF Moves, Stages, Launched
  <2>3. cpc' \in {"down", "open", "quiesce"} => led = Fresh
    BY <2>1 DEF Moves, Launched, Stands, LedgerStands
  <2>4. cpc' \in Launched \cup {"replay"} => cpc \in Launched \cup {"replay"}
          /\ (cpc' \in Launched => cpc \in Launched)
          /\ (cpc' = "replay" => cpc = "replay")
    BY <2>1 DEF Moves, Launched
  <2>5. Stands'
    BY <2>1, <2>3, <2>4, <1>3, StandsNext
       DEF Stands, LedgerStands, LogStands, AllSeen, Launched
  <2> QED
    BY <2>1, <2>2, <2>5, <1>1, <1>2 DEF Typed
<1> QED
  BY <1>5, <1>6, <1>7, <1>8, <1>9, <1>10, StepsOfLedger

(* No one is alive when the recorded groups are killed and all that lives  *)
(* is recorded.                                                            *)
LEMMA KilledAll ==
  ASSUME ~Unrecorded, KillRecorded
  PROVE  \A l \in Lanes : wpc'[l] \in Dead
<1> SUFFICES ASSUME NEW l \in Lanes PROVE wpc'[l] \in Dead
  OBVIOUS
<1>1. wpc'[l] = IF l \in Living /\ group[l] THEN "dead" ELSE wpc[l]
  BY DEF KillRecorded, End
<1> QED
  BY <1>1 DEF Unrecorded, Living, Alive, Dead

(* Where cleanup is quiet it stays quiet.                                  *)
LEMMA QuietStays ==
  ASSUME CleanupIsQuiet, Next
  PROVE  CleanupIsQuiet'
<1> SUFFICES ASSUME cpc' \in {"replay", "cleanup"}
             PROVE  \A l \in Lanes : wpc'[l] \in Dead
  BY DEF CleanupIsQuiet, Alive
<1>1. ASSUME UNCHANGED wpc, cpc \in {"replay", "cleanup"}
      PROVE  \A l \in Lanes : wpc'[l] \in Dead
  BY <1>1 DEF CleanupIsQuiet, Alive
<1>2. CASE \E l \in Lanes : WorkerSteps(l) \/ CaseFails(l) \/ WorkerDies(l)
  BY <1>2, OnlyTheLivingAct DEF CleanupIsQuiet
<1>3. CASE CoordinatorSteps
  <2> USE DEF Enters, Over, disk, workers
  <2>1. CASE OpenForCleanup \/ OpenFresh \/ OpenResume
    BY <2>1 DEF OpenForCleanup, OpenFresh, OpenResume
  <2>2. CASE Quiesce \/ StopWorkers
    BY <2>2, KilledAll DEF Quiesce, StopWorkers
  <2>3. CASE RefusesToGoOn \/ ReplayLaunches \/ ReplayCleansUp
    BY <2>3, <1>1 DEF RefusesToGoOn, ReplayLaunches, ReplayCleansUp
  <2>4. CASE SeeExit \/ MarkStop \/ CleanUp
    BY <2>4 DEF SeeExit, MarkStop, CleanUp
  <2>5. CASE \E l \in Lanes : ReplayRecord(l)
    BY <2>5, <1>1 DEF ReplayRecord
  <2>6. CASE \E l \in Lanes : Spawn(l) \/ Register(l) \/ SeeDeath(l)
    BY <2>6 DEF Spawn, Register, SeeDeath
  <2>7. CASE \E l \in Lanes : Accept(l)
    BY <2>7 DEF Accept, Readable
  <2>8. CASE \E l \in Lanes : \E c \in Cases(l) : Entomb(l, c)
    BY <2>8, <1>1 DEF Entomb, memory
  <2> QED
    BY <1>3, <2>1, <2>2, <2>3, <2>4, <2>5, <2>6, <2>7, <2>8
       DEF CoordinatorSteps
<1>4. CASE CoordinatorStarts
  BY <1>4 DEF CoordinatorStarts
<1>5. CASE CoordinatorDies \/ MachineDies
  BY <1>5 DEF CoordinatorDies, MachineDies, Over
<1>6. CASE \E l \in Lanes : AcceptFails(l)
  BY <1>6 DEF AcceptFails, Enters
<1> QED
  BY <1>2, <1>3, <1>4, <1>5, <1>6 DEF Next, Faults

(* Nothing is said before the credentials are armed.                       *)
LEMMA PristineStays ==
  ASSUME Typed, Pristine, Next
  PROVE  Pristine'
<1> SUFFICES ASSUME armed' = "none"
             PROVE  /\ cpc' \in {"down", "open", "stop", "cleanup"}
                    /\ \A l \in Lanes : /\ prog'[l] = << >>
                                       /\ tried'[l] = << >>
                                       /\ wpc'[l] = "none"
  BY DEF Pristine
<1>1. ASSUME armed = "none"
      PROVE  /\ cpc \in {"down", "open", "stop", "cleanup"}
             /\ \A l \in Lanes : /\ prog[l] = << >> /\ tried[l] = << >>
                                /\ wpc[l] = "none"
             /\ Living = {}
  BY <1>1 DEF Pristine, Living, Alive, Dead
<1>2. ASSUME UNCHANGED <<prog, tried, wpc>>, armed = "none",
             cpc' \in {"down", "open", "stop", "cleanup"}
      PROVE  Pristine'
  BY <1>1, <1>2 DEF Pristine
<1>3. ASSUME NEW gone, gone \subseteq Living, End(gone, "dead"),
             armed = "none", UNCHANGED <<prog, tried>>,
             cpc' \in {"down", "open", "stop", "cleanup"}
      PROVE  Pristine'
  <2>1. gone = {}
    BY <1>1, <1>3
  <2>2. \A l \in Lanes : wpc'[l] = wpc[l]
    BY <1>3, <2>1 DEF End
  <2> QED
    BY <2>2, <1>1, <1>3 DEF Pristine
<1>4. CASE \E l \in Lanes : WorkerSteps(l) \/ CaseFails(l) \/ WorkerDies(l)
  BY <1>4, <1>1, OnlyTheLivingAct DEF Alive, Dead
<1>5. CASE CoordinatorSteps
  <2> USE DEF Enters, Over, disk, workers, DiskKeeps
  <2>1. CASE OpenForCleanup
    BY <2>1, <1>2 DEF OpenForCleanup, Pristine
  <2>2. CASE OpenFresh \/ OpenResume
    BY <2>2 DEF OpenFresh, OpenResume
  <2>3. CASE Quiesce
    BY <2>3 DEF Quiesce
  <2>4. CASE StopWorkers
    <3>1. armed = "none" /\ cpc' = "cleanup" /\ UNCHANGED <<prog, tried>>
            /\ End({l \in Living : group[l]}, "dead")
      BY <2>4 DEF StopWorkers, KillRecorded
    <3> QED
      BY <3>1, <1>3 DEF Pristine
  <2>5. CASE RefusesToGoOn
    BY <2>5, <1>2 DEF RefusesToGoOn, Pristine
  <2>6. CASE ReplayLaunches \/ ReplayCleansUp
    BY <2>6, <1>1 DEF ReplayLaunches, ReplayCleansUp
  <2>7. CASE SeeExit \/ MarkStop
    BY <2>7, <1>1 DEF SeeExit, MarkStop
  <2>8. CASE CleanUp
    BY <2>8, <1>2 DEF CleanUp, Pristine
  <2>9. CASE \E l \in Lanes : ReplayRecord(l) \/ Spawn(l) \/ Register(l)
    BY <2>9, <1>1 DEF ReplayRecord, Spawn, Register
  <2>10. CASE \E l \in Lanes : Accept(l) \/ SeeDeath(l)
    BY <2>10, <1>1 DEF Accept, Readable, SeeDeath
  <2>11. CASE \E l \in Lanes : \E c \in Cases(l) : Entomb(l, c)
    BY <2>11, <1>2 DEF Entomb, memory, Pristine
  <2> QED
    BY <1>5, <2>1, <2>2, <2>3, <2>4, <2>5, <2>6, <2>7, <2>8, <2>9, <2>10,
       <2>11
       DEF CoordinatorSteps
<1>6. CASE CoordinatorStarts
  BY <1>6, <1>2 DEF CoordinatorStarts, disk, workers, Pristine
<1>7. CASE CoordinatorDies
  BY <1>7, <1>2 DEF CoordinatorDies, Over, DiskKeeps, workers, Pristine
<1>8. CASE MachineDies
  BY <1>8, <1>3 DEF MachineDies, Over, disk, Pristine
<1>9. CASE \E l \in Lanes : AcceptFails(l)
  BY <1>9, <1>1 DEF AcceptFails, Readable, DiskKeeps
<1> QED
  BY <1>4, <1>5, <1>6, <1>7, <1>8, <1>9 DEF Next, Faults

-----------------------------------------------------------------------------
(* What was spent is what the ledger adds up.                              *)

(* The sum of the properties is the sum of the sections above.             *)
LEMMA WeightsAreTokens ==
  ASSUME NEW P, NEW S, S \subseteq Lanes \X (Nat \ {0})
  PROVE  MapThenSumSet(LAMBDA p : TokensOf(P[p[1]][p[2]]), S)
           = SumOf(S, TokensAt(P))
<1> DEFINE Chosen(s) == CHOOSE x \in s : TRUE
           A(g) == [s \in SUBSET S |->
                      IF s = {} THEN 0
                      ELSE TokensOf(P[Chosen(s)[1]][Chosen(s)[2]])
                             + g[s \ {Chosen(s)}]]
           B(g) == [s \in SUBSET S |->
                      IF s = {} THEN 0
                      ELSE TokensAt(P)[Chosen(s)] + g[s \ {Chosen(s)}]]
<1>1. \A g : A(g) = B(g)
  <2>1. \A s \in SUBSET S : s # {} => Chosen(s) \in S
    OBVIOUS
  <2>2. \A p \in S : TokensAt(P)[p] = TokensOf(P[p[1]][p[2]])
    BY DEF TokensAt
  <2> QED
    BY <2>1, <2>2
<1>2. MapThenSumSet(LAMBDA p : TokensOf(P[p[1]][p[2]]), S)
        = (CHOOSE g : g = A(g))[S]
  BY DEF MapThenSumSet, MapThenFoldSet
<1>3. SumOf(S, TokensAt(P)) = (CHOOSE g : g = B(g))[S]
  BY DEF SumOf, MapThenSumSet, MapThenFoldSet
<1> HIDE DEF A, B
<1>4. (CHOOSE g : g = A(g)) = (CHOOSE g : g = B(g))
  BY <1>1, Zenon
<1> QED
  BY <1>2, <1>3, <1>4

(* The acknowledged messages are the places of the decisions.              *)
LEMMA AckedAre == Acked = Places(Lengths(acks))
BY DEF Acked, Places, Lengths

(* What was spent is the weight of the answered messages.                  *)
LEMMA SpentIs ==
  ASSUME Logs(prog, acks)
  PROVE  Spent = SumOf(Places(Lengths(acks)), TokensAt(prog))
<1>1. Places(Lengths(acks)) \subseteq Lanes \X (Nat \ {0})
  BY LogsAre, PlacesAre
<1> QED
  BY <1>1, AckedAre, WeightsAreTokens DEF Spent

(* It is so after a step.                                                  *)
LEMMA SpentIsNext ==
  ASSUME Logs(prog', acks')
  PROVE  Spent' = SumOf(Places(Lengths(acks')), TokensAt(prog'))
<1>1. Places(Lengths(acks')) \subseteq Lanes \X (Nat \ {0})
  BY LogsAre, PlacesAre
<1>2. Acked' = Places(Lengths(acks'))
  BY DEF Acked, Places, Lengths
<1>3. Spent' = MapThenSumSet(LAMBDA p : TokensOf(prog'[p[1]][p[2]]), Acked')
  BY DEF Spent, MapThenSumSet, MapThenFoldSet
<1> QED
  BY <1>1, <1>2, <1>3, WeightsAreTokens

(* When neither directory changes the log does not.                        *)
LEMMA SpentStays ==
  ASSUME Logs(prog, acks), UNCHANGED <<prog, acks>>
  PROVE  UNCHANGED Promised!vars
<1>1. Logs(prog', acks') /\ Lengths(acks') = Lengths(acks)
        /\ TokensAt(prog') = TokensAt(prog)
  OBVIOUS
<1>2. Spent' = Spent
  BY <1>1, SpentIs, SpentIsNext
<1> QED
  BY <1>2 DEF Promised!vars

-----------------------------------------------------------------------------
(* The invariant.                                                          *)

(* Nothing is said and decided yet.                                        *)
LEMMA NothingSaid ==
  ASSUME NEW P, P = [l \in Lanes |-> << >>]
  PROVE  Logs(P, P) /\ Places(Lengths(P)) = {} /\ Sensible(P, P)
<1>1. Logs(P, P) /\ \A l \in Lanes : Len(P[l]) = 0
  BY DEF Logs
<1>2. Places(Lengths(P)) = {}
  <2>1. \A l \in Lanes : {<<l, i>> : i \in 1 .. Lengths(P)[l]} = {}
    BY <1>1 DEF Lengths
  <2> QED
    BY <2>1 DEF Places
<1>3. \A D : SaidAt(P, D) = {}
  BY <1>2 DEF SaidAt
<1>4. SaidAt(P, {"stop-launches"}) = {} /\ SaidAt(P, {"abort"}) = {}
        /\ SaidAt(P, Going) = {}
  BY <1>3
<1>5. \A l \in Lanes : \A i \in 1 .. Len(P[l]) : Forced(P, P, l, i)
  BY <1>1
<1> QED
  BY <1>1, <1>2, <1>4, <1>5 DEF Sensible

(* It holds at the beginning.                                              *)
LEMMA InitProtocol == Init => ProtocolInv
<1> SUFFICES ASSUME Init PROVE ProtocolInv
  OBVIOUS
<1>1. /\ tried = [l \in Lanes |-> << >>] /\ prog = tried /\ acks = tried
      /\ wpc = [l \in Lanes |-> "none"] /\ say = [l \in Lanes |-> "none"]
      /\ todo = [l \in Lanes |-> {}] /\ cpc = "down" /\ led = Fresh
  BY DEF Init
<1>2. Logs(prog, acks) /\ Sensible(prog, acks)
  BY <1>1, NothingSaid
<1>3. Fresh \in Ledgers
  BY <1>2, FreshIsBalanced
<1>4. ASSUME NEW l \in Lanes PROVE WorkerTypes(l)
  BY <1>1 DEF WorkerTypes
<1>5. TypedLanes
  <2>1. tried \in [Lanes -> Seq(Attempt)]
    BY <1>1
  <2>2. /\ wpc \in [Lanes -> WorkerStages]
        /\ say \in [Lanes -> Kinds \cup {"none"}]
        /\ todo \in [Lanes -> SUBSET Nat]
    BY <1>1 DEF WorkerStages, Dead
  <2> QED
    BY <2>1, <2>2, <1>2, <1>4 DEF TypedLanes, Logs
<1>6. Typed
  BY <1>1, <1>3, <1>5 DEF Typed, Stages
<1>7. CleanupIsQuiet /\ Pristine
  BY <1>1 DEF CleanupIsQuiet, Pristine
<1>8. LedgerStands /\ LogStands
  BY <1>1, <1>2 DEF LedgerStands, LogStands, Launched
<1> QED
  BY <1>6, <1>7, <1>8 DEF ProtocolInv

(* A stuttering step keeps it.                                             *)
LEMMA ProtocolStutters == ProtocolInv /\ UNCHANGED vars => ProtocolInv'
<1> SUFFICES ASSUME ProtocolInv, UNCHANGED vars PROVE ProtocolInv'
  OBVIOUS
<1>1. UNCHANGED <<tried, prog, acks, wpc, say, todo, cpc, led, armed>>
  BY DEF vars, disk, workers, memory
<1>2. Typed'
  BY <1>1, WorkerAsBefore DEF ProtocolInv, Typed, TypedLanes
<1>3. CleanupIsQuiet' /\ Pristine'
  BY <1>1 DEF ProtocolInv, CleanupIsQuiet, Alive, Pristine
<1>4. LedgerStands' /\ LogStands'
  BY <1>1 DEF ProtocolInv, LedgerStands, LogStands
<1> QED
  BY <1>2, <1>3, <1>4 DEF ProtocolInv

(* Every step keeps it.                                                    *)
LEMMA NextProtocol == ProtocolInv /\ [Next]_vars => ProtocolInv'
<1> SUFFICES ASSUME ProtocolInv, Next PROVE ProtocolInv'
  BY ProtocolStutters
<1>1. Typed /\ CleanupIsQuiet /\ Pristine /\ Stands
  BY DEF ProtocolInv, Stands
<1>2. Typed' /\ Stands'
  BY <1>1, LedgerStays
<1>3. CleanupIsQuiet' /\ Pristine'
  BY <1>1, QuietStays, PristineStays
<1> QED
  BY <1>2, <1>3 DEF ProtocolInv, Stands

(* Types, the quiet of a cleanup, what the ledger holds of the messages    *)
(* and decisions on disk, and what the decisions hold among themselves.    *)
THEOREM ProtocolStands == Spec => []ProtocolInv
BY InitProtocol, NextProtocol, PTL DEF Spec

(* No worker is alive while a resume is classified or the credentials are  *)
(* cleaned up: neither one that an earlier coordinator left behind, nor    *)
(* one that it launched and was killed before it had recorded its group.   *)
THEOREM NobodyIsAliveInCleanup == Spec => []CleanupIsQuiet
<1>1. ProtocolInv => CleanupIsQuiet
  BY DEF ProtocolInv
<1> QED
  BY <1>1, ProtocolStands, PTL

-----------------------------------------------------------------------------
(* The ledger is rebuilt.                                                  *)

(* The ledger of a coordinator that launches or runs is complete.          *)
LEMMA LedgerAgrees ==
  ASSUME ProtocolInv, cpc \in Launched
  PROVE  /\ \A l \in Lanes : led.seen[l] = Len(acks[l])
         /\ led.total = Spent /\ (led.stop <=> Spent >= MaxTokens)
         /\ led.done = AckedAttempts
<1>1. Logs(prog, acks) /\ led \in Ledgers
  BY TypedMeansLogs DEF ProtocolInv
<1>2. Balanced(led, prog, acks) /\ AllSeen(led, acks)
  BY DEF ProtocolInv, LedgerStands, AllSeen
<1>3. Seen(led) = Places(Lengths(acks)) /\ Seen(led) = Acked
  BY <1>1, <1>2, AllSeenMeans, AckedAre
<1>4. led.total = Spent
  BY <1>1, <1>2, <1>3, SpentIs DEF Balanced
<1>5. led.stop <=> Spent >= MaxTokens
  BY <1>2, <1>4 DEF Balanced
<1>6. led.done = AckedAttempts
  BY <1>2, <1>3 DEF Balanced, AckedAttempts, NamesIn
<1> QED
  BY <1>2, <1>4, <1>5, <1>6 DEF AllSeen

(* As long as an answered message was not replayed, one fits.              *)
LEMMA ReplayGoesOn ==
  ASSUME ProtocolInv, cpc = "replay"
  PROVE  ~StuckInReplay
<1> SUFFICES ASSUME Complete, ~Replayed PROVE \E l \in Lanes : Replayable(l)
  BY DEF StuckInReplay
<1>1. Logs(prog, acks) /\ led \in Ledgers
  BY TypedMeansLogs DEF ProtocolInv
<1>2. Replaying(led, prog, acks)
  BY <1>1 DEF ProtocolInv, LedgerStands, LogStands, Replaying
<1>3. PICK l \in Lanes : Answered(led, acks, l)
  BY DEF Replayed, Complete, Unseen, Answered
<1>4. PICK p, m, d : NextIs(led, prog, acks, l, p, m, d)
  BY <1>1, <1>2, <1>3, NextPlace DEF Replaying
<1>5. p \in Places(Lengths(acks)) /\ p \notin Seen(led)
        /\ acks[p[1]][p[2]] \in Decisions
  BY <1>4 DEF NextIs
<1>6. CASE SaidAt(acks, Going) \subseteq Seen(led)
  <2>1. CASE SaidAt(acks, {"stop-launches"}) \subseteq Seen(led)
    <3>1. SaidAt(acks, Decisions \ {"abort"}) \subseteq Seen(led)
      BY <1>6, <2>1 DEF SaidAt, Going, Decisions
    <3>2. p \in SaidAt(acks, {"abort"})
      BY <3>1, <1>5 DEF SaidAt
    <3> QED
      BY <3>1, <3>2, <1>1, <1>2, <1>5, AbortComes, ReplayableIs
  <2>2. CASE ~(SaidAt(acks, {"stop-launches"}) \subseteq Seen(led))
    BY <2>2, <1>1, <1>2, <1>6, StopComes, ReplayableIs
  <2> QED
    BY <2>1, <2>2
<1>7. CASE ~(SaidAt(acks, Going) \subseteq Seen(led))
  BY <1>7, <1>1, <1>2, GoingComes, ReplayableIs
<1> QED
  BY <1>6, <1>7

(* While lanes are launched and run, also after a resume has rebuilt it    *)
(* in an order of its own, the ledger is what the acknowledged messages    *)
(* make it; and whatever coordinators decided before they were killed,     *)
(* the replay of a complete prefix never runs out of messages that fit.    *)
THEOREM LedgerCanBeRebuilt == Spec => []LedgerIsRebuilt
<1>1. ProtocolInv => LedgerIsRebuilt
  BY LedgerAgrees, ReplayGoesOn DEF LedgerIsRebuilt, Launched
<1> QED
  BY <1>1, ProtocolStands, PTL

-----------------------------------------------------------------------------
(* The log of decisions.                                                   *)

(* An acknowledgement is a decision as it was promised.                    *)
LEMMA DecidesAsPromised ==
  ASSUME ProtocolInv, NEW l \in Lanes, Accept(l)
  PROVE  Promised!Next
<1>1. Logs(prog, acks) /\ led \in Ledgers /\ Typed /\ Stands
  BY TypedMeansLogs DEF ProtocolInv, Stands
<1>2. cpc = "run" /\ Unseen(l) /\ prog' = prog
  BY DEF Accept, Readable
<1>3. Balanced(led, prog, acks) /\ ~led.aborted /\ AllSeen(led, acks)
        /\ Sensible(prog, acks)
  BY <1>1, <1>2 DEF Stands, LedgerStands, LogStands, Launched, AllSeen
<1>4. Waits(prog, acks, l) /\ led.seen[l] = Len(acks[l])
  BY <1>2, <1>3 DEF Waits, Unseen, AllSeen
<1>5. PICK m, d : m = NextOf(l) /\ d = Decision(led, l, m)
  OBVIOUS
<1>6. m = prog[l][Len(acks[l]) + 1]
  BY <1>4, <1>5 DEF NextOf
<1>7. acks' = Answers(acks, l, d)
  BY <1>5 DEF Accept, Answers
<1>8. /\ d \in Decisions /\ m \in Messages
      /\ led.total = SumOf(Places(Lengths(acks)), TokensAt(prog))
      /\ led.total \in Nat /\ TokensOf(m) \in Nat /\ MaxTokens \in Nat
      /\ led.stop <=> led.total >= MaxTokens
      /\ ReachesCeiling(led, m) <=> led.total + TokensOf(m) >= MaxTokens
      /\ SaidAt(acks, {"abort"}) = {}
      /\ SaidAt(acks, {"stop-launches"}) # {} => led.stop
  BY <1>1, <1>3, <1>4, <1>5, <1>6, DecisionFits
<1>9. PICK x : Extended(prog, acks, l, d, acks', x)
  BY <1>1, <1>4, <1>7, <1>8, AnswersAre
<1>10. Logs(prog', acks')
  BY <1>2, <1>9 DEF Extended
<1>11. led.total = Spent
  BY <1>1, <1>8, SpentIs
<1>12. Spent' = Spent + TokensOf(m)
  <2>1. Places(Lengths(acks')) = Places(Lengths(acks)) \cup {x}
          /\ x \notin Places(Lengths(acks)) /\ x[1] = l
          /\ x[2] = Len(acks[l]) + 1
    BY <1>9 DEF Extended
  <2>2. x \in Places(Lengths(acks'))
    BY <2>1
  <2>3. Places(Lengths(acks')) \subseteq Places(Lengths(prog))
    BY <1>2, <1>10, LogsAre
  <2>4. \A p \in Places(Lengths(acks)) \cup {x} : TokensAt(prog)[p] \in Nat
    BY <2>1, <2>3, <1>1, LogsAre
  <2>5. TokensAt(prog)[x] = TokensOf(prog[x[1]][x[2]])
    BY <2>2, <2>3, <1>1, LogsAre
  <2>6. TokensAt(prog)[x] = TokensOf(m)
    BY <2>1, <2>5, <1>6
  <2>7. IsFiniteSet(Places(Lengths(acks)))
    BY <1>1, LogsAre, PlacesAre
  <2>8. SumOf(Places(Lengths(acks)) \cup {x}, TokensAt(prog))
          = SumOf(Places(Lengths(acks)), TokensAt(prog)) + TokensAt(prog)[x]
    BY <2>1, <2>4, <2>7, SumOfOneMore
  <2>9. Spent' = SumOf(Places(Lengths(acks')), TokensAt(prog'))
    BY <1>10, SpentIsNext
  <2> QED
    BY <2>1, <2>6, <2>8, <2>9, <1>2, <1>8, <1>11
<1>13. ASSUME NEW e PROVE Promised!Said(e) <=> SaidAt(acks, {e}) # {}
  <2>1. Lengths(acks) \in [Lanes -> Nat]
          /\ \A k \in Lanes : Lengths(acks)[k] = Len(acks[k])
    BY <1>1, LogsAre
  <2>2. ASSUME NEW k \in Lanes, NEW i \in 1 .. Len(acks[k]), acks[k][i] = e
        PROVE  <<k, i>> \in SaidAt(acks, {e})
    <3>1. <<k, i>> \in Places(Lengths(acks))
      BY <2>1, PlacesAre
    <3> QED
      BY <3>1, <2>2 DEF SaidAt
  <2>3. ASSUME NEW p \in SaidAt(acks, {e})
        PROVE  p[1] \in Lanes /\ p[2] \in 1 .. Len(acks[p[1]])
                 /\ acks[p[1]][p[2]] = e
    <3>1. p \in Places(Lengths(acks)) /\ acks[p[1]][p[2]] = e
      BY DEF SaidAt
    <3> QED
      BY <3>1, <2>1, PlacesAre
  <2> QED
    BY <2>2, <2>3 DEF Promised!Said
<1>14. /\ d = "retry" => FailedCase(m) /\ ~ReachesCeiling(led, m)
       /\ d = "continue" => ~ReachesCeiling(led, m)
       /\ d = "stop-launches" => ReachesCeiling(led, m)
  BY <1>1, <1>5, DecisionIs
<1>15. ~Promised!Said("abort")
  BY <1>8, <1>13
<1>16. ASSUME d \in {"continue", "retry"}
       PROVE  /\ ~Promised!Said("stop-launches")
              /\ Spent + TokensOf(m) < MaxTokens
  <2>1. ~ReachesCeiling(led, m)
    BY <1>14, <1>16
  <2>2. ~(led.total + TokensOf(m) >= MaxTokens) /\ ~led.stop
    BY <2>1, <1>8 DEF ReachesCeiling
  <2>3. ~Promised!Said("stop-launches")
    BY <2>2, <1>8, <1>13
  <2> QED
    BY <2>2, <2>3, <1>8, <1>11
<1>17. d = "stop-launches" => Spent + TokensOf(m) >= MaxTokens
  BY <1>8, <1>11, <1>14
<1>18. d = "retry" => TokensOf(m) = 0
  BY <1>8, <1>14, TokensAre
<1>19. TokensOf(m) \in Usages \cup {0}
  BY <1>8, TokensAre
<1>20. acks' = [acks EXCEPT ![l] = Append(@, d)]
  BY <1>7 DEF Answers
<1>21. Promised!Decide(l, d, TokensOf(m))
  BY <1>12, <1>15, <1>16, <1>17, <1>18, <1>20 DEF Promised!Decide
<1>22. d \in Promised!Decisions
  BY <1>8 DEF Decisions, Promised!Decisions
<1> QED
  BY <1>19, <1>21, <1>22 DEF Promised!Next

(* Whatever else happens, the log and what was spent stay.                 *)
LEMMA OthersStutter ==
  ASSUME ProtocolInv, Next, ~(\E l \in Lanes : Accept(l))
  PROVE  UNCHANGED Promised!vars
<1>1. Logs(prog, acks) /\ Typed /\ Stands /\ Pristine
  BY TypedMeansLogs DEF ProtocolInv, Stands
<1>2. UNCHANGED <<prog, acks>> => UNCHANGED Promised!vars
  BY <1>1, SpentStays
<1>3. CASE \E l \in Lanes : WriteProgress(l)
  <2>1. PICK l \in Lanes : WriteProgress(l)
    BY <1>3
  <2>2. acks' = acks
    BY <2>1 DEF WriteProgress
  <2>3. Logs(prog', acks) /\ SameAnswered(prog, prog', acks)
    BY <2>1, <1>1, WriteAdds
  <2>4. Spent' = SumOf(Places(Lengths(acks)), TokensAt(prog'))
    BY <2>2, <2>3, SpentIsNext
  <2>5. Spent = SumOf(Places(Lengths(acks)), TokensAt(prog))
    BY <1>1, SpentIs
  <2>6. SumOf(Places(Lengths(acks)), TokensAt(prog'))
          = SumOf(Places(Lengths(acks)), TokensAt(prog))
    BY <2>3, <1>1, WeighsTheSame
  <2> QED
    BY <2>2, <2>4, <2>5, <2>6 DEF Promised!vars
<1>4. CASE \E l \in Lanes : ReplayRecord(l)
  BY <1>2, <1>4 DEF ReplayRecord, disk
<1>5. CASE Quiesce \/ OpenFresh \/ ReplayLaunches
  BY <1>2, <1>5 DEF Quiesce, OpenFresh, ReplayLaunches, DiskKeeps, disk
<1>6. CASE Ends2 \/ Quiet
  BY <1>2, <1>6 DEF Ends2, Quiet
<1> QED
  BY <1>3, <1>4, <1>5, <1>6, StepsOfLedger

(* The acknowledgements on disk are a log of decisions as DecisionLog      *)
(* promises it: what any coordinator decides of any lane fits what all of  *)
(* them decided of all lanes before, and what was spent by then.           *)
THEOREM DecisionsAsPromised == Spec => ImplementsDecisionLog
<1>1. Init => Promised!Init
  <2> SUFFICES ASSUME Init PROVE Promised!Init
    OBVIOUS
  <2>1. prog = [l \in Lanes |-> << >>] /\ acks = prog
    BY DEF Init
  <2>2. Logs(prog, acks) /\ Places(Lengths(acks)) = {}
    BY <2>1, NothingSaid
  <2>3. Spent = 0
    BY <2>2, SpentIs, SumOfNothing
  <2> QED
    BY <2>1, <2>3 DEF Promised!Init
<1>2. ProtocolInv /\ [Next]_vars => [Promised!Next]_Promised!vars
  <2>1. ASSUME ProtocolInv, Next PROVE [Promised!Next]_Promised!vars
    BY <2>1, DecidesAsPromised, OthersStutter
  <2>2. ASSUME ProtocolInv, UNCHANGED vars PROVE UNCHANGED Promised!vars
    <3>1. Logs(prog, acks)
      BY <2>2, TypedMeansLogs DEF ProtocolInv
    <3>2. UNCHANGED <<prog, acks>>
      BY <2>2 DEF vars, disk
    <3> QED
      BY <3>1, <3>2, SpentStays
  <2> QED
    BY <2>1, <2>2
<1> QED
  BY <1>1, <1>2, ProtocolStands, PTL DEF Spec, ImplementsDecisionLog,
     Promised!Spec

-----------------------------------------------------------------------------
(* What a lane has tried and said.                                         *)

(* The cases one after the other.  All that came before has succeeded, but *)
(* the last one may have been begun a second time.                         *)
Shape(l) ==
  \A i \in 1 .. Len(tried[l]) :
    LET a == tried[l][i]
    IN /\ a.case \in Cases(l)
       /\ a.try = 1 => a.case = i
       /\ a.try = 2 =>
            /\ i = Len(tried[l]) /\ i > 1 /\ a.end = "open"
            /\ a.case = i - 1 /\ tried[l][i - 1].end = "retryable"
       /\ i < Len(tried[l]) =>
            \/ a.end = "success"
            \/ /\ a.end = "retryable" /\ i + 1 = Len(tried[l])
               /\ tried[l][i + 1].try = 2

Whole(l) == \A i \in 1 .. Len(tried[l]) : tried[l][i].end = "success"
(* The lane may be sealed.                                                 *)
Closed(l) == (Whole(l) /\ Len(tried[l]) = Plan[l]) \/ LastFailed(l)
Rest(l) == Len(tried[l]) + 1 .. Plan[l]

Sealed(l) == shard[l] # {} => Closed(l) /\ shard[l] = Terminals(l)

(* What was said of ends is so.                                            *)
Told(l) ==
  \A i \in 1 .. Len(prog[l]) :
    LET m == prog[l][i]
    IN /\ m.kind = "case-terminal" =>
            \E j \in 1 .. Len(tried[l]) : tried[l][j] = m.attempt[1]
       /\ m.kind = "shard-terminal" =>
            shard[l] # {} /\ ((m.attempt # << >>) <=> LastFailed(l))

(* What a worker goes by.                                                  *)
Minds(l) ==
  LET n == Len(tried[l])
  IN /\ wpc[l] \in {"boot", "pick"} => Whole(l) /\ todo[l] = Rest(l)
     /\ wpc[l] = "drive" =>
          /\ n > 0 /\ tried[l][n].end = "open" /\ tried[l][n].try = 1
          /\ shard[l] = {} /\ todo[l] = Rest(l)
     /\ wpc[l] = "seal" => Closed(l)
     /\ wpc[l] \in {"write", "wait"} =>
          /\ say[l] = "lane-ready" => Whole(l) /\ todo[l] = Rest(l)
          /\ say[l] = "case-started" =>
               /\ n > 0 /\ tried[l][n].end = "open" /\ shard[l] = {}
               /\ tried[l][n].try = 1 => todo[l] = Rest(l)
          /\ say[l] = "case-terminal" =>
               /\ n > 0 /\ tried[l][n].end # "open" /\ shard[l] = {}
               /\ todo[l] = Rest(l)
          /\ say[l] = "shard-terminal" => Closed(l) /\ shard[l] # {}
     /\ wpc[l] = "wait" => prog[l] # << >> /\ LastOf(prog[l]) = Says(l)

-----------------------------------------------------------------------------
(* What a lane has said fits together.                                     *)

NotStopped(P, l, n) == \A j \in 1 .. n : P[l][j].kind # "worker-stopped"
Fitting(P, K, l, i) ==
  LET m == P[l][i]
      act == ActiveAfter(P, K, l, i - 1)
      ret == RetryAfter(P, K, l, i - 1)
  IN /\ NotStopped(P, l, i - 1)
     /\ m.kind = "lane-ready" => act = {} /\ ret = {}
     /\ m.kind = "case-started" =>
          /\ act = {}
          /\ \A j \in 1 .. i - 1 :
               IsEnd(P, l, j) => AttemptOf(P[l][j]) \cap AttemptOf(m) = {}
          /\ IF ret # {} THEN AttemptOf(m) = ret ELSE m.attempt[1].try = 1
     /\ m.kind = "case-terminal" => act = AttemptOf(m)

ActiveNow(l) == ActiveAfter(prog, acks, l, Len(prog[l]))
RetryNow(l) == RetryAfter(prog, acks, l, Len(prog[l]))
Idle(l) == ActiveNow(l) = {} /\ RetryNow(l) = {}
NameOf(a) == <<a.case, a.try>>
Speaking == {"boot", "pick", "drive", "seal", "write"}

Spoken(l) ==
  /\ Len(prog[l]) <= Len(acks[l]) + 1
  /\ \A i \in 1 .. Len(prog[l]) : Fitting(prog, acks, l, i)
(* What is in hand when a worker is about to speak.                        *)
Poised(l) ==
  /\ wpc[l] \in Speaking =>
       Len(acks[l]) = Len(prog[l]) /\ NotStopped(prog, l, Len(prog[l]))
  /\ wpc[l] \in {"boot", "pick"} => Idle(l)
  /\ wpc[l] = "drive" => ActiveNow(l) = {NameOf(LastOf(tried[l]))}
  /\ wpc[l] = "write" =>
       /\ say[l] = "lane-ready" => Idle(l)
       /\ say[l] = "case-started" =>
            /\ ActiveNow(l) = {}
            /\ RetryNow(l) = IF LastOf(tried[l]).try = 1 THEN {}
                             ELSE {NameOf(LastOf(tried[l]))}
       /\ say[l] = "case-terminal" =>
            ActiveNow(l) = {NameOf(LastOf(tried[l]))}

(* A lane that may be launched.                                            *)
Ready(l) ==
  /\ Whole(l) /\ Idle(l) /\ ~Alive(l) /\ Len(acks[l]) = Len(prog[l])
  /\ NotStopped(prog, l, Len(prog[l]))
FirstOf(l) == l \notin known /\ \A k \in Lanes \ known : l <= k
LanesReady ==
  cpc \in {"launch", "record"} =>
    \A l \in Lanes \ known : (cpc = "record" /\ FirstOf(l)) \/ Ready(l)
ExitsStand ==
  cpc \in Launched \cup {"replay"} =>
    led.exited = {l \in Lanes : ~NotStopped(prog, l, led.seen[l])}

LaneStands(l) ==
  /\ Shape(l) /\ Sealed(l) /\ Told(l) /\ Spoken(l)
  /\ Minds(l) /\ Poised(l)
Shards == shard = [l \in Lanes |-> shard[l]]
LanesInv ==
  /\ Shards
  /\ \A l \in Lanes : LaneStands(l)
  /\ LanesReady /\ ExitsStand

-----------------------------------------------------------------------------
(* What the shape of a lane tells.                                         *)
LEMMA ShapeMeans ==
  ASSUME TypedLanes, NEW l \in Lanes, Shape(l)
  PROVE  /\ tried[l] \in Seq(Attempt) /\ Len(tried[l]) \in Nat
         /\ Plan[l] \in Nat \ {0}
         /\ \A i \in 1 .. Len(tried[l]) :
              /\ tried[l][i] \in Attempt
              /\ tried[l][i].end # "open" =>
                   tried[l][i].try = 1 /\ tried[l][i].case = i
              /\ \A j \in 1 .. Len(tried[l]) :
                   tried[l][i].end # "open" /\ j < i =>
                     tried[l][j].end = "success"
         /\ Whole(l) => Len(tried[l]) <= Plan[l]
<1>1. tried[l] \in Seq(Attempt) /\ Plan[l] \in Nat \ {0}
  BY ProtocolConstants DEF TypedLanes, Lanes
<1>2. PICK n \in Nat : n = Len(tried[l])
  BY <1>1
<1>3. \A i \in 1 .. n : tried[l][i] \in Attempt /\ tried[l][i].try \in {1, 2}
                          /\ tried[l][i].case \in 1 .. Plan[l]
  <2>1. \A i \in 1 .. n : tried[l][i] \in Attempt
    BY <1>1, <1>2
  <2>2. \A i \in 1 .. n : tried[l][i].case \in Cases(l)
    BY <1>2 DEF Shape
  <2> QED
    BY <2>1, <2>2 DEF Attempt, Cases
<1>4. \A i \in 1 .. n : tried[l][i].end # "open" =>
        tried[l][i].try = 1 /\ tried[l][i].case = i
  BY <1>2, <1>3 DEF Shape
<1>5. ASSUME NEW i \in 1 .. n, NEW j \in 1 .. n,
             tried[l][i].end # "open", j < i
      PROVE  tried[l][j].end = "success"
  <2>1. j + 1 = n => j + 1 = i
    BY <1>5
  <2>2. tried[l][i].try # 2
    BY <1>4, <1>5
  <2> QED
    BY <1>2, <1>5, <2>1, <2>2 DEF Shape
<1>6. ASSUME Whole(l) PROVE n <= Plan[l]
  <2>1. CASE n = 0
    BY <2>1, <1>1
  <2>2. CASE n > 0
    <3>1. n \in 1 .. n /\ tried[l][n].end # "open"
      BY <1>2, <1>6, <2>2 DEF Whole
    <3> QED
      BY <3>1, <1>3, <1>4
  <2> QED
    BY <2>1, <2>2
<1> QED
  BY <1>1, <1>2, <1>3, <1>4, <1>5, <1>6

(* A lane is done when all its cases are committed.                        *)
LEMMA CommittedIs ==
  ASSUME TypedLanes, NEW l \in Lanes, Shape(l)
  PROVE  /\ Committed(l) = Cases(l) <=> Whole(l) /\ Len(tried[l]) = Plan[l]
         /\ Whole(l) => Pending(l) = Rest(l)
<1>1. /\ tried[l] \in Seq(Attempt) /\ Len(tried[l]) \in Nat
      /\ Plan[l] \in Nat \ {0}
      /\ Whole(l) => Len(tried[l]) <= Plan[l]
  BY ShapeMeans
<1>2. PICK n \in Nat : n = Len(tried[l])
  BY <1>1
<1>3. \A i \in 1 .. n :
        tried[l][i].end = "success" =>
          tried[l][i].try = 1 /\ tried[l][i].case = i
  BY <1>2, ShapeMeans
<1>4. Committed(l) = {i \in 1 .. n : tried[l][i].end = "success"}
  <2>1. DOMAIN tried[l] = 1 .. n
    BY <1>1, <1>2
  <2> QED
    BY <2>1, <1>3 DEF Committed
<1>5. ASSUME Committed(l) = Cases(l)
      PROVE  Whole(l) /\ n = Plan[l]
  <2>1. \A i \in 1 .. Plan[l] : i \in 1 .. n /\ tried[l][i].end = "success"
    BY <1>4, <1>5 DEF Cases
  <2>2. Plan[l] <= n
    BY <2>1, <1>1
  <2>3. ASSUME n # Plan[l] PROVE FALSE
    <3>1. n \in 1 .. n /\ n > Plan[l] /\ n - 1 \in 1 .. n
      BY <2>2, <2>3, <1>1
    <3>2. tried[l][n].case \in 1 .. Plan[l]
            /\ (tried[l][n].try = 1 => tried[l][n].case = n)
            /\ (tried[l][n].try = 2 => tried[l][n].case = n - 1
                  /\ tried[l][n - 1].end = "retryable")
      BY <3>1, <1>2 DEF Shape, Cases
    <3>3. tried[l][n].try \in {1, 2}
      BY <3>1, <1>2, ShapeMeans DEF Attempt
    <3>4. n - 1 = Plan[l] /\ tried[l][n - 1].end = "retryable"
      BY <3>1, <3>2, <3>3, <1>1
    <3> QED
      BY <3>4, <2>1, <1>1
  <2> QED
    BY <2>1, <2>3, <1>2 DEF Whole
<1>6. ASSUME Whole(l), n = Plan[l]
      PROVE  Committed(l) = Cases(l)
  BY <1>2, <1>4, <1>6 DEF Whole, Cases
<1>7. ASSUME Whole(l) PROVE Pending(l) = Rest(l)
  <2>1. Committed(l) = 1 .. n
    BY <1>2, <1>4, <1>7 DEF Whole
  <2>2. n <= Plan[l]
    BY <1>1, <1>2, <1>7
  <2> QED
    BY <2>1, <2>2, <1>1, <1>2 DEF Pending, Rest, Cases
<1> QED
  BY <1>2, <1>5, <1>6, <1>7

(* A lane that may be sealed is whole, or its last case failed for good.  *)
LEMMA ClosedMeans ==
  ASSUME TypedLanes, NEW l \in Lanes, Shape(l), Closed(l)
  PROVE  /\ Len(tried[l]) \in 1 .. Plan[l]
         /\ \A i \in 1 .. Len(tried[l]) :
              /\ tried[l][i].end # "open" /\ tried[l][i].try = 1
              /\ tried[l][i].case = i
              /\ i < Len(tried[l]) => tried[l][i].end = "success"
         /\ LastFailed(l) <=> tried[l][Len(tried[l])].end # "success"
         /\ ~LastFailed(l) => Len(tried[l]) = Plan[l]
<1>1. /\ tried[l] \in Seq(Attempt) /\ Len(tried[l]) \in Nat
      /\ Plan[l] \in Nat \ {0}
  BY ShapeMeans
<1>2. PICK n \in Nat : n = Len(tried[l])
  BY <1>1
<1>3. LastFailed(l) <=> n # 0 /\ tried[l][n].end \in {"failed", "retryable"}
  BY <1>1, <1>2, EmptySeq DEF LastFailed, LastOf
<1>4. n # 0 /\ tried[l][n].end # "open"
  <2>1. CASE LastFailed(l)
    BY <2>1, <1>3
  <2>2. CASE Whole(l) /\ n = Plan[l]
    BY <2>2, <1>1, <1>2 DEF Whole
  <2> QED
    BY <2>1, <2>2, <1>2 DEF Closed
<1>5. n \in 1 .. n
  BY <1>4
<1>6. \A i \in 1 .. n : i < n => tried[l][i].end = "success"
  BY <1>2, <1>4, <1>5, ShapeMeans
<1>7. \A i \in 1 .. n : tried[l][i].end # "open"
  BY <1>4, <1>6
<1>8. \A i \in 1 .. n : tried[l][i].try = 1 /\ tried[l][i].case = i
  BY <1>2, <1>7, ShapeMeans
<1>9. n <= Plan[l]
  <2>1. tried[l][n].case \in 1 .. Plan[l]
    BY <1>2, <1>5 DEF Shape, Cases
  <2> QED
    BY <2>1, <1>5, <1>8
<1>10. tried[l][n].end \in Ends
  BY <1>2, <1>5, ShapeMeans DEF Attempt
<1>11. LastFailed(l) <=> tried[l][n].end # "success"
  BY <1>3, <1>4, <1>10 DEF Ends
<1>12. ~LastFailed(l) => n = Plan[l]
  BY <1>2 DEF Closed
<1> QED
  BY <1>1, <1>2, <1>4, <1>6, <1>7, <1>8, <1>9, <1>11, <1>12

(* The seal of a closed lane has how each of its attempts ended.           *)
LEMMA TerminalsAre ==
  ASSUME TypedLanes, NEW l \in Lanes, Shape(l), Closed(l)
  PROVE  /\ Terminals(l) = {tried[l][i] : i \in 1 .. Len(tried[l])}
         /\ Terminals(l) # {}
         /\ IsFiniteSet(Terminals(l))
         /\ Cardinality(Terminals(l)) = Len(tried[l])
<1>1. tried[l] \in Seq(Attempt) /\ Plan[l] \in Nat
  BY ShapeMeans
<1>2. PICK n \in 1 .. Plan[l] : n = Len(tried[l])
  BY ClosedMeans
<1>3. DOMAIN tried[l] = 1 .. n
  BY <1>1, <1>2
<1>4. \A i \in 1 .. n : tried[l][i].end # "open" /\ tried[l][i].try = 1
                          /\ tried[l][i].case = i
  BY <1>2, ClosedMeans
<1> DEFINE T == {tried[l][i] : i \in 1 .. n}
<1>5. \A c : AttemptsOf(l, c) = {a \in T : a.case = c}
  BY <1>3 DEF AttemptsOf
<1>6. \A a \in T : a.case \in Cases(l) /\ a.end # "open" /\ a.try = 1
  BY <1>1, <1>2, <1>4 DEF Cases
<1>7. Terminals(l) = T
  <2> HIDE DEF T
  <2>1. \A a : a \in UNION {AttemptsOf(l, c) : c \in Cases(l)} <=> a \in T
    BY <1>5, <1>6
  <2>2. \A a \in T : \A b \in AttemptsOf(l, a.case) : b.try <= a.try
    <3> SUFFICES ASSUME NEW a \in T, NEW b \in AttemptsOf(l, a.case)
                 PROVE  b.try <= a.try
      OBVIOUS
    <3>1. a.try = 1 /\ b.try = 1
      BY <1>5, <1>6
    <3> QED
      BY <3>1
  <2> QED
    BY <2>1, <2>2, <1>6 DEF Terminals
<1>8. IsFiniteSet(T) /\ Cardinality(T) = n
  <2> DEFINE f == [i \in 1 .. n |-> tried[l][i]]
  <2>1. f \in Bijection(1 .. n, T)
    <3>1. \A i, j \in 1 .. n : tried[l][i] = tried[l][j] => i = j
      BY <1>4
    <3> QED
      BY <3>1 DEF Bijection, Injection, Surjection, IsInjective
  <2>3. ExistsBijection(1 .. n, T)
    <3> HIDE DEF f, T
    <3> QED
      BY <2>1 DEF ExistsBijection
  <2>2. IsFiniteSet(1 .. n) /\ Cardinality(1 .. n) = n
    BY <1>1, <1>2, FS_Interval
  <2> HIDE DEF f, T
  <2> QED
    BY <2>2, <2>3, FS_Bijection
<1>9. tried[l][1] \in T
  BY <1>1, <1>2
<1> QED
  BY <1>2, <1>7, <1>8, <1>9

(* The record of an end stands, whatever was tried after it.               *)
LEMMA EndStands ==
  ASSUME TypedLanes, NEW l \in Lanes, Shape(l),
         NEW j \in 1 .. Len(tried[l]), tried[l][j].end # "open",
         NEW a, a = tried[l][j]
  PROVE  AttemptStands(l, a) /\ CommitStands(l, a)
<1>1. tried[l] \in Seq(Attempt)
  BY ShapeMeans
<1>2. PICK n \in Nat : n = Len(tried[l])
  BY <1>1
<1>3. DOMAIN tried[l] = 1 .. n
  BY <1>1, <1>2
<1>4. a.try = 1 /\ a.case = j /\ j \in 1 .. n
  BY <1>2, ShapeMeans
<1>5. a \in AttemptsOf(l, a.case)
  BY <1>3, <1>4 DEF AttemptsOf
<1>6. ASSUME NEW b \in AttemptsOf(l, a.case)
      PROVE  /\ b.try = 2 => a.end = "retryable"
             /\ b.end = "success" => b = a
  <2>1. PICK k \in 1 .. n : b = tried[l][k] /\ b.case = a.case
    BY <1>3, <1>6 DEF AttemptsOf
  <2>2. b.try = 2 => b.case = k - 1 /\ tried[l][k - 1].end = "retryable"
    BY <2>1, <1>2 DEF Shape
  <2>3. b.try = 2 => k - 1 = j
    BY <2>1, <2>2, <1>4
  <2>4. b.end = "success" => b.case = k
    BY <2>1, <1>2, ShapeMeans
  <2> QED
    BY <2>1, <2>2, <2>3, <2>4, <1>4
<1>7. AttemptStands(l, a)
  BY <1>4, <1>5, <1>6 DEF AttemptStands
<1>8. CommitStands(l, a)
  BY <1>6 DEF CommitStands
<1> QED
  BY <1>7, <1>8

(* A seal of all the ended cases of such a lane agrees with its records.  *)
LEMMA SealStands ==
  ASSUME TypedLanes, NEW l \in Lanes, Shape(l), Closed(l),
         shard[l] = Terminals(l)
  PROVE  /\ ShardStands(l)
         /\ LastFailed(l) <=> \E a \in shard[l] : a.end # "success"
<1>1. Plan[l] \in Nat
  BY ShapeMeans
<1>2. PICK n \in 1 .. Plan[l] : n = Len(tried[l])
  BY ClosedMeans
<1>3. /\ shard[l] = {tried[l][i] : i \in 1 .. n} /\ shard[l] # {}
      /\ Cardinality(shard[l]) = n
  BY <1>2, TerminalsAre
<1>4. \A i \in 1 .. n : /\ tried[l][i].end # "open"
                        /\ tried[l][i].case = i
                        /\ i < n => tried[l][i].end = "success"
  BY <1>2, ClosedMeans
<1>5. LastFailed(l) <=> tried[l][n].end # "success"
  BY <1>2, ClosedMeans
<1>6. ~LastFailed(l) => n = Plan[l]
  BY <1>2, ClosedMeans
<1>7. n \in 1 .. n
  BY <1>1
<1>8. \A a \in shard[l] : a \in AttemptsOf(l, a.case) /\ CommitStands(l, a)
  BY <1>2, <1>3, <1>4, EndStands DEF AttemptStands
<1>9. {a.case : a \in shard[l]} = 1 .. n
  BY <1>3, <1>4
<1>10. \A a \in shard[l] : a.end # "success" => a.case = n
  BY <1>1, <1>3, <1>4
<1>11. LastFailed(l) <=> \E a \in shard[l] : a.end # "success"
  BY <1>1, <1>3, <1>4, <1>5, <1>7
<1>12. (\A a \in shard[l] : a.end = "success") => n = Plan[l]
  BY <1>6, <1>11
<1> QED
  BY <1>3, <1>8, <1>9, <1>10, <1>11, <1>12 DEF ShardStands

-----------------------------------------------------------------------------
(* A lane whose records and messages stay.                                 *)

(* What a lane has tried does not become another shape by itself.          *)
LEMMA RecordsStay ==
  ASSUME NEW l, tried'[l] = tried[l]
  PROVE  /\ Shape(l)' <=> Shape(l)
         /\ Whole(l)' <=> Whole(l)
         /\ Closed(l)' <=> Closed(l)
         /\ LastFailed(l)' <=> LastFailed(l)
         /\ Rest(l)' = Rest(l)
         /\ Terminals(l)' = Terminals(l)
<1>1. Shape(l)' <=> Shape(l)
  BY DEF Shape, Cases
<1>2. Whole(l)' <=> Whole(l)
  BY DEF Whole
<1>3. LastFailed(l)' <=> LastFailed(l)
  BY DEF LastFailed, LastOf
<1>4. Closed(l)' <=> Closed(l)
  BY <1>2, <1>3 DEF Closed
<1>5. Rest(l)' = Rest(l)
  BY DEF Rest
<1>6. Terminals(l)' = Terminals(l)
  <2>1. ASSUME NEW c PROVE AttemptsOf(l, c)' = AttemptsOf(l, c)
    BY DEF AttemptsOf
  <2> QED
    BY <2>1 DEF Terminals, Cases
<1> QED
  BY <1>1, <1>2, <1>3, <1>4, <1>5, <1>6

(* A message fits by what came before it and by the decisions about that.  *)
LEMMA FittingAgrees ==
  ASSUME NEW P, NEW K, NEW P2, NEW K2, NEW l, NEW n \in Nat,
         \A i \in 1 .. n : P2[l][i] = P[l][i],
         \A i \in 1 .. n - 1 : K2[l][i] = K[l][i]
  PROVE  \A i \in 1 .. n : Fitting(P2, K2, l, i) <=> Fitting(P, K, l, i)
<1> SUFFICES ASSUME NEW i \in 1 .. n
             PROVE  Fitting(P2, K2, l, i) <=> Fitting(P, K, l, i)
  OBVIOUS
<1>1. PICK k \in Nat : k = i - 1
  OBVIOUS
<1>2. \A j \in 1 .. k : P2[l][j] = P[l][j] /\ K2[l][j] = K[l][j]
  BY <1>1
<1>3. /\ ActiveAfter(P2, K2, l, k) = ActiveAfter(P, K, l, k)
      /\ RetryAfter(P2, K2, l, k) = RetryAfter(P, K, l, k)
  BY <1>2, AfterAgrees
<1>4. NotStopped(P2, l, k) <=> NotStopped(P, l, k)
  BY <1>2 DEF NotStopped
<1>5. \A j \in 1 .. k : IsEnd(P2, l, j) <=> IsEnd(P, l, j)
  BY <1>2 DEF IsEnd
<1>6. P2[l][i] = P[l][i]
  OBVIOUS
<1> QED
  BY <1>1, <1>2, <1>3, <1>4, <1>5, <1>6 DEF Fitting

(* So does what was begun and what is to be tried again.                   *)
LEMMA MessagesStay ==
  ASSUME TypedLanes, NEW l \in Lanes, prog'[l] = prog[l], acks'[l] = acks[l]
  PROVE  /\ Spoken(l)' <=> Spoken(l)
         /\ ActiveNow(l)' = ActiveNow(l) /\ RetryNow(l)' = RetryNow(l)
         /\ NotStopped(prog', l, Len(prog'[l]))
              <=> NotStopped(prog, l, Len(prog[l]))
<1>1. PICK n \in Nat : n = Len(prog[l]) /\ n = Len(prog'[l])
  BY DEF TypedLanes
<1>2. \A i \in 1 .. n : Fitting(prog', acks', l, i)
                          <=> Fitting(prog, acks, l, i)
  BY FittingAgrees
<1>3. /\ ActiveAfter(prog', acks', l, n) = ActiveAfter(prog, acks, l, n)
      /\ RetryAfter(prog', acks', l, n) = RetryAfter(prog, acks, l, n)
  BY AfterAgrees
<1>4. NotStopped(prog', l, n) <=> NotStopped(prog, l, n)
  BY DEF NotStopped
<1>5. Spoken(l)' <=> Spoken(l)
  BY <1>1, <1>2 DEF Spoken
<1> QED
  BY <1>1, <1>3, <1>4, <1>5 DEF ActiveNow, RetryNow

(* The disk of lane l, and the worker of lane l, stay as they are.         *)
DiskStays(l) == /\ tried'[l] = tried[l] /\ shard'[l] = shard[l]
                /\ prog'[l] = prog[l] /\ acks'[l] = acks[l]
WorkerStays(l) == wpc'[l] = wpc[l] /\ say'[l] = say[l] /\ todo'[l] = todo[l]

DiskStands(l) == Shape(l) /\ Sealed(l) /\ Told(l) /\ Spoken(l)

(* What is on the disk of a lane stands where its records do not change.  *)
LEMMA DiskAsBefore ==
  ASSUME TypedLanes, NEW l \in Lanes, DiskStays(l), DiskStands(l)
  PROVE  DiskStands(l)'
<1>1. tried'[l] = tried[l] /\ shard'[l] = shard[l] /\ prog'[l] = prog[l]
        /\ acks'[l] = acks[l]
  BY DEF DiskStays
<1>2. Shape(l)' /\ Sealed(l)'
  BY <1>1, RecordsStay DEF DiskStands, Sealed
<1>3. Told(l)'
  <2>1. LastFailed(l)' <=> LastFailed(l)
    BY <1>1, RecordsStay
  <2> QED
    BY <1>1, <2>1 DEF DiskStands, Told
<1>4. Spoken(l)'
  BY <1>1, MessagesStay DEF DiskStands
<1> QED
  BY <1>2, <1>3, <1>4 DEF DiskStands

(* A worker that is gone has nothing in mind.                              *)
LEMMA GoneMindsNothing ==
  ASSUME NEW l, wpc'[l] \in Dead
  PROVE  Minds(l)' /\ Poised(l)'
BY DEF Minds, Poised, Dead, Speaking

(* Nothing of the lane changes, or its worker comes to its end.            *)
LEMMA LaneAsBefore ==
  ASSUME TypedLanes, NEW l \in Lanes, DiskStays(l),
         WorkerStays(l) \/ wpc'[l] \in Dead, LaneStands(l)
  PROVE  LaneStands(l)'
<1>1. DiskStands(l)'
  BY DiskAsBefore DEF LaneStands, DiskStands
<1>2. CASE wpc'[l] \in Dead
  BY <1>1, <1>2, GoneMindsNothing DEF LaneStands, DiskStands
<1>3. CASE WorkerStays(l)
  <2>1. tried'[l] = tried[l] /\ shard'[l] = shard[l] /\ prog'[l] = prog[l]
          /\ acks'[l] = acks[l]
    BY DEF DiskStays
  <2>2. wpc'[l] = wpc[l] /\ say'[l] = say[l] /\ todo'[l] = todo[l]
    BY <1>3 DEF WorkerStays
  <2>3. /\ Whole(l)' <=> Whole(l)
        /\ Closed(l)' <=> Closed(l)
        /\ LastFailed(l)' <=> LastFailed(l)
        /\ Rest(l)' = Rest(l)
    BY <2>1, RecordsStay
  <2>4. Says(l)' = Says(l)
    BY <2>1, <2>2, <2>3 DEF Says, LastOf
  <2>5. Minds(l)'
    BY <2>1, <2>2, <2>3, <2>4 DEF LaneStands, Minds, LastOf
  <2>6. /\ ActiveNow(l)' = ActiveNow(l) /\ RetryNow(l)' = RetryNow(l)
        /\ NotStopped(prog', l, Len(prog'[l]))
             <=> NotStopped(prog, l, Len(prog[l]))
    BY <2>1, MessagesStay
  <2>7. Poised(l)'
    BY <2>1, <2>2, <2>6 DEF LaneStands, Poised, Idle, NameOf, LastOf
  <2> QED
    BY <1>1, <2>5, <2>7 DEF LaneStands, DiskStands
<1> QED
  BY <1>2, <1>3

-----------------------------------------------------------------------------
(* A worker goes on.                                                       *)

(* A message about a case is about the last attempt.                       *)
LEMMA SaysOfCase ==
  ASSUME NEW l, say[l] \in OfCase
  PROVE  /\ Says(l).kind = say[l]
         /\ Says(l).attempt[1] = LastOf(tried[l])
         /\ AttemptOf(Says(l)) = {NameOf(LastOf(tried[l]))}
<1>1. say[l] \in {"case-started", "case-terminal"}
  BY DEF OfCase
<1>2. PICK a : a = LastOf(tried[l])
  OBVIOUS
<1>3. Says(l) = [kind |-> say[l], attempt |-> <<a>>]
  BY <1>1, <1>2 DEF Says
<1>4. Says(l).kind = say[l] /\ Says(l).attempt = <<a>>
  BY <1>3
<1>5. DOMAIN <<a>> = {1} /\ <<a>>[1] = a
  OBVIOUS
<1>6. AttemptOf(Says(l)) = {<<<<a>>[i].case, <<a>>[i].try>> : i \in {1}}
  BY <1>4, <1>5 DEF AttemptOf
<1>7. AttemptOf(Says(l)) = {<<a.case, a.try>>}
  BY <1>5, <1>6
<1>8. Says(l).attempt[1] = LastOf(tried[l])
  BY <1>2, <1>4, <1>5
<1>9. NameOf(LastOf(tried[l])) = <<a.case, a.try>>
  BY <1>2 DEF NameOf
<1> QED
  BY <1>4, <1>7, <1>8, <1>9

(* What the answer to a message leaves to do, by the message.              *)
LEMMA AnswerLeaves ==
  ASSUME TypedLanes, Sensible(prog, acks), NEW l \in Lanes, LaneStands(l),
         HasAnswer(l)
  PROVE  /\ Len(acks[l]) = Len(prog[l])
         /\ say[l] # "worker-stopped" => NotStopped(prog, l, Len(prog[l]))
         /\ Answer(l) = "continue" =>
              /\ say[l] = "lane-ready" => Idle(l)
              /\ say[l] = "case-started" =>
                   ActiveNow(l) = {NameOf(LastOf(tried[l]))}
              /\ say[l] = "case-terminal" =>
                   Idle(l) /\ LastOf(tried[l]).end = "success"
         /\ Answer(l) = "retry" =>
              /\ say[l] = "case-terminal" /\ ActiveNow(l) = {}
              /\ LastOf(tried[l]).end = "retryable"
              /\ RetryNow(l) = {<<LastOf(tried[l]).case, 2>>}
<1>0. ASSUME say[l] \in OfCase
      PROVE  /\ AttemptOf(Says(l)) = {NameOf(LastOf(tried[l]))}
             /\ Says(l).attempt[1] = LastOf(tried[l])
  BY <1>0, SaysOfCase
<1>1. /\ wpc[l] = "wait" /\ Len(acks[l]) = Len(prog[l])
      /\ prog[l] # << >> /\ LastOf(prog[l]) = Says(l)
  BY DEF HasAnswer, LaneStands, Minds
<1>2. prog[l] \in Seq(Messages) /\ acks[l] \in Seq(Decisions)
  BY DEF TypedLanes
<1>3. PICK k \in Nat : k + 1 = Len(prog[l])
  <2>1. Len(prog[l]) \in Nat /\ Len(prog[l]) # 0
    BY <1>1, <1>2, EmptySeq
  <2> QED
    BY <2>1
<1>4. k + 1 \in 1 .. Len(prog[l]) /\ k + 1 \in 1 .. Len(acks[l])
  BY <1>1, <1>3
<1>5. Fitting(prog, acks, l, k + 1) /\ Forced(prog, acks, l, k + 1)
  BY <1>4 DEF LaneStands, Spoken, Sensible
<1>6. prog[l][k + 1] = Says(l) /\ acks[l][k + 1] = Answer(l)
  BY <1>1, <1>3 DEF LastOf, Answer
<1>7. k + 1 - 1 = k
  OBVIOUS
<1>8. Says(l).kind = say[l]
  BY DEF Says
<1> DEFINE act == ActiveAfter(prog, acks, l, k)
           ret == RetryAfter(prog, acks, l, k)
<1>9. /\ NotStopped(prog, l, k)
      /\ say[l] = "lane-ready" => act = {} /\ ret = {}
  BY <1>5, <1>6, <1>7, <1>8 DEF Fitting
<1>10. /\ ActiveNow(l) = IF say[l] = "case-started" /\ Answer(l) = "continue"
                         THEN AttemptOf(Says(l))
                         ELSE IF say[l] = "case-terminal" THEN {} ELSE act
       /\ RetryNow(l) = IF say[l] = "case-started" /\ Answer(l) = "continue"
                        THEN {}
                        ELSE IF say[l] # "case-terminal" THEN ret
                        ELSE IF Answer(l) = "retry"
                             THEN {<<Says(l).attempt[1].case, 2>>} ELSE {}
  <2>1. /\ Begins(prog, acks, l, k + 1)
             <=> say[l] = "case-started" /\ Answer(l) = "continue"
        /\ IsEnd(prog, l, k + 1) <=> say[l] = "case-terminal"
    BY <1>6, <1>8 DEF Begins, IsEnd
  <2>2. /\ ActiveAfter(prog, acks, l, k + 1) =
             IF Begins(prog, acks, l, k + 1) THEN AttemptOf(prog[l][k + 1])
             ELSE IF IsEnd(prog, l, k + 1) THEN {} ELSE act
        /\ RetryAfter(prog, acks, l, k + 1) =
             IF Begins(prog, acks, l, k + 1) THEN {}
             ELSE IF ~IsEnd(prog, l, k + 1) THEN ret
             ELSE IF acks[l][k + 1] = "retry"
                  THEN {<<prog[l][k + 1].attempt[1].case, 2>>} ELSE {}
    BY AfterOneMore
  <2> HIDE DEF act, ret
  <2> QED
    BY <2>1, <2>2, <1>3, <1>6 DEF ActiveNow, RetryNow
<1> HIDE DEF act, ret
<1>11. say[l] # "worker-stopped" => NotStopped(prog, l, Len(prog[l]))
  <2>1. \A j \in 1 .. Len(prog[l]) : j \in 1 .. k \/ j = k + 1
    BY <1>3
  <2> QED
    BY <2>1, <1>6, <1>8, <1>9 DEF NotStopped
<1>12. /\ Answer(l) \in {"continue", "retry"} /\ say[l] = "case-terminal" =>
            (Answer(l) = "continue" <=> LastOf(tried[l]).end = "success")
       /\ Answer(l) = "retry" => /\ say[l] = "case-terminal"
                                 /\ LastOf(tried[l]).end = "retryable"
  <2>1. /\ Answer(l) = "retry" => FailedCase(Says(l)) /\ Retryable(Says(l))
        /\ Answer(l) = "continue" => ~FailedCase(Says(l))
    BY <1>5, <1>6 DEF Forced
  <2>2. say[l] = "case-terminal" =>
          Says(l).attempt[1] = LastOf(tried[l])
    BY <1>0 DEF OfCase
  <2> QED
    BY <2>1, <2>2, <1>8 DEF FailedCase, Retryable
<1> QED
  BY <1>0, <1>1, <1>9, <1>10, <1>11, <1>12 DEF Idle, OfCase

(* With everything answered, a lane ends as it must.                       *)
LEMMA EndOfLaneStands ==
  ASSUME TypedLanes, NEW l \in Lanes, LaneStands(l), DiskStays(l),
         Len(acks[l]) = Len(prog[l]), NotStopped(prog, l, Len(prog[l])),
         EndOfLane(l)
  PROVE  LaneStands(l)'
<1>1. DiskStands(l)'
  BY DiskAsBefore DEF LaneStands, DiskStands
<1>2. tried'[l] = tried[l] /\ prog'[l] = prog[l] /\ acks'[l] = acks[l]
  BY DEF DiskStays
<1>3. Len(acks'[l]) = Len(prog'[l]) /\ NotStopped(prog', l, Len(prog'[l]))
  BY <1>2, MessagesStay
<1>4. wpc \in [Lanes -> WorkerStages]
        /\ say \in [Lanes -> Kinds \cup {"none"}]
  BY DEF TypedLanes
<1>5. CASE Committed(l) = Cases(l) \/ LastFailed(l)
  <2>1. wpc'[l] = "seal"
    BY <1>4, <1>5 DEF EndOfLane, Goes
  <2>2. Closed(l)'
    BY <1>2, <1>5, CommittedIs, RecordsStay DEF Closed, LaneStands
  <2> QED
    BY <2>1, <2>2, <1>1, <1>3 DEF LaneStands, DiskStands, Minds, Poised
<1>6. CASE ~(Committed(l) = Cases(l) \/ LastFailed(l))
  <2>1. wpc'[l] = "write" /\ say'[l] = "worker-stopped"
    BY <1>4, <1>6 DEF EndOfLane, WillSay, Goes
  <2> QED
    BY <2>1, <1>1, <1>3 DEF LaneStands, DiskStands, Minds, Poised
<1> QED
  BY <1>5, <1>6

(* What a lane holds when its attempts are wherever its length says.       *)
LEMMA LastTried ==
  ASSUME TypedLanes, NEW l \in Lanes, Shape(l), Len(tried[l]) > 0
  PROVE  /\ LastOf(tried[l]) = tried[l][Len(tried[l])]
         /\ LastOf(tried[l]) \in Attempt
         /\ LastOf(tried[l]).end # "open" =>
              /\ LastOf(tried[l]).try = 1
              /\ LastOf(tried[l]).case = Len(tried[l])
         /\ LastOf(tried[l]).end = "success" => Whole(l)
<1>1. tried[l] \in Seq(Attempt) /\ Len(tried[l]) \in Nat
  BY ShapeMeans
<1>2. PICK n \in Nat : n = Len(tried[l]) /\ n > 0
  BY <1>1
<1>3. n \in 1 .. n
  BY <1>2
<1>4. LastOf(tried[l]) = tried[l][n]
  BY <1>2 DEF LastOf
<1>5. \A j \in 1 .. n : tried[l][n].end # "open" /\ j < n =>
                          tried[l][j].end = "success"
  BY <1>2, <1>3, ShapeMeans
<1>6. /\ tried[l][n] \in Attempt
      /\ tried[l][n].end # "open" =>
           tried[l][n].try = 1 /\ tried[l][n].case = n
  BY <1>2, <1>3, ShapeMeans
<1>7. tried[l][n].end = "success" => Whole(l)
  <2>1. \A j \in 1 .. n : j < n \/ j = n
    OBVIOUS
  <2> QED
    BY <2>1, <1>2, <1>5 DEF Whole
<1> QED
  BY <1>2, <1>4, <1>6, <1>7

(* A worker that starts has read what was said and heard.                  *)
LEMMA BootStands ==
  ASSUME TypedLanes, NEW l \in Lanes, LaneStands(l), Boot(l)
  PROVE  LaneStands(l)'
<1>1. DiskStays(l) /\ todo'[l] = todo[l]
  BY DEF Boot, DiskKeeps, DiskStays
<1>2. wpc'[l] = "write" /\ say'[l] = "lane-ready"
  BY DEF Boot, WillSay, Goes, TypedLanes
<1>3. wpc[l] = "boot"
  BY DEF Boot
<1>4. DiskStands(l)'
  BY <1>1, DiskAsBefore DEF LaneStands, DiskStands
<1>5. /\ Whole(l)' <=> Whole(l)
      /\ Rest(l)' = Rest(l)
  BY <1>1, RecordsStay DEF DiskStays
<1>6. Minds(l)'
  BY <1>1, <1>2, <1>3, <1>5 DEF LaneStands, Minds
<1>7. /\ ActiveNow(l)' = ActiveNow(l) /\ RetryNow(l)' = RetryNow(l)
      /\ NotStopped(prog', l, Len(prog'[l]))
           <=> NotStopped(prog, l, Len(prog[l]))
      /\ prog'[l] = prog[l] /\ acks'[l] = acks[l]
  BY <1>1, MessagesStay DEF DiskStays
<1>8. Poised(l)'
  BY <1>2, <1>3, <1>7 DEF LaneStands, Poised, Idle, Speaking
<1> QED
  BY <1>4, <1>6, <1>8 DEF LaneStands, DiskStands

(* A worker takes up the first of its cases: the one after the last.       *)
LEMMA PickStands ==
  ASSUME TypedLanes, NEW l \in Lanes, LaneStands(l), Pick(l)
  PROVE  LaneStands(l)'
<1>1. /\ tried[l] \in Seq(Attempt) /\ Len(tried[l]) \in Nat
      /\ Plan[l] \in Nat \ {0}
  BY ShapeMeans DEF LaneStands
<1>2. PICK n \in Nat : n = Len(tried[l])
  BY <1>1
<1>3. wpc[l] = "pick" /\ Whole(l) /\ todo[l] = n + 1 .. Plan[l]
  BY <1>2 DEF Pick, LaneStands, Minds, Rest
<1>4. PICK c \in todo[l] :
        /\ \A d \in todo[l] : c <= d
        /\ todo' = [todo EXCEPT ![l] = @ \ {c}]
        /\ tried' = [tried EXCEPT ![l] = Append(@,
             [case |-> c, try |-> 1, end |-> "open", tokens |-> 0,
              proved |-> FALSE])]
  BY DEF Pick
<1>5. c = n + 1 /\ n + 1 <= Plan[l]
  BY <1>1, <1>3, <1>4
<1>6. PICK a : a = [case |-> n + 1, try |-> 1, end |-> "open", tokens |-> 0,
                    proved |-> FALSE]
  OBVIOUS
<1>7. tried'[l] = Append(tried[l], a) /\ todo'[l] = n + 2 .. Plan[l]
  <2>1. tried'[l] = Append(tried[l], a)
    BY <1>4, <1>5, <1>6 DEF TypedLanes
  <2>2. todo'[l] = todo[l] \ {n + 1}
    BY <1>4, <1>5 DEF TypedLanes
  <2> QED
    BY <2>1, <2>2, <1>1, <1>3
<1>8. /\ a \in Attempt /\ a.case = n + 1 /\ a.try = 1 /\ a.end = "open"
  BY <1>6 DEF Attempt, Ends
<1>9. /\ Len(tried'[l]) = n + 1 /\ tried'[l][n + 1] = a
      /\ \A i \in 1 .. n : tried'[l][i] = tried[l][i]
  BY <1>1, <1>2, <1>7, <1>8
<1>10. shard'[l] = shard[l] /\ prog'[l] = prog[l] /\ acks'[l] = acks[l]
  BY DEF Pick
<1>11. wpc'[l] = "write" /\ say'[l] = "case-started"
  BY DEF Pick, WillSay, Goes, TypedLanes
<1>12. shard[l] = {}
  <2>1. ~(Len(tried[l]) = Plan[l])
    BY <1>1, <1>2, <1>5
  <2>2. ~LastFailed(l)
    <3>1. CASE n = 0
      BY <3>1, <1>1, <1>2 DEF LastFailed
    <3>2. CASE n # 0
      BY <3>2, <1>2, <1>3 DEF LastFailed, LastOf, Whole
    <3> QED
      BY <3>1, <3>2
  <2> QED
    BY <2>1, <2>2 DEF LaneStands, Sealed, Closed
<1>13. Shape(l)'
  <2> SUFFICES ASSUME NEW i \in 1 .. n + 1
               PROVE  /\ tried'[l][i].case \in Cases(l)
                      /\ tried'[l][i].try = 1 => tried'[l][i].case = i
                      /\ tried'[l][i].try # 2
                      /\ i < n + 1 => tried'[l][i].end = "success"
    BY <1>9 DEF Shape, Cases
  <2>1. CASE i = n + 1
    BY <2>1, <1>1, <1>5, <1>8, <1>9 DEF Cases
  <2>2. CASE i \in 1 .. n
    <3>1. tried'[l][i] = tried[l][i] /\ tried[l][i].end = "success"
      BY <2>2, <1>2, <1>3, <1>9 DEF Whole
    <3>2. tried[l][i].case \in Cases(l)
      BY <2>2, <1>2 DEF LaneStands, Shape
    <3>3. tried[l][i].try = 1 /\ tried[l][i].case = i
      BY <2>2, <3>1, <1>2, ShapeMeans DEF LaneStands
    <3> QED
      BY <3>1, <3>2, <3>3
  <2> QED
    BY <2>1, <2>2
<1>14. Sealed(l)'
  BY <1>10, <1>12 DEF Sealed
<1>15. Told(l)'
  <2> SUFFICES ASSUME NEW i \in 1 .. Len(prog[l])
               PROVE  /\ prog[l][i].kind = "case-terminal" =>
                           \E j \in 1 .. n + 1 :
                             tried'[l][j] = prog[l][i].attempt[1]
                      /\ prog[l][i].kind # "shard-terminal"
    BY <1>9, <1>10 DEF Told
  <2>1. prog[l][i].kind = "case-terminal" =>
          \E j \in 1 .. n : tried[l][j] = prog[l][i].attempt[1]
    BY <1>2 DEF LaneStands, Told
  <2>2. prog[l][i].kind # "shard-terminal"
    BY <1>12 DEF LaneStands, Told
  <2>3. \A j \in 1 .. n : j \in 1 .. n + 1
    OBVIOUS
  <2> QED
    BY <2>1, <2>2, <2>3, <1>9
<1>16. /\ Spoken(l)' <=> Spoken(l)
       /\ ActiveNow(l)' = ActiveNow(l) /\ RetryNow(l)' = RetryNow(l)
       /\ NotStopped(prog', l, Len(prog'[l]))
            <=> NotStopped(prog, l, Len(prog[l]))
  BY <1>10, MessagesStay
<1>17. Minds(l)'
  <2>1. n + 1 > 0 /\ n + 1 + 1 = n + 2
    OBVIOUS
  <2>2. todo'[l] = Rest(l)'
    BY <2>1, <1>7, <1>9 DEF Rest
  <2> QED
    BY <2>1, <2>2, <1>8, <1>9, <1>10, <1>11, <1>12 DEF Minds
<1>18. Poised(l)'
  <2>1. LastOf(tried'[l]) = a
    BY <1>9 DEF LastOf
  <2> QED
    BY <2>1, <1>3, <1>8, <1>10, <1>11, <1>16
       DEF LaneStands, Poised, Idle, Speaking
<1> QED
  BY <1>13, <1>14, <1>15, <1>16, <1>17, <1>18 DEF LaneStands

(* A case comes to its end.                                                *)
LEMMA FinishStands ==
  ASSUME TypedLanes, NEW l \in Lanes, LaneStands(l),
         NEW end \in Ends \ {"open"}, NEW t \in Usages \cup {0},
         NEW proved \in BOOLEAN, Finish(l, end, t, proved)
  PROVE  LaneStands(l)'
<1>1. tried[l] \in Seq(Attempt) /\ Len(tried[l]) \in Nat
  BY ShapeMeans DEF LaneStands
<1>2. PICK n \in Nat : n = Len(tried[l])
  BY <1>1
<1>3. /\ wpc[l] = "drive" /\ n > 0 /\ tried[l][n].end = "open"
      /\ tried[l][n].try = 1 /\ shard[l] = {} /\ todo[l] = Rest(l)
  BY <1>2 DEF Finish, LaneStands, Minds
<1>4. n \in 1 .. n
  BY <1>3
<1>5. PICK a : a = [tried[l][n] EXCEPT !.end = end, !.tokens = t,
                                       !.proved = proved]
  OBVIOUS
<1>6. /\ a.end = end /\ a.case = tried[l][n].case /\ a.try = 1
      /\ a.end # "open" /\ a \in Attempt
  <2>1. tried[l][n] \in Attempt /\ end \in Ends /\ t \in Nat
    BY <1>1, <1>2, <1>4, ProtocolConstants
  <2> QED
    BY <2>1, <1>3, <1>5 DEF Attempt
<1>7. tried'[l] = [tried[l] EXCEPT ![n] = a]
  BY <1>2, <1>5 DEF Finish, TypedLanes
<1>8. /\ Len(tried'[l]) = n /\ tried'[l][n] = a
      /\ \A i \in 1 .. n : i # n => tried'[l][i] = tried[l][i]
  BY <1>1, <1>2, <1>4, <1>6, <1>7
<1>9. shard'[l] = shard[l] /\ prog'[l] = prog[l] /\ acks'[l] = acks[l]
        /\ todo'[l] = todo[l]
  BY DEF Finish
<1>10. wpc'[l] = "write" /\ say'[l] = "case-terminal"
  BY DEF Finish, WillSay, Goes, TypedLanes
<1>11. Shape(l)'
  <2> SUFFICES ASSUME NEW i \in 1 .. n
               PROVE  /\ tried'[l][i].case \in Cases(l)
                      /\ tried'[l][i].try = 1 => tried'[l][i].case = i
                      /\ tried'[l][i].try # 2
                      /\ i < n => tried'[l][i].end = "success"
    BY <1>8 DEF Shape, Cases
  <2>1. CASE i = n
    BY <2>1, <1>2, <1>3, <1>6, <1>8 DEF LaneStands, Shape
  <2>2. CASE i # n
    <3>1. i < n /\ tried'[l][i] = tried[l][i]
      BY <2>2, <1>8
    <3>2. tried[l][i].case \in Cases(l) /\ tried[l][i].try # 2
            /\ (tried[l][i].try = 1 => tried[l][i].case = i)
      BY <2>2, <3>1, <1>2 DEF LaneStands, Shape
    <3>3. i + 1 = n => tried[l][i + 1].try = 1
      BY <1>3
    <3>4. tried[l][i].end = "success"
      BY <3>1, <3>3, <1>2 DEF LaneStands, Shape
    <3> QED
      BY <3>1, <3>2, <3>4
  <2> QED
    BY <2>1, <2>2
<1>12. Sealed(l)'
  BY <1>3, <1>9 DEF Sealed
<1>13. Told(l)'
  <2> SUFFICES ASSUME NEW i \in 1 .. Len(prog[l])
               PROVE  /\ prog[l][i].kind = "case-terminal" =>
                           \E j \in 1 .. n :
                             tried'[l][j] = prog[l][i].attempt[1]
                      /\ prog[l][i].kind # "shard-terminal"
    BY <1>8, <1>9 DEF Told
  <2>1. prog[l][i].kind = "case-terminal" =>
          \E j \in 1 .. n : tried[l][j] = prog[l][i].attempt[1]
    BY <1>2 DEF LaneStands, Told
  <2>2. prog[l][i].kind # "shard-terminal"
    BY <1>3 DEF LaneStands, Told
  <2>3. prog[l][i].kind = "case-terminal" =>
          prog[l][i].attempt[1].end # "open"
    <3>1. prog[l][i] \in Messages
      BY DEF TypedLanes
    <3> QED
      BY <3>1 DEF Messages, Sound, EndsWell
  <2> QED
    BY <2>1, <2>2, <2>3, <1>3, <1>8
<1>14. /\ Spoken(l)' <=> Spoken(l)
       /\ ActiveNow(l)' = ActiveNow(l) /\ RetryNow(l)' = RetryNow(l)
       /\ NotStopped(prog', l, Len(prog'[l]))
            <=> NotStopped(prog, l, Len(prog[l]))
  BY <1>9, MessagesStay
<1>15. Minds(l)'
  <2>1. Rest(l)' = Rest(l)
    BY <1>2, <1>8 DEF Rest
  <2> QED
    BY <2>1, <1>3, <1>6, <1>8, <1>9, <1>10 DEF Minds
<1>16. Poised(l)'
  <2>1. LastOf(tried'[l]) = a /\ LastOf(tried[l]) = tried[l][n]
    BY <1>2, <1>8 DEF LastOf
  <2>2. NameOf(a) = NameOf(tried[l][n])
    BY <1>3, <1>6 DEF NameOf
  <2> QED
    BY <2>1, <2>2, <1>3, <1>9, <1>10, <1>14 DEF LaneStands, Poised, Speaking
<1> QED
  BY <1>11, <1>12, <1>13, <1>14, <1>15, <1>16 DEF LaneStands

(* A second attempt is begun.                                              *)
LEMMA TryAgainStands ==
  ASSUME TypedLanes, Sensible(prog, acks), NEW l \in Lanes, LaneStands(l),
         TryAgain(l)
  PROVE  LaneStands(l)'
<1>1. tried[l] \in Seq(Attempt) /\ Len(tried[l]) \in Nat
  BY ShapeMeans DEF LaneStands
<1>2. PICK n \in Nat : n = Len(tried[l])
  BY <1>1
<1>3. /\ HasAnswer(l) /\ Answer(l) = "retry" /\ wpc[l] = "wait"
      /\ say[l] = "case-terminal" /\ ActiveNow(l) = {}
      /\ LastOf(tried[l]).end = "retryable"
      /\ RetryNow(l) = {<<LastOf(tried[l]).case, 2>>}
      /\ Len(acks[l]) = Len(prog[l]) /\ NotStopped(prog, l, Len(prog[l]))
  BY AnswerLeaves DEF TryAgain, HasAnswer
<1>4. n > 0 /\ shard[l] = {} /\ n \in 1 .. n
  BY <1>2, <1>3 DEF LaneStands, Minds
<1>5. /\ tried[l][n].end = "retryable" /\ tried[l][n].try = 1
      /\ tried[l][n].case = n /\ LastOf(tried[l]) = tried[l][n]
  BY <1>2, <1>3, <1>4, LastTried DEF LaneStands
<1>6. PICK a : a = [case |-> n, try |-> 2, end |-> "open", tokens |-> 0,
                    proved |-> FALSE]
  OBVIOUS
<1>7. tried'[l] = Append(tried[l], a)
  BY <1>5, <1>6 DEF TryAgain, TypedLanes
<1>8. a \in Attempt /\ a.case = n /\ a.try = 2 /\ a.end = "open"
  BY <1>6 DEF Attempt, Ends
<1>9. /\ Len(tried'[l]) = n + 1 /\ tried'[l][n + 1] = a
      /\ \A i \in 1 .. n : tried'[l][i] = tried[l][i]
  BY <1>1, <1>2, <1>7, <1>8
<1>10. shard'[l] = shard[l] /\ prog'[l] = prog[l] /\ acks'[l] = acks[l]
  BY DEF TryAgain
<1>11. wpc'[l] = "write" /\ say'[l] = "case-started"
  BY DEF TryAgain, WillSay, Goes, TypedLanes
<1>12. \A i \in 1 .. n :
         /\ tried[l][i].case \in Cases(l) /\ tried[l][i].try = 1
         /\ tried[l][i].case = i
         /\ i < n => tried[l][i].end = "success"
  <2> SUFFICES ASSUME NEW i \in 1 .. n
               PROVE  /\ tried[l][i].case \in Cases(l)
                      /\ tried[l][i].try = 1 /\ tried[l][i].case = i
                      /\ i < n => tried[l][i].end = "success"
    OBVIOUS
  <2>1. i < n => tried[l][i].end = "success"
    BY <1>2, <1>4, <1>5, ShapeMeans DEF LaneStands
  <2>2. tried[l][i].end # "open"
    BY <2>1, <1>5
  <2>3. tried[l][i].try = 1 /\ tried[l][i].case = i
    BY <2>2, <1>2, ShapeMeans DEF LaneStands
  <2>4. tried[l][i].case \in Cases(l)
    BY <1>2 DEF LaneStands, Shape
  <2> QED
    BY <2>1, <2>3, <2>4
<1>13. Shape(l)'
  <2>1. ASSUME NEW i \in 1 .. n
        PROVE  /\ tried'[l][i].case \in Cases(l)
               /\ tried'[l][i].try = 1 /\ tried'[l][i].case = i
               /\ \/ tried'[l][i].end = "success"
                  \/ /\ tried'[l][i].end = "retryable"
                     /\ i + 1 = n + 1 /\ tried'[l][i + 1].try = 2
    <3>1. tried'[l][i] = tried[l][i]
      BY <1>9
    <3>2. CASE i < n
      BY <3>1, <3>2, <1>12
    <3>3. CASE i = n
      BY <3>1, <3>3, <1>5, <1>8, <1>9, <1>12
    <3> QED
      BY <3>2, <3>3
  <2>2. n + 1 > 1 /\ (n + 1) - 1 = n
    BY <1>4
  <2>3. /\ tried'[l][n + 1].case = n /\ n \in Cases(l)
        /\ tried'[l][n + 1].try = 2 /\ tried'[l][n + 1].end = "open"
        /\ tried'[l][n].end = "retryable"
    <3>1. tried[l][n].case \in Cases(l) /\ tried[l][n].case = n
            /\ tried'[l][n] = tried[l][n]
      BY <1>4, <1>9, <1>12
    <3> QED
      BY <3>1, <1>5, <1>8, <1>9
  <2>4. ASSUME NEW i \in 1 .. n + 1
        PROVE  /\ tried'[l][i].case \in Cases(l)
               /\ tried'[l][i].try = 1 => tried'[l][i].case = i
               /\ tried'[l][i].try = 2 =>
                    /\ i = n + 1 /\ i > 1 /\ tried'[l][i].end = "open"
                    /\ tried'[l][i].case = i - 1
                    /\ tried'[l][i - 1].end = "retryable"
               /\ i < n + 1 =>
                    \/ tried'[l][i].end = "success"
                    \/ /\ tried'[l][i].end = "retryable" /\ i + 1 = n + 1
                       /\ tried'[l][i + 1].try = 2
    <3>1. CASE i \in 1 .. n
      BY <3>1, <2>1
    <3>2. CASE i = n + 1
      BY <3>2, <2>2, <2>3
    <3> QED
      BY <3>1, <3>2
  <2>5. Shape(l)' <=>
          \A i \in 1 .. Len(tried'[l]) :
            /\ tried'[l][i].case \in Cases(l)
            /\ tried'[l][i].try = 1 => tried'[l][i].case = i
            /\ tried'[l][i].try = 2 =>
                 /\ i = Len(tried'[l]) /\ i > 1 /\ tried'[l][i].end = "open"
                 /\ tried'[l][i].case = i - 1
                 /\ tried'[l][i - 1].end = "retryable"
            /\ i < Len(tried'[l]) =>
                 \/ tried'[l][i].end = "success"
                 \/ /\ tried'[l][i].end = "retryable"
                    /\ i + 1 = Len(tried'[l])
                    /\ tried'[l][i + 1].try = 2
    BY DEF Shape
  <2>6. Len(tried'[l]) = n + 1
    BY <1>9
  <2> QED
    BY <2>4, <2>5, <2>6
<1>14. Sealed(l)'
  BY <1>4, <1>10 DEF Sealed
<1>15. Told(l)'
  <2> SUFFICES ASSUME NEW i \in 1 .. Len(prog[l])
               PROVE  /\ prog[l][i].kind = "case-terminal" =>
                           \E j \in 1 .. n + 1 :
                             tried'[l][j] = prog[l][i].attempt[1]
                      /\ prog[l][i].kind # "shard-terminal"
    BY <1>9, <1>10 DEF Told
  <2>1. prog[l][i].kind = "case-terminal" =>
          \E j \in 1 .. n : tried[l][j] = prog[l][i].attempt[1]
    BY <1>2 DEF LaneStands, Told
  <2>2. prog[l][i].kind # "shard-terminal"
    BY <1>4 DEF LaneStands, Told
  <2>3. \A j \in 1 .. n : j \in 1 .. n + 1
    OBVIOUS
  <2> QED
    BY <2>1, <2>2, <2>3, <1>9
<1>16. /\ Spoken(l)' <=> Spoken(l)
       /\ ActiveNow(l)' = ActiveNow(l) /\ RetryNow(l)' = RetryNow(l)
       /\ NotStopped(prog', l, Len(prog'[l]))
            <=> NotStopped(prog, l, Len(prog[l]))
  BY <1>10, MessagesStay
<1>17. Minds(l)'
  <2>1. n + 1 > 0
    OBVIOUS
  <2> QED
    BY <2>1, <1>4, <1>8, <1>9, <1>10, <1>11 DEF Minds
<1>18. Poised(l)'
  <2>1. LastOf(tried'[l]) = a
    BY <1>9 DEF LastOf
  <2>2. NameOf(a) = <<n, 2>>
    BY <1>8 DEF NameOf
  <2> QED
    BY <2>1, <2>2, <1>3, <1>5, <1>8, <1>10, <1>11, <1>16 DEF Poised
<1> QED
  BY <1>13, <1>14, <1>15, <1>16, <1>17, <1>18 DEF LaneStands

(* The shard is sealed, perhaps again.                                     *)
LEMMA ShardIsSealed ==
  ASSUME TypedLanes, Shards, NEW l \in Lanes, LaneStands(l), SealShard(l)
  PROVE  LaneStands(l)'
<1>1. wpc[l] = "seal" /\ Closed(l)
  BY DEF SealShard, LaneStands, Minds
<1>2. tried'[l] = tried[l] /\ prog'[l] = prog[l] /\ acks'[l] = acks[l]
  BY DEF SealShard
<1>3. shard'[l] = Terminals(l)
  <2>1. shard' = [shard EXCEPT ![l] = Terminals(l)]
    BY DEF SealShard
  <2>2. l \in DOMAIN shard
    BY DEF Shards
  <2> QED
    BY <2>1, <2>2
<1>4. wpc'[l] = "write" /\ say'[l] = "shard-terminal"
  BY DEF SealShard, WillSay, Goes, TypedLanes
<1>5. /\ Shape(l)' <=> Shape(l)
      /\ Closed(l)' <=> Closed(l)
      /\ LastFailed(l)' <=> LastFailed(l)
      /\ Terminals(l)' = Terminals(l)
  BY <1>2, RecordsStay
<1>6. Terminals(l) # {}
  BY <1>1, TerminalsAre DEF LaneStands
<1>7. Sealed(l)'
  BY <1>1, <1>3, <1>5 DEF Sealed
<1>8. Told(l)'
  <2> SUFFICES ASSUME NEW i \in 1 .. Len(prog[l])
               PROVE  /\ prog[l][i].kind = "case-terminal" =>
                           \E j \in 1 .. Len(tried[l]) :
                             tried[l][j] = prog[l][i].attempt[1]
                      /\ prog[l][i].kind = "shard-terminal" =>
                           (prog[l][i].attempt # << >> <=> LastFailed(l))
    BY <1>2, <1>3, <1>5, <1>6 DEF Told
  <2> QED
    BY DEF LaneStands, Told
<1>9. /\ Spoken(l)' <=> Spoken(l)
      /\ NotStopped(prog', l, Len(prog'[l]))
           <=> NotStopped(prog, l, Len(prog[l]))
  BY <1>2, MessagesStay
<1>10. Minds(l)'
  BY <1>1, <1>3, <1>4, <1>5, <1>6 DEF Minds
<1>11. Poised(l)'
  BY <1>1, <1>2, <1>4, <1>9 DEF LaneStands, Poised, Speaking
<1> QED
  BY <1>5, <1>7, <1>8, <1>9, <1>10, <1>11 DEF LaneStands

(* The plan is done, a lane is stopped, its shard or its end was heard of. *)
LEMMA LaneComesToItsEnd ==
  ASSUME TypedLanes, Sensible(prog, acks), NEW l \in Lanes, LaneStands(l),
         NothingLeft(l) \/ StopHere(l) \/ AfterShard(l)
  PROVE  LaneStands(l)'
<1>1. DiskStays(l) /\ todo'[l] = todo[l]
  BY DEF NothingLeft, StopHere, AfterShard, DiskKeeps, DiskStays
<1>2. Len(acks[l]) = Len(prog[l]) /\ NotStopped(prog, l, Len(prog[l]))
  <2>1. CASE NothingLeft(l)
    BY <2>1 DEF NothingLeft, LaneStands, Poised, Speaking
  <2>2. CASE StopHere(l) \/ AfterShard(l)
    <3>1. HasAnswer(l) /\ say[l] # "worker-stopped"
      BY <2>2 DEF StopHere, AfterShard
    <3> QED
      BY <3>1, AnswerLeaves
  <2> QED
    BY <2>1, <2>2
<1>3. CASE NothingLeft(l) \/ StopHere(l)
  <2>1. EndOfLane(l)
    BY <1>3 DEF NothingLeft, StopHere
  <2> QED
    BY <2>1, <1>1, <1>2, EndOfLaneStands
<1>4. CASE AfterShard(l)
  <2>1. wpc'[l] = "write" /\ say'[l] = "worker-stopped"
    BY <1>4 DEF AfterShard, WillSay, Goes, TypedLanes
  <2>2. DiskStands(l)'
    BY <1>1, DiskAsBefore DEF LaneStands, DiskStands
  <2>3. prog'[l] = prog[l] /\ acks'[l] = acks[l]
          /\ (NotStopped(prog', l, Len(prog'[l]))
                <=> NotStopped(prog, l, Len(prog[l])))
    BY <1>1, MessagesStay DEF DiskStays
  <2>4. Minds(l)' /\ Poised(l)'
    BY <2>1, <2>3, <1>2 DEF Minds, Poised
  <2> QED
    BY <2>2, <2>4 DEF LaneStands, DiskStands
<1> QED
  BY <1>3, <1>4

(* A worker goes on.                                                       *)
LEMMA GoOnStands ==
  ASSUME TypedLanes, Sensible(prog, acks), NEW l \in Lanes, LaneStands(l),
         GoOn(l)
  PROVE  LaneStands(l)'
<1>1. DiskStays(l) /\ HasAnswer(l) /\ Answer(l) = "continue"
        /\ say[l] \in {"lane-ready", "case-started", "case-terminal"}
  BY DEF GoOn, DiskKeeps, DiskStays
<1>2. /\ wpc[l] = "wait" /\ Len(acks[l]) = Len(prog[l])
      /\ NotStopped(prog, l, Len(prog[l]))
      /\ say[l] = "lane-ready" => Idle(l)
      /\ say[l] = "case-started" => ActiveNow(l) = {NameOf(LastOf(tried[l]))}
      /\ say[l] = "case-terminal" =>
           Idle(l) /\ LastOf(tried[l]).end = "success"
  BY <1>1, AnswerLeaves DEF HasAnswer
<1>3. CASE say[l] = "case-started" /\ LastOf(tried[l]).try = 2
  <2>1. wpc'[l] = "dead"
    BY <1>3 DEF GoOn, End
  <2> QED
    BY <2>1, <1>1, LaneAsBefore DEF Dead
<1>4. CASE ~(say[l] = "case-started" /\ LastOf(tried[l]).try = 2)
  <2>1. /\ wpc'[l] = IF say[l] = "case-started" THEN "drive" ELSE "pick"
        /\ todo'[l] = todo[l]
    BY <1>4 DEF GoOn, Goes, TypedLanes
  <2>2. tried'[l] = tried[l] /\ shard'[l] = shard[l] /\ prog'[l] = prog[l]
          /\ acks'[l] = acks[l]
    BY <1>1 DEF DiskStays
  <2>3. DiskStands(l)'
    BY <1>1, DiskAsBefore DEF LaneStands, DiskStands
  <2>4. /\ Whole(l)' <=> Whole(l)
        /\ Rest(l)' = Rest(l)
    BY <2>2, RecordsStay
  <2>5. /\ ActiveNow(l)' = ActiveNow(l) /\ RetryNow(l)' = RetryNow(l)
        /\ NotStopped(prog', l, Len(prog'[l]))
             <=> NotStopped(prog, l, Len(prog[l]))
    BY <2>2, MessagesStay
  <2>6. CASE say[l] = "case-started"
    <3>1. /\ Len(tried[l]) > 0 /\ tried[l][Len(tried[l])].end = "open"
          /\ shard[l] = {}
          /\ tried[l][Len(tried[l])].try = 1 => todo[l] = Rest(l)
      BY <2>6, <1>2 DEF LaneStands, Minds
    <3>2. tried[l][Len(tried[l])].try = 1
      <4>1. LastOf(tried[l]) = tried[l][Len(tried[l])]
              /\ LastOf(tried[l]) \in Attempt
        BY <3>1, LastTried DEF LaneStands
      <4>2. LastOf(tried[l]).try \in {1, 2}
        BY <4>1 DEF Attempt
      <4> QED
        BY <4>1, <4>2, <1>4, <2>6
    <3>3. Minds(l)'
      BY <3>1, <3>2, <2>1, <2>2, <2>4, <2>6 DEF Minds
    <3>4. Poised(l)'
      BY <2>1, <2>2, <2>5, <2>6, <1>2 DEF Poised, LastOf
    <3> QED
      BY <3>3, <3>4, <2>3 DEF LaneStands, DiskStands
  <2>7. CASE say[l] # "case-started"
    <3>1. Whole(l) /\ todo[l] = Rest(l)
      <4>1. CASE say[l] = "lane-ready"
        BY <4>1, <1>2 DEF LaneStands, Minds
      <4>2. CASE say[l] = "case-terminal"
        <5>1. Len(tried[l]) > 0 /\ todo[l] = Rest(l)
          BY <4>2, <1>2 DEF LaneStands, Minds
        <5> QED
          BY <5>1, <4>2, <1>2, LastTried DEF LaneStands
      <4> QED
        BY <4>1, <4>2, <2>7, <1>1
    <3>2. Idle(l)
      BY <2>7, <1>1, <1>2
    <3>3. Minds(l)'
      BY <3>1, <2>1, <2>4, <2>7 DEF Minds
    <3>4. Poised(l)'
      BY <3>2, <2>1, <2>2, <2>5, <2>7, <1>2 DEF Poised, Idle
    <3> QED
      BY <3>3, <3>4, <2>3 DEF LaneStands, DiskStands
  <2> QED
    BY <2>6, <2>7
<1> QED
  BY <1>3, <1>4

(* What a lane has said of ends is of other attempts than its last, as     *)
(* long as that is open.                                                   *)
LEMMA SaidOfOthers ==
  ASSUME TypedLanes, NEW l \in Lanes, LaneStands(l), Len(tried[l]) > 0,
         LastOf(tried[l]).end = "open",
         NEW j \in 1 .. Len(prog[l]), IsEnd(prog, l, j)
  PROVE  AttemptOf(prog[l][j]) \cap {NameOf(LastOf(tried[l]))} = {}
<1>1. tried[l] \in Seq(Attempt) /\ Len(tried[l]) \in Nat
  BY ShapeMeans DEF LaneStands
<1>2. PICK n \in Nat : n = Len(tried[l]) /\ n > 0
  BY <1>1
<1>3. PICK m : m = prog[l][j]
  OBVIOUS
<1>4. m \in Messages /\ m.kind = "case-terminal"
  BY <1>3 DEF TypedLanes, IsEnd
<1>5. m.attempt[1].end # "open"
        /\ AttemptOf(m) = {<<m.attempt[1].case, m.attempt[1].try>>}
  BY <1>4, TokensAre DEF Messages, Sound, EndsWell, OfCase
<1>6. PICK k \in 1 .. n : tried[l][k] = m.attempt[1]
  BY <1>2, <1>3, <1>4 DEF LaneStands, Told
<1>7. tried[l][k].try = 1 /\ tried[l][k].case = k /\ k \in 1 .. n
        /\ tried[l][k].end # "open"
  BY <1>2, <1>5, <1>6, ShapeMeans DEF LaneStands
<1>8. LastOf(tried[l]) = tried[l][n] /\ n \in 1 .. n /\ k # n
  BY <1>2, <1>7 DEF LastOf
<1>9. tried[l][n].try = 1 => tried[l][n].case = n
  BY <1>2, <1>8 DEF LaneStands, Shape
<1>10. <<k, 1>> # <<tried[l][n].case, tried[l][n].try>>
  BY <1>8, <1>9
<1> QED
  BY <1>3, <1>5, <1>6, <1>7, <1>8, <1>10 DEF NameOf

(* A message that is written fits to what the lane has said before.        *)
LEMMA WriteFits ==
  ASSUME TypedLanes, NEW l \in Lanes, LaneStands(l), wpc[l] = "write",
         NEW k \in Nat, k = Len(prog[l]), NEW P,
         \A i \in 1 .. k : P[l][i] = prog[l][i], P[l][k + 1] = Says(l)
  PROVE  Fitting(P, acks, l, k + 1)
<1>1. /\ Len(acks[l]) = k /\ NotStopped(prog, l, k)
      /\ say[l] = "lane-ready" => Idle(l)
      /\ say[l] = "case-started" =>
           /\ ActiveNow(l) = {}
           /\ RetryNow(l) = IF LastOf(tried[l]).try = 1 THEN {}
                            ELSE {NameOf(LastOf(tried[l]))}
           /\ Len(tried[l]) > 0 /\ tried[l][Len(tried[l])].end = "open"
      /\ say[l] = "case-terminal" =>
           ActiveNow(l) = {NameOf(LastOf(tried[l]))}
  BY DEF LaneStands, Poised, Minds, Speaking
<1>2. k + 1 - 1 = k
  OBVIOUS
<1> DEFINE act == ActiveAfter(P, acks, l, k)
           ret == RetryAfter(P, acks, l, k)
<1>3. act = ActiveNow(l) /\ ret = RetryNow(l)
  BY AfterAgrees DEF ActiveNow, RetryNow
<1>4. NotStopped(P, l, k)
  BY <1>1 DEF NotStopped
<1>5. Says(l).kind = say[l]
  BY DEF Says
<1> HIDE DEF act, ret
<1>6. CASE say[l] = "case-started"
  <2>1. /\ AttemptOf(Says(l)) = {NameOf(LastOf(tried[l]))}
        /\ Says(l).attempt[1] = LastOf(tried[l])
    BY <1>6, SaysOfCase DEF OfCase
  <2>2. LastOf(tried[l]).end = "open" /\ Len(tried[l]) > 0
    BY <1>1, <1>6 DEF LastOf
  <2>3. ASSUME NEW j \in 1 .. k, IsEnd(P, l, j)
        PROVE  AttemptOf(P[l][j]) \cap AttemptOf(Says(l)) = {}
    <3>1. P[l][j] = prog[l][j] /\ IsEnd(prog, l, j)
      BY <2>3 DEF IsEnd
    <3> QED
      BY <3>1, <2>1, <2>2, SaidOfOthers
  <2>4. IF ret # {} THEN AttemptOf(Says(l)) = ret
        ELSE Says(l).attempt[1].try = 1
    BY <2>1, <1>1, <1>3, <1>6
  <2> QED
    BY <2>3, <2>4, <1>1, <1>2, <1>3, <1>4, <1>5, <1>6 DEF Fitting, act, ret
<1>7. CASE say[l] = "case-terminal"
  <2>1. AttemptOf(Says(l)) = {NameOf(LastOf(tried[l]))}
    BY <1>7, SaysOfCase DEF OfCase
  <2> QED
    BY <2>1, <1>1, <1>2, <1>3, <1>4, <1>5, <1>7 DEF Fitting, act, ret
<1>8. CASE say[l] \notin {"case-started", "case-terminal"}
  BY <1>1, <1>2, <1>3, <1>4, <1>5, <1>8 DEF Fitting, Idle, act, ret
<1> QED
  BY <1>6, <1>7, <1>8

(* A message is written.                                                   *)
LEMMA WrittenStands ==
  ASSUME TypedLanes, NEW l \in Lanes, LaneStands(l), WriteProgress(l)
  PROVE  LaneStands(l)'
<1>1. prog[l] \in Seq(Messages) /\ wpc[l] = "write"
  BY DEF TypedLanes, WriteProgress
<1>2. PICK k \in Nat : k = Len(prog[l])
  BY <1>1
<1>3. Says(l) \in Messages
  BY <1>1, SaysIs
<1>4. prog'[l] = Append(prog[l], Says(l))
  BY DEF WriteProgress, TypedLanes
<1>5. /\ Len(prog'[l]) = k + 1 /\ prog'[l][k + 1] = Says(l)
      /\ \A i \in 1 .. k : prog'[l][i] = prog[l][i]
      /\ prog'[l] # << >> /\ LastOf(prog'[l]) = Says(l)
  BY <1>1, <1>2, <1>3, <1>4 DEF LastOf
<1>6. tried'[l] = tried[l] /\ shard'[l] = shard[l] /\ acks' = acks
        /\ say'[l] = say[l] /\ todo'[l] = todo[l] /\ wpc'[l] = "wait"
  BY DEF WriteProgress, Goes, TypedLanes
<1>7. Shape(l)' /\ Sealed(l)'
  BY <1>6, RecordsStay DEF LaneStands, Sealed
<1>8. Told(l)'
  <2>1. LastFailed(l)' <=> LastFailed(l)
    BY <1>6, RecordsStay
  <2> DEFINE Tells(m) ==
        /\ m.kind = "case-terminal" =>
             \E j \in 1 .. Len(tried[l]) : tried[l][j] = m.attempt[1]
        /\ m.kind = "shard-terminal" =>
             shard[l] # {} /\ ((m.attempt # << >>) <=> LastFailed(l))
  <2>2. Told(l)' <=> \A i \in 1 .. k + 1 : Tells(prog'[l][i])
    BY <2>1, <1>5, <1>6 DEF Told
  <2>3. \A i \in 1 .. k : Tells(prog[l][i])
    BY <1>2 DEF LaneStands, Told
  <2>4. Tells(Says(l))
    <3>1. Says(l).kind = say[l]
      BY DEF Says
    <3>2. ASSUME say[l] = "case-terminal"
          PROVE  \E j \in 1 .. Len(tried[l]) :
                   tried[l][j] = Says(l).attempt[1]
      <4>1. Len(tried[l]) > 0
        BY <3>2, <1>1 DEF LaneStands, Minds
      <4>2. Len(tried[l]) \in 1 .. Len(tried[l])
              /\ tried[l][Len(tried[l])] = LastOf(tried[l])
        BY <4>1, LastTried, ShapeMeans DEF LaneStands
      <4>3. Says(l).attempt[1] = LastOf(tried[l])
        BY <3>2, SaysOfCase DEF OfCase
      <4> QED
        BY <4>2, <4>3
    <3>3. ASSUME say[l] = "shard-terminal"
          PROVE  shard[l] # {} /\ (Says(l).attempt # << >> <=> LastFailed(l))
      <4>1. shard[l] # {}
        BY <3>3, <1>1 DEF LaneStands, Minds
      <4>2. Says(l).attempt = IF LastFailed(l) THEN <<LastOf(tried[l])>>
                              ELSE << >>
        BY <3>3 DEF Says
      <4>3. <<LastOf(tried[l])>> # << >>
        OBVIOUS
      <4> QED
        BY <4>1, <4>2, <4>3
    <3> QED
      BY <3>1, <3>2, <3>3
  <2> HIDE DEF Tells
  <2>5. \A i \in 1 .. k + 1 : i \in 1 .. k \/ i = k + 1
    OBVIOUS
  <2> QED
    BY <2>2, <2>3, <2>4, <2>5, <1>5
<1>9. Spoken(l)'
  <2>1. Len(acks[l]) = k
    BY <1>1, <1>2 DEF LaneStands, Poised, Speaking
  <2>2. \A i \in 1 .. k : Fitting(prog', acks, l, i)
    <3>1. \A i \in 1 .. k : Fitting(prog', acks, l, i)
                              <=> Fitting(prog, acks, l, i)
      BY <1>5, FittingAgrees
    <3> QED
      BY <3>1, <1>2 DEF LaneStands, Spoken
  <2>3. Fitting(prog', acks, l, k + 1)
    BY <1>1, <1>2, <1>5, WriteFits
  <2>4. \A i \in 1 .. k + 1 : i \in 1 .. k \/ i = k + 1
    OBVIOUS
  <2> QED
    BY <2>1, <2>2, <2>3, <2>4, <1>5, <1>6 DEF Spoken
<1>10. Minds(l)'
  <2>1. /\ Whole(l)' <=> Whole(l)
        /\ Closed(l)' <=> Closed(l)
        /\ Rest(l)' = Rest(l)
        /\ LastFailed(l)' <=> LastFailed(l)
    BY <1>6, RecordsStay
  <2>2. Says(l)' = Says(l)
    BY <2>1, <1>6 DEF Says, LastOf
  <2> QED
    BY <2>1, <2>2, <1>1, <1>5, <1>6 DEF LaneStands, Minds
<1>11. Poised(l)'
  BY <1>6 DEF Poised, Speaking
<1> QED
  BY <1>7, <1>8, <1>9, <1>10, <1>11 DEF LaneStands

(* A lane is let alone by the workers of the others.                       *)
LEMMA OthersAreLetAlone ==
  ASSUME TypedLanes, Shards, NEW l \in Lanes, NEW k \in Lanes, k # l,
         WorkerSteps(l) \/ CaseFails(l) \/ WorkerDies(l)
  PROVE  DiskStays(k) /\ WorkerStays(k)
<1>1. k \in DOMAIN tried /\ k \in DOMAIN shard /\ k \in DOMAIN prog
        /\ k \in DOMAIN wpc /\ k \in DOMAIN say /\ k \in DOMAIN todo
  BY DEF TypedLanes, Shards
<1> USE <1>1 DEF DiskStays, WorkerStays, DiskKeeps, WillSay, Goes, End
<1>2. CASE Boot(l)
  BY <1>2 DEF Boot
<1>3. CASE Pick(l)
  BY <1>3 DEF Pick
<1>4. CASE NothingLeft(l)
  BY <1>4 DEF NothingLeft, EndOfLane
<1>5. CASE SealShard(l)
  BY <1>5 DEF SealShard
<1>6. CASE \E end, t, proved : Finish(l, end, t, proved)
  BY <1>6 DEF Finish
<1>7. CASE WriteProgress(l)
  BY <1>7 DEF WriteProgress
<1>8. CASE GoOn(l)
  BY <1>8 DEF GoOn
<1>9. CASE TryAgain(l)
  BY <1>9 DEF TryAgain
<1>10. CASE StopHere(l)
  BY <1>10 DEF StopHere, EndOfLane
<1>11. CASE AfterShard(l)
  BY <1>11 DEF AfterShard
<1>12. CASE Exit(l)
  BY <1>12 DEF Exit
<1>13. CASE AckTimesOut(l) \/ GivesUp(l) \/ WorkerDies(l)
  BY <1>13 DEF AckTimesOut, GivesUp, WorkerDies
<1> QED
  BY <1>2, <1>3, <1>4, <1>5, <1>6, <1>7, <1>8, <1>9, <1>10, <1>11, <1>12,
     <1>13 DEF WorkerSteps, CaseSucceeds, CaseFails

(* The worker of a lane does something.                                    *)
LEMMA WorkerStands ==
  ASSUME TypedLanes, Shards, Sensible(prog, acks), NEW l \in Lanes,
         LaneStands(l), WorkerSteps(l) \/ CaseFails(l) \/ WorkerDies(l)
  PROVE  LaneStands(l)'
<1>1. CASE Boot(l) \/ Pick(l)
  BY <1>1, BootStands, PickStands
<1>2. CASE NothingLeft(l) \/ StopHere(l) \/ AfterShard(l)
  BY <1>2, LaneComesToItsEnd
<1>3. CASE SealShard(l)
  BY <1>3, ShardIsSealed
<1>4. CASE CaseSucceeds(l) \/ CaseFails(l)
  <2>1. PICK end \in Ends \ {"open"}, t \in Usages \cup {0},
             proved \in BOOLEAN : Finish(l, end, t, proved)
    BY <1>4 DEF CaseSucceeds, CaseFails, Ends
  <2> QED
    BY <2>1, FinishStands
<1>5. CASE WriteProgress(l)
  BY <1>5, WrittenStands
<1>6. CASE GoOn(l) \/ TryAgain(l)
  BY <1>6, GoOnStands, TryAgainStands
<1>7. CASE Exit(l) \/ AckTimesOut(l) \/ GivesUp(l) \/ WorkerDies(l)
  <2>1. DiskStays(l) /\ wpc'[l] \in Dead
    BY <1>7 DEF Exit, AckTimesOut, GivesUp, WorkerDies, DiskKeeps, DiskStays,
                End, Dead
  <2> QED
    BY <2>1, LaneAsBefore
<1> QED
  BY <1>1, <1>2, <1>3, <1>4, <1>5, <1>6, <1>7 DEF WorkerSteps

-----------------------------------------------------------------------------
(* The coordinator goes on.                                                *)

(* Nothing was said at the beginning.                                      *)
LEMMA NothingBegun ==
  ASSUME NEW P, NEW K, NEW l
  PROVE  ActiveAfter(P, K, l, 0) = {} /\ RetryAfter(P, K, l, 0) = {}
<1>1. 1 .. 0 = {}
  OBVIOUS
<1>2. {j \in 1 .. 0 : Begins(P, K, l, j) /\ Last(P, K, l, 0, j)} = {}
        /\ {j \in 1 .. 0 : IsEnd(P, l, j) /\ K[l][j] = "retry"
                             /\ Last(P, K, l, 0, j)} = {}
  BY <1>1
<1> QED
  BY <1>2 DEF ActiveAfter, RetryAfter

(* A worker takes up a lane that may be launched.                          *)
LEMMA SpawnStands ==
  ASSUME TypedLanes, LanesReady, NEW l \in Lanes, LaneStands(l), Spawn(l)
  PROVE  LaneStands(l)'
<1>1. Ready(l)
  BY DEF Spawn, LanesReady
<1>2. DiskStays(l)
  BY DEF Spawn, DiskKeeps, DiskStays
<1>3. tried'[l] = tried[l] /\ prog'[l] = prog[l] /\ acks'[l] = acks[l]
  BY <1>2 DEF DiskStays
<1>4. wpc'[l] = "boot" /\ todo'[l] = Rest(l)
  <2>1. Pending(l) = Rest(l)
    BY <1>1, CommittedIs DEF Ready, LaneStands
  <2> QED
    BY <2>1 DEF Spawn, TypedLanes
<1>5. DiskStands(l)'
  BY <1>2, DiskAsBefore DEF LaneStands, DiskStands
<1>6. Minds(l)'
  <2>1. (Whole(l)' <=> Whole(l)) /\ Rest(l)' = Rest(l)
    BY <1>3, RecordsStay
  <2> QED
    BY <2>1, <1>1, <1>4 DEF Minds, Ready
<1>7. Poised(l)'
  <2>1. /\ ActiveNow(l)' = ActiveNow(l) /\ RetryNow(l)' = RetryNow(l)
        /\ NotStopped(prog', l, Len(prog'[l]))
             <=> NotStopped(prog, l, Len(prog[l]))
    BY <1>3, MessagesStay
  <2> QED
    BY <2>1, <1>1, <1>3, <1>4 DEF Poised, Ready, Idle
<1> QED
  BY <1>5, <1>6, <1>7 DEF LaneStands, DiskStands

(* A message has its answer.                                               *)
LEMMA AcceptedStands ==
  ASSUME TypedLanes, AllSeen(led, acks), NEW l \in Lanes, LaneStands(l),
         Accept(l)
  PROVE  LaneStands(l)'
<1>1. prog[l] \in Seq(Messages) /\ acks[l] \in Seq(Decisions)
        /\ Len(acks[l]) <= Len(prog[l])
  BY DEF TypedLanes
<1>2. PICK n \in Nat : n = Len(acks[l])
  BY <1>1
<1>3. led.seen[l] < Len(prog[l]) /\ led.seen[l] = n
  BY <1>2 DEF Accept, Readable, Unseen, AllSeen
<1>4. Len(prog[l]) = n + 1
  <2>1. Len(prog[l]) <= n + 1 /\ Len(prog[l]) \in Nat
    BY <1>1, <1>2 DEF LaneStands, Spoken
  <2> QED
    BY <2>1, <1>3
<1>5. PICK d : acks'[l] = Append(acks[l], d)
  BY DEF Accept, TypedLanes
<1>6. Len(acks'[l]) = n + 1 /\ \A i \in 1 .. n : acks'[l][i] = acks[l][i]
  BY <1>1, <1>2, <1>5, AppendIs
<1>7. tried'[l] = tried[l] /\ shard'[l] = shard[l] /\ prog'[l] = prog[l]
        /\ wpc'[l] = wpc[l] /\ say'[l] = say[l] /\ todo'[l] = todo[l]
  BY DEF Accept, workers
<1>8. wpc[l] \notin Speaking
  BY <1>2, <1>4 DEF LaneStands, Poised
<1>9. Shape(l)' /\ Sealed(l)'
  BY <1>7, RecordsStay DEF LaneStands, Sealed
<1>10. Told(l)'
  <2>1. LastFailed(l)' <=> LastFailed(l)
    BY <1>7, RecordsStay
  <2> QED
    BY <2>1, <1>7 DEF LaneStands, Told
<1>11. Spoken(l)'
  <2>1. PICK k \in Nat : k = n + 1
    BY <1>2
  <2>2. /\ \A i \in 1 .. k : prog'[l][i] = prog[l][i]
        /\ \A i \in 1 .. k - 1 : acks'[l][i] = acks[l][i]
    BY <2>1, <1>6, <1>7
  <2>3. \A i \in 1 .. k : Fitting(prog', acks', l, i)
                            <=> Fitting(prog, acks, l, i)
    BY <2>2, FittingAgrees
  <2> QED
    BY <2>1, <2>3, <1>4, <1>6, <1>7 DEF LaneStands, Spoken
<1>12. Minds(l)'
  <2>1. /\ Whole(l)' <=> Whole(l)
        /\ Closed(l)' <=> Closed(l)
        /\ Rest(l)' = Rest(l)
        /\ LastFailed(l)' <=> LastFailed(l)
    BY <1>7, RecordsStay
  <2>2. Says(l)' = Says(l)
    BY <2>1, <1>7 DEF Says, LastOf
  <2> QED
    BY <2>1, <2>2, <1>7 DEF LaneStands, Minds, LastOf
<1>13. Poised(l)'
  BY <1>7, <1>8 DEF Poised, Speaking
<1> QED
  BY <1>9, <1>10, <1>11, <1>12, <1>13 DEF LaneStands

(* What is not one of a lane's own steps leaves its disk alone, but for an *)
(* answer, and ends its worker or leaves it alone, but for a new one.      *)
LEMMA CoordinatorLeaves ==
  ASSUME TypedLanes, NEW l \in Lanes, Next,
         ~(\E k \in Lanes : WorkerSteps(k) \/ CaseFails(k) \/ WorkerDies(k)),
         ~Accept(l), ~Spawn(l)
  PROVE  DiskStays(l) /\ (WorkerStays(l) \/ wpc'[l] \in Dead)
<1> USE DEF DiskKeeps, DiskStays, WorkerStays, disk, workers, End, Dead
<1>1. CASE CoordinatorSteps
  <2>1. CASE OpenForCleanup \/ OpenFresh \/ OpenResume
    BY <2>1 DEF OpenForCleanup, OpenFresh, OpenResume
  <2>2. CASE Quiesce \/ StopWorkers
    BY <2>2 DEF Quiesce, StopWorkers, KillRecorded
  <2>3. CASE RefusesToGoOn \/ ReplayLaunches \/ ReplayCleansUp
    BY <2>3 DEF RefusesToGoOn, ReplayLaunches, ReplayCleansUp
  <2>4. CASE SeeExit \/ MarkStop \/ CleanUp
    BY <2>4 DEF SeeExit, MarkStop, CleanUp
  <2>5. CASE \E k \in Lanes : ReplayRecord(k)
    BY <2>5 DEF ReplayRecord
  <2>6. CASE \E k \in Lanes : Spawn(k)
    BY <2>6 DEF Spawn, TypedLanes
  <2>7. CASE \E k \in Lanes : Register(k) \/ SeeDeath(k)
    BY <2>7 DEF Register, SeeDeath
  <2>8. CASE \E k \in Lanes : Accept(k)
    BY <2>8 DEF Accept, TypedLanes
  <2>9. CASE \E k \in Lanes : \E c \in Cases(k) : Entomb(k, c)
    BY <2>9 DEF Entomb
  <2> QED
    BY <1>1, <2>1, <2>2, <2>3, <2>4, <2>5, <2>6, <2>7, <2>8, <2>9
       DEF CoordinatorSteps
<1>2. CASE CoordinatorStarts
  BY <1>2 DEF CoordinatorStarts
<1>3. CASE CoordinatorDies \/ MachineDies
  BY <1>3 DEF CoordinatorDies, MachineDies
<1>4. CASE \E k \in Lanes : AcceptFails(k)
  BY <1>4 DEF AcceptFails
<1> QED
  BY <1>1, <1>2, <1>3, <1>4 DEF Next, Faults

(* Every lane stands after every step.                                     *)
LEMMA LanesStay ==
  ASSUME ProtocolInv, LanesInv, Next, NEW l \in Lanes
  PROVE  LaneStands(l)'
<1>1. TypedLanes /\ Sensible(prog, acks)
  BY DEF ProtocolInv, Typed, LogStands
<1>2. Shards /\ LaneStands(l) /\ LanesReady
  BY DEF LanesInv
<1>3. CASE WorkerSteps(l) \/ CaseFails(l) \/ WorkerDies(l)
  BY <1>1, <1>2, <1>3, WorkerStands
<1>4. CASE \E k \in Lanes \ {l} :
             WorkerSteps(k) \/ CaseFails(k) \/ WorkerDies(k)
  BY <1>1, <1>2, <1>4, OthersAreLetAlone, LaneAsBefore
<1>5. CASE Accept(l)
  <2>1. AllSeen(led, acks)
    BY <1>5 DEF ProtocolInv, LedgerStands, AllSeen, Accept, Readable, Launched
  <2> QED
    BY <2>1, <1>1, <1>2, <1>5, AcceptedStands
<1>6. CASE Spawn(l)
  BY <1>1, <1>2, <1>6, SpawnStands
<1> QED
  BY <1>1, <1>2, <1>3, <1>4, <1>5, <1>6, CoordinatorLeaves, LaneAsBefore

(* There is a shard, or none yet, for each lane.                           *)
LEMMA ShardsStay ==
  ASSUME Shards, Next
  PROVE  Shards'
<1>1. ASSUME NEW l \in Lanes, SealShard(l) PROVE Shards'
  BY <1>1 DEF SealShard, Shards
<1>2. shard' = shard => Shards'
  BY DEF Shards
<1> USE DEF DiskKeeps, disk
<1>3. CASE \E l \in Lanes : WorkerSteps(l) \/ CaseFails(l) \/ WorkerDies(l)
  <2>1. PICK l \in Lanes : WorkerSteps(l) \/ CaseFails(l) \/ WorkerDies(l)
    BY <1>3
  <2>2. SealShard(l) \/ shard' = shard
    BY <2>1 DEF WorkerSteps, Boot, Pick, NothingLeft, CaseSucceeds, Finish,
                WriteProgress, GoOn, TryAgain, StopHere, AfterShard, Exit,
                AckTimesOut, GivesUp, CaseFails, WorkerDies
  <2> QED
    BY <2>2, <1>1, <1>2
<1>4. CASE CoordinatorSteps
  BY <1>2, <1>4 DEF CoordinatorSteps, OpenForCleanup, OpenFresh, OpenResume,
     Quiesce, StopWorkers, RefusesToGoOn, ReplayLaunches, ReplayCleansUp,
     SeeExit, MarkStop, CleanUp, ReplayRecord, Spawn, Register, Accept,
     SeeDeath, Entomb
<1>5. CASE CoordinatorStarts \/ CoordinatorDies \/ MachineDies
  BY <1>2, <1>5 DEF CoordinatorStarts, CoordinatorDies, MachineDies
<1>6. CASE \E l \in Lanes : AcceptFails(l)
  BY <1>2, <1>6 DEF AcceptFails
<1> QED
  BY <1>3, <1>4, <1>5, <1>6 DEF Next, Faults

(* A lane that may be launched stays so while nothing of it changes.       *)
LEMMA ReadyStays ==
  ASSUME TypedLanes, NEW l \in Lanes, Ready(l), DiskStays(l),
         wpc'[l] = wpc[l] \/ wpc'[l] \in Dead
  PROVE  Ready(l)'
<1>1. tried'[l] = tried[l] /\ prog'[l] = prog[l] /\ acks'[l] = acks[l]
  BY DEF DiskStays
<1>2. Whole(l)' <=> Whole(l)
  BY <1>1, RecordsStay
<1>3. /\ ActiveNow(l)' = ActiveNow(l) /\ RetryNow(l)' = RetryNow(l)
      /\ NotStopped(prog', l, Len(prog'[l]))
           <=> NotStopped(prog, l, Len(prog[l]))
  BY <1>1, MessagesStay
<1>4. ~Alive(l)'
  BY DEF Alive, Ready
<1> QED
  BY <1>1, <1>2, <1>3, <1>4 DEF Ready, Idle

(* Before the first launch no lane has begun.                              *)
LEMMA FreshLanesAreReady ==
  ASSUME ProtocolInv, OpenFresh, NEW l \in Lanes
  PROVE  Ready(l)
<1>1. armed = "none"
  BY DEF OpenFresh, CleanupOnly
<1>2. prog[l] = << >> /\ tried[l] = << >> /\ wpc[l] = "none"
  BY <1>1 DEF ProtocolInv, Pristine
<1>3. acks[l] \in Seq(Decisions) /\ Len(acks[l]) <= Len(prog[l])
  BY DEF ProtocolInv, Typed, TypedLanes
<1>4. Len(prog[l]) = 0 /\ Len(acks[l]) = 0 /\ Len(tried[l]) = 0
  BY <1>2, <1>3
<1>5. Idle(l)
  BY <1>4, NothingBegun DEF Idle, ActiveNow, RetryNow
<1>6. Whole(l) /\ NotStopped(prog, l, Len(prog[l]))
  BY <1>4 DEF Whole, NotStopped
<1> QED
  BY <1>2, <1>4, <1>5, <1>6 DEF Ready, Alive, Dead

(* Where no failure was ever reported there is nothing to try again.       *)
LEMMA NothingToRetry ==
  ASSUME TypedLanes, Sensible(prog, acks), NEW l \in Lanes, LaneStands(l),
         Whole(l), Len(acks[l]) = Len(prog[l])
  PROVE  RetryNow(l) = {}
<1> SUFFICES ASSUME RetryNow(l) # {} PROVE FALSE
  OBVIOUS
<1>1. PICK i \in 1 .. Len(prog[l]) : IsEnd(prog, l, i) /\ acks[l][i] = "retry"
  BY DEF RetryNow, RetryAfter
<1>2. Forced(prog, acks, l, i)
  BY <1>1 DEF Sensible
<1>3. prog[l][i].attempt[1].end = "retryable"
        /\ prog[l][i].kind = "case-terminal"
  BY <1>1, <1>2 DEF Forced, Retryable, IsEnd
<1>4. PICK j \in 1 .. Len(tried[l]) : tried[l][j] = prog[l][i].attempt[1]
  BY <1>3 DEF LaneStands, Told
<1> QED
  BY <1>3, <1>4 DEF Whole

(* What a resume launches are lanes without a failure and without anything *)
(* begun, and nobody runs them.                                            *)
LEMMA ResumedLanesAreReady ==
  ASSUME ProtocolInv, LanesInv, ReplayLaunches, NEW l \in Lanes
  PROVE  Ready(l)
<1>1. cpc = "replay" /\ Complete /\ ~Unseen(l) /\ ~RequiresCleanup
  BY DEF ReplayLaunches, MayLaunch, Replayed
<1>2. TypedLanes /\ Sensible(prog, acks) /\ Balanced(led, prog, acks)
        /\ led \in Ledgers /\ LaneStands(l)
  BY <1>1 DEF ProtocolInv, Typed, LogStands, LedgerStands, LanesInv
<1>3. ~Alive(l)
  BY <1>1 DEF ProtocolInv, CleanupIsQuiet
<1>4. Len(acks[l]) = Len(prog[l])
  BY <1>1 DEF Complete
<1>5. led.seen[l] = Len(prog[l])
  <2>1. led.seen[l] \in Nat /\ Len(prog[l]) \in Nat
          /\ led.seen[l] <= Len(prog[l])
    BY <1>2, <1>4 DEF Ledgers, TypedLanes, Balanced
  <2> QED
    BY <2>1, <1>1 DEF Unseen
<1>6. ActiveNow(l) = {}
  <2>1. led.active[l] = ActiveAfter(prog, acks, l, led.seen[l])
    BY <1>2 DEF Balanced
  <2>2. led.active[l] = {}
    BY <1>1 DEF RequiresCleanup
  <2> QED
    BY <2>1, <2>2, <1>5 DEF ActiveNow
<1>7. NotStopped(prog, l, Len(prog[l]))
  <2>1. led.exited = {}
    BY <1>1 DEF RequiresCleanup
  <2>2. led.exited = {k \in Lanes : ~NotStopped(prog, k, led.seen[k])}
    BY <1>1 DEF LanesInv, ExitsStand
  <2> QED
    BY <2>1, <2>2, <1>5
<1>8. Whole(l)
  <2>1. tried[l] \in Seq(Attempt) /\ Len(tried[l]) \in Nat
    BY <1>2, ShapeMeans DEF LaneStands
  <2>2. PICK n \in Nat : n = Len(tried[l])
    BY <2>1
  <2>3. CASE n = 0
    BY <2>2, <2>3 DEF Whole
  <2>4. CASE n > 0
    <3>1. LastOf(tried[l]) = tried[l][n] /\ tried[l][n] \in Attempt
            /\ (tried[l][n].end = "success" => Whole(l))
      BY <2>2, <2>4, <1>2, LastTried DEF LaneStands
    <3>2. tried[l] # << >> /\ n \in DOMAIN tried[l]
      BY <2>1, <2>2, <2>4
    <3>3. tried[l][n].end \notin {"failed", "retryable", "open"}
      BY <3>1, <3>2, <1>1 DEF RequiresCleanup, InvalidCase, LastFailed
    <3>4. tried[l][n].end \in Ends
      BY <3>1 DEF Attempt
    <3> QED
      BY <3>1, <3>3, <3>4 DEF Ends
  <2> QED
    BY <2>2, <2>3, <2>4
<1>9. RetryNow(l) = {}
  BY <1>2, <1>4, <1>8, NothingToRetry
<1> QED
  BY <1>3, <1>4, <1>6, <1>7, <1>8, <1>9 DEF Ready, Idle

(* The steps by which the coordinator comes to launch, or stays there.     *)
LEMMA StepsToLaunch ==
  ASSUME Next, cpc' \in {"launch", "record"}
  PROVE  \/ OpenFresh \/ ReplayLaunches
         \/ \E l \in Lanes : Spawn(l) \/ Register(l)
         \/ /\ UNCHANGED <<cpc, known>>
            /\ \E l \in Lanes :
                 WorkerSteps(l) \/ CaseFails(l) \/ WorkerDies(l)
<1>1. CASE \E l \in Lanes : WorkerSteps(l) \/ CaseFails(l) \/ WorkerDies(l)
  <2>1. PICK l \in Lanes : WorkerSteps(l) \/ CaseFails(l) \/ WorkerDies(l)
    BY <1>1
  <2>2. UNCHANGED <<cpc, known>>
    BY <2>1 DEF WorkerSteps, Boot, Pick, NothingLeft, SealShard, CaseSucceeds,
                Finish, WriteProgress, GoOn, TryAgain, StopHere, AfterShard,
                Exit, AckTimesOut, GivesUp, CaseFails, WorkerDies,
                WorkerKeeps, memory
  <2> QED
    BY <2>1, <2>2
<1> USE DEF Enters, Over
<1>2. CASE CoordinatorSteps
  <2>1. ~(OpenForCleanup \/ OpenResume \/ Quiesce \/ StopWorkers
            \/ RefusesToGoOn \/ ReplayCleansUp \/ MarkStop \/ CleanUp)
    BY DEF OpenForCleanup, OpenResume, Quiesce, StopWorkers, RefusesToGoOn,
           ReplayCleansUp, MarkStop, CleanUp
  <2>2. ~SeeExit
    BY DEF SeeExit
  <2>3. ~(\E l \in Lanes : ReplayRecord(l) \/ SeeDeath(l))
    BY DEF ReplayRecord, SeeDeath
  <2>4. ~(\E l \in Lanes : Accept(l))
    BY DEF Accept, Readable
  <2>5. ~(\E l \in Lanes : \E c \in Cases(l) : Entomb(l, c))
    BY DEF Entomb, memory
  <2> QED
    BY <1>2, <2>1, <2>2, <2>3, <2>4, <2>5 DEF CoordinatorSteps
<1>3. ~(CoordinatorStarts \/ CoordinatorDies \/ MachineDies)
  BY DEF CoordinatorStarts, CoordinatorDies, MachineDies
<1>4. ~(\E l \in Lanes : AcceptFails(l))
  BY DEF AcceptFails
<1> QED
  BY <1>1, <1>2, <1>3, <1>4 DEF Next, Faults

(* What is still to be launched can be.                                    *)
LEMMA LaunchStaysReady ==
  ASSUME ProtocolInv, LanesInv, Next
  PROVE  LanesReady'
<1> SUFFICES ASSUME cpc' \in {"launch", "record"}, NEW k \in Lanes,
                    k \notin known'
             PROVE  (cpc' = "record" /\ FirstOf(k)') \/ Ready(k)'
  BY DEF LanesReady
<1>1. TypedLanes /\ Shards /\ LanesReady
  BY DEF ProtocolInv, Typed, LanesInv
<1>2. CASE OpenFresh \/ ReplayLaunches
  <2>1. Ready(k)
    BY <1>2, FreshLanesAreReady, ResumedLanesAreReady
  <2>2. DiskStays(k) /\ wpc' = wpc
    BY <1>2 DEF OpenFresh, ReplayLaunches, DiskKeeps, DiskStays, disk, workers
  <2> QED
    BY <2>1, <2>2, <1>1, ReadyStays
<1>3. CASE \E l \in Lanes : Spawn(l)
  <2>1. PICK l \in Lanes : Spawn(l)
    BY <1>3
  <2>2. cpc = "launch" /\ cpc' = "record" /\ known' = known /\ FirstOf(l)
    BY <2>1 DEF Spawn, Enters, FirstOf
  <2>3. CASE k = l
    BY <2>2, <2>3 DEF FirstOf
  <2>4. CASE k # l
    <3>1. Ready(k)
      BY <2>2, <1>1 DEF LanesReady
    <3>2. DiskStays(k) /\ wpc'[k] = wpc[k]
      BY <2>1, <2>4, <1>1 DEF Spawn, DiskKeeps, DiskStays, TypedLanes
    <3> QED
      BY <3>1, <3>2, <1>1, ReadyStays
  <2> QED
    BY <2>3, <2>4
<1>4. CASE \E l \in Lanes : Register(l)
  <2>1. PICK l \in Lanes : Register(l)
    BY <1>4
  <2>2. /\ cpc = "record" /\ known' = known \cup {l}
        /\ k # l /\ k \notin known
        /\ \A j \in Lanes \ known : l <= j
    BY <2>1 DEF Register
  <2>3. ~FirstOf(k)
    <3>1. l \in Lanes \ known
      BY <2>1 DEF Register
    <3>2. k \in Nat /\ l \in Nat /\ l <= k
      BY <2>2, ProtocolConstants DEF Lanes
    <3> QED
      BY <3>1, <3>2, <2>2 DEF FirstOf
  <2>4. Ready(k)
    BY <2>2, <2>3, <1>1 DEF LanesReady
  <2>5. DiskStays(k) /\ wpc' = wpc
    BY <2>1 DEF Register, DiskKeeps, DiskStays, workers
  <2> QED
    BY <2>4, <2>5, <1>1, ReadyStays
<1>5. ASSUME UNCHANGED <<cpc, known>>, NEW l \in Lanes,
             WorkerSteps(l) \/ CaseFails(l) \/ WorkerDies(l)
      PROVE  (cpc' = "record" /\ FirstOf(k)') \/ Ready(k)'
  <2>1. (cpc = "record" /\ FirstOf(k)) \/ Ready(k)
    BY <1>1, <1>5 DEF LanesReady
  <2>2. CASE cpc = "record" /\ FirstOf(k)
    BY <2>2, <1>5 DEF FirstOf
  <2>3. CASE Ready(k)
    <3>1. k # l
      BY <2>3, <1>5, OnlyTheLivingAct DEF Ready
    <3>2. DiskStays(k) /\ wpc'[k] = wpc[k]
      BY <3>1, <1>1, <1>5, OthersAreLetAlone DEF WorkerStays
    <3> QED
      BY <2>3, <3>2, <1>1, ReadyStays
  <2> QED
    BY <2>1, <2>2, <2>3
<1> QED
  BY <1>2, <1>3, <1>4, <1>5, StepsToLaunch

(* A ledger knows which workers have ended.                                *)
KnowsEnds(L, P) ==
  L.exited = {k \in Lanes : ~NotStopped(P, k, L.seen[k])}

(* A ledger that has seen one message more knows its end too.              *)
LEMMA ExitsOneMore ==
  ASSUME NEW P, NEW K, Logs(P, K), NEW L \in Ledgers, NEW l \in Lanes,
         NEW n \in Nat, n = L.seen[l], n + 1 \in 1 .. Len(P[l]),
         NEW m, m = P[l][n + 1], NEW R, R = Accepted(L, l, m),
         KnowsEnds(L, P)
  PROVE  KnowsEnds(R, P)
<1>1. m \in Messages
  <2>1. P[l] \in Seq(Messages)
    BY LogsAre
  <2> QED
    BY <2>1
<1>2. Becomes(L, l, m, Decision(L, l, m), R)
  BY <1>1, AcceptedIs
<1>3. R.seen = [L.seen EXCEPT ![l] = @ + 1]
        /\ R.exited = IF m.kind = "worker-stopped" THEN L.exited \cup {l}
                      ELSE L.exited
  BY <1>2 DEF Becomes
<1>4. L.seen \in [Lanes -> Nat]
  BY DEF Ledgers
<1>5. R.seen[l] = n + 1 /\ \A k \in Lanes : k # l => R.seen[k] = L.seen[k]
  BY <1>3, <1>4
<1>6. ~NotStopped(P, l, n + 1)
        <=> ~NotStopped(P, l, n) \/ m.kind = "worker-stopped"
  <2>1. 1 .. n + 1 = (1 .. n) \cup {n + 1}
    OBVIOUS
  <2> QED
    BY <2>1 DEF NotStopped
<1>7. ASSUME NEW k \in Lanes
      PROVE  k \in R.exited <=> ~NotStopped(P, k, R.seen[k])
  <2>1. CASE k = l
    BY <2>1, <1>3, <1>5, <1>6 DEF KnowsEnds
  <2>2. CASE k # l
    BY <2>2, <1>3, <1>5 DEF KnowsEnds
  <2> QED
    BY <2>1, <2>2
<1>8. R.exited \subseteq Lanes
  BY <1>3 DEF KnowsEnds
<1> QED
  BY <1>7, <1>8 DEF KnowsEnds

(* The ledger has the lanes whose end it has seen.                         *)
LEMMA ExitsStay ==
  ASSUME ProtocolInv, ExitsStand, Next
  PROVE  ExitsStand'
<1> SUFFICES ASSUME cpc' \in Launched \cup {"replay"}
             PROVE  led'.exited
                      = {k \in Lanes : ~NotStopped(prog', k, led'.seen[k])}
  BY DEF ExitsStand
<1>1. Logs(prog, acks) /\ led \in Ledgers /\ TypedLanes
  BY TypedMeansLogs DEF ProtocolInv
<1>2. cpc \in Launched \cup {"replay"} =>
        /\ led.exited = {k \in Lanes : ~NotStopped(prog, k, led.seen[k])}
        /\ \A k \in Lanes : led.seen[k] <= Len(acks[k])
  BY DEF ExitsStand, ProtocolInv, LedgerStands, Balanced
<1>3. ASSUME led' = Fresh
      PROVE  led'.exited
               = {k \in Lanes : ~NotStopped(prog', k, led'.seen[k])}
  <2>1. led'.exited = {} /\ \A k \in Lanes : led'.seen[k] = 0
    BY <1>3 DEF Fresh
  <2>2. \A k \in Lanes : NotStopped(prog', k, 0)
    BY DEF NotStopped
  <2> QED
    BY <2>1, <2>2
<1>4. CASE \E l \in Lanes : WriteProgress(l)
  <2>1. PICK l \in Lanes : WriteProgress(l)
    BY <1>4
  <2>2. UNCHANGED <<acks, led, cpc>>
    BY <2>1 DEF WriteProgress, WorkerKeeps, memory
  <2>3. SameAnswered(prog, prog', acks)
    <3>1. Typed
      BY DEF ProtocolInv
    <3> QED
      BY <2>1, <3>1, WriteAdds
  <2>4. ASSUME NEW k \in Lanes
        PROVE  NotStopped(prog', k, led.seen[k])
                 <=> NotStopped(prog, k, led.seen[k])
    <3>1. led.seen[k] \in Nat /\ led.seen[k] <= Len(acks[k])
            /\ Len(acks[k]) \in Nat
      BY <1>1, <1>2, <2>2, LogsAre DEF Ledgers
    <3>2. \A i \in 1 .. led.seen[k] : i \in 1 .. Len(acks[k])
      BY <3>1
    <3>3. \A i \in 1 .. led.seen[k] : prog'[k][i] = prog[k][i]
      BY <3>2, <2>3 DEF SameAnswered
    <3> QED
      BY <3>3 DEF NotStopped
  <2> QED
    BY <2>2, <2>4, <1>2
<1>5. CASE \E l \in Lanes : Accept(l) \/ ReplayRecord(l)
  <2>1. PICK l \in Lanes : Accept(l) \/ ReplayRecord(l)
    BY <1>5
  <2>2. /\ cpc \in Launched \cup {"replay"} /\ Unseen(l) /\ prog' = prog
        /\ led' = Accepted(led, l, NextOf(l))
    BY <2>1 DEF Accept, ReplayRecord, Readable, Replayable, Launched, disk
  <2>3. PICK n \in Nat : n = led.seen[l]
    BY <1>1 DEF Ledgers
  <2>4. n + 1 \in 1 .. Len(prog[l])
    <3>1. Len(prog[l]) \in Nat /\ n < Len(prog[l])
      BY <1>1, <2>2, <2>3, LogsAre DEF Unseen
    <3> QED
      BY <3>1
  <2>5. led' = Accepted(led, l, prog[l][n + 1])
    BY <2>2, <2>3 DEF NextOf
  <2>6. led'.exited = {k \in Lanes : ~NotStopped(prog, k, led'.seen[k])}
    <3>1. PICK m : m = prog[l][n + 1]
      OBVIOUS
    <3>2. PICK R : R = Accepted(led, l, m)
      OBVIOUS
    <3>3. KnowsEnds(led, prog)
      BY <1>2, <2>2 DEF KnowsEnds
    <3>4. KnowsEnds(R, prog)
      BY <1>1, <2>3, <2>4, <3>1, <3>2, <3>3, ExitsOneMore
    <3> QED
      BY <3>1, <3>2, <3>4, <2>5 DEF KnowsEnds
  <2> QED
    BY <2>2, <2>6
<1>6. CASE Quiesce \/ OpenFresh
  <2>1. cpc \in {"quiesce", "open"} /\ led' = led
    BY <1>6 DEF Quiesce, OpenFresh, Enters
  <2>2. led = Fresh
    BY <2>1 DEF ProtocolInv, LedgerStands
  <2> QED
    BY <2>1, <2>2, <1>3
<1>7. CASE ReplayLaunches
  BY <1>2, <1>7 DEF ReplayLaunches, Enters, disk
<1>8. CASE Ends2
  BY <1>8 DEF Ends2, Over, Launched
<1>9. CASE Quiet
  <2>1. cpc \in Launched \cup {"replay"} /\ UNCHANGED <<prog, led>>
    BY <1>9 DEF Quiet, Moves, Launched
  <2> QED
    BY <2>1, <1>2
<1> QED
  BY <1>4, <1>5, <1>6, <1>7, <1>8, <1>9, StepsOfLedger

-----------------------------------------------------------------------------
(* The lanes stand.                                                        *)

(* They do at the beginning.                                               *)
LEMMA InitLanes == Init => LanesInv
<1> SUFFICES ASSUME Init PROVE LanesInv
  OBVIOUS
<1>1. /\ tried = [l \in Lanes |-> << >>] /\ prog = tried /\ acks = tried
      /\ shard = [l \in Lanes |-> {}]
      /\ wpc = [l \in Lanes |-> "none"] /\ cpc = "down"
  BY DEF Init
<1>2. ASSUME NEW l \in Lanes PROVE LaneStands(l)
  <2>1. /\ Len(tried[l]) = 0 /\ Len(prog[l]) = 0 /\ Len(acks[l]) = 0
        /\ shard[l] = {} /\ wpc[l] = "none"
    BY <1>1
  <2>2. Shape(l) /\ Sealed(l) /\ Told(l) /\ Spoken(l)
    BY <2>1 DEF Shape, Sealed, Told, Spoken
  <2>3. Minds(l) /\ Poised(l)
    BY <2>1 DEF Minds, Poised, Speaking
  <2> QED
    BY <2>2, <2>3 DEF LaneStands
<1> QED
  BY <1>1, <1>2 DEF LanesInv, Shards, LanesReady, ExitsStand, Launched

(* A stuttering step keeps that.                                           *)
LEMMA LanesStutter == ProtocolInv /\ LanesInv /\ UNCHANGED vars => LanesInv'
<1> SUFFICES ASSUME ProtocolInv, LanesInv, UNCHANGED vars PROVE LanesInv'
  OBVIOUS
<1>1. UNCHANGED <<tried, shard, prog, acks, wpc, say, todo, cpc, known, led>>
  BY DEF vars, disk, workers, memory
<1>2. TypedLanes
  BY DEF ProtocolInv, Typed
<1>3. \A l \in Lanes : DiskStays(l) /\ WorkerStays(l)
  BY <1>1 DEF DiskStays, WorkerStays
<1>4. \A l \in Lanes : LaneStands(l)'
  BY <1>2, <1>3, LaneAsBefore DEF LanesInv
<1>5. LanesReady'
  <2>1. \A l \in Lanes : Ready(l) => Ready(l)'
    BY <1>1, <1>2, <1>3, ReadyStays
  <2>2. \A l \in Lanes : FirstOf(l)' <=> FirstOf(l)
    BY <1>1 DEF FirstOf
  <2> QED
    BY <2>1, <2>2, <1>1 DEF LanesInv, LanesReady
<1>6. Shards' /\ ExitsStand'
  BY <1>1 DEF LanesInv, Shards, ExitsStand, NotStopped
<1> QED
  BY <1>4, <1>5, <1>6 DEF LanesInv

(* So does every step.                                                     *)
LEMMA NextLanes == ProtocolInv /\ LanesInv /\ [Next]_vars => LanesInv'
<1> SUFFICES ASSUME ProtocolInv, LanesInv, Next PROVE LanesInv'
  BY LanesStutter
<1>1. Shards' /\ LanesReady' /\ ExitsStand'
  BY ShardsStay, LaunchStaysReady, ExitsStay DEF LanesInv
<1>2. \A l \in Lanes : LaneStands(l)'
  BY LanesStay
<1> QED
  BY <1>1, <1>2 DEF LanesInv

(* What each lane has tried, sealed and said, what its worker goes by and  *)
(* what of it the ledger knows fit together.                               *)
THEOREM LanesStand == Spec => []LanesInv
BY InitLanes, NextLanes, ProtocolStands, PTL DEF Spec

-----------------------------------------------------------------------------
(* The proofs that homes were scrubbed.                                    *)

(* What the records of a lane's attempts say of its tombstones.            *)
ProofsKept(l) ==
  /\ \A i \in 1 .. Len(tried[l]) :
       LET a == tried[l][i]
       IN /\ a.proved => a.case \in tomb[l]
          /\ a.end \in {"success", "retryable"} => a.proved
          /\ a.end = "open" => ~a.proved
  /\ \A c \in tomb[l] :
       \E i \in 1 .. Len(tried[l]) : tried[l][i].case = c
(* No case has a tombstone that its worker did not write.                  *)
ProvedOnly(l) ==
  \A c \in tomb[l] : \E i \in 1 .. Len(tried[l]) :
    tried[l][i].case = c /\ tried[l][i].proved
TombsTyped == tomb = [l \in Lanes |-> tomb[l]]
ProofsInv ==
  /\ TombsTyped
  /\ \A l \in Lanes :
       ProofsKept(l) /\ (Alive(l) \/ cpc \in Launched => ProvedOnly(l))

(* A case comes to one of its ends.                                        *)
Ending(l, end, t, proved) ==
  /\ end \in Ends \ {"open"} /\ t \in Usages \cup {0} /\ proved \in BOOLEAN
  /\ end \in {"success", "retryable"} => proved
  /\ Finish(l, end, t, proved)
Ending1(l) == \E end, t, proved : Ending(l, end, t, proved)

(* Those are its ends.                                                     *)
LEMMA EndingIs ==
  ASSUME NEW l, CaseSucceeds(l) \/ CaseFails(l)
  PROVE  Ending1(l)
<1>1. CASE CaseSucceeds(l)
  <2>1. PICK t \in Usages : Finish(l, "success", t, TRUE)
    BY <1>1 DEF CaseSucceeds
  <2>2. Ending(l, "success", t, TRUE)
    BY <2>1 DEF Ending, Ends
  <2> QED
    BY <2>2 DEF Ending1
<1>2. CASE Finish(l, "retryable", 0, TRUE)
  <2>1. Ending(l, "retryable", 0, TRUE)
    BY <1>2 DEF Ending, Ends
  <2> QED
    BY <2>1 DEF Ending1
<1>3. ASSUME NEW proved \in BOOLEAN, Finish(l, "failed", 0, proved)
      PROVE  Ending1(l)
  <2>1. Ending(l, "failed", 0, proved)
    BY <1>3 DEF Ending, Ends
  <2> QED
    BY <2>1 DEF Ending1
<1> QED
  BY <1>1, <1>2, <1>3 DEF CaseFails

(* Who changes what lane l has tried, or its tombstones.                   *)
Untouched(l) == tried'[l] = tried[l] /\ tomb'[l] = tomb[l]
Entombed(l) == \E c \in Cases(l) : Entomb(l, c)

(* Nobody else does.                                                       *)
LEMMA ProofSteps ==
  ASSUME TypedLanes, TombsTyped, Next, NEW l \in Lanes
  PROVE  \/ Untouched(l) \/ Pick(l) \/ TryAgain(l) \/ Ending1(l)
         \/ Entombed(l)
<1>1. l \in DOMAIN tried /\ l \in DOMAIN tomb
  BY DEF TypedLanes, TombsTyped
<1> USE <1>1 DEF Untouched, DiskKeeps, disk
<1>2. ASSUME NEW k \in Lanes,
             WorkerSteps(k) \/ CaseFails(k) \/ WorkerDies(k)
      PROVE  Untouched(l) \/ Pick(l) \/ TryAgain(l) \/ Ending1(l)
  <2>1. CASE Pick(k)
    BY <2>1 DEF Pick
  <2>2. CASE TryAgain(k)
    BY <2>2 DEF TryAgain
  <2>3. CASE CaseSucceeds(k) \/ CaseFails(k)
    <3>1. PICK end, t, proved : Ending(k, end, t, proved)
      BY <2>3, EndingIs DEF Ending1
    <3>2. CASE k = l
      BY <3>1, <3>2 DEF Ending1
    <3>3. CASE k # l
      BY <3>1, <3>3 DEF Ending, Finish
    <3> QED
      BY <3>2, <3>3
  <2>4. CASE Boot(k) \/ NothingLeft(k) \/ SealShard(k) \/ WriteProgress(k)
    BY <2>4 DEF Boot, NothingLeft, SealShard, WriteProgress
  <2>5. CASE GoOn(k) \/ StopHere(k) \/ AfterShard(k) \/ Exit(k)
    BY <2>5 DEF GoOn, StopHere, AfterShard, Exit
  <2>6. CASE AckTimesOut(k) \/ GivesUp(k) \/ WorkerDies(k)
    BY <2>6 DEF AckTimesOut, GivesUp, WorkerDies
  <2> QED
    BY <1>2, <2>1, <2>2, <2>3, <2>4, <2>5, <2>6 DEF WorkerSteps
<1>3. CASE CoordinatorSteps
  <2>1. CASE OpenForCleanup \/ OpenFresh \/ OpenResume
    BY <2>1 DEF OpenForCleanup, OpenFresh, OpenResume
  <2>2. CASE Quiesce \/ StopWorkers \/ RefusesToGoOn
    BY <2>2 DEF Quiesce, StopWorkers, RefusesToGoOn
  <2>3. CASE ReplayLaunches \/ ReplayCleansUp
    BY <2>3 DEF ReplayLaunches, ReplayCleansUp
  <2>4. CASE SeeExit \/ MarkStop \/ CleanUp
    BY <2>4 DEF SeeExit, MarkStop, CleanUp
  <2>5. CASE \E k \in Lanes : ReplayRecord(k) \/ Spawn(k) \/ Register(k)
    BY <2>5 DEF ReplayRecord, Spawn, Register
  <2>6. CASE \E k \in Lanes : Accept(k) \/ SeeDeath(k)
    BY <2>6 DEF Accept, SeeDeath
  <2>7. CASE \E k \in Lanes : Entombed(k)
    BY <2>7 DEF Entomb, Entombed
  <2> QED
    BY <1>3, <2>1, <2>2, <2>3, <2>4, <2>5, <2>6, <2>7
       DEF CoordinatorSteps, Entombed
<1>4. CASE CoordinatorStarts \/ CoordinatorDies \/ MachineDies
  BY <1>4 DEF CoordinatorStarts, CoordinatorDies, MachineDies
<1>5. CASE \E k \in Lanes : AcceptFails(k)
  BY <1>5 DEF AcceptFails
<1> QED
  BY <1>2, <1>3, <1>4, <1>5 DEF Next, Faults

(* An attempt is begun: no tombstone is written.                           *)
LEMMA ProofsBegin ==
  ASSUME TypedLanes, NEW l \in Lanes, NEW a \in Attempt,
         a.end = "open", ~a.proved,
         tried'[l] = Append(tried[l], a), tomb'[l] = tomb[l], ProofsKept(l)
  PROVE  ProofsKept(l)' /\ (ProvedOnly(l) => ProvedOnly(l)')
<1>1. PICK n \in Nat : n = Len(tried[l])
  BY DEF TypedLanes
<1>2. /\ Len(tried'[l]) = n + 1 /\ tried'[l][n + 1] = a
      /\ \A i \in 1 .. n : tried'[l][i] = tried[l][i]
  BY <1>1 DEF TypedLanes
<1>3. \A i \in 1 .. n + 1 : i \in 1 .. n \/ i = n + 1
  OBVIOUS
<1>4. \A i \in 1 .. n : i \in 1 .. n + 1
  OBVIOUS
<1>5. ASSUME NEW i \in 1 .. n + 1
      PROVE  /\ tried'[l][i].proved => tried'[l][i].case \in tomb'[l]
             /\ tried'[l][i].end \in {"success", "retryable"} =>
                  tried'[l][i].proved
             /\ tried'[l][i].end = "open" => ~tried'[l][i].proved
  BY <1>1, <1>2, <1>3, <1>5 DEF ProofsKept
<1>6. \A c \in tomb'[l] : \E i \in 1 .. n + 1 : tried'[l][i].case = c
  BY <1>1, <1>2, <1>4 DEF ProofsKept
<1>7. ProvedOnly(l) => ProvedOnly(l)'
  BY <1>1, <1>2, <1>4 DEF ProvedOnly
<1> QED
  BY <1>2, <1>5, <1>6, <1>7 DEF ProofsKept

(* A case ends, with a tombstone or without.                               *)
LEMMA ProofsEnd ==
  ASSUME TypedLanes, TombsTyped, NEW l \in Lanes, LaneStands(l),
         NEW end, NEW t, NEW proved, Ending(l, end, t, proved), ProofsKept(l)
  PROVE  ProofsKept(l)' /\ (ProvedOnly(l) => ProvedOnly(l)')
<1>1. tried[l] \in Seq(Attempt) /\ Len(tried[l]) \in Nat
  BY ShapeMeans DEF LaneStands
<1>2. PICK n \in Nat : n = Len(tried[l])
  BY <1>1
<1>3. n > 0 /\ tried[l][n].end = "open" /\ n \in 1 .. n
  BY <1>2 DEF Ending, Finish, LaneStands, Minds
<1>4. PICK a : a = [tried[l][n] EXCEPT !.end = end, !.tokens = t,
                                       !.proved = proved]
  OBVIOUS
<1>5. /\ a.end = end /\ a.case = tried[l][n].case /\ a.proved = proved
      /\ end # "open" /\ proved \in BOOLEAN
      /\ end \in {"success", "retryable"} => proved
  <2>1. tried[l][n] \in Attempt
    BY <1>1, <1>2, <1>3
  <2> QED
    BY <2>1, <1>4 DEF Attempt, Ending
<1>6. tried'[l] = [tried[l] EXCEPT ![n] = a]
  BY <1>2, <1>4 DEF Ending, Finish, TypedLanes
<1>7. /\ Len(tried'[l]) = n /\ tried'[l][n] = a
      /\ \A i \in 1 .. n : i # n => tried'[l][i] = tried[l][i]
  BY <1>1, <1>2, <1>3, <1>6
<1>8. tomb'[l] = IF proved THEN tomb[l] \cup {a.case} ELSE tomb[l]
  BY <1>2, <1>5 DEF Ending, Finish, TombsTyped, LastOf
<1>9. ~tried[l][n].proved
  BY <1>2, <1>3 DEF ProofsKept
<1>10. ASSUME NEW i \in 1 .. n
       PROVE  /\ tried'[l][i].proved => tried'[l][i].case \in tomb'[l]
              /\ tried'[l][i].end \in {"success", "retryable"} =>
                   tried'[l][i].proved
              /\ tried'[l][i].end = "open" => ~tried'[l][i].proved
  <2>1. CASE i = n
    BY <2>1, <1>5, <1>7, <1>8
  <2>2. CASE i # n
    BY <2>2, <1>2, <1>7, <1>8, <1>10 DEF ProofsKept
  <2> QED
    BY <2>1, <2>2
<1>11. ASSUME NEW c \in tomb'[l]
       PROVE  \E i \in 1 .. n : tried'[l][i].case = c
  <2>1. CASE c = a.case
    BY <2>1, <1>3, <1>7
  <2>2. CASE c # a.case
    BY <2>2, <1>2, <1>5, <1>7, <1>8, <1>11 DEF ProofsKept
  <2> QED
    BY <2>1, <2>2
<1>12. ASSUME ProvedOnly(l), NEW c \in tomb'[l]
       PROVE  \E i \in 1 .. n : tried'[l][i].case = c /\ tried'[l][i].proved
  <2>1. CASE proved /\ c = a.case
    BY <2>1, <1>3, <1>5, <1>7
  <2>2. CASE c \in tomb[l]
    <3>1. PICK i \in 1 .. n : tried[l][i].case = c /\ tried[l][i].proved
      BY <2>2, <1>2, <1>12 DEF ProvedOnly
    <3>2. i # n
      BY <3>1, <1>9
    <3> QED
      BY <3>1, <3>2, <1>7
  <2> QED
    BY <2>1, <2>2, <1>8, <1>12
<1> QED
  BY <1>7, <1>10, <1>11, <1>12 DEF ProofsKept, ProvedOnly

(* The cleanup scrubs the home of a case that has none.                    *)
LEMMA ProofsOfCleanup ==
  ASSUME TombsTyped, NEW l \in Lanes, NEW c, Entomb(l, c), ProofsKept(l)
  PROVE  ProofsKept(l)'
<1>1. tried' = tried /\ tomb'[l] = tomb[l] \cup {c}
        /\ \E i \in DOMAIN tried[l] : tried[l][i].case = c
  BY DEF Entomb, TombsTyped
<1> QED
  BY <1>1 DEF ProofsKept

(* A lane that is left alone.                                              *)
LEMMA ProofsAsBefore ==
  ASSUME NEW l, Untouched(l)
  PROVE  /\ ProofsKept(l) => ProofsKept(l)'
         /\ ProvedOnly(l) => ProvedOnly(l)'
BY DEF Untouched, ProofsKept, ProvedOnly

(* Each lane keeps its proofs, whatever happens.                           *)
LEMMA LaneKeepsProofs ==
  ASSUME TypedLanes, Sensible(prog, acks), TombsTyped, Next,
         NEW l \in Lanes, LaneStands(l), ProofsKept(l)
  PROVE  ProofsKept(l)' /\ (ProvedOnly(l) => ProvedOnly(l)' \/ Entombed(l))
<1>1. CASE Untouched(l)
  BY <1>1, ProofsAsBefore
<1>2. CASE Pick(l)
  <2>1. PICK c \in todo[l] : tried' = [tried EXCEPT ![l] = Append(@,
          [case |-> c, try |-> 1, end |-> "open", tokens |-> 0,
           proved |-> FALSE])]
    BY <1>2 DEF Pick
  <2>2. PICK a : a = [case |-> c, try |-> 1, end |-> "open", tokens |-> 0,
                      proved |-> FALSE]
    OBVIOUS
  <2>3. a \in Attempt /\ a.end = "open" /\ ~a.proved
    <3>1. c \in Nat
      BY DEF TypedLanes
    <3> QED
      BY <3>1, <2>2 DEF Attempt, Ends
  <2>4. tried'[l] = Append(tried[l], a) /\ tomb'[l] = tomb[l]
    BY <1>2, <2>1, <2>2 DEF Pick, TypedLanes
  <2> QED
    BY <2>3, <2>4, ProofsBegin
<1>3. CASE TryAgain(l)
  <2>1. PICK a : a = [case |-> LastOf(tried[l]).case, try |-> 2,
                      end |-> "open", tokens |-> 0, proved |-> FALSE]
    OBVIOUS
  <2>2. tried'[l] = Append(tried[l], a) /\ tomb'[l] = tomb[l]
    BY <1>3, <2>1 DEF TryAgain, TypedLanes
  <2>3. a \in Attempt
    <3>1. tried[l] # << >> /\ tried[l] \in Seq(Attempt)
      BY <1>3, RetryIsOfCase DEF TryAgain, TypedLanes
    <3>2. LastOf(tried[l]) \in Attempt
      BY <3>1, LastIs
    <3> QED
      BY <3>2, <2>1 DEF Attempt, Ends
  <2>4. a.end = "open" /\ ~a.proved
    BY <2>1
  <2> QED
    BY <2>2, <2>3, <2>4, ProofsBegin
<1>4. CASE Ending1(l)
  BY <1>4, ProofsEnd DEF Ending1
<1>5. CASE Entombed(l)
  BY <1>5, ProofsOfCleanup DEF Entombed
<1> QED
  BY <1>1, <1>2, <1>3, <1>4, <1>5, ProofSteps

(* There are tombstones, or none yet, for each lane.                       *)
LEMMA TombsStayTyped ==
  ASSUME TombsTyped, Next
  PROVE  TombsTyped'
<1>1. tomb' = tomb => TombsTyped'
  BY DEF TombsTyped
<1>2. ASSUME NEW l, Ending1(l) PROVE TombsTyped'
  <2>1. PICK end, t, proved : Finish(l, end, t, proved)
    BY <1>2 DEF Ending1, Ending
  <2> QED
    BY <2>1 DEF Finish, TombsTyped
<1>3. ASSUME NEW l, Entombed(l) PROVE TombsTyped'
  BY <1>3 DEF Entombed, Entomb, TombsTyped
<1> USE DEF DiskKeeps, disk
<1>4. CASE \E l \in Lanes : WorkerSteps(l) \/ CaseFails(l) \/ WorkerDies(l)
  <2>1. PICK l \in Lanes : WorkerSteps(l) \/ CaseFails(l) \/ WorkerDies(l)
    BY <1>4
  <2>2. CaseSucceeds(l) \/ CaseFails(l) \/ tomb' = tomb
    BY <2>1 DEF WorkerSteps, Boot, Pick, NothingLeft, SealShard,
                WriteProgress, GoOn, TryAgain, StopHere, AfterShard, Exit,
                AckTimesOut, GivesUp, WorkerDies
  <2> QED
    BY <2>2, <1>1, <1>2, EndingIs
<1>5. CASE CoordinatorSteps
  <2>1. (\E l \in Lanes : Entombed(l)) \/ tomb' = tomb
    BY <1>5 DEF CoordinatorSteps, OpenForCleanup, OpenFresh, OpenResume,
       Quiesce, StopWorkers, RefusesToGoOn, ReplayLaunches, ReplayCleansUp,
       SeeExit, MarkStop, CleanUp, ReplayRecord, Spawn, Register, Accept,
       SeeDeath, Entombed
  <2> QED
    BY <2>1, <1>1, <1>3
<1>6. CASE CoordinatorStarts \/ CoordinatorDies \/ MachineDies
  BY <1>1, <1>6 DEF CoordinatorStarts, CoordinatorDies, MachineDies
<1>7. CASE \E l \in Lanes : AcceptFails(l)
  BY <1>1, <1>7 DEF AcceptFails
<1> QED
  BY <1>4, <1>5, <1>6, <1>7 DEF Next, Faults

(* A coordinator comes to launch lanes by one of two ways.                 *)
LEMMA StepsToLaunched ==
  ASSUME Next, cpc' \in Launched
  PROVE  cpc \in Launched \/ OpenFresh \/ ReplayLaunches
<1>1. ~(\E l \in Lanes : WriteProgress(l)) \/ cpc' = cpc
  BY DEF WriteProgress, WorkerKeeps, memory
<1>2. (\E l \in Lanes : Accept(l)) => cpc \in Launched
  BY DEF Accept, Readable, Launched
<1>3. ~(\E l \in Lanes : ReplayRecord(l)) \/ cpc' = cpc
  BY DEF ReplayRecord
<1>4. ~Quiesce /\ ~Ends2
  BY DEF Quiesce, Enters, Ends2, Over, Launched
<1>5. Quiet => cpc \in Launched
  BY DEF Quiet, Moves, Launched
<1> QED
  BY <1>1, <1>2, <1>3, <1>4, <1>5, StepsOfLedger

(* A worker comes to life only when it is launched.                        *)
LEMMA StepsToLife ==
  ASSUME TypedLanes, Shards, Next, NEW l \in Lanes, Alive(l)'
  PROVE  Alive(l) \/ cpc = "launch"
<1>1. CASE WorkerSteps(l) \/ CaseFails(l) \/ WorkerDies(l)
  BY <1>1, OnlyTheLivingAct
<1>2. CASE \E k \in Lanes \ {l} :
             WorkerSteps(k) \/ CaseFails(k) \/ WorkerDies(k)
  BY <1>2, OthersAreLetAlone DEF WorkerStays, Alive
<1>3. CASE Accept(l)
  BY <1>3 DEF Accept, workers, Alive
<1>4. CASE Spawn(l)
  BY <1>4 DEF Spawn
<1> QED
  BY <1>1, <1>2, <1>3, <1>4, CoordinatorLeaves DEF WorkerStays, Alive

(* A lane whose cases have all succeeded has their tombstones and no more. *)
LEMMA WholeIsProved ==
  ASSUME NEW l, Whole(l), ProofsKept(l)
  PROVE  ProvedOnly(l)
BY DEF Whole, ProofsKept, ProvedOnly

(* The proofs stand at the beginning.                                      *)
LEMMA InitProofs == Init => ProofsInv
<1> SUFFICES ASSUME Init PROVE ProofsInv
  OBVIOUS
<1>1. /\ tried = [l \in Lanes |-> << >>] /\ tomb = [l \in Lanes |-> {}]
  BY DEF Init
<1> QED
  BY <1>1 DEF ProofsInv, TombsTyped, ProofsKept, ProvedOnly

(* A stuttering step keeps them.                                           *)
LEMMA ProofsStutter == ProofsInv /\ UNCHANGED vars => ProofsInv'
<1> SUFFICES ASSUME ProofsInv, UNCHANGED vars PROVE ProofsInv'
  OBVIOUS
<1>1. UNCHANGED <<tried, tomb, wpc, cpc>>
  BY DEF vars, disk, workers, memory
<1>2. \A l \in Lanes : Untouched(l) /\ (Alive(l)' <=> Alive(l))
  BY <1>1 DEF Untouched, Alive
<1> QED
  BY <1>1, <1>2, ProofsAsBefore DEF ProofsInv, TombsTyped

(* So does every step: when a lane is launched all its cases have          *)
(* succeeded, and no cleanup comes until its worker is gone.               *)
LEMMA NextProofs ==
  ProtocolInv /\ LanesInv /\ ProofsInv /\ [Next]_vars => ProofsInv'
<1> SUFFICES ASSUME ProtocolInv, LanesInv, ProofsInv, Next PROVE ProofsInv'
  BY ProofsStutter
<1>1. TypedLanes /\ Sensible(prog, acks) /\ TombsTyped /\ Shards
  BY DEF ProtocolInv, Typed, LogStands, ProofsInv, LanesInv
<1>2. ASSUME NEW l \in Lanes
      PROVE  /\ ProofsKept(l)'
             /\ ProvedOnly(l) => ProvedOnly(l)' \/ Entombed(l)
  BY <1>1, LaneKeepsProofs DEF LanesInv, ProofsInv
<1>3. ASSUME NEW l \in Lanes, Alive(l)' \/ cpc' \in Launched
      PROVE  ProvedOnly(l)'
  <2>1. ~Entombed(l)
    BY <1>3 DEF Entombed, Entomb, memory, workers, ProtocolInv,
                CleanupIsQuiet, Alive, Launched
  <2>2. ASSUME OpenFresh \/ ReplayLaunches PROVE ProvedOnly(l)
    <3>1. Ready(l)
      BY <2>2, FreshLanesAreReady, ResumedLanesAreReady
    <3> QED
      BY <3>1, WholeIsProved DEF Ready, ProofsInv
  <2>3. Alive(l) \/ cpc \in Launched \/ OpenFresh \/ ReplayLaunches
    BY <1>1, <1>3, StepsToLaunched, StepsToLife DEF Launched
  <2>4. ProvedOnly(l)
    BY <2>2, <2>3 DEF ProofsInv
  <2> QED
    BY <2>1, <2>4, <1>2
<1>4. TombsTyped'
  BY <1>1, TombsStayTyped
<1> QED
  BY <1>2, <1>3, <1>4 DEF ProofsInv

(* Terminal records and tombstones fit together, and while a lane is       *)
(* launched and its worker is alive no case has a tombstone but its own.   *)
THEOREM ProofsAreKept == Spec => []ProofsInv
BY InitProofs, NextProofs, ProtocolStands, LanesStand, PTL DEF Spec

-----------------------------------------------------------------------------
(* The records bear out what was said.                                     *)

(* What a lane may have said.                                              *)
Sayable(l, m) ==
  /\ m.kind \in Kinds
  /\ m.kind = "case-terminal" =>
       /\ m.attempt[1].end # "open"
       /\ \E j \in 1 .. Len(tried[l]) : tried[l][j] = m.attempt[1]
  /\ m.kind = "shard-terminal" =>
       shard[l] # {} /\ ((m.attempt # << >>) <=> LastFailed(l))

(* The records of the attempts and of the shard agree with it.             *)
LEMMA SaidIsAgreed ==
  ASSUME TypedLanes, NEW l \in Lanes, LaneStands(l), NEW m, Sayable(l, m)
  PROVE  RecordsAgree(l, m)
<1>1. Shape(l) /\ Sealed(l)
  BY DEF LaneStands
<1>2. CASE m.kind = "case-terminal"
  <2>1. AttemptStands(l, m.attempt[1]) /\ CommitStands(l, m.attempt[1])
    BY <1>1, <1>2, EndStands DEF Sayable
  <2> QED
    BY <2>1, <1>2 DEF RecordsAgree
<1>3. CASE m.kind = "shard-terminal"
  <2>1. Closed(l) /\ shard[l] = Terminals(l)
    BY <1>1, <1>3 DEF Sealed, Sayable
  <2>2. ShardStands(l) /\ (LastFailed(l) <=> \E a \in shard[l] :
                                               a.end # "success")
    BY <2>1, <1>1, SealStands
  <2>3. ShardBearsOut(l, m)
    BY <2>2, <1>3 DEF ShardBearsOut, Sayable
  <2> QED
    BY <2>3, <1>3 DEF RecordsAgree
<1>4. CASE m.kind \notin {"case-terminal", "shard-terminal"}
  BY <1>4 DEF RecordsAgree
<1> QED
  BY <1>2, <1>3, <1>4

(* The ends it tells of are there.                                         *)
LEMMA EndsAreTried ==
  ASSUME TypedLanes, NEW l \in Lanes, LaneStands(l), NEW m, Sayable(l, m),
         NEW a \in EndsTold(l, m)
  PROVE  \E i \in 1 .. Len(tried[l]) :
           tried[l][i] = a /\ tried[l][i].end # "open"
<1>1. CASE m.kind = "case-terminal"
  BY <1>1 DEF EndsTold, Sayable
<1>2. CASE m.kind = "shard-terminal"
  <2>1. a \in shard[l]
    BY <1>2 DEF EndsTold
  <2>2. Closed(l) /\ a \in Terminals(l)
    BY <2>1 DEF LaneStands, Sealed
  <2>3. a \in {tried[l][i] : i \in 1 .. Len(tried[l])}
    BY <2>2, TerminalsAre DEF LaneStands
  <2>4. a.end # "open"
    BY <2>2 DEF Terminals
  <2> QED
    BY <2>3, <2>4
<1>3. CASE m.kind \notin {"case-terminal", "shard-terminal"}
  BY <1>3 DEF EndsTold
<1> QED
  BY <1>1, <1>2, <1>3

(* Only a cleanup contradicts an end, and only one that was not proved.    *)
LEMMA EndIsProved ==
  ASSUME TypedLanes, NEW l \in Lanes, LaneStands(l), ProofsKept(l),
         NEW i \in 1 .. Len(tried[l]), tried[l][i].end # "open"
  PROVE  /\ TombstoneStands(l, tried[l][i]) \/ CleanedSince(l, tried[l][i])
         /\ ProvedOnly(l) => TombstoneStands(l, tried[l][i])
<1>1. PICK a : a = tried[l][i]
  OBVIOUS
<1>2. a \in Attempt
  BY <1>1, ShapeMeans DEF LaneStands
<1>3. /\ a.proved \in BOOLEAN /\ a.end \in Ends /\ a.end # "open"
      /\ a.proved => a.case \in tomb[l]
      /\ a.end \in {"success", "retryable"} => a.proved
  BY <1>1, <1>2 DEF Attempt, ProofsKept
<1>4. TombstoneStands(l, a) \/ CleanedSince(l, a)
  BY <1>3 DEF TombstoneStands, CleanedSince, Ends
<1>5. ASSUME ProvedOnly(l), a.case \in tomb[l] PROVE a.proved
  <2>1. PICK j \in 1 .. Len(tried[l]) :
          tried[l][j].case = a.case /\ tried[l][j].proved
    BY <1>5 DEF ProvedOnly
  <2>2. tried[l][j].end # "open"
    BY <2>1 DEF ProofsKept
  <2>3. tried[l][j].case = j /\ a.case = i
    BY <2>2, <1>1, ShapeMeans DEF LaneStands
  <2> QED
    BY <2>1, <2>3, <1>1
<1> QED
  BY <1>1, <1>3, <1>4, <1>5 DEF TombstoneStands

(* What was said, and what is about to be said, agrees with the records.  *)
LEMMA AllIsBorneOut ==
  ASSUME ProtocolInv, LanesInv, ProofsInv
  PROVE  EveryMessageIsBorneOut
<1> SUFFICES ASSUME NEW l \in Lanes
             PROVE  /\ wpc[l] = "write" => BorneOut(l, Says(l))
                    /\ wpc[l] = "seal" => SealAgrees(l)
                    /\ Readable(l) => BorneOut(l, NextOf(l))
                    /\ \A i \in DOMAIN prog[l] :
                         /\ RecordsAgree(l, prog[l][i])
                         /\ \A a \in EndsTold(l, prog[l][i]) :
                              TombstoneStands(l, a) \/ CleanedSince(l, a)
  BY DEF EveryMessageIsBorneOut
<1>1. TypedLanes /\ LaneStands(l) /\ ProofsKept(l) /\ led \in Ledgers
  BY DEF ProtocolInv, Typed, LanesInv, ProofsInv
<1>2. wpc[l] = "seal" => SealAgrees(l)
  BY <1>1 DEF LaneStands, Sealed, SealAgrees
<1>3. ASSUME wpc[l] = "write" PROVE Sayable(l, Says(l))
  <2>1. Says(l) \in Messages /\ Says(l).kind = say[l]
    BY <1>1, <1>3, SaysIs
  <2>2. ASSUME say[l] = "case-terminal"
        PROVE  /\ Says(l).attempt[1].end # "open"
               /\ \E j \in 1 .. Len(tried[l]) :
                    tried[l][j] = Says(l).attempt[1]
    <3>1. Len(tried[l]) > 0 /\ tried[l][Len(tried[l])].end # "open"
      BY <2>2, <1>1, <1>3 DEF LaneStands, Minds
    <3>2. LastOf(tried[l]) = tried[l][Len(tried[l])]
            /\ Len(tried[l]) \in Nat
      BY <3>1, <1>1, LastTried, ShapeMeans DEF LaneStands
    <3>3. Len(tried[l]) \in 1 .. Len(tried[l])
      BY <3>1, <3>2
    <3>4. Says(l).attempt[1] = LastOf(tried[l])
      BY <2>2, SaysOfCase DEF OfCase
    <3> QED
      BY <3>1, <3>2, <3>3, <3>4
  <2>3. ASSUME say[l] = "shard-terminal"
        PROVE  shard[l] # {} /\ ((Says(l).attempt # << >>) <=> LastFailed(l))
    <3>1. shard[l] # {}
      BY <2>3, <1>1, <1>3 DEF LaneStands, Minds
    <3>2. Says(l).attempt = IF LastFailed(l) THEN <<LastOf(tried[l])>>
                            ELSE << >>
      BY <2>3 DEF Says
    <3>3. <<LastOf(tried[l])>> # << >>
      OBVIOUS
    <3> QED
      BY <3>1, <3>2, <3>3
  <2>4. Says(l).kind \in Kinds
    BY <2>1 DEF Messages, Message
  <2> QED
    BY <2>1, <2>2, <2>3, <2>4 DEF Sayable
<1>4. ASSUME NEW i \in DOMAIN prog[l] PROVE Sayable(l, prog[l][i])
  <2>1. prog[l] \in Seq(Messages)
    BY <1>1 DEF TypedLanes
  <2>2. i \in 1 .. Len(prog[l]) /\ prog[l][i] \in Messages
    BY <2>1
  <2>3. PICK m \in Messages : m = prog[l][i]
    BY <2>2
  <2>4. m.kind \in Kinds
          /\ (m.kind = "case-terminal" => m.attempt[1].end # "open")
    BY DEF Messages, Message, Sound, EndsWell
  <2>5. /\ m.kind = "case-terminal" =>
             \E j \in 1 .. Len(tried[l]) : tried[l][j] = m.attempt[1]
        /\ m.kind = "shard-terminal" =>
             shard[l] # {} /\ ((m.attempt # << >>) <=> LastFailed(l))
    BY <2>2, <2>3, <1>1 DEF LaneStands, Told
  <2> QED
    BY <2>3, <2>4, <2>5 DEF Sayable
<1>5. ASSUME NEW m, Sayable(l, m)
      PROVE  /\ RecordsAgree(l, m)
             /\ \A a \in EndsTold(l, m) :
                  TombstoneStands(l, a) \/ CleanedSince(l, a)
             /\ ProvedOnly(l) => BorneOut(l, m)
  <2>1. RecordsAgree(l, m)
    BY <1>1, <1>5, SaidIsAgreed
  <2>2. ASSUME NEW a \in EndsTold(l, m)
        PROVE  /\ TombstoneStands(l, a) \/ CleanedSince(l, a)
               /\ ProvedOnly(l) => TombstoneStands(l, a)
    BY <1>1, <1>5, EndsAreTried, EndIsProved
  <2> QED
    BY <2>1, <2>2 DEF BorneOut, ProofsStand
<1>6. wpc[l] = "write" => ProvedOnly(l)
  BY DEF ProofsInv, Alive, Dead
<1>7. Readable(l) => ProvedOnly(l) /\ \E i \in DOMAIN prog[l] :
                                        NextOf(l) = prog[l][i]
  <2>1. led.seen[l] \in Nat /\ prog[l] \in Seq(Messages)
    BY <1>1 DEF Ledgers, TypedLanes
  <2>2. Unseen(l) => led.seen[l] + 1 \in DOMAIN prog[l]
    BY <2>1 DEF Unseen
  <2> QED
    BY <2>2 DEF Readable, NextOf, ProofsInv, Launched
<1> QED
  BY <1>2, <1>3, <1>4, <1>5, <1>6, <1>7

(* Whatever was retried, sealed or resumed since a message was written,    *)
(* the records bear it out: to the worker that writes it, to the           *)
(* coordinator that answers it, and to every resume that reads it again,   *)
(* unless a cleanup has written the tombstone of a case that had failed    *)
(* without one.                                                            *)
THEOREM RecordsBearOutMessages == Spec => []EveryMessageIsBorneOut
BY AllIsBorneOut, ProtocolStands, LanesStand, ProofsAreKept, PTL

(* A ledger that has the beginning of what fits takes what comes next.     *)
LEMMA AllIsAuthorised ==
  ASSUME ProtocolInv, LanesInv
  PROVE  EveryMessageIsAuthorised
<1> SUFFICES ASSUME NEW l \in Lanes, Unseen(l), cpc \in {"run", "replay"}
             PROVE  Authorised(led, l, NextOf(l))
  BY DEF EveryMessageIsAuthorised
<1>1. Logs(prog, acks) /\ led \in Ledgers /\ Balanced(led, prog, acks)
  BY TypedMeansLogs DEF ProtocolInv, LedgerStands, Launched
<1>2. led.exited = {k \in Lanes : ~NotStopped(prog, k, led.seen[k])}
  BY DEF LanesInv, ExitsStand, Launched
<1>3. PICK n \in Nat : n = led.seen[l]
  BY <1>1 DEF Ledgers
<1>4. n + 1 \in 1 .. Len(prog[l])
  <2>1. Len(prog[l]) \in Nat /\ n < Len(prog[l])
    BY <1>1, <1>3, LogsAre DEF Unseen
  <2> QED
    BY <2>1
<1>5. PICK m : m = prog[l][n + 1] /\ m = NextOf(l)
  BY <1>3 DEF NextOf
<1>6. Fitting(prog, acks, l, n + 1)
  BY <1>4 DEF LanesInv, LaneStands, Spoken
<1>7. n + 1 - 1 = n
  OBVIOUS
<1>8. led.active[l] = ActiveAfter(prog, acks, l, n)
        /\ led.retry[l] = RetryAfter(prog, acks, l, n)
  BY <1>1, <1>3 DEF Balanced
<1>9. l \notin led.exited
  BY <1>2, <1>3, <1>6, <1>7 DEF Fitting
<1>10. ASSUME m.kind = "case-started"
       PROVE  /\ led.active[l] = {}
              /\ ~(\E a \in AttemptOf(m) : <<l, a>> \in led.done)
              /\ IF led.retry[l] # {} THEN AttemptOf(m) = led.retry[l]
                 ELSE m.attempt[1].try = 1
  <2>1. /\ led.active[l] = {}
        /\ \A j \in 1 .. n :
             IsEnd(prog, l, j) => AttemptOf(prog[l][j]) \cap AttemptOf(m) = {}
        /\ IF led.retry[l] # {} THEN AttemptOf(m) = led.retry[l]
           ELSE m.attempt[1].try = 1
    BY <1>5, <1>6, <1>7, <1>8, <1>10 DEF Fitting
  <2>2. ASSUME NEW a \in AttemptOf(m), <<l, a>> \in led.done PROVE FALSE
    <3>1. <<l, a>> \in NamesIn(prog, Seen(led))
      BY <2>2, <1>1 DEF Balanced
    <3>2. PICK p \in Seen(led) : /\ prog[p[1]][p[2]].kind = "case-terminal"
                                 /\ <<l, a>> \in {<<p[1], b>> :
                                      b \in AttemptOf(prog[p[1]][p[2]])}
      BY <3>1 DEF NamesIn
    <3>3. p[1] = l /\ a \in AttemptOf(prog[p[1]][p[2]])
      BY <3>2
    <3>4. p[2] \in 1 .. n
      <4>1. led.seen \in [Lanes -> Nat]
        BY <1>1 DEF Ledgers
      <4> QED
        BY <4>1, <3>3, <1>3, PlacesAre DEF Seen
    <3>5. IsEnd(prog, l, p[2])
      BY <3>2, <3>3 DEF IsEnd
    <3> QED
      BY <3>3, <3>4, <3>5, <2>1, <2>2
  <2> QED
    BY <2>1, <2>2
<1>11. m.kind = "case-terminal" => led.active[l] = AttemptOf(m)
  BY <1>5, <1>6, <1>7, <1>8 DEF Fitting
<1> QED
  BY <1>5, <1>9, <1>10, <1>11 DEF Authorised

(* No coordinator ever has to refuse what a worker says, nor a resume what *)
(* it replays, whatever was killed before.                                 *)
THEOREM LedgerRefusesNothing == Spec => []EveryMessageIsAuthorised
BY AllIsAuthorised, ProtocolStands, LanesStand, PTL
=============================================================================
