-------------------------- MODULE StockLedgerProofs --------------------------
(***************************************************************************)
(* Proofs about the stock ledger.                                          *)
(***************************************************************************)
EXTENDS StockLedger, FiniteSetTheorems, WellFoundedInduction, TLAPS

(* A fold over the subsets of S that takes their elements as pick says.    *)
Step(F, pick, step, e0, T) == IF T = {} THEN e0 ELSE step[<<F[T \ {pick[T]}], pick[T]>>]
Folds(F, pick, step, e0, S) == F = [T \in SUBSET S |-> Step(F, pick, step, e0, T)]
Picks(pick, S) == \A T \in SUBSET S : T # {} => pick[T] \in T

(* A set of subsets of a finite set has a member with no smaller one in it. *)
LEMMA SmallestSubset ==
    ASSUME NEW S, IsFiniteSet(S), NEW D, D \subseteq SUBSET S, D # {}
    PROVE  \E T \in D : \A U \in D : U \subseteq T => U = T
<1>1. D \subseteq FiniteSubsetsOf(S)
  BY FS_Subset DEF FiniteSubsetsOf
<1>2. PICK T \in D : \A U \in D : ~(<<U, T>> \in StrictSubsetOrdering(S))
  BY <1>1, FS_StrictSubsetOrderingWellFounded, WFMin
<1> QED
  BY <1>2 DEF StrictSubsetOrdering

(* There is one such fold ...                                              *)
LEMMA FoldUnique ==
    ASSUME NEW S, IsFiniteSet(S), NEW pick, Picks(pick, S), NEW step, NEW e0,
           NEW F, NEW G, Folds(F, pick, step, e0, S), Folds(G, pick, step, e0, S)
    PROVE  F = G
<1> DEFINE D == {T \in SUBSET S : F[T] # G[T]}
<1>1. SUFFICES ASSUME D # {} PROVE FALSE
  BY DEF Folds
<1>2. PICK T \in D : \A U \in D : U \subseteq T => U = T
  <2> HIDE DEF D
  <2>1. D \subseteq SUBSET S
    BY DEF D
  <2> QED
    BY <1>1, <2>1, SmallestSubset
<1>3. T # {} /\ pick[T] \in T
  BY DEF Folds, Step, Picks
<1>4. F[T \ {pick[T]}] = G[T \ {pick[T]}]
  BY <1>2, <1>3
<1> QED
  BY <1>3, <1>4, ZenonT(60) DEF Folds, Step

(* ... and it stays where its steps stay.                                  *)
LEMMA FoldExists ==
    ASSUME NEW S, IsFiniteSet(S), NEW pick, Picks(pick, S),
           NEW V, NEW e0 \in V, NEW step \in [V \X S -> V]
    PROVE  \E F \in [SUBSET S -> V] : Folds(F, pick, step, e0, S)
<1> DEFINE Good(F, T) == F \in [SUBSET T -> V] /\ Folds(F, pick, step, e0, T)
           fold(T) == CHOOSE F : Good(F, T)
           val == [T \in SUBSET S |-> fold(T)[T]]
           D == {T \in SUBSET S : ~ \E F : Good(F, T)}
<1>1. SUFFICES ASSUME D # {} PROVE FALSE
  OBVIOUS
<1>2. PICK T \in D : \A U \in D : U \subseteq T => U = T
  <2> HIDE DEF D
  <2>1. D \subseteq SUBSET S
    BY DEF D
  <2> QED
    BY <1>1, <2>1, SmallestSubset
<1> HIDE DEF Good
<1>3. ASSUME NEW U \in SUBSET T, U # T PROVE Good(fold(U), U)
  BY <1>2, <1>3
<1>4. ASSUME NEW U \in SUBSET T, U # T PROVE val[U] \in V /\ val[U] = Step(val, pick, step, e0, U)
  <2> DEFINE rest == U \ {pick[U]}
             G == [W \in SUBSET rest |-> fold(U)[W]]
  <2>1. val[U] = fold(U)[U] /\ fold(U) \in [SUBSET U -> V] /\ Folds(fold(U), pick, step, e0, U)
    BY <1>3, <1>4 DEF Good
  <2>2. CASE U = {}
    BY <2>1, <2>2 DEF Folds, Step
  <2>3. CASE U # {}
    <3>1. pick[U] \in U /\ rest # T /\ rest \in SUBSET T /\ IsFiniteSet(rest) /\ Picks(pick, rest)
      BY <2>3, FS_Subset DEF Picks
    <3>2. Folds(fold(rest), pick, step, e0, rest) /\ val[rest] = fold(rest)[rest]
      BY <1>3, <3>1 DEF Good
    <3>3. Folds(G, pick, step, e0, rest)
      <4>1. ASSUME NEW W \in SUBSET rest PROVE G[W] = Step(G, pick, step, e0, W)
        <5>1. G[W] = fold(U)[W] /\ G[W \ {pick[W]}] = fold(U)[W \ {pick[W]}]
          OBVIOUS
        <5>2. fold(U)[W] = Step(fold(U), pick, step, e0, W)
          BY <2>1 DEF Folds
        <5> HIDE DEF G
        <5> QED BY <5>1, <5>2 DEF Step
      <4> QED BY <4>1 DEF Folds
    <3>4. G = fold(rest)
      BY <3>1, <3>2, <3>3, FoldUnique
    <3>5. fold(U)[rest] = val[rest]
      BY <3>2, <3>4
    <3> QED
      BY <2>1, <2>3, <3>5, SMTT(30) DEF Folds, Step
  <2> QED BY <2>2, <2>3
<1>5. T = {} \/ (pick[T] \in S /\ T \ {pick[T]} \in SUBSET T /\ T \ {pick[T]} # T)
  BY DEF Picks
<1> DEFINE G == [U \in SUBSET T |-> IF U = T THEN Step(val, pick, step, e0, T) ELSE val[U]]
<1>6. Step(val, pick, step, e0, T) \in V
  BY <1>4, <1>5 DEF Step
<1>7. G \in [SUBSET T -> V]
  BY <1>4, <1>6
<1>8. ASSUME NEW U \in SUBSET T PROVE G[U] = Step(G, pick, step, e0, U)
  <2>1. U # {} => G[U \ {pick[U]}] = val[U \ {pick[U]}]
    BY DEF Picks
  <2>2. Step(G, pick, step, e0, U) = Step(val, pick, step, e0, U)
    <3> HIDE DEF G
    <3> QED BY <2>1 DEF Step
  <2> QED BY <1>4, <2>2
<1>9. Good(G, T)
  <2> HIDE DEF G
  <2> QED BY <1>7, <1>8 DEF Good, Folds
<1> QED BY <1>9

-----------------------------------------------------------------------------
(* A sum is such a fold.                                                   *)
Pick(S) == [T \in SUBSET S |-> CHOOSE x \in T : TRUE]
Add(f) == [p \in Int \X DOMAIN f |-> f[p[2]] + p[1]]

LEMMA SumFolds ==
    ASSUME NEW S, IsFiniteSet(S), NEW f \in [S -> Int]
    PROVE  \E F \in [SUBSET S -> Int] :
               Folds(F, Pick(S), Add(f), 0, S) /\ SumFunction(f) = F[S]
<1> DEFINE Sums(F) == F = [T \in SUBSET S |-> IF T = {} THEN 0
                                              ELSE f[CHOOSE x \in T : TRUE] + F[T \ {CHOOSE x \in T : TRUE}]]
<1>1. Picks(Pick(S), S) /\ Add(f) \in [Int \X S -> Int]
  BY DEF Picks, Pick, Add
<1>2. PICK F \in [SUBSET S -> Int] : Folds(F, Pick(S), Add(f), 0, S)
  <2>1. 0 \in Int
    OBVIOUS
  <2> QED BY <1>1, <2>1, FoldExists, Zenon
<1>3. Sums(F)
  <2> SUFFICES ASSUME NEW T \in SUBSET S, T # {}
               PROVE  Step(F, Pick(S), Add(f), 0, T)
                        = f[CHOOSE x \in T : TRUE] + F[T \ {CHOOSE x \in T : TRUE}]
    BY <1>2 DEF Folds, Step
  <2>1. Pick(S)[T] = (CHOOSE x \in T : TRUE) /\ Pick(S)[T] \in S /\ F[T \ {Pick(S)[T]}] \in Int
    BY DEF Pick
  <2> QED BY <2>1 DEF Step, Add
<1>4. SumFunction(f) = (CHOOSE G : Sums(G))[S]
  BY DEF SumFunction, SumFunctionOnSet, FoldFunctionOnSet, MapThenFoldSet
<1>5. Sums(CHOOSE G : Sums(G))
  <2> HIDE DEF Sums
  <2> QED BY <1>3
<1>6. ASSUME NEW G, Sums(G) PROVE G = F
  <2> DEFINE D == {T \in SUBSET S : F[T] # G[T]}
  <2>1. SUFFICES ASSUME D # {} PROVE FALSE
    BY <1>3, <1>6
  <2>2. PICK T \in D : \A U \in D : U \subseteq T => U = T
    <3>1. D \subseteq SUBSET S
      OBVIOUS
    <3> HIDE DEF D
    <3> QED BY <2>1, <3>1, SmallestSubset
  <2>3. T # {}
    BY <1>3, <1>6
  <2> DEFINE x == CHOOSE x \in T : TRUE
  <2>4. x \in T
    BY <2>3
  <2>5. F[T \ {x}] = G[T \ {x}]
    <3> HIDE DEF x
    <3> QED BY <2>2, <2>4
  <2> QED BY <1>3, <1>6, <2>3, <2>5, SMTT(30)
<1> QED
  <2> HIDE DEF Sums
  <2> QED BY <1>2, <1>4, <1>5, <1>6

(* The sums over the parts of S: nothing over nothing, and an element more *)
(* adds what it counts for.                                                *)
PartSums(C, f, S) ==
    /\ C \in [SUBSET S -> Int] /\ C[{}] = 0
    /\ \A T \in SUBSET S : \A x \in T : C[T] = f[x] + C[T \ {x}]
    /\ \A T \in SUBSET S : SumFunction([e \in T |-> f[e]]) = C[T]

LEMMA SumIs ==
    ASSUME NEW S, IsFiniteSet(S), NEW f \in [S -> Int]
    PROVE  \E C : PartSums(C, f, S)
<1>1. PICK F \in [SUBSET S -> Int] : Folds(F, Pick(S), Add(f), 0, S) /\ SumFunction(f) = F[S]
  BY SumFolds
<1>2. F[{}] = 0
  BY <1>1 DEF Folds, Step
<1>3. ASSUME NEW T \in SUBSET S, T # {}
      PROVE  \E y \in T : F[T] = f[y] + F[T \ {y}]
  <2>1. Pick(S)[T] \in T
    BY <1>3 DEF Pick
  <2>2. F[T] = Add(f)[<<F[T \ {Pick(S)[T]}], Pick(S)[T]>>]
    BY <1>1, <1>3 DEF Folds, Step
  <2> QED BY <2>1, <2>2 DEF Add
<1>4. ASSUME NEW T \in SUBSET S, NEW x \in T
      PROVE  F[T] = f[x] + F[T \ {x}]
  <2> DEFINE D == {U \in SUBSET S : \E z \in U : F[U] # f[z] + F[U \ {z}]}
  <2>1. SUFFICES ASSUME D # {} PROVE FALSE
    OBVIOUS
  <2>2. PICK U \in D : \A W \in D : W \subseteq U => W = U
    <3>1. D \subseteq SUBSET S
      OBVIOUS
    <3> HIDE DEF D
    <3> QED BY <2>1, <3>1, SmallestSubset
  <2>3. PICK z \in U : F[U] # f[z] + F[U \ {z}]
    OBVIOUS
  <2>4. PICK y \in U : F[U] = f[y] + F[U \ {y}]
    BY <1>3
  <2>5. y # z
    BY <2>3, <2>4
  <2>6. F[U \ {y}] = f[z] + F[(U \ {y}) \ {z}] /\ F[U \ {z}] = f[y] + F[(U \ {z}) \ {y}]
    <3>1. U \in SUBSET S /\ U \ {y} \in SUBSET S /\ U \ {z} \in SUBSET S
      OBVIOUS
    <3>2. U \ {y} \notin D /\ U \ {z} \notin D
      <4> HIDE DEF D
      <4> QED BY <2>2
    <3> QED BY <2>5, <3>1, <3>2
  <2>7. (U \ {y}) \ {z} = (U \ {z}) \ {y} /\ F[(U \ {z}) \ {y}] \in Int /\ f[y] \in Int /\ f[z] \in Int
    OBVIOUS
  <2> DEFINE rest == F[(U \ {z}) \ {y}]
  <2>8. rest \in Int /\ F[U] = f[y] + (f[z] + rest) /\ F[U] # f[z] + (f[y] + rest)
    BY <2>3, <2>4, <2>6, <2>7
  <2> HIDE DEF rest, D
  <2> QED BY <2>7, <2>8
<1>5. ASSUME NEW T \in SUBSET S
      PROVE  SumFunction([e \in T |-> f[e]]) = F[T]
  <2> DEFINE g == [e \in T |-> f[e]]
             H == [U \in SUBSET T |-> F[U]]
  <2>1. IsFiniteSet(T) /\ g \in [T -> Int] /\ Picks(Pick(T), T)
    BY FS_Subset DEF Picks, Pick
  <2>2. PICK G \in [SUBSET T -> Int] : Folds(G, Pick(T), Add(g), 0, T) /\ SumFunction(g) = G[T]
    BY <2>1, SumFolds
  <2>3. ASSUME NEW U \in SUBSET T PROVE H[U] = Step(H, Pick(T), Add(g), 0, U)
    <3>1. CASE U = {}
      BY <1>2, <3>1 DEF Step
    <3>2. CASE U # {}
      <4>1. Pick(T)[U] \in U
        BY <3>2 DEF Pick
      <4>2. F[U] = f[Pick(T)[U]] + F[U \ {Pick(T)[U]}] /\ F[U \ {Pick(T)[U]}] \in Int
        BY <1>4, <4>1
      <4> QED BY <3>2, <4>1, <4>2 DEF Step, Add
    <3> QED BY <3>1, <3>2
  <2>4. Folds(H, Pick(T), Add(g), 0, T)
    <3> HIDE DEF H
    <3> QED BY <2>3 DEF Folds, H
  <2>5. H = G
    <3> HIDE DEF H, g
    <3> QED BY <2>1, <2>2, <2>4, FoldUnique
  <2> QED BY <2>2, <2>5
<1>6. PartSums(F, f, S)
  BY <1>2, <1>4, <1>5 DEF PartSums
<1> QED BY <1>6

-----------------------------------------------------------------------------
(* The folds of the engine.  Each is one over the positions it runs        *)
(* through, in an order that matters to none of the proofs.                *)
Top(S) == [T \in SUBSET S |-> Max(T)]

(* A set of positions has a largest one.                                   *)
LEMMA Largest ==
    ASSUME NEW S, \A x \in S : x \in Int, IsFiniteSet(S), S # {}
    PROVE  Max(S) \in S
<1> DEFINE Topped(U) == \E x \in U : \A y \in U : x >= y
           D == {U \in SUBSET S : U # {} /\ ~Topped(U)}
<1>1. D = {}
  <2>1. SUFFICES ASSUME D # {} PROVE FALSE
    OBVIOUS
  <2>2. PICK U \in D : \A W \in D : W \subseteq U => W = U
    <3>1. D \subseteq SUBSET S
      OBVIOUS
    <3> HIDE DEF D, Topped
    <3> QED
      BY <2>1, <3>1, SmallestSubset
  <2>3. U \in SUBSET S /\ U # {} /\ ~Topped(U)
    OBVIOUS
  <2>4. PICK x \in U : x \in Int
    BY <2>3
  <2>5. U \ {x} # {}
    BY <2>3, <2>4
  <2>6. U \ {x} \notin D
    <3> HIDE DEF D, Topped
    <3> QED
      BY <2>2, <2>4
  <2>7. PICK z \in U \ {x} : \A y \in U \ {x} : z >= y
    BY <2>3, <2>5, <2>6
  <2>8. z \in Int /\ \A y \in U : y \in Int
    BY <2>3
  <2>9. IF z >= x THEN \A y \in U : z >= y ELSE \A y \in U : x >= y
    BY <2>4, <2>7, <2>8
  <2> QED
    BY <2>3, <2>4, <2>9
<1>2. \E x \in S : \A y \in S : x >= y
  BY <1>1
<1> QED
  BY <1>2 DEF Max

LEMMA Positions ==
    ASSUME NEW X, NEW xs \in Seq(X)
    PROVE  /\ IsFiniteSet(DOMAIN xs) /\ DOMAIN xs \subseteq Int
           /\ Picks(Top(DOMAIN xs), DOMAIN xs)
<1>1. DOMAIN xs = 1..Len(xs) /\ IsFiniteSet(DOMAIN xs)
  BY FS_Interval
<1>2. ASSUME NEW T \in SUBSET DOMAIN xs, T # {} PROVE Max(T) \in T
  BY <1>1, <1>2, Largest, FS_Subset
<1> QED
  BY <1>1, <1>2 DEF Picks, Top

(* Whatever satisfies the equation of a fold is the fold.                  *)
Runs(G, pick, step, e0, S, V) ==
    /\ DOMAIN G = SUBSET S /\ G[{}] = e0
    /\ \A T \in SUBSET S : T # {} /\ G[T \ {pick[T]}] \in V =>
           G[T] = step[<<G[T \ {pick[T]}], pick[T]>>]

LEMMA FoldStays ==
    ASSUME NEW S, IsFiniteSet(S), NEW pick, Picks(pick, S), NEW V, NEW e0 \in V,
           NEW step \in [V \X S -> V], NEW G, Runs(G, pick, step, e0, S, V)
    PROVE  \A T \in SUBSET S : G[T] \in V
<1> DEFINE D == {T \in SUBSET S : G[T] \notin V}
<1>1. SUFFICES ASSUME D # {} PROVE FALSE
  OBVIOUS
<1>2. PICK T \in D : \A U \in D : U \subseteq T => U = T
  <2>1. D \subseteq SUBSET S
    OBVIOUS
  <2> HIDE DEF D
  <2> QED
    BY <1>1, <2>1, SmallestSubset
<1>3. T # {}
  BY DEF Runs
<1>4. pick[T] \in T /\ G[T \ {pick[T]}] \in V
  BY <1>2, <1>3 DEF Picks
<1> QED
  BY <1>3, <1>4 DEF Runs

(* How a fold over S that is worth r comes about in V: position by         *)
(* position, each step taken by next.                                      *)
Appends(F, d, log, xs) ==
    /\ F[{}] = log
    /\ \A T \in SUBSET DOMAIN xs : T # {} => \E k \in T : F[T] = AppendFor(d, F[T \ {k}], xs[k])

LEMMA AppendAllRuns ==
    ASSUME NEW d, NEW X, NEW xs \in Seq(X), NEW V, NEW log \in V,
           \A l \in V : \A k \in DOMAIN xs : AppendFor(d, l, xs[k]) \in V
    PROVE  \E F \in [SUBSET DOMAIN xs -> V] :
               AppendAll(log, d, xs) = F[DOMAIN xs] /\ Appends(F, d, log, xs)
<1> DEFINE S == DOMAIN xs
           step == [u \in V \X S |-> AppendFor(d, u[1], xs[u[2]])]
           Iter(F) == F = [T \in SUBSET S |-> IF T = {} THEN log
                                              ELSE AppendFor(d, F[T \ {Max(T)}], xs[Max(T)])]
<1>1. IsFiniteSet(S) /\ Picks(Top(S), S) /\ step \in [V \X S -> V]
  BY Positions
<1>2. PICK F \in [SUBSET S -> V] : Folds(F, Top(S), step, log, S)
  <2> HIDE DEF step, S
  <2> QED
    BY <1>1, FoldExists
<1>3. ASSUME NEW T \in SUBSET S, T # {}
      PROVE  Max(T) \in T /\ Top(S)[T] = Max(T)
  BY <1>1, <1>3 DEF Picks, Top
<1>4. Iter(F)
  <2> SUFFICES ASSUME NEW T \in SUBSET S, T # {}
               PROVE  Step(F, Top(S), step, log, T) = AppendFor(d, F[T \ {Max(T)}], xs[Max(T)])
    BY <1>2 DEF Folds, Step
  <2>1. F[T \ {Max(T)}] \in V /\ Max(T) \in S
    BY <1>3
  <2> QED
    BY <1>3, <2>1 DEF Step
<1>5. AppendAll(log, d, xs) = (CHOOSE G : Iter(G))[S]
  BY DEF AppendAll, FoldLeft, MapThenFoldSet
<1> DEFINE G == CHOOSE H : Iter(H)
<1>6. Iter(G)
  <2> HIDE DEF Iter
  <2> QED
    BY <1>4
<1> HIDE DEF G
<1>7. Runs(G, Top(S), step, log, S, V)
  BY <1>3, <1>6 DEF Runs
<1>8. \A T \in SUBSET S : G[T] \in V
  <2> HIDE DEF step, S
  <2> QED
    BY <1>1, <1>7, FoldStays
<1>9. G \in [SUBSET S -> V]
  BY <1>6, <1>8
<1>10. ASSUME NEW T \in SUBSET S, T # {}
       PROVE  \E k \in T : G[T] = AppendFor(d, G[T \ {k}], xs[k])
  BY <1>3, <1>6, <1>10
<1>11. G[{}] = log
  BY <1>6
<1>12. Appends(G, d, log, xs)
  BY <1>10, <1>11 DEF Appends
<1> QED
  BY <1>5, <1>9, <1>12 DEF G
Cancels(F, log, xs) ==
    /\ F[{}] = log
    /\ \A T \in SUBSET DOMAIN xs : T # {} => \E k \in T : F[T] = CancelSle(F[T \ {k}], xs[k])

LEMMA CancelAllRuns ==
    ASSUME NEW X, NEW xs \in Seq(X), NEW V, NEW log \in V,
           \A l \in V : \A k \in DOMAIN xs : CancelSle(l, xs[k]) \in V
    PROVE  \E F \in [SUBSET DOMAIN xs -> V] :
               CancelAll(log, xs) = F[DOMAIN xs] /\ Cancels(F, log, xs)
<1> DEFINE S == DOMAIN xs
           step == [u \in V \X S |-> CancelSle(u[1], xs[u[2]])]
           Iter(F) == F = [T \in SUBSET S |-> IF T = {} THEN log
                                              ELSE CancelSle(F[T \ {Max(T)}], xs[Max(T)])]
<1>1. IsFiniteSet(S) /\ Picks(Top(S), S) /\ step \in [V \X S -> V]
  BY Positions
<1>2. PICK F \in [SUBSET S -> V] : Folds(F, Top(S), step, log, S)
  <2> HIDE DEF step, S
  <2> QED
    BY <1>1, FoldExists
<1>3. ASSUME NEW T \in SUBSET S, T # {}
      PROVE  Max(T) \in T /\ Top(S)[T] = Max(T)
  BY <1>1, <1>3 DEF Picks, Top
<1>4. Iter(F)
  <2> SUFFICES ASSUME NEW T \in SUBSET S, T # {}
               PROVE  Step(F, Top(S), step, log, T) = CancelSle(F[T \ {Max(T)}], xs[Max(T)])
    BY <1>2 DEF Folds, Step
  <2>1. F[T \ {Max(T)}] \in V /\ Max(T) \in S
    BY <1>3
  <2> QED
    BY <1>3, <2>1 DEF Step
<1>5. CancelAll(log, xs) = (CHOOSE G : Iter(G))[S]
  BY DEF CancelAll, FoldLeft, MapThenFoldSet
<1> DEFINE G == CHOOSE H : Iter(H)
<1>6. Iter(G)
  <2> HIDE DEF Iter
  <2> QED
    BY <1>4
<1> HIDE DEF G
<1>7. Runs(G, Top(S), step, log, S, V)
  BY <1>3, <1>6 DEF Runs
<1>8. \A T \in SUBSET S : G[T] \in V
  <2> HIDE DEF step, S
  <2> QED
    BY <1>1, <1>7, FoldStays
<1>9. G \in [SUBSET S -> V]
  BY <1>6, <1>8
<1>10. ASSUME NEW T \in SUBSET S, T # {}
       PROVE  \E k \in T : G[T] = CancelSle(G[T \ {k}], xs[k])
  BY <1>3, <1>6, <1>10
<1>11. G[{}] = log
  BY <1>6
<1>12. Cancels(G, log, xs)
  BY <1>10, <1>11 DEF Cancels
<1> QED
  BY <1>5, <1>9, <1>12 DEF G

Rewrites(F, log, old, xs) ==
    /\ F[{}] = log
    /\ \A T \in SUBSET DOMAIN xs : T # {} => \E k \in T : F[T] = AppendSle(F[T \ {k}], Again(old[xs[k]], k))

LEMMA AppendAgainRuns ==
    ASSUME NEW old, NEW X, NEW xs \in Seq(X), NEW V, NEW log \in V,
           \A l \in V : \A k \in DOMAIN xs : AppendSle(l, Again(old[xs[k]], k)) \in V
    PROVE  \E F \in [SUBSET DOMAIN xs -> V] :
               AppendAgain(log, old, xs) = F[DOMAIN xs] /\ Rewrites(F, log, old, xs)
<1> DEFINE S == DOMAIN xs
           step == [u \in V \X S |-> AppendSle(u[1], Again(old[xs[u[2]]], u[2]))]
           ids == [i \in S |-> i]
           Iter(F) == F = [T \in SUBSET DOMAIN ids |->
                             IF T = {} THEN log
                             ELSE LET x == Max(T)
                                  IN AppendSle(F[T \ {x}], Again(old[xs[ids[x]]], ids[x]))]
<1>1. IsFiniteSet(S) /\ Picks(Top(S), S) /\ step \in [V \X S -> V]
  BY Positions
<1>2. PICK F \in [SUBSET S -> V] : Folds(F, Top(S), step, log, S)
  <2> HIDE DEF step, S
  <2> QED
    BY <1>1, FoldExists
<1>3. ASSUME NEW T \in SUBSET S, T # {}
      PROVE  Max(T) \in T /\ Top(S)[T] = Max(T)
  BY <1>1, <1>3 DEF Picks, Top
<1>4. Iter(F)
  <2>1. ASSUME NEW T \in SUBSET S, T # {}
        PROVE  F[T] = AppendSle(F[T \ {Max(T)}], Again(old[xs[ids[Max(T)]]], ids[Max(T)]))
    <3>1. F[T \ {Max(T)}] \in V /\ Max(T) \in S /\ F[T] = Step(F, Top(S), step, log, T)
      BY <1>2, <1>3, <2>1 DEF Folds
    <3> QED
      BY <1>3, <2>1, <3>1 DEF Step
  <2>2. F[{}] = log /\ F = [T \in SUBSET DOMAIN ids |-> F[T]]
    BY <1>2 DEF Folds, Step
  <2> QED
    BY <2>1, <2>2
<1>5. AppendAgain(log, old, xs) = (CHOOSE G : Iter(G))[DOMAIN ids]
  BY DEF AppendAgain, FoldLeftDomain, FoldLeft, MapThenFoldSet
<1> DEFINE G == CHOOSE H : Iter(H)
<1>6. Iter(G)
  <2> HIDE DEF Iter
  <2> QED
    BY <1>4
<1> HIDE DEF G
<1>7. Runs(G, Top(S), step, log, S, V)
  BY <1>3, <1>6 DEF Runs
<1>8. \A T \in SUBSET S : G[T] \in V
  <2> HIDE DEF step, S
  <2> QED
    BY <1>1, <1>7, FoldStays
<1>9. G \in [SUBSET S -> V]
  BY <1>6, <1>8
<1>10. ASSUME NEW T \in SUBSET S, T # {}
       PROVE  \E k \in T : G[T] = AppendSle(G[T \ {k}], Again(old[xs[k]], k))
  BY <1>3, <1>6, <1>10
<1>11. G[{}] = log
  BY <1>6
<1>12. Rewrites(G, log, old, xs)
  BY <1>10, <1>11 DEF Rewrites
<1> QED
  BY <1>5, <1>9, <1>12 DEF G

Reposts(F, log, ps, t, skipped) ==
    /\ F[{}] = log
    /\ \A T \in SUBSET ps : T # {} => \E p \in T : F[T] = Repost(F[T \ {p}], p, t, skipped)

LEMMA RepostAllTraced ==
    ASSUME NEW ps, IsFiniteSet(ps), NEW t, NEW skipped, NEW V, NEW log \in V,
           \A l \in V : \A p \in ps : Repost(l, p, t, skipped) \in V
    PROVE  \E F \in [SUBSET ps -> V] :
               RepostAll(log, ps, t, skipped) = F[ps] /\ Reposts(F, log, ps, t, skipped)
<1> DEFINE step == [u \in V \X ps |-> Repost(u[1], u[2], t, skipped)]
           any == [T \in SUBSET ps |-> CHOOSE p \in T : TRUE]
           Iter(F) == F = [T \in SUBSET ps |->
                             IF T = {} THEN log
                             ELSE LET x == CHOOSE p \in T : TRUE
                                  IN Repost(F[T \ {x}], x, t, skipped)]
<1>1. Picks(any, ps) /\ step \in [V \X ps -> V]
  BY DEF Picks
<1>2. PICK F \in [SUBSET ps -> V] : Folds(F, any, step, log, ps)
  <2> HIDE DEF step, any
  <2> QED
    BY <1>1, FoldExists
<1>3. ASSUME NEW T \in SUBSET ps, T # {}
      PROVE  any[T] \in T /\ any[T] = CHOOSE p \in T : TRUE
  BY <1>3
<1>4. Iter(F)
  <2> SUFFICES ASSUME NEW T \in SUBSET ps, T # {}
               PROVE  Step(F, any, step, log, T)
                        = Repost(F[T \ {CHOOSE p \in T : TRUE}], CHOOSE p \in T : TRUE, t, skipped)
    BY <1>2 DEF Folds, Step
  <2>1. F[T \ {any[T]}] \in V /\ any[T] \in ps
    BY <1>3
  <2> HIDE DEF any
  <2> QED
    BY <1>3, <2>1 DEF Step
<1>5. RepostAll(log, ps, t, skipped) = (CHOOSE G : Iter(G))[ps]
  BY DEF RepostAll, FoldSet, MapThenFoldSet
<1> DEFINE G == CHOOSE H : Iter(H)
<1>6. Iter(G)
  <2> HIDE DEF Iter
  <2> QED
    BY <1>4
<1> HIDE DEF G
<1>7. Runs(G, any, step, log, ps, V)
  <2> SUFFICES ASSUME NEW T \in SUBSET ps, T # {}, G[T \ {any[T]}] \in V
               PROVE  G[T] = step[<<G[T \ {any[T]}], any[T]>>]
    BY <1>6 DEF Runs
  <2>1. G[T] = Repost(G[T \ {any[T]}], any[T], t, skipped) /\ any[T] \in ps
    BY <1>3, <1>6
  <2> HIDE DEF any
  <2> QED
    BY <2>1
<1>8. \A T \in SUBSET ps : G[T] \in V
  <2> HIDE DEF step, any
  <2> QED
    BY <1>1, <1>7, FoldStays
<1>9. G \in [SUBSET ps -> V]
  BY <1>6, <1>8
<1>10. ASSUME NEW T \in SUBSET ps, T # {}
       PROVE  \E p \in T : G[T] = Repost(G[T \ {p}], p, t, skipped)
  BY <1>3, <1>6, <1>10
<1>11. G[{}] = log
  BY <1>6
<1>12. Reposts(G, log, ps, t, skipped)
  BY <1>10, <1>11 DEF Reposts
<1> QED
  BY <1>5, <1>9, <1>12 DEF G

LEMMA RepostAllRuns ==
    ASSUME NEW ps, IsFiniteSet(ps), NEW t, NEW skipped, NEW V, NEW log \in V,
           \A l \in V : \A p \in ps : Repost(l, p, t, skipped) \in V
    PROVE  RepostAll(log, ps, t, skipped) \in V
<1>1. PICK F \in [SUBSET ps -> V] :
         RepostAll(log, ps, t, skipped) = F[ps] /\ Reposts(F, log, ps, t, skipped)
  BY RepostAllTraced, ZenonT(30)
<1> QED
  BY <1>1

Plans(F, d) ==
    /\ F[{}] = << >>
    /\ \A T \in SUBSET DOMAIN Entries[d].lines : T # {} =>
           \E k \in T : F[T] = F[T \ {k}] \o Legs(d, Entries[d].lines[k])

LEMMA IntentsRun ==
    ASSUME NEW d \in Documents, NEW V, << >> \in V,
           \A xs \in V : \A k \in DOMAIN Entries[d].lines : xs \o Legs(d, Entries[d].lines[k]) \in V
    PROVE  \E F \in [SUBSET DOMAIN Entries[d].lines -> V] :
               Intents(d) = F[DOMAIN Entries[d].lines] /\ Plans(F, d)
<1> DEFINE ls == Entries[d].lines
           S == DOMAIN ls
           step == [u \in V \X S |-> u[1] \o Legs(d, ls[u[2]])]
           Iter(F) == F = [T \in SUBSET S |-> IF T = {} THEN << >>
                                              ELSE F[T \ {Max(T)}] \o Legs(d, ls[Max(T)])]
<1>1. IsFiniteSet(S) /\ Picks(Top(S), S) /\ step \in [V \X S -> V]
  <2>1. Entries[d].lines \in Seq(Lines)
    BY EntriesAssumption
  <2> QED
    BY <2>1, Positions
<1>2. PICK F \in [SUBSET S -> V] : Folds(F, Top(S), step, << >>, S)
  <2> HIDE DEF step, S
  <2> QED
    BY <1>1, FoldExists
<1>3. ASSUME NEW T \in SUBSET S, T # {}
      PROVE  Max(T) \in T /\ Top(S)[T] = Max(T)
  BY <1>1, <1>3 DEF Picks, Top
<1>4. Iter(F)
  <2> SUFFICES ASSUME NEW T \in SUBSET S, T # {}
               PROVE  Step(F, Top(S), step, << >>, T) = F[T \ {Max(T)}] \o Legs(d, ls[Max(T)])
    BY <1>2 DEF Folds, Step
  <2>1. F[T \ {Max(T)}] \in V /\ Max(T) \in S
    BY <1>3
  <2> QED
    BY <1>3, <2>1 DEF Step
<1>5. Intents(d) = (CHOOSE G : Iter(G))[S]
  BY DEF Intents, FoldLeft, MapThenFoldSet
<1> DEFINE G == CHOOSE H : Iter(H)
<1>6. Iter(G)
  <2> HIDE DEF Iter
  <2> QED
    BY <1>4
<1> HIDE DEF G
<1>7. Runs(G, Top(S), step, << >>, S, V)
  BY <1>3, <1>6 DEF Runs
<1>8. \A T \in SUBSET S : G[T] \in V
  <2> HIDE DEF step, S
  <2> QED
    BY <1>1, <1>7, FoldStays
<1>9. G \in [SUBSET S -> V]
  BY <1>6, <1>8
<1>10. ASSUME NEW T \in SUBSET S, T # {}
       PROVE  \E k \in T : G[T] = G[T \ {k}] \o Legs(d, ls[k])
  BY <1>3, <1>6, <1>10
<1>11. Plans(G, d)
  BY <1>6, <1>10 DEF Plans
<1> QED
  BY <1>5, <1>9, <1>11 DEF G

-----------------------------------------------------------------------------
(* Rows of a ledger in the order of their times.                           *)
Timed(log, S) == \A i \in S : i \in Int /\ log[i].time \in Int

LEMMA LatestRow ==
    ASSUME NEW log, NEW S, IsFiniteSet(S), S # {}, Timed(log, S)
    PROVE  \E i \in S : Latest(log, S) = log[i] /\ \A j \in S : Later(log, i, j)
<1> DEFINE D == {U \in SUBSET S : U # {} /\ ~\E i \in U : \A j \in U : Later(log, i, j)}
<1>1. D = {}
  <2>1. SUFFICES ASSUME D # {} PROVE FALSE
    OBVIOUS
  <2>2. PICK U \in D : \A W \in D : W \subseteq U => W = U
    <3>1. D \subseteq SUBSET S
      OBVIOUS
    <3> HIDE DEF D
    <3> QED
      BY <2>1, <3>1, SmallestSubset
  <2>3. U \in SUBSET S /\ U # {} /\ ~\E i \in U : \A j \in U : Later(log, i, j)
    OBVIOUS
  <2>4. PICK x \in U : TRUE
    BY <2>3
  <2>5. Later(log, x, x)
    BY <2>3 DEF Later, Timed
  <2>6. U \ {x} # {}
    BY <2>3, <2>4, <2>5
  <2>7. U \ {x} \notin D
    <3> HIDE DEF D
    <3> QED
      BY <2>2, <2>4
  <2>8. PICK z \in U \ {x} : \A j \in U \ {x} : Later(log, z, j)
    BY <2>3, <2>6, <2>7
  <2>9. Later(log, z, x) \/ \A j \in U : Later(log, x, j)
    BY <2>3, <2>5, <2>8 DEF Later, Timed
  <2> QED
    BY <2>3, <2>8, <2>9
<1>2. \E i \in S : \A j \in S : Later(log, i, j)
  BY <1>1
<1> HIDE DEF D
<1> DEFINE top == CHOOSE i \in S : \A j \in S : Later(log, i, j)
<1>3. top \in S /\ \A j \in S : Later(log, top, j)
  BY <1>2
<1> QED
  BY <1>3 DEF Latest

(* The rows a stream names are rows of the ledger: their ranks are all the *)
(* numbers up to how many there are.                                       *)
LEMMA InOrder ==
    ASSUME NEW log, NEW S, IsFiniteSet(S), Timed(log, S)
    PROVE  /\ InTimeOrder(log, S) \in Seq(S)
           /\ DOMAIN InTimeOrder(log, S) = 1..Cardinality(S)
<1> DEFINE n == Cardinality(S)
           Ahead(i) == {j \in S : Later(log, i, j)}
           rank == [i \in S |-> Cardinality(Ahead(i))]
           ranks == {rank[i] : i \in S}
<1>1. n \in Nat /\ \A i \in S : IsFiniteSet(Ahead(i)) /\ rank[i] \in 1..n
  <2>1. n \in Nat
    BY FS_CardinalityType
  <2>2. ASSUME NEW i \in S PROVE IsFiniteSet(Ahead(i)) /\ rank[i] \in 1..n
    <3>1. Ahead(i) \subseteq S /\ i \in Ahead(i)
      BY DEF Later, Timed
    <3>2. IsFiniteSet(Ahead(i)) /\ Cardinality(Ahead(i)) \in Nat /\ Cardinality(Ahead(i)) <= n
      BY <3>1, FS_Subset, FS_CardinalityType
    <3>3. Cardinality(Ahead(i)) # 0
      BY <3>1, <3>2, FS_EmptySet
    <3> QED
      BY <2>1, <3>2, <3>3
  <2> QED
    BY <2>1, <2>2
<1>2. ASSUME NEW i \in S, NEW j \in S, i # j PROVE rank[i] # rank[j]
  <2>1. \/ Ahead(i) \subseteq Ahead(j) /\ Ahead(i) # Ahead(j)
        \/ Ahead(j) \subseteq Ahead(i) /\ Ahead(i) # Ahead(j)
    <3>1. CASE Later(log, j, i)
      <4>1. j \notin Ahead(i) /\ j \in Ahead(j) /\ Ahead(i) \subseteq Ahead(j)
        BY <1>2, <3>1 DEF Later, Timed
      <4> QED
        BY <4>1
    <3>2. CASE Later(log, i, j)
      <4>1. i \notin Ahead(j) /\ i \in Ahead(i) /\ Ahead(j) \subseteq Ahead(i)
        BY <1>2, <3>2 DEF Later, Timed
      <4> QED
        BY <4>1
    <3>3. Later(log, j, i) \/ Later(log, i, j)
      BY DEF Later, Timed
    <3> QED
      BY <3>1, <3>2, <3>3
  <2>2. IsFiniteSet(Ahead(i)) /\ IsFiniteSet(Ahead(j))
    BY <1>1
  <2> HIDE DEF Ahead
  <2>3. Cardinality(Ahead(i)) # Cardinality(Ahead(j))
    BY <2>1, <2>2, FS_Subset
  <2> QED
    BY <2>3
<1> HIDE DEF rank
<1>3. Cardinality(ranks) = n
  <2>1. rank \in Bijection(S, ranks)
    <3>1. rank \in [S -> ranks]
      BY DEF rank
    <3>2. rank \in Injection(S, ranks) /\ rank \in Surjection(S, ranks)
      BY <1>2, <3>1 DEF Injection, IsInjective, Surjection
    <3> QED
      BY <3>2 DEF Bijection
  <2> QED
    BY <2>1, FS_Bijection DEF ExistsBijection
<1>4. ranks = 1..n
  <2>1. ranks \subseteq 1..n
    BY <1>1
  <2>2. IsFiniteSet(1..n) /\ Cardinality(1..n) = n
    BY <1>1, FS_Interval
  <2> HIDE DEF ranks
  <2> QED
    BY <1>3, <2>1, <2>2, FS_Subset
<1>5. \A k \in 1..n : (CHOOSE i \in S : Cardinality(Ahead(i)) = k) \in S
  BY <1>4 DEF rank
<1>6. InTimeOrder(log, S) \in [1..n -> S]
  BY <1>5 DEF InTimeOrder
<1> HIDE DEF n
<1> QED
  BY <1>1, <1>6 DEF n

-----------------------------------------------------------------------------
(* Ledgers whose rows lie no earlier than the posting of their documents.  *)
Ledger == {log \in Seq(Sle) : \A i \in DOMAIN log : log[i].time >= Time(log[i].doc)}

(* What a posting may do to a ledger: it appends rows of the pairs ps from *)
(* time t on, and flags rows of theirs after t.                            *)
Within(old, new, ps, t) ==
    /\ Len(new) >= Len(old)
    /\ \A i \in DOMAIN old :
          \/ new[i] = old[i]
          \/ old[i].pair \in ps /\ old[i].time > t /\ new[i] = [old[i] EXCEPT !.live = FALSE]
    /\ \A i \in DOMAIN new \ DOMAIN old : new[i].pair \in ps /\ new[i].time >= t

(* What a row takes its pair, its time and its quantity from: a leg, or a  *)
(* row that is written again.                                              *)
Appendable(x) ==
    /\ x.pair \in Pairs /\ x.time \in Nat /\ x.doc \in Documents /\ x.qty \in Int
    /\ x.in \in Nat \cup {Null} /\ x.value \in Int /\ x.time >= Time(x.doc)

LEMMA LedgerRows ==
    ASSUME NEW log \in Ledger
    PROVE  /\ log \in Seq(Sle) /\ Len(log) \in Nat /\ DOMAIN log = 1..Len(log) /\ IsFiniteSet(DOMAIN log)
           /\ \A i \in DOMAIN log : log[i] \in Sle /\ log[i].time >= Time(log[i].doc)
           /\ \A S \in SUBSET DOMAIN log : Timed(log, S) /\ IsFiniteSet(S)
<1>1. log \in Seq(Sle) /\ Len(log) \in Nat /\ DOMAIN log = 1..Len(log)
  BY DEF Ledger
<1>2. \A i \in DOMAIN log : log[i] \in Sle /\ log[i].time >= Time(log[i].doc)
  BY <1>1 DEF Ledger
<1>3. IsFiniteSet(DOMAIN log)
  BY <1>1, FS_Interval
<1>4. \A i \in DOMAIN log : i \in Int /\ log[i].time \in Int
  BY <1>1, <1>2 DEF Sle
<1> QED
  BY <1>1, <1>2, <1>3, <1>4, FS_Subset DEF Timed

LEMMA LatestType ==
    ASSUME NEW log \in Ledger, NEW S \in SUBSET DOMAIN log
    PROVE  Latest(log, S).after \in Int /\ Latest(log, S).rate \in Int
<1>1. CASE S = {}
  BY <1>1 DEF Latest
<1>2. CASE S # {}
  <2>1. PICK i \in S : Latest(log, S) = log[i]
    BY <1>2, LedgerRows, LatestRow
  <2> QED
    BY <2>1, LedgerRows DEF Sle
<1> QED
  BY <1>1, <1>2

LEMMA OverType ==
    ASSUME NEW a \in Int, NEW b \in Int, b # 0
    PROVE  Over(a, b) \in Int
BY DEF Over

LEMMA ValuedType ==
    ASSUME NEW prev, prev.after \in Int, prev.rate \in Int, NEW x, Appendable(x)
    PROVE  /\ Valued(prev, x).after \in Int /\ Valued(prev, x).rate \in Int /\ Valued(prev, x).value \in Int
           /\ Counted(prev, x).after \in Int /\ Counted(prev, x).rate \in Int /\ Counted(prev, x).value \in Int
<1> DEFINE after == prev.after + x.qty
<1>0. x.qty \in Int /\ x.value \in Int /\ x.in \in Nat \cup {Null} /\ after \in Int
  BY DEF Appendable
<1>1. /\ prev.after * prev.rate \in Int
      /\ x.in # Null => x.qty * x.in \in Int
      /\ x.qty * prev.rate \in Int
  BY <1>0
<1>2. CASE x.qty > 0 /\ x.in # Null
  <2>1. prev.after * prev.rate + x.qty * x.in \in Int
    BY <1>1, <1>2
  <2>2. after # 0 => Over(prev.after * prev.rate + x.qty * x.in, after) \in Int
    BY <1>0, <2>1, OverType
  <2>3. Valued(prev, x) = [after |-> after, value |-> x.qty * x.in,
                           rate |-> IF after = 0 THEN 0
                                    ELSE Over(prev.after * prev.rate + x.qty * x.in, after)]
    BY <1>0, <1>2 DEF Valued
  <2>4. /\ Valued(prev, x).after \in Int /\ Valued(prev, x).rate \in Int /\ Valued(prev, x).value \in Int
    BY <1>0, <1>1, <1>2, <2>2, <2>3
  <2>5. x.qty # 0
    BY <1>0, <1>2
  <2>6. after # 0 => Over(prev.after * prev.rate + x.value, after) \in Int
    BY <1>0, <1>1, OverType
  <2> QED
    BY <1>0, <2>4, <2>5, <2>6 DEF Counted
<1>3. CASE x.qty < 0
  <2>1. Valued(prev, x) = [after |-> after, value |-> x.qty * prev.rate, rate |-> prev.rate]
    BY <1>0, <1>3 DEF Valued
  <2>2. after # 0 => Over(prev.after * prev.rate + x.value, after) \in Int
    BY <1>0, <1>1, OverType
  <2>3. x.qty # 0
    BY <1>0, <1>3
  <2> QED
    BY <1>0, <1>1, <2>1, <2>2, <2>3 DEF Counted
<1>4. CASE ~(x.qty > 0 /\ x.in # Null) /\ ~(x.qty < 0)
  <2>1. Valued(prev, x) = [after |-> prev.after,
                           value |-> IF x.qty # 0 /\ prev.after = 0 THEN 0 ELSE x.value,
                           rate |-> IF prev.after = 0 THEN 0
                                    ELSE Over(prev.after * prev.rate + x.value, prev.after)]
    BY <1>4 DEF Valued
  <2>2. /\ prev.after # 0 => Over(prev.after * prev.rate + x.value, prev.after) \in Int
        /\ after # 0 => Over(prev.after * prev.rate + x.value, after) \in Int
    BY <1>0, <1>1, OverType
  <2> QED
    BY <1>0, <2>1, <2>2 DEF Counted
<1> QED
  BY <1>2, <1>3, <1>4

(* The row that is appended is a row of its pair at its time.              *)
LEMMA AppendedRow ==
    ASSUME NEW log \in Ledger, NEW x, Appendable(x)
    PROVE  /\ \E row \in Sle : /\ AppendSle(log, x) = Append(log, row)
                               /\ row.pair = x.pair /\ row.time = x.time /\ row.doc = x.doc
                               /\ row.qty = x.qty /\ row.live /\ ~row.reversal
           /\ \E row \in Sle : /\ AppendRow(log, x, Counted) = Append(log, row)
                               /\ row.pair = x.pair /\ row.time = x.time /\ row.doc = x.doc
                               /\ row.qty = x.qty /\ row.live /\ ~row.reversal
                               /\ row.value = x.value
<1> DEFINE prev == LastAt(log, x.pair, x.time)
<1>1. prev.after \in Int /\ prev.rate \in Int
  <2>1. {i \in LiveRows(log, x.pair) : log[i].time <= x.time} \in SUBSET DOMAIN log
    BY DEF LiveRows
  <2> QED
    BY <2>1, LatestType DEF LastAt
<1> HIDE DEF prev
<1>2. \A v : v.after \in Int /\ v.rate \in Int /\ v.value \in Int =>
        [pair |-> x.pair, time |-> x.time, doc |-> x.doc, qty |-> x.qty,
         in |-> x.in, rate |-> v.rate, value |-> v.value,
         before |-> prev.after, after |-> v.after, live |-> TRUE, reversal |-> FALSE] \in Sle
  BY <1>1 DEF Appendable, Sle
<1>3. AppendSle(log, x) = Append(log,
        [pair |-> x.pair, time |-> x.time, doc |-> x.doc, qty |-> x.qty,
         in |-> x.in, rate |-> Valued(prev, x).rate, value |-> Valued(prev, x).value,
         before |-> prev.after, after |-> Valued(prev, x).after, live |-> TRUE, reversal |-> FALSE])
  BY DEF AppendSle, AppendRow, prev
<1>4. AppendRow(log, x, Counted) = Append(log,
        [pair |-> x.pair, time |-> x.time, doc |-> x.doc, qty |-> x.qty,
         in |-> x.in, rate |-> Counted(prev, x).rate, value |-> Counted(prev, x).value,
         before |-> prev.after, after |-> Counted(prev, x).after, live |-> TRUE, reversal |-> FALSE])
  BY DEF AppendRow, prev
<1>5. /\ Valued(prev, x).after \in Int /\ Valued(prev, x).rate \in Int /\ Valued(prev, x).value \in Int
      /\ Counted(prev, x).after \in Int /\ Counted(prev, x).rate \in Int /\ Counted(prev, x).value \in Int
  BY <1>1, ValuedType
<1>6. Counted(prev, x).value = x.value
  BY DEF Counted, Valued, Appendable
<1> DEFINE plain == Valued(prev, x)
           counted == Counted(prev, x)
<1> HIDE DEF plain, counted
<1> QED
  BY <1>2, <1>3, <1>4, <1>5, <1>6, SMTT(30) DEF plain, counted

LEMMA AppendedFor ==
    ASSUME NEW log \in Ledger, NEW d, NEW x, Appendable(x)
    PROVE  \E row \in Sle : /\ AppendFor(d, log, x) = Append(log, row)
                            /\ row.pair = x.pair /\ row.time = x.time /\ row.doc = x.doc
                            /\ row.qty = x.qty /\ row.live /\ ~row.reversal
                            /\ Counts(d) => row.value = x.value
BY AppendedRow DEF AppendFor

(* A cancelled row is flagged; its reversal follows a microsecond later.   *)
LEMMA CancelledRow ==
    ASSUME NEW log \in Ledger, NEW i \in DOMAIN log
    PROVE  \E row \in Sle : /\ CancelSle(log, i) = Append([log EXCEPT ![i].live = FALSE], row)
                            /\ row.pair = log[i].pair /\ row.time = log[i].time + 1
                            /\ row.doc = log[i].doc /\ row.qty = -log[i].qty /\ row.reversal
<1> DEFINE row == [log[i] EXCEPT !.time = @ + 1, !.qty = -@, !.value = -@,
                          !.before = log[i].after, !.after = log[i].before,
                          !.live = TRUE, !.reversal = TRUE]
<1>1. log[i] \in Sle
  BY LedgerRows
<1>2. row \in Sle /\ row.pair = log[i].pair /\ row.time = log[i].time + 1
      /\ row.doc = log[i].doc /\ row.qty = -log[i].qty /\ row.reversal
  <2>1. /\ log[i].time + 1 \in Nat /\ -log[i].qty \in Int /\ -log[i].value \in Int
        /\ log[i].after \in Int /\ log[i].before \in Int
    BY <1>1 DEF Sle
  <2>2. ASSUME NEW t \in Nat, NEW q \in Int, NEW v \in Int, NEW b \in Int, NEW a \in Int
        PROVE  [log[i] EXCEPT !.time = t, !.qty = q, !.value = v, !.before = b, !.after = a,
                              !.live = TRUE, !.reversal = TRUE] \in Sle
    BY <1>1 DEF Sle
  <2>3. row \in Sle
    BY <2>1, <2>2
  <2>4. row.pair = log[i].pair /\ row.time = log[i].time + 1
        /\ row.doc = log[i].doc /\ row.qty = -log[i].qty /\ row.reversal
    BY <1>1 DEF Sle
  <2> QED
    BY <2>3, <2>4
<1>3. CancelSle(log, i) = Append([log EXCEPT ![i].live = FALSE], row)
  BY DEF CancelSle
<1> HIDE DEF row
<1> QED
  BY <1>2, <1>3

LEMMA LedgerGrows ==
    ASSUME NEW log \in Ledger, NEW row \in Sle, row.time >= Time(row.doc)
    PROVE  /\ Append(log, row) \in Ledger /\ Len(Append(log, row)) = Len(log) + 1
           /\ Append(log, row)[Len(log) + 1] = row
           /\ \A i \in DOMAIN log : Append(log, row)[i] = log[i]
           /\ DOMAIN Append(log, row) = DOMAIN log \cup {Len(log) + 1}
<1> DEFINE new == Append(log, row)
<1>1. log \in Seq(Sle) /\ Len(log) \in Nat /\ DOMAIN log = 1..Len(log)
      /\ \A i \in DOMAIN log : log[i].time >= Time(log[i].doc)
  BY LedgerRows
<1>2. /\ new \in Seq(Sle) /\ Len(new) = Len(log) + 1 /\ new[Len(log) + 1] = row
      /\ \A i \in 1..Len(log) : new[i] = log[i]
      /\ DOMAIN new = 1..Len(log) + 1
  BY <1>1
<1> HIDE DEF new
<1>3. DOMAIN new = DOMAIN log \cup {Len(log) + 1}
  BY <1>1, <1>2
<1>4. new \in Ledger
  BY <1>1, <1>2, <1>3 DEF Ledger
<1> QED
  BY <1>1, <1>2, <1>3, <1>4 DEF new

LEMMA LedgerFlagged ==
    ASSUME NEW log \in Ledger, NEW i \in DOMAIN log
    PROVE  /\ [log EXCEPT ![i].live = FALSE] \in Ledger
           /\ Len([log EXCEPT ![i].live = FALSE]) = Len(log)
           /\ DOMAIN [log EXCEPT ![i].live = FALSE] = DOMAIN log
<1> DEFINE new == [log EXCEPT ![i].live = FALSE]
<1>1. log \in Seq(Sle) /\ Len(log) \in Nat /\ DOMAIN log = 1..Len(log)
      /\ \A j \in DOMAIN log : log[j] \in Sle /\ log[j].time >= Time(log[j].doc)
  BY LedgerRows
<1>2. [log[i] EXCEPT !.live = FALSE] \in Sle /\ [log[i] EXCEPT !.live = FALSE].time = log[i].time
      /\ [log[i] EXCEPT !.live = FALSE].doc = log[i].doc
  BY <1>1 DEF Sle
<1>3. new = [j \in 1..Len(log) |-> IF j = i THEN [log[i] EXCEPT !.live = FALSE] ELSE log[j]]
  BY <1>1
<1>4. \A j \in 1..Len(log) : new[j] \in Sle /\ new[j].time >= Time(new[j].doc)
  BY <1>1, <1>2, <1>3
<1>5. new \in [1..Len(log) -> Sle]
  BY <1>3, <1>4
<1> HIDE DEF new
<1>6. new \in Seq(Sle) /\ Len(new) = Len(log) /\ DOMAIN new = 1..Len(log)
  BY <1>1, <1>5
<1>7. new \in Ledger
  BY <1>4, <1>6 DEF Ledger
<1> QED
  BY <1>1, <1>6, <1>7 DEF new

-----------------------------------------------------------------------------
(* What the engine keeps of a ledger it works on.                          *)
LEMMA WithinSelf == ASSUME NEW log \in Ledger, NEW ps, NEW t PROVE Within(log, log, ps, t)
BY LedgerRows DEF Within

LEMMA WithinAppend ==
    ASSUME NEW old \in Ledger, NEW log \in Ledger, NEW ps, NEW t, Within(old, log, ps, t),
           NEW row \in Sle, row.time >= Time(row.doc), row.pair \in ps, row.time >= t
    PROVE  Append(log, row) \in Ledger /\ Within(old, Append(log, row), ps, t)
<1>1. /\ Len(old) \in Nat /\ Len(log) \in Nat /\ Len(log) >= Len(old)
      /\ DOMAIN old = 1..Len(old) /\ DOMAIN log = 1..Len(log)
  BY LedgerRows DEF Within
<1> DEFINE new == Append(log, row)
<1>2. /\ new \in Ledger /\ Len(new) = Len(log) + 1 /\ new[Len(log) + 1] = row
      /\ \A i \in DOMAIN log : new[i] = log[i]
      /\ DOMAIN new = DOMAIN log \cup {Len(log) + 1}
  BY LedgerGrows
<1> HIDE DEF new
<1>3. Len(new) >= Len(old) /\ DOMAIN old \subseteq DOMAIN log
  BY <1>1, <1>2
<1>4. ASSUME NEW i \in DOMAIN new \ DOMAIN old PROVE new[i].pair \in ps /\ new[i].time >= t
  <2>1. CASE i \in DOMAIN log
    BY <1>2, <1>4, <2>1 DEF Within
  <2>2. CASE i = Len(log) + 1
    BY <1>2, <2>2
  <2> QED
    BY <1>2, <1>4, <2>1, <2>2
<1>5. Within(old, new, ps, t)
  BY <1>2, <1>3, <1>4 DEF Within
<1> QED
  BY <1>2, <1>5 DEF new

LEMMA WithinFlagged ==
    ASSUME NEW old \in Ledger, NEW log \in Ledger, NEW ps, NEW t \in Int, Within(old, log, ps, t),
           NEW i \in DOMAIN log, log[i].pair \in ps, log[i].time > t
    PROVE  Within(old, [log EXCEPT ![i].live = FALSE], ps, t)
<1> DEFINE new == [log EXCEPT ![i].live = FALSE]
<1>1. /\ Len(old) \in Nat /\ Len(log) \in Nat /\ Len(log) >= Len(old)
      /\ DOMAIN old = 1..Len(old) /\ DOMAIN log = 1..Len(log)
      /\ \A j \in DOMAIN log : log[j] \in Sle
      /\ \A j \in DOMAIN old : old[j] \in Sle
  BY LedgerRows DEF Within
<1>2. /\ Len(new) = Len(log) /\ DOMAIN new = DOMAIN log
      /\ new[i] = [log[i] EXCEPT !.live = FALSE] /\ \A j \in DOMAIN log \ {i} : new[j] = log[j]
  BY LedgerFlagged, LedgerRows
<1>3. \A e \in Sle : /\ [e EXCEPT !.live = FALSE].pair = e.pair
                     /\ [e EXCEPT !.live = FALSE].time = e.time
                     /\ [[e EXCEPT !.live = FALSE] EXCEPT !.live = FALSE] = [e EXCEPT !.live = FALSE]
  BY DEF Sle
<1> HIDE DEF new
<1>4. ASSUME NEW j \in DOMAIN old
      PROVE  \/ new[j] = old[j]
             \/ old[j].pair \in ps /\ old[j].time > t /\ new[j] = [old[j] EXCEPT !.live = FALSE]
  <2>1. j \in DOMAIN log /\ old[j] \in Sle
    BY <1>1
  <2>2. \/ log[j] = old[j]
        \/ old[j].pair \in ps /\ old[j].time > t /\ log[j] = [old[j] EXCEPT !.live = FALSE]
    BY DEF Within
  <2>3. CASE j = i
    BY <1>2, <1>3, <2>1, <2>2, <2>3
  <2> QED
    BY <1>2, <2>1, <2>2, <2>3
<1>5. ASSUME NEW j \in DOMAIN new \ DOMAIN old PROVE new[j].pair \in ps /\ new[j].time >= t
  <2>1. j \in DOMAIN log /\ log[j].pair \in ps /\ log[j].time >= t /\ log[j] \in Sle
    BY <1>1, <1>2, <1>5 DEF Within
  <2>2. CASE j = i
    BY <1>2, <1>3, <2>1, <2>2
  <2>3. CASE j # i
    BY <1>2, <2>1, <2>3
  <2> QED
    BY <2>2, <2>3
<1> QED
  BY <1>1, <1>2, <1>4, <1>5 DEF Within, new

LEMMA WithinTwice ==
    ASSUME NEW old \in Ledger, NEW log \in Ledger, NEW new \in Ledger, NEW ps, NEW t \in Int,
           Within(old, log, ps, t), Within(log, new, ps, t)
    PROVE  Within(old, new, ps, t)
<1>1. /\ Len(old) \in Nat /\ Len(log) \in Nat /\ Len(new) \in Nat
      /\ DOMAIN old = 1..Len(old) /\ DOMAIN log = 1..Len(log) /\ DOMAIN new = 1..Len(new)
      /\ \A j \in DOMAIN log : log[j] \in Sle
      /\ \A j \in DOMAIN old : old[j] \in Sle
  BY LedgerRows
<1>2. Len(log) >= Len(old) /\ Len(new) >= Len(log)
  BY DEF Within
<1>3. Len(new) >= Len(old) /\ DOMAIN old \subseteq DOMAIN log /\ DOMAIN log \subseteq DOMAIN new
  BY <1>1, <1>2
<1>4. \A e \in Sle : /\ [e EXCEPT !.live = FALSE].pair = e.pair
                     /\ [e EXCEPT !.live = FALSE].time = e.time
                     /\ [[e EXCEPT !.live = FALSE] EXCEPT !.live = FALSE] = [e EXCEPT !.live = FALSE]
  BY DEF Sle
<1>5. ASSUME NEW j \in DOMAIN old
      PROVE  \/ new[j] = old[j]
             \/ old[j].pair \in ps /\ old[j].time > t /\ new[j] = [old[j] EXCEPT !.live = FALSE]
  <2>1. \/ log[j] = old[j]
        \/ old[j].pair \in ps /\ old[j].time > t /\ log[j] = [old[j] EXCEPT !.live = FALSE]
    BY DEF Within
  <2>2. \/ new[j] = log[j]
        \/ log[j].pair \in ps /\ log[j].time > t /\ new[j] = [log[j] EXCEPT !.live = FALSE]
    BY <1>3 DEF Within
  <2> QED
    BY <1>1, <1>4, <2>1, <2>2
<1>6. ASSUME NEW j \in DOMAIN new \ DOMAIN old PROVE new[j].pair \in ps /\ new[j].time >= t
  <2>1. CASE j \in DOMAIN log
    <3>1. log[j].pair \in ps /\ log[j].time >= t /\ log[j] \in Sle
      BY <1>1, <1>6, <2>1 DEF Within
    <3>2. new[j] = log[j] \/ new[j] = [log[j] EXCEPT !.live = FALSE]
      BY <2>1 DEF Within
    <3> QED
      BY <1>4, <3>1, <3>2
  <2>2. CASE j \notin DOMAIN log
    BY <2>2 DEF Within
  <2> QED
    BY <2>1, <2>2
<1> QED
  BY <1>3, <1>5, <1>6 DEF Within

(* Only the pairs it names are touched.                                    *)
LEMMA WithinMore ==
    ASSUME NEW old, NEW new, NEW ps, NEW qs, ps \subseteq qs, NEW t, Within(old, new, ps, t)
    PROVE  Within(old, new, qs, t)
BY DEF Within

(* Where all steps of such a fold stay, it stays.                          *)
LEMMA AppendAllStays ==
    ASSUME NEW d, NEW X, NEW xs \in Seq(X), NEW V, NEW log \in V,
           \A l \in V : \A k \in DOMAIN xs : AppendFor(d, l, xs[k]) \in V
    PROVE  AppendAll(log, d, xs) \in V
<1>1. PICK F \in [SUBSET DOMAIN xs -> V] : AppendAll(log, d, xs) = F[DOMAIN xs] /\ Appends(F, d, log, xs)
  BY AppendAllRuns, Zenon
<1> QED
  BY <1>1

LEMMA CancelAllStays ==
    ASSUME NEW X, NEW xs \in Seq(X), NEW V, NEW log \in V,
           \A l \in V : \A k \in DOMAIN xs : CancelSle(l, xs[k]) \in V
    PROVE  CancelAll(log, xs) \in V
<1>1. PICK F \in [SUBSET DOMAIN xs -> V] : CancelAll(log, xs) = F[DOMAIN xs] /\ Cancels(F, log, xs)
  BY CancelAllRuns, Zenon
<1> QED
  BY <1>1

LEMMA AppendAgainStays ==
    ASSUME NEW old, NEW X, NEW xs \in Seq(X), NEW V, NEW log \in V,
           \A l \in V : \A k \in DOMAIN xs : AppendSle(l, Again(old[xs[k]], k)) \in V
    PROVE  AppendAgain(log, old, xs) \in V
<1>1. PICK F \in [SUBSET DOMAIN xs -> V] : AppendAgain(log, old, xs) = F[DOMAIN xs] /\ Rewrites(F, log, old, xs)
  BY AppendAgainRuns, Zenon
<1> QED
  BY <1>1

LEMMA AppendAllKeeps ==
    ASSUME NEW log \in Ledger, NEW d, NEW X, NEW xs \in Seq(X), NEW ps, NEW t \in Int,
           \A k \in DOMAIN xs : Appendable(xs[k]) /\ xs[k].pair \in ps /\ xs[k].time >= t
    PROVE  AppendAll(log, d, xs) \in Ledger /\ Within(log, AppendAll(log, d, xs), ps, t)
<1> DEFINE V == {l \in Ledger : Within(log, l, ps, t)}
<1>1. log \in V
  BY WithinSelf
<1>2. ASSUME NEW l \in V, NEW k \in DOMAIN xs PROVE AppendFor(d, l, xs[k]) \in V
  <2>1. PICK row \in Sle : /\ AppendFor(d, l, xs[k]) = Append(l, row)
                           /\ row.pair = xs[k].pair /\ row.time = xs[k].time /\ row.doc = xs[k].doc
    BY AppendedFor
  <2> QED
    BY <2>1, WithinAppend DEF Appendable
<1>3. AppendAll(log, d, xs) \in V
  <2> HIDE DEF V
  <2> QED
    BY <1>1, <1>2, AppendAllStays
<1> QED
  BY <1>3

(* The rows a replay cancels and writes again.                             *)
LEMMA StreamRows ==
    ASSUME NEW log \in Ledger, NEW p, NEW t \in Int, NEW skipped
    PROVE  /\ Stream(log, p, t, skipped) \in Seq(DOMAIN log)
           /\ \A k \in DOMAIN Stream(log, p, t, skipped) :
                 LET i == Stream(log, p, t, skipped)[k]
                 IN i \in DOMAIN log /\ log[i].pair = p /\ log[i].time > t /\ k \in Nat /\ k >= 1
<1> DEFINE S == {i \in LiveRows(log, p) : log[i].time > t /\ log[i].doc \notin skipped}
<1>1. S \in SUBSET DOMAIN log
  BY DEF LiveRows
<1>2. IsFiniteSet(S) /\ Timed(log, S)
  BY <1>1, LedgerRows
<1>3. InTimeOrder(log, S) \in Seq(S) /\ DOMAIN InTimeOrder(log, S) = 1..Cardinality(S)
  <2> HIDE DEF S
  <2> QED
    BY <1>2, InOrder
<1>4. \A k \in DOMAIN InTimeOrder(log, S) : InTimeOrder(log, S)[k] \in S /\ k \in Nat /\ k >= 1
  <2> HIDE DEF S
  <2> QED
    BY <1>2, <1>3, FS_CardinalityType
<1>5. InTimeOrder(log, S) \in Seq(DOMAIN log)
  <2> HIDE DEF S
  <2> QED
    BY <1>1, <1>3
<1>6. Stream(log, p, t, skipped) = InTimeOrder(log, S)
  BY DEF Stream
<1> QED
  BY <1>4, <1>5, <1>6 DEF LiveRows

(* The ledgers a replay of the pair p after t goes through.                *)
Replaying(log, p, t) == {l \in Ledger : Within(log, l, {p}, t)}

LEMMA StreamRow ==
    ASSUME NEW log \in Ledger, NEW p, NEW t \in Int, NEW skipped,
           NEW k \in DOMAIN Stream(log, p, t, skipped)
    PROVE  LET i == Stream(log, p, t, skipped)[k]
               x == Again(log[i], k)
           IN /\ i \in DOMAIN log /\ log[i].pair = p /\ log[i].time > t /\ log[i] \in Sle
              /\ log[i].time \in Nat /\ log[i].time >= Time(log[i].doc) /\ Time(log[i].doc) \in Nat
              /\ Appendable(x) /\ x.time >= t
              /\ x.doc = log[i].doc /\ x.pair = p /\ x.qty = log[i].qty
<1> DEFINE i == Stream(log, p, t, skipped)[k]
           e == log[i]
           x == Again(e, k)
<1>1. /\ i \in DOMAIN log /\ e.pair = p /\ e.time > t /\ k \in Nat /\ k >= 1
      /\ e \in Sle /\ e.time >= Time(e.doc)
  BY StreamRows, LedgerRows
<1> HIDE DEF i
<1>2. /\ x.pair = p /\ x.time = e.time + (k - 1) /\ x.doc = e.doc /\ x.qty = e.qty
      /\ x.in = e.in /\ x.value = e.value
  BY <1>1 DEF Again, Sle
<1>3. Time(e.doc) \in Nat /\ e.time \in Nat
  BY <1>1, EntriesAssumption DEF Time, Sle
<1> HIDE DEF x, e
<1>4. x.time \in Nat /\ x.time >= Time(x.doc) /\ x.time >= t
  BY <1>1, <1>2, <1>3
<1>5. Appendable(x)
  BY <1>1, <1>2, <1>4 DEF Appendable, Sle
<1> QED
  BY <1>1, <1>2, <1>3, <1>4, <1>5 DEF x, e, i

(* Cancelling a row of the stream, and writing it again, stay within it.   *)
LEMMA CancelInside ==
    ASSUME NEW log \in Ledger, NEW p, NEW t \in Int, NEW l \in Replaying(log, p, t),
           NEW i \in DOMAIN log, log[i].pair = p, log[i].time > t
    PROVE  /\ CancelSle(l, i) \in Replaying(log, p, t)
           /\ i \in DOMAIN l /\ (l[i] = log[i] \/ l[i] = [log[i] EXCEPT !.live = FALSE])
<1> DEFINE flagged == [l EXCEPT ![i].live = FALSE]
<1>0. l \in Ledger /\ Within(log, l, {p}, t)
  BY DEF Replaying
<1>1. i \in DOMAIN l /\ l[i].pair = p /\ l[i].time > t /\ l[i] \in Sle
      /\ l[i].time >= Time(l[i].doc) /\ l[i].time \in Int
      /\ (l[i] = log[i] \/ l[i] = [log[i] EXCEPT !.live = FALSE])
  <2>1. Len(l) >= Len(log) /\ log[i] \in Sle
    BY <1>0, LedgerRows DEF Within
  <2>2. i \in DOMAIN l
    BY <1>0, <2>1, LedgerRows
  <2>3. l[i] \in Sle /\ l[i].time >= Time(l[i].doc)
    BY <1>0, <2>2, LedgerRows
  <2>4. l[i] = log[i] \/ l[i] = [log[i] EXCEPT !.live = FALSE]
    BY <1>0 DEF Within
  <2>5. l[i].pair = p /\ l[i].time > t
    BY <2>1, <2>4 DEF Sle
  <2> QED
    BY <2>2, <2>3, <2>4, <2>5 DEF Sle
<1>2. PICK row \in Sle : /\ CancelSle(l, i) = Append(flagged, row)
                         /\ row.pair = l[i].pair /\ row.time = l[i].time + 1 /\ row.doc = l[i].doc
  BY <1>0, <1>1, CancelledRow
<1>3. flagged \in Ledger /\ Within(log, flagged, {p}, t)
  BY <1>0, <1>1, LedgerFlagged, WithinFlagged
<1>4. row.time >= t /\ row.time >= Time(row.doc) /\ row.pair \in {p}
  <2>1. Time(l[i].doc) \in Nat
    BY <1>1, EntriesAssumption DEF Time, Sle
  <2> QED
    BY <1>1, <1>2, <2>1
<1> HIDE DEF flagged
<1>5. Append(flagged, row) \in Ledger /\ Within(log, Append(flagged, row), {p}, t)
  BY <1>3, <1>4, WithinAppend
<1> QED
  BY <1>1, <1>2, <1>5 DEF Replaying

LEMMA AgainInside ==
    ASSUME NEW log \in Ledger, NEW p, NEW t \in Int, NEW l \in Replaying(log, p, t),
           NEW x, Appendable(x), x.pair = p, x.time >= t
    PROVE  AppendSle(l, x) \in Replaying(log, p, t)
<1>1. l \in Ledger /\ Within(log, l, {p}, t)
  BY DEF Replaying
<1>2. PICK row \in Sle : /\ AppendSle(l, x) = Append(l, row)
                         /\ row.pair = x.pair /\ row.time = x.time /\ row.doc = x.doc
  BY <1>1, AppendedRow
<1>3. row.time >= Time(row.doc)
  BY <1>2 DEF Appendable
<1> QED
  BY <1>1, <1>2, <1>3, WithinAppend DEF Replaying

(* How a replay comes about: its rows are cancelled one by one, and then   *)
(* written again one by one.                                               *)
Replays(F, G, log, xs, new) ==
    Cancels(F, log, xs) /\ Rewrites(G, F[DOMAIN xs], log, xs) /\ new = G[DOMAIN xs]

LEMMA RepostRuns ==
    ASSUME NEW log \in Ledger, NEW p, NEW t \in Int, NEW skipped
    PROVE  LET stream == Stream(log, p, t, skipped)
               V == Replaying(log, p, t)
           IN \E F, G \in [SUBSET DOMAIN stream -> V] :
                 Replays(F, G, log, stream, Repost(log, p, t, skipped))
<1> DEFINE V == Replaying(log, p, t)
           stream == Stream(log, p, t, skipped)
<1>1. log \in V
  BY WithinSelf DEF Replaying
<1>2. stream \in Seq(DOMAIN log)
  BY StreamRows
<1>3. ASSUME NEW l \in V, NEW k \in DOMAIN stream PROVE CancelSle(l, stream[k]) \in V
  <2>1. stream[k] \in DOMAIN log /\ log[stream[k]].pair = p /\ log[stream[k]].time > t
    BY StreamRow
  <2> HIDE DEF stream
  <2> QED
    BY <2>1, CancelInside
<1>4. ASSUME NEW l \in V, NEW k \in DOMAIN stream PROVE AppendSle(l, Again(log[stream[k]], k)) \in V
  <2> DEFINE x == Again(log[stream[k]], k)
  <2>1. Appendable(x) /\ x.pair = p /\ x.time >= t
    BY StreamRow
  <2> HIDE DEF stream, x
  <2>2. AppendSle(l, x) \in V
    BY <2>1, AgainInside
  <2> QED
    BY <2>2 DEF x
<1>5. Repost(log, p, t, skipped) = AppendAgain(CancelAll(log, stream), log, stream)
  BY DEF Repost
<1> HIDE DEF V, stream
<1>6. PICK F \in [SUBSET DOMAIN stream -> V] : CancelAll(log, stream) = F[DOMAIN stream] /\ Cancels(F, log, stream)
  BY <1>1, <1>2, <1>3, CancelAllRuns
<1>7. F[DOMAIN stream] \in V
  OBVIOUS
<1>8. PICK G \in [SUBSET DOMAIN stream -> V] :
          AppendAgain(F[DOMAIN stream], log, stream) = G[DOMAIN stream] /\ Rewrites(G, F[DOMAIN stream], log, stream)
  <2> DEFINE start == F[DOMAIN stream]
  <2> HIDE DEF start
  <2>1. \E G \in [SUBSET DOMAIN stream -> V] :
          AppendAgain(start, log, stream) = G[DOMAIN stream] /\ Rewrites(G, start, log, stream)
    BY <1>2, <1>4, <1>7, AppendAgainRuns DEF start
  <2> QED
    BY <2>1 DEF start
<1> QED
  BY <1>5, <1>6, <1>8 DEF V, stream, Replays

LEMMA RepostKeeps ==
    ASSUME NEW log \in Ledger, NEW p, NEW t \in Int, NEW skipped
    PROVE  /\ Repost(log, p, t, skipped) \in Ledger
           /\ Within(log, Repost(log, p, t, skipped), {p}, t)
<1> DEFINE stream == Stream(log, p, t, skipped)
<1>1. PICK F, G \in [SUBSET DOMAIN stream -> Replaying(log, p, t)] :
          Replays(F, G, log, stream, Repost(log, p, t, skipped))
  BY RepostRuns, Zenon
<1> HIDE DEF stream
<1>2. G[DOMAIN stream] \in Replaying(log, p, t)
  OBVIOUS
<1> QED
  BY <1>1, <1>2 DEF Replaying, Replays

LEMMA RepostAllKeeps ==
    ASSUME NEW log \in Ledger, NEW ps, IsFiniteSet(ps), NEW t \in Int, NEW skipped
    PROVE  /\ RepostAll(log, ps, t, skipped) \in Ledger
           /\ Within(log, RepostAll(log, ps, t, skipped), ps, t)
<1> DEFINE V == {l \in Ledger : Within(log, l, ps, t)}
<1>1. log \in V
  BY WithinSelf
<1>2. ASSUME NEW l \in V, NEW p \in ps PROVE Repost(l, p, t, skipped) \in V
  <2>1. Repost(l, p, t, skipped) \in Ledger /\ Within(l, Repost(l, p, t, skipped), ps, t)
    BY RepostKeeps, WithinMore
  <2> QED
    BY <2>1, WithinTwice
<1>3. RepostAll(log, ps, t, skipped) \in V
  <2> HIDE DEF V
  <2> QED
    BY <1>1, <1>2, RepostAllRuns
<1> QED
  BY <1>3

-----------------------------------------------------------------------------
(* What a request means to write: legs of its document at its time.        *)
Posting(d) == {xs \in Seq(Leg) : \A k \in DOMAIN xs : xs[k].time = Time(d) /\ xs[k].doc = d}

LEMMA PostingGrows ==
    ASSUME NEW d, NEW xs \in Posting(d), NEW ys \in Posting(d)
    PROVE  xs \o ys \in Posting(d)
<1>1. /\ xs \in Seq(Leg) /\ ys \in Seq(Leg) /\ Len(xs) \in Nat /\ Len(ys) \in Nat
      /\ DOMAIN xs = 1..Len(xs) /\ DOMAIN ys = 1..Len(ys)
  BY DEF Posting
<1> DEFINE zs == xs \o ys
<1>2. /\ zs \in Seq(Leg) /\ DOMAIN zs = 1..(Len(xs) + Len(ys))
      /\ \A k \in 1..(Len(xs) + Len(ys)) :
            zs[k] = IF k <= Len(xs) THEN xs[k] ELSE ys[k - Len(xs)]
  BY <1>1
<1> HIDE DEF zs
<1>3. ASSUME NEW k \in DOMAIN zs PROVE zs[k].time = Time(d) /\ zs[k].doc = d
  <2>1. CASE k <= Len(xs)
    <3>1. k \in DOMAIN xs /\ zs[k] = xs[k]
      BY <1>1, <1>2, <2>1
    <3> QED
      BY <3>1 DEF Posting
  <2>2. CASE ~(k <= Len(xs))
    <3>1. k - Len(xs) \in DOMAIN ys /\ zs[k] = ys[k - Len(xs)]
      BY <1>1, <1>2, <2>2
    <3> QED
      BY <3>1 DEF Posting
  <2> QED
    BY <2>1, <2>2
<1>4. zs \in Posting(d)
  BY <1>2, <1>3 DEF Posting
<1> QED
  BY <1>4 DEF zs

LEMMA LegsType ==
    ASSUME sle \in Ledger, NEW d \in Documents, NEW k \in DOMAIN Entries[d].lines
    PROVE  Legs(d, Entries[d].lines[k]) \in Posting(d)
<1> DEFINE l == Entries[d].lines[k]
           now(p) == LastAt(sle, p, Time(d))
<1>1. /\ l \in Lines /\ Entries[d].type \in Types /\ Time(d) \in Nat
      /\ Entries[d].type \in {"issue", "transfer"} => l.source # Null
      /\ Entries[d].type # "issue" => l.target # Null
      /\ Entries[d].type # "reconciliation" => l.qty # 0 /\ l.rate # Null
  BY EntriesAssumption DEF Time
<1>2. ASSUME NEW p PROVE now(p).after \in Int /\ now(p).rate \in Int
  <2>1. {i \in LiveRows(sle, p) : sle[i].time <= Time(d)} \in SUBSET DOMAIN sle
    BY DEF LiveRows
  <2> QED
    BY <2>1, LatestType DEF LastAt
<1> HIDE DEF l
<1>3. ASSUME NEW p \in Pairs, NEW q \in Int, NEW in \in Int \cup {Null}, NEW v \in Int
      PROVE  [pair |-> p, time |-> Time(d), doc |-> d, qty |-> q, in |-> in, value |-> v] \in Leg
  BY <1>1 DEF Leg
<1>4. ASSUME NEW x \in Leg, x.time = Time(d), x.doc = d PROVE << x >> \in Posting(d)
  BY <1>4 DEF Posting
<1>5. ASSUME NEW x \in Leg, x.time = Time(d), x.doc = d, NEW y \in Leg, y.time = Time(d), y.doc = d
      PROVE  << x, y >> \in Posting(d)
  BY <1>5 DEF Posting
<1>6. l.qty \in Nat /\ l.rate \in Nat \cup {Null} /\ l.source \in Pairs \cup {Null}
      /\ l.target \in Pairs \cup {Null} /\ l.qty \in Int /\ -l.qty \in Int
      /\ Null \in Int \cup {Null} /\ 0 \in Int
  BY <1>1 DEF Lines
<1> DEFINE leg(p, q, in) == [pair |-> p, time |-> Time(d), doc |-> d, qty |-> q,
                             in |-> in, value |-> 0]
<1>7. CASE Entries[d].type = "receipt"
  <2>1. Legs(d, l) = << leg(l.target, l.qty, l.rate) >>
    BY <1>7 DEF Legs, Counts
  <2>2. leg(l.target, l.qty, l.rate) \in Leg
    BY <1>1, <1>3, <1>6, <1>7
  <2> QED
    BY <1>4, <2>1, <2>2 DEF l
<1>8. CASE Entries[d].type = "issue"
  <2>1. Legs(d, l) = << leg(l.source, -l.qty, Null) >>
    BY <1>8 DEF Legs, Counts
  <2>2. leg(l.source, -l.qty, Null) \in Leg
    <3>1. l.source \in Pairs /\ -l.qty \in Int
      BY <1>1, <1>6, <1>8
    <3> QED
      BY <1>3, <1>6, <3>1
  <2> QED
    BY <1>4, <2>1, <2>2 DEF l
<1>9. CASE Entries[d].type = "transfer"
  <2>1. Legs(d, l) = << leg(l.source, -l.qty, Null), leg(l.target, l.qty, now(l.source).rate) >>
    BY <1>9 DEF Legs, Counts
  <2>2. leg(l.source, -l.qty, Null) \in Leg
    BY <1>1, <1>3, <1>6, <1>9
  <2>3. leg(l.target, l.qty, now(l.source).rate) \in Leg
    <3>1. now(l.source).rate \in Int
      BY <1>2
    <3> HIDE DEF now
    <3> QED
      BY <1>1, <1>3, <1>6, <1>9, <3>1
  <2> QED
    BY <1>5, <2>1, <2>2, <2>3 DEF l
<1>10. CASE Counts(d)
  <2>1. Entries[d].type = "reconciliation"
    BY <1>10 DEF Counts
  <2>2. Legs(d, l) = << CountLeg(d, l) >>
    BY <2>1, <1>10 DEF Legs, Counts
  <2>3. CountLeg(d, l) \in Leg /\ CountLeg(d, l).time = Time(d) /\ CountLeg(d, l).doc = d
    <3> DEFINE after == now(l.target).after
               rate == now(l.target).rate
               counted == IF l.rate = Null THEN rate ELSE l.rate
    <3>1. CountLeg(d, l) = [pair |-> l.target, time |-> Time(d), doc |-> d, qty |-> l.qty - after,
                            in |-> Null, value |-> l.qty * counted - after * rate]
      BY DEF CountLeg
    <3>2. after \in Int /\ rate \in Int /\ l.target \in Pairs
      BY <1>1, <1>2, <1>6, <2>1
    <3> HIDE DEF after, rate
    <3>3. counted \in Int
      BY <1>6, <3>2
    <3> HIDE DEF counted
    <3>4. l.qty - after \in Int /\ l.qty * counted - after * rate \in Int
      <4>1. l.qty * counted \in Int /\ after * rate \in Int
        BY <1>6, <3>2, <3>3
      <4> QED
        BY <1>6, <3>2, <4>1
    <3>5. [pair |-> l.target, time |-> Time(d), doc |-> d, qty |-> l.qty - after,
           in |-> Null, value |-> l.qty * counted - after * rate] \in Leg
      BY <1>3, <3>2, <3>4
    <3> QED
      BY <3>1, <3>5
  <2> QED
    BY <1>4, <2>2, <2>3 DEF l
<1> QED
  BY <1>1, <1>7, <1>8, <1>9, <1>10 DEF Types, Counts

LEMMA IntentsType ==
    ASSUME sle \in Ledger, NEW d \in Documents
    PROVE  Intents(d) \in Posting(d)
<1>1. << >> \in Posting(d)
  BY DEF Posting
<1>2. ASSUME NEW xs \in Posting(d), NEW k \in DOMAIN Entries[d].lines
      PROVE  xs \o Legs(d, Entries[d].lines[k]) \in Posting(d)
  BY LegsType, PostingGrows
<1> DEFINE V == Posting(d)
           S == DOMAIN Entries[d].lines
<1>3. S \in SUBSET S
  OBVIOUS
<1>4. PICK F \in [SUBSET S -> V] : Intents(d) = F[S] /\ Plans(F, d)
  <2> HIDE DEF V
  <2>1. << >> \in V /\ \A xs \in V : \A k \in DOMAIN Entries[d].lines :
                          xs \o Legs(d, Entries[d].lines[k]) \in V
    BY <1>1, <1>2 DEF V
  <2> QED
    BY <2>1, IntentsRun, Zenon
<1> QED
  BY <1>3, <1>4

LEMMA WorthType ==
    ASSUME NEW log, NEW S, IsFiniteSet(S), \A i \in S : log[i].value \in Int
    PROVE  Worth(log, S) \in Int
<1> DEFINE f == [i \in S |-> log[i].value]
<1>1. f \in [S -> Int] /\ f = [e \in S |-> f[e]] /\ S \in SUBSET S
  OBVIOUS
<1> HIDE DEF f
<1>2. PICK F \in [SUBSET S -> Int] : Folds(F, Pick(S), Add(f), 0, S) /\ SumFunction(f) = F[S]
  BY <1>1, SumFolds
<1>3. SumFunction(f) \in Int
  BY <1>1, <1>2
<1> QED
  BY <1>3 DEF Worth, f

(* The pairs that legs, or rows, are on.                                   *)
LEMMA FinitePairs ==
    ASSUME NEW xs, NEW S, IsFiniteSet(S)
    PROVE  IsFiniteSet({xs[i].pair : i \in S})
<1> DEFINE ps == {xs[i].pair : i \in S}
           f == [i \in S |-> xs[i].pair]
<1>1. f \in Surjection(S, ps)
  BY DEF Surjection
<1> HIDE DEF f, ps
<1>2. IsFiniteSet(ps)
  BY <1>1, FS_Surjection
<1> QED
  BY <1>2 DEF ps

-----------------------------------------------------------------------------
(* The rows of a document are flagged: the ledger stays one, and no other  *)
(* row changes.                                                            *)
LEMMA FlaggedRows ==
    ASSUME NEW log \in Ledger, NEW S
    PROVE  /\ Flagged(log, S) \in Ledger /\ Len(Flagged(log, S)) = Len(log)
           /\ DOMAIN Flagged(log, S) = DOMAIN log
           /\ \A i \in DOMAIN log : Flagged(log, S)[i] = IF i \in S THEN [log[i] EXCEPT !.live = FALSE]
                                                         ELSE log[i]
<1> DEFINE new == Flagged(log, S)
<1>1. log \in Seq(Sle) /\ Len(log) \in Nat /\ DOMAIN log = 1..Len(log)
      /\ \A i \in DOMAIN log : log[i] \in Sle /\ log[i].time >= Time(log[i].doc)
  BY LedgerRows
<1>2. new = [i \in 1..Len(log) |-> IF i \in S THEN [log[i] EXCEPT !.live = FALSE] ELSE log[i]]
  BY <1>1 DEF Flagged
<1>3. \A i \in 1..Len(log) : /\ [log[i] EXCEPT !.live = FALSE] \in Sle
                             /\ [log[i] EXCEPT !.live = FALSE].time = log[i].time
                             /\ [log[i] EXCEPT !.live = FALSE].doc = log[i].doc
  BY <1>1 DEF Sle
<1>4. \A i \in 1..Len(log) : new[i] \in Sle /\ new[i].time >= Time(new[i].doc)
  BY <1>1, <1>2, <1>3
<1>5. new \in [1..Len(log) -> Sle]
  BY <1>2, <1>4
<1>6. \A i \in 1..Len(log) : new[i] = IF i \in S THEN [log[i] EXCEPT !.live = FALSE] ELSE log[i]
  BY <1>2
<1> HIDE DEF new
<1>7. new \in Seq(Sle) /\ Len(new) = Len(log) /\ DOMAIN new = 1..Len(log)
  BY <1>1, <1>5
<1>8. new \in Ledger
  BY <1>4, <1>7 DEF Ledger
<1> QED
  BY <1>1, <1>6, <1>7, <1>8 DEF new

(* Where the rows of a pair stay as they are, so does its snapshot.        *)
LEMMA SameSnapshot ==
    ASSUME NEW old \in Ledger, NEW new \in Ledger, NEW p, Len(new) >= Len(old),
           \A i \in DOMAIN old : new[i] = old[i] \/ (old[i].pair # p /\ new[i].pair # p),
           \A i \in DOMAIN new \ DOMAIN old : new[i].pair # p
    PROVE  Latest(new, LiveRows(new, p)) = Latest(old, LiveRows(old, p))
<1> DEFINE S == LiveRows(old, p)
<1>1. DOMAIN old \subseteq DOMAIN new
  BY LedgerRows
<1>2. LiveRows(new, p) = S /\ \A i \in S : new[i] = old[i]
  BY <1>1 DEF LiveRows
<1> HIDE DEF S
<1>3. \A i, j \in S : Later(new, i, j) <=> Later(old, i, j)
  BY <1>2 DEF Later
<1>4. Latest(new, S) = Latest(old, S)
  <2>1. CASE S = {}
    BY <2>1 DEF Latest
  <2>2. CASE S # {}
    <3> DEFINE top == CHOOSE i \in S : \A j \in S : Later(old, i, j)
    <3>1. ASSUME NEW i
          PROVE  (i \in S /\ \A j \in S : Later(new, i, j)) <=> (i \in S /\ \A j \in S : Later(old, i, j))
      BY <1>3
    <3>2. (CHOOSE i \in S : \A j \in S : Later(new, i, j)) = (CHOOSE i \in S : \A j \in S : Later(old, i, j))
      BY <3>1, Zenon
    <3>3. S \in SUBSET DOMAIN old
      BY DEF S, LiveRows
    <3>4. PICK last \in S : \A j \in S : Later(old, last, j)
      BY <2>2, <3>3, LedgerRows, LatestRow
    <3>5. top \in S
      BY <3>4
    <3>6. Latest(new, S) = new[top] /\ Latest(old, S) = old[top]
      <4>1. Latest(old, S) = old[top]
        BY <2>2 DEF Latest
      <4>2. Latest(new, S) = new[CHOOSE i \in S : \A j \in S : Later(new, i, j)]
        BY <2>2 DEF Latest
      <4> QED
        BY <3>2, <4>1, <4>2
    <3> HIDE DEF top
    <3> QED
      BY <1>2, <3>5, <3>6
  <2> QED
    BY <2>1, <2>2
<1> QED
  BY <1>2, <1>4 DEF S

(* The bins after a posting: those of the pairs it touched are derived,    *)
(* and the others need not be.                                             *)
LEMMA BinsFollow ==
    ASSUME TypeOK, BinIsSnapshot, sle \in Ledger, sle' \in Ledger, NEW ps, Len(sle') >= Len(sle),
           \A i \in DOMAIN sle : sle'[i] = sle[i] \/ (sle[i].pair \in ps /\ sle'[i].pair \in ps),
           \A i \in DOMAIN sle' \ DOMAIN sle : sle'[i].pair \in ps,
           bin' = Derived(sle', ps)
    PROVE  BinIsSnapshot' /\ bin' \in [Pairs -> [qty : Int, rate : Int]]
<1> DEFINE last(p) == Latest(sle', LiveRows(sle', p))
<1>1. bin' = [p \in Pairs |-> IF p \in ps THEN [qty |-> last(p).after, rate |-> last(p).rate] ELSE bin[p]]
  BY DEF Derived
<1>2. ASSUME NEW p PROVE last(p).after \in Int /\ last(p).rate \in Int
  <2>1. LiveRows(sle', p) \in SUBSET DOMAIN sle'
    BY DEF LiveRows
  <2> QED
    BY <2>1, LatestType
<1>3. ASSUME NEW p \in Pairs, p \notin ps
      PROVE  bin[p] = [qty |-> last(p).after, rate |-> last(p).rate]
  <2>1. last(p) = Latest(sle, LiveRows(sle, p))
    BY <1>3, SameSnapshot
  <2> HIDE DEF last
  <2> QED
    BY <2>1 DEF BinIsSnapshot
<1>4. bin' \in [Pairs -> [qty : Int, rate : Int]]
  <2> HIDE DEF last
  <2> QED
    BY <1>1, <1>2 DEF TypeOK
<1>5. \A p \in Pairs : bin'[p] = [qty |-> last(p).after, rate |-> last(p).rate]
  <2> HIDE DEF last
  <2> QED
    BY <1>1, <1>3
<1>6. BinIsSnapshot'
  BY <1>5 DEF BinIsSnapshot
<1> QED
  BY <1>4, <1>6

(* Rows have an earliest time.                                             *)
LEMMA Earliest ==
    ASSUME NEW log, NEW S, IsFiniteSet(S), S # {}, \A i \in S : log[i].time \in Nat
    PROVE  \E m \in S : \A i \in S : log[m].time <= log[i].time
<1> DEFINE D == {U \in SUBSET S : U # {} /\ ~\E m \in U : \A i \in U : log[m].time <= log[i].time}
<1>1. D = {}
  <2>1. SUFFICES ASSUME D # {} PROVE FALSE
    OBVIOUS
  <2>2. PICK U \in D : \A W \in D : W \subseteq U => W = U
    <3>1. D \subseteq SUBSET S
      OBVIOUS
    <3> HIDE DEF D
    <3> QED
      BY <2>1, <3>1, SmallestSubset
  <2>3. U \in SUBSET S /\ U # {} /\ ~\E m \in U : \A i \in U : log[m].time <= log[i].time
    OBVIOUS
  <2>4. PICK x \in U : log[x].time \in Nat
    BY <2>3
  <2>5. U \ {x} # {}
    BY <2>3, <2>4
  <2>6. U \ {x} \notin D
    <3> HIDE DEF D
    <3> QED
      BY <2>2, <2>4
  <2>7. PICK z \in U \ {x} : \A i \in U \ {x} : log[z].time <= log[i].time
    BY <2>3, <2>5, <2>6
  <2>8. \A i \in U : log[i].time \in Nat
    BY <2>3
  <2>9. log[z].time <= log[x].time \/ \A i \in U : log[x].time <= log[i].time
    BY <2>4, <2>7, <2>8
  <2> QED
    BY <2>3, <2>4, <2>7, <2>8, <2>9
<1> QED
  BY <1>1

-----------------------------------------------------------------------------
(* The inductive invariant: what requests have read still fits the ledger. *)
Fits(r) ==
    /\ reg[r].op = "submit" => reg[r].intents \in Posting(reg[r].doc)
    /\ reg[r].op = "cancel" => \A i \in reg[r].rows : sle[i].doc = reg[r].doc

Inductive ==
    /\ TypeOK /\ sle \in Ledger /\ BinIsSnapshot
    /\ \A r \in Requests : reg[r] # Null => Fits(r)

LEMMA InductiveInit == Init => Inductive
<1> SUFFICES ASSUME Init PROVE Inductive
  OBVIOUS
<1>1. sle = << >> /\ sle \in Seq(Sle) /\ DOMAIN sle = {} /\ sle \in Ledger
  BY DEF Init, Ledger
<1>2. TypeOK
  BY <1>1 DEF Init, TypeOK
<1>3. BinIsSnapshot
  <2>1. \A p : LiveRows(sle, p) = {}
    BY <1>1 DEF LiveRows
  <2> QED
    BY <2>1 DEF BinIsSnapshot, Latest, Init
<1>4. \A r \in Requests : reg[r] = Null
  BY DEF Init
<1> QED
  BY <1>1, <1>2, <1>3, <1>4 DEF Inductive

(* What a submit does to the ledger.                                       *)
LEMMA SubmitPosts ==
    ASSUME Inductive, NEW r \in Requests, WriteSubmit(r)
    PROVE  LET d == reg[r].doc
               ps == PairsOf(reg[r].intents)
           IN d \in Documents /\ sle' \in Ledger /\ Within(sle, sle', ps, Time(d))
<1> DEFINE d == reg[r].doc
           xs == reg[r].intents
           ps == PairsOf(xs)
           added == AppendAll(sle, d, xs)
<1>1. d \in Documents /\ xs \in Posting(d) /\ sle \in Ledger /\ Time(d) \in Int /\ Time(d) \in Nat
  BY EntriesAssumption DEF Inductive, TypeOK, Fits, WriteSubmit, Time
<1>2. /\ \A k \in DOMAIN xs : xs[k].in # Null => xs[k].in >= 0
      /\ sle' = IF reg[r].backdated THEN RepostAll(added, ps, Time(d), Skipped(d)) ELSE added
  BY DEF WriteSubmit
<1> HIDE DEF d, xs
<1>3. xs \in Seq(Leg) /\ IsFiniteSet(DOMAIN xs)
      /\ \A k \in DOMAIN xs : xs[k] \in Leg /\ xs[k].time = Time(d) /\ xs[k].doc = d
  <2>1. xs \in Seq(Leg)
    BY <1>1 DEF Posting
  <2>2. DOMAIN xs = 1..Len(xs) /\ Len(xs) \in Nat
    BY <2>1
  <2> QED
    BY <1>1, <2>1, <2>2, FS_Interval DEF Posting
<1>4. ASSUME NEW k \in DOMAIN xs PROVE Appendable(xs[k]) /\ xs[k].pair \in ps /\ xs[k].time >= Time(d)
  <2>1. xs[k] \in Leg /\ xs[k].time = Time(d) /\ xs[k].doc = d
    BY <1>3
  <2>2. xs[k].in \in Nat \cup {Null}
    BY <1>2, <2>1 DEF Leg
  <2>3. Appendable(xs[k])
    BY <1>1, <2>1, <2>2 DEF Leg, Appendable
  <2> QED
    BY <1>1, <2>1, <2>3 DEF PairsOf
<1>5. IsFiniteSet(ps)
  BY <1>3, FinitePairs DEF PairsOf
<1> HIDE DEF ps
<1>6. added \in Ledger /\ Within(sle, added, ps, Time(d))
  BY <1>1, <1>3, <1>4, AppendAllKeeps
<1> HIDE DEF added
<1>7. RepostAll(added, ps, Time(d), Skipped(d)) \in Ledger
      /\ Within(added, RepostAll(added, ps, Time(d), Skipped(d)), ps, Time(d))
  BY <1>1, <1>5, <1>6, RepostAllKeeps
<1>8. Within(sle, RepostAll(added, ps, Time(d), Skipped(d)), ps, Time(d))
  BY <1>1, <1>6, <1>7, WithinTwice
<1>9. sle' \in Ledger /\ Within(sle, sle', ps, Time(d))
  BY <1>2, <1>6, <1>7, <1>8
<1> QED
  BY <1>1, <1>9 DEF d, ps, xs

(* What a cancel does to it: its own rows are flagged, and all else comes  *)
(* after the first of them.                                                *)
LEMMA CancelPosts ==
    ASSUME Inductive, NEW r \in Requests, WriteCancel(r)
    PROVE  LET d == reg[r].doc
               ps == {sle[i].pair : i \in reg[r].rows}
           IN /\ d \in Documents /\ sle' \in Ledger /\ Flagged(sle, reg[r].rows) \in Ledger
              /\ \E first \in Int : /\ first >= Time(d)
                                    /\ Within(Flagged(sle, reg[r].rows), sle', ps, first)
<1> DEFINE d == reg[r].doc
           rows == reg[r].rows
           ps == {sle[i].pair : i \in rows}
           times == {sle[i].time : i \in rows}
           first == CHOOSE t \in times : \A i \in rows : t <= sle[i].time
           kept == Flagged(sle, rows)
<1>1. d \in Documents /\ rows \in SUBSET DOMAIN sle /\ rows # {} /\ sle \in Ledger /\ Time(d) \in Nat
      /\ \A i \in rows : sle[i].doc = d
  BY EntriesAssumption DEF Inductive, TypeOK, Fits, WriteCancel, Time
<1>2. sle' = RepostAll(kept, ps, first, {})
  BY DEF WriteCancel
<1> HIDE DEF d, rows
<1>3. first \in Int /\ first >= Time(d)
  <2>1. IsFiniteSet(rows) /\ \A i \in rows : sle[i] \in Sle /\ sle[i].time >= Time(d) /\ sle[i].time \in Nat
    <3>1. IsFiniteSet(rows)
      BY <1>1, LedgerRows
    <3>2. \A i \in rows : sle[i] \in Sle /\ sle[i].time >= Time(d)
      BY <1>1, LedgerRows
    <3> QED
      BY <3>1, <3>2 DEF Sle
  <2>2. \E m \in rows : \A i \in rows : sle[m].time <= sle[i].time
    BY <1>1, <2>1, Earliest
  <2>3. \E t \in times : \A i \in rows : t <= sle[i].time
    BY <2>2
  <2>4. first \in times
    BY <2>3
  <2> HIDE DEF first
  <2> QED
    BY <2>1, <2>4
<1> HIDE DEF first
<1>4. IsFiniteSet(ps)
  BY <1>1, LedgerRows, FinitePairs
<1> HIDE DEF ps
<1>5. kept \in Ledger
  BY <1>1, FlaggedRows
<1> HIDE DEF kept
<1>6. sle' \in Ledger /\ Within(kept, sle', ps, first)
  BY <1>2, <1>3, <1>4, <1>5, RepostAllKeeps
<1> QED
  BY <1>1, <1>3, <1>5, <1>6 DEF d, ps, rows, kept

(* What Within leaves of the rows that are there.                          *)
LEMMA FlagKeeps ==
    ASSUME NEW old \in Ledger, NEW new \in Ledger, NEW ps, NEW t, Within(old, new, ps, t)
    PROVE  /\ Len(new) >= Len(old)
           /\ \A i \in DOMAIN old : new[i] = old[i] \/ (old[i].pair \in ps /\ new[i].pair \in ps)
           /\ \A i \in DOMAIN new \ DOMAIN old : new[i].pair \in ps
           /\ \A i \in DOMAIN old : new[i].doc = old[i].doc
<1>1. \A e \in Sle : /\ [e EXCEPT !.live = FALSE].pair = e.pair
                     /\ [e EXCEPT !.live = FALSE].doc = e.doc
  BY DEF Sle
<1>2. \A i \in DOMAIN old : old[i] \in Sle
  BY LedgerRows
<1> QED
  BY <1>1, <1>2 DEF Within

-----------------------------------------------------------------------------
(* The journals of a document: amounts that are integers, of nothing only  *)
(* for a reconciliation.                                                   *)
Journals == [Documents -> Seq([type : {"AUTO", "REVERSAL"}, amount : Int])]
NoEmptyJournal ==
    \A d \in Documents : \A k \in DOMAIN journal[d] : ~Counts(d) => journal[d][k].amount # 0

LEMMA JournalGrows ==
    ASSUME journal \in Journals, NoEmptyJournal, NEW d \in Documents,
           NEW x \in [type : {"AUTO", "REVERSAL"}, amount : Int], ~Counts(d) => x.amount # 0,
           journal' = [journal EXCEPT ![d] = Append(@, x)]
    PROVE  journal' \in Journals /\ NoEmptyJournal'
<1>1. journal[d] \in Seq([type : {"AUTO", "REVERSAL"}, amount : Int])
  BY DEF Journals
<1> DEFINE new == Append(journal[d], x)
<1>2. /\ new \in Seq([type : {"AUTO", "REVERSAL"}, amount : Int])
      /\ \A k \in DOMAIN new : IF k \in DOMAIN journal[d] THEN new[k] = journal[d][k] ELSE new[k] = x
  BY <1>1
<1>3. journal' = [journal EXCEPT ![d] = new]
  OBVIOUS
<1> HIDE DEF new
<1>4. journal' \in Journals
  BY <1>2, <1>3 DEF Journals
<1>5. ASSUME NEW e \in Documents, NEW k \in DOMAIN journal'[e], ~Counts(e)
      PROVE  journal'[e][k].amount # 0
  <2>1. CASE e = d
    <3>1. journal'[e] = new
      BY <1>3, <2>1 DEF Journals
    <3> QED
      BY <1>2, <1>5, <2>1, <3>1 DEF NoEmptyJournal
  <2>2. CASE e # d
    <3>1. journal'[e] = journal[e]
      BY <1>3, <2>2 DEF Journals
    <3> QED
      BY <1>5, <3>1 DEF NoEmptyJournal
  <2> QED
    BY <2>1, <2>2
<1> QED
  BY <1>4, <1>5 DEF NoEmptyJournal

LEMMA JournalStays ==
    ASSUME journal \in Journals, NoEmptyJournal, UNCHANGED journal
    PROVE  journal' \in Journals /\ NoEmptyJournal'
BY DEF NoEmptyJournal

LEMMA PostType ==
    ASSUME journal \in Journals, NoEmptyJournal, NEW d \in Documents, NEW amount \in Int, Post(d, amount)
    PROVE  journal' \in Journals /\ NoEmptyJournal'
<1>1. CASE amount = 0 /\ ~Counts(d)
  BY <1>1, JournalStays DEF Post
<1>2. CASE ~(amount = 0 /\ ~Counts(d))
  BY <1>2, JournalGrows DEF Post
<1> QED
  BY <1>1, <1>2

LEMMA LastIn ==
    ASSUME NEW X, NEW xs \in Seq(X), xs # << >>
    PROVE  xs[Len(xs)] \in X
<1>1. Len(xs) \in Nat /\ Len(xs) # 0 /\ DOMAIN xs = 1..Len(xs)
  OBVIOUS
<1>2. Len(xs) \in DOMAIN xs
  BY <1>1
<1> QED
  BY <1>2

LEMMA ReversalType ==
    ASSUME journal \in Journals, NoEmptyJournal, NEW d \in Documents, PostReversal(d)
    PROVE  journal' \in Journals /\ NoEmptyJournal'
<1> DEFINE x == [type |-> "REVERSAL", amount |-> -Last(journal[d]).amount]
<1>1. journal[d] \in Seq([type : {"AUTO", "REVERSAL"}, amount : Int]) /\ journal[d] # << >>
  BY DEF Journals, PostReversal
<1>2. Len(journal[d]) \in DOMAIN journal[d]
  BY <1>1
<1>3. Last(journal[d]) = journal[d][Len(journal[d])]
  BY DEF Last
<1>4. Last(journal[d]).amount \in Int /\ (~Counts(d) => Last(journal[d]).amount # 0)
  <2> DEFINE last == journal[d][Len(journal[d])]
  <2>1. last \in [type : {"AUTO", "REVERSAL"}, amount : Int] /\ (~Counts(d) => last.amount # 0)
    <3>1. ~Counts(d) => last.amount # 0
      BY <1>2 DEF NoEmptyJournal
    <3>3. last \in [type : {"AUTO", "REVERSAL"}, amount : Int]
      BY <1>1, LastIn, Zenon
    <3> QED
      BY <3>1, <3>3
  <2>2. last.amount \in Int
    BY <2>1
  <2> QED
    BY <1>3, <2>1, <2>2
<1>5. x \in [type : {"AUTO", "REVERSAL"}, amount : Int] /\ (~Counts(d) => x.amount # 0)
  BY <1>4
<1>6. journal' = [journal EXCEPT ![d] = Append(@, x)]
  BY DEF PostReversal, Journals
<1> HIDE DEF x
<1> QED
  BY <1>5, <1>6, JournalGrows

(* What a submit posts is a number.                                        *)
LEMMA DifferenceType ==
    ASSUME NEW d \in Documents, NEW xs \in Seq(Leg), NEW log \in Ledger
    PROVE  Difference(d, xs, log) \in Int
<1>1. Worth(xs, DOMAIN xs) \in Int
  <2>1. IsFiniteSet(DOMAIN xs)
    BY Positions
  <2>2. \A k \in DOMAIN xs : xs[k].value \in Int
    <3>1. \A k \in DOMAIN xs : xs[k] \in Leg
      OBVIOUS
    <3> QED
      BY <3>1 DEF Leg
  <2> QED
    BY <2>1, <2>2, WorthType
<1>2. Worth(log, LiveRowsOf(log, d)) \in Int
  <2>1. LiveRowsOf(log, d) \in SUBSET DOMAIN log
    BY DEF LiveRowsOf, RowsOf
  <2>2. \A i \in LiveRowsOf(log, d) : log[i].value \in Int
    BY <2>1, LedgerRows DEF Sle
  <2> QED
    BY <2>1, <2>2, LedgerRows, WorthType
<1> QED
  BY <1>1, <1>2 DEF Difference

-----------------------------------------------------------------------------
(* What the other requests have read still fits a ledger that has grown.   *)
LEMMA OthersFit ==
    ASSUME Inductive, sle' \in Ledger, Len(sle') >= Len(sle),
           \A i \in DOMAIN sle : sle'[i].doc = sle[i].doc,
           NEW r \in Requests, reg' = [reg EXCEPT ![r] = Null],
           bin' \in [Pairs -> [qty : Int, rate : Int]], BinIsSnapshot',
           journal' \in Journals, NoEmptyJournal',
           status' \in [Documents -> {"draft", "submitted", "cancelled"}], unpriced' \subseteq Documents
    PROVE  Inductive'
<1>1. DOMAIN sle \subseteq DOMAIN sle' /\ sle' \in Seq(Sle)
  BY LedgerRows DEF Inductive
<1>2. ASSUME NEW q \in Requests, reg'[q] # Null
      PROVE  reg'[q] = reg[q] /\ reg[q] # Null
  BY <1>2 DEF Inductive, TypeOK
<1>3. TypeOK'
  <2>1. ASSUME NEW q \in Requests, reg'[q] # Null
        PROVE  /\ reg'[q].doc \in Documents
               /\ reg'[q].op = "submit" => reg'[q].intents \in Seq(Leg) /\ reg'[q].backdated \in BOOLEAN
               /\ reg'[q].op = "cancel" => reg'[q].rows \in (SUBSET DOMAIN sle') \ {{}} /\ reg'[q].worth \in Int
    BY <1>1, <1>2, <2>1 DEF Inductive, TypeOK
  <2>2. DOMAIN reg' = Requests
    BY DEF Inductive, TypeOK
  <2> QED
    BY <1>1, <2>1, <2>2 DEF TypeOK, Journals, NoEmptyJournal
<1>4. ASSUME NEW q \in Requests, reg'[q] # Null PROVE Fits(q)'
  <2>1. reg'[q].op = "submit" => reg'[q].intents \in Posting(reg'[q].doc)
    BY <1>2, <1>4 DEF Inductive, Fits
  <2>2. reg'[q].op = "cancel" => \A i \in reg'[q].rows : sle'[i].doc = reg'[q].doc
    BY <1>2, <1>4 DEF Inductive, TypeOK, Fits
  <2> QED
    BY <2>1, <2>2 DEF Fits
<1> QED
  BY <1>3, <1>4 DEF Inductive

LEMMA InductiveStep ==
    ASSUME Inductive, [Next]_vars PROVE Inductive'
<1>1. CASE UNCHANGED vars
  BY <1>1 DEF vars, Inductive, TypeOK, BinIsSnapshot, LiveRows, Fits
<1>2. ASSUME NEW r \in Requests, NEW d \in Documents, ReadForSubmit(r, d) PROVE Inductive'
  <2>1. sle \in Ledger /\ Intents(d) \in Posting(d) /\ Intents(d) \in Seq(Leg)
    BY IntentsType DEF Inductive, Posting
  <2>2. Backdated(d, PairsOf(Intents(d))) \in BOOLEAN
    BY DEF Backdated
  <2>3. /\ reg' = [reg EXCEPT ![r] = [op |-> "submit", doc |-> d, intents |-> Intents(d),
                                      backdated |-> Backdated(d, PairsOf(Intents(d)))]]
        /\ UNCHANGED << sle, bin, status, journal, unpriced >>
    BY <1>2 DEF ReadForSubmit
  <2> DEFINE e == [op |-> "submit", doc |-> d, intents |-> Intents(d),
                   backdated |-> Backdated(d, PairsOf(Intents(d)))]
  <2>4. /\ e.op = "submit" /\ e.doc = d /\ e.intents \in Seq(Leg) /\ e.intents \in Posting(d)
        /\ e.backdated \in BOOLEAN
    BY <2>1, <2>2
  <2> HIDE DEF e
  <2>5. ASSUME NEW q \in Requests, reg'[q] # Null
        PROVE  IF q = r THEN reg'[q] = e ELSE reg'[q] = reg[q]
    BY <2>3 DEF e, Inductive, TypeOK
  <2>6. DOMAIN reg' = Requests
    BY <2>3 DEF Inductive, TypeOK
  <2>7. TypeOK'
    <3>1. ASSUME NEW q \in Requests, reg'[q] # Null
          PROVE  /\ reg'[q].doc \in Documents
                 /\ reg'[q].op = "submit" => reg'[q].intents \in Seq(Leg) /\ reg'[q].backdated \in BOOLEAN
                 /\ reg'[q].op = "cancel" => reg'[q].rows \in (SUBSET DOMAIN sle) \ {{}} /\ reg'[q].worth \in Int
      BY <2>4, <2>5, <3>1 DEF Inductive, TypeOK
    <3> QED
      BY <2>3, <2>6, <3>1 DEF Inductive, TypeOK
  <2>8. ASSUME NEW q \in Requests, reg'[q] # Null PROVE Fits(q)'
    BY <2>3, <2>4, <2>5, <2>8 DEF Inductive, Fits
  <2>9. BinIsSnapshot'
    BY <2>3 DEF Inductive, BinIsSnapshot, LiveRows
  <2> QED
    BY <2>1, <2>3, <2>7, <2>8, <2>9 DEF Inductive
<1>3. ASSUME NEW r \in Requests, NEW d \in Documents, ReadForCancel(r, d) PROVE Inductive'
  <2> DEFINE own == LiveRowsOf(sle, d)
             e == [op |-> "cancel", doc |-> d, rows |-> own, worth |-> Worth(sle, own)]
  <2>1. /\ own # {} /\ reg' = [reg EXCEPT ![r] = e] /\ UNCHANGED << sle, bin, status, journal, unpriced >>
    BY <1>3 DEF ReadForCancel
  <2>2. sle \in Ledger /\ own \in (SUBSET DOMAIN sle) \ {{}} /\ \A i \in own : sle[i].doc = d
    BY <2>1 DEF Inductive, LiveRowsOf, RowsOf
  <2>3. Worth(sle, own) \in Int
    <3>1. \A i \in own : sle[i].value \in Int
      BY <2>2, LedgerRows DEF Sle
    <3>2. IsFiniteSet(own)
      BY <2>2, LedgerRows
    <3> QED
      BY <3>1, <3>2, WorthType
  <2> HIDE DEF own
  <2>4. e.op = "cancel" /\ e.doc = d /\ e.rows = own /\ e.worth \in Int
    BY <2>3
  <2> HIDE DEF e
  <2>5. ASSUME NEW q \in Requests, reg'[q] # Null
        PROVE  IF q = r THEN reg'[q] = e ELSE reg'[q] = reg[q]
    BY <2>1 DEF Inductive, TypeOK
  <2>6. DOMAIN reg' = Requests
    BY <2>1 DEF Inductive, TypeOK
  <2>7. TypeOK'
    <3>1. ASSUME NEW q \in Requests, reg'[q] # Null
          PROVE  /\ reg'[q].doc \in Documents
                 /\ reg'[q].op = "submit" => reg'[q].intents \in Seq(Leg) /\ reg'[q].backdated \in BOOLEAN
                 /\ reg'[q].op = "cancel" => reg'[q].rows \in (SUBSET DOMAIN sle) \ {{}} /\ reg'[q].worth \in Int
      BY <2>2, <2>4, <2>5, <3>1 DEF Inductive, TypeOK
    <3> QED
      BY <2>1, <2>6, <3>1 DEF Inductive, TypeOK
  <2>8. ASSUME NEW q \in Requests, reg'[q] # Null PROVE Fits(q)'
    BY <2>1, <2>2, <2>4, <2>5, <2>8 DEF Inductive, Fits
  <2>9. BinIsSnapshot'
    BY <2>1 DEF Inductive, BinIsSnapshot, LiveRows
  <2> QED
    BY <2>1, <2>2, <2>7, <2>8, <2>9 DEF Inductive
<1>4. ASSUME NEW r \in Requests, WriteSubmit(r) PROVE Inductive'
  <2> DEFINE d == reg[r].doc
             xs == reg[r].intents
             ps == PairsOf(xs)
  <2>1. d \in Documents /\ sle' \in Ledger /\ Within(sle, sle', ps, Time(d))
    BY <1>4, SubmitPosts
  <2>2. /\ bin' = Derived(sle', ps) /\ Post(d, Difference(d, xs, sle'))
        /\ status' = [status EXCEPT ![d] = "submitted"] /\ reg' = [reg EXCEPT ![r] = Null]
    BY <1>4 DEF WriteSubmit
  <2>3. xs \in Seq(Leg) /\ sle \in Ledger /\ TypeOK /\ BinIsSnapshot
    BY <1>4 DEF Inductive, TypeOK, WriteSubmit
  <2> HIDE DEF d, xs, ps
  <2>4. journal \in Journals /\ NoEmptyJournal
    BY <2>3 DEF TypeOK, Journals, NoEmptyJournal
  <2>5. journal' \in Journals /\ NoEmptyJournal'
    <3>1. Difference(d, xs, sle') \in Int
      BY <2>1, <2>3, DifferenceType
    <3> QED
      BY <2>1, <2>2, <2>4, <3>1, PostType
  <2>6. status' \in [Documents -> {"draft", "submitted", "cancelled"}] /\ unpriced' \subseteq Documents
    <3>1. unpriced' \subseteq unpriced \cup {d}
      BY <1>4 DEF WriteSubmit, d
    <3> QED
      BY <2>1, <2>2, <2>3, <3>1 DEF TypeOK
  <2>7. /\ Len(sle') >= Len(sle)
        /\ \A i \in DOMAIN sle : sle'[i] = sle[i] \/ (sle[i].pair \in ps /\ sle'[i].pair \in ps)
        /\ \A i \in DOMAIN sle' \ DOMAIN sle : sle'[i].pair \in ps
        /\ \A i \in DOMAIN sle : sle'[i].doc = sle[i].doc
    BY <2>1, <2>3, FlagKeeps
  <2>8. BinIsSnapshot' /\ bin' \in [Pairs -> [qty : Int, rate : Int]]
    BY <2>1, <2>2, <2>3, <2>7, BinsFollow
  <2> QED
    BY <2>1, <2>2, <2>5, <2>6, <2>7, <2>8, OthersFit
<1>5. ASSUME NEW r \in Requests, WriteCancel(r) PROVE Inductive'
  <2> DEFINE d == reg[r].doc
             rows == reg[r].rows
             ps == {sle[i].pair : i \in rows}
             kept == Flagged(sle, rows)
  <2>1. d \in Documents /\ sle' \in Ledger /\ kept \in Ledger
        /\ \E first \in Int : first >= Time(d) /\ Within(kept, sle', ps, first)
    BY <1>5, CancelPosts
  <2>2. /\ bin' = Derived(sle', ps) /\ (PostReversal(d) \/ UNCHANGED journal)
        /\ status' = [status EXCEPT ![d] = "cancelled"] /\ reg' = [reg EXCEPT ![r] = Null]
        /\ unpriced' = unpriced
    BY <1>5 DEF WriteCancel
  <2>3. sle \in Ledger /\ TypeOK /\ BinIsSnapshot
    BY DEF Inductive
  <2>4. /\ Len(kept) = Len(sle) /\ DOMAIN kept = DOMAIN sle
        /\ \A i \in DOMAIN sle : kept[i] = IF i \in rows THEN [sle[i] EXCEPT !.live = FALSE] ELSE sle[i]
    BY <2>3, FlaggedRows
  <2>5. \A i \in DOMAIN sle : i \in rows => sle[i].pair \in ps
    OBVIOUS
  <2> HIDE DEF d, rows, ps, kept
  <2>6. journal' \in Journals /\ NoEmptyJournal'
    <3>1. journal \in Journals /\ NoEmptyJournal
      BY <2>3 DEF TypeOK, Journals, NoEmptyJournal
    <3> QED
      BY <2>1, <2>2, <3>1, ReversalType, JournalStays
  <2>7. status' \in [Documents -> {"draft", "submitted", "cancelled"}] /\ unpriced' \subseteq Documents
    BY <2>2, <2>3 DEF TypeOK
  <2>8. PICK first \in Int : Within(kept, sle', ps, first)
    BY <2>1
  <2>9. /\ Len(sle') >= Len(kept)
        /\ \A i \in DOMAIN kept : sle'[i] = kept[i] \/ (kept[i].pair \in ps /\ sle'[i].pair \in ps)
        /\ \A i \in DOMAIN sle' \ DOMAIN kept : sle'[i].pair \in ps
        /\ \A i \in DOMAIN kept : sle'[i].doc = kept[i].doc
    BY <2>1, <2>8, FlagKeeps
  <2>10. ASSUME NEW i \in DOMAIN sle
         PROVE  /\ sle'[i] = sle[i] \/ (sle[i].pair \in ps /\ sle'[i].pair \in ps)
                /\ sle'[i].doc = sle[i].doc
    <3>1. sle[i] \in Sle
      BY <2>3, LedgerRows
    <3>2. /\ [sle[i] EXCEPT !.live = FALSE].pair = sle[i].pair
          /\ [sle[i] EXCEPT !.live = FALSE].doc = sle[i].doc
      BY <3>1 DEF Sle
    <3> QED
      BY <2>4, <2>5, <2>9, <3>2
  <2>11. /\ Len(sle') >= Len(sle)
         /\ \A i \in DOMAIN sle' \ DOMAIN sle : sle'[i].pair \in ps
    BY <2>4, <2>9
  <2>12. BinIsSnapshot' /\ bin' \in [Pairs -> [qty : Int, rate : Int]]
    BY <2>1, <2>2, <2>3, <2>10, <2>11, BinsFollow
  <2> QED
    BY <2>1, <2>2, <2>6, <2>7, <2>10, <2>11, <2>12, OthersFit
<1>6. ASSUME NEW r \in Requests, Abort(r) PROVE Inductive'
  <2>1. /\ sle' = sle /\ bin' = bin /\ status' = status /\ journal' = journal /\ unpriced' = unpriced
        /\ reg' = [reg EXCEPT ![r] = Null]
    BY <1>6 DEF Abort
  <2>2. BinIsSnapshot'
    BY <2>1 DEF Inductive, BinIsSnapshot, LiveRows
  <2>3. sle' \in Ledger /\ Len(sle') >= Len(sle) /\ \A i \in DOMAIN sle : sle'[i].doc = sle[i].doc
    BY <2>1, LedgerRows DEF Inductive
  <2>4. /\ bin' \in [Pairs -> [qty : Int, rate : Int]] /\ journal' \in Journals /\ NoEmptyJournal'
        /\ status' \in [Documents -> {"draft", "submitted", "cancelled"}] /\ unpriced' \subseteq Documents
    BY <2>1 DEF Inductive, TypeOK, Journals, NoEmptyJournal
  <2> QED
    BY <2>1, <2>2, <2>3, <2>4, OthersFit
<1> QED
  BY <1>1, <1>2, <1>3, <1>4, <1>5, <1>6 DEF Next

LEMMA Invariance == Spec => []Inductive
<1> QED
  BY InductiveInit, InductiveStep, PTL DEF Spec

-----------------------------------------------------------------------------
(* THEOREM: the ledger, the bins, the journals and what the requests have  *)
(* read keep their types: no rate a replay computes is undefined.          *)
THEOREM TypeCorrect == Spec => []TypeOK
<1> QED
  BY Invariance, PTL DEF Inductive

(* THEOREM: whatever the documents, the requests and their order, the bin  *)
(* of every pair is what its latest live row says.                         *)
THEOREM BinsAreSnapshots == Spec => []BinIsSnapshot
<1> QED
  BY Invariance, PTL DEF Inductive

(* One step leaves alone what lies before the posting time of the document *)
(* it writes, but for the rows of that document.                           *)
LEMMA StepKeepsHistory ==
    ASSUME Inductive, [Next]_vars
    PROVE  \A r \in Requests : reg[r] # Null /\ sle' # sle /\ reg'[r] = Null =>
               LET d == reg[r].doc
               IN /\ \A i \in DOMAIN sle : sle'[i] # sle[i] => sle[i].doc = d \/ sle[i].time > Time(d)
                  /\ \A i \in DOMAIN sle' \ DOMAIN sle : sle'[i].time >= Time(d)
<1> SUFFICES ASSUME NEW r \in Requests, reg[r] # Null, sle' # sle, reg'[r] = Null
             PROVE  /\ \A i \in DOMAIN sle : sle'[i] # sle[i] =>
                          sle[i].doc = reg[r].doc \/ sle[i].time > Time(reg[r].doc)
                    /\ \A i \in DOMAIN sle' \ DOMAIN sle : sle'[i].time >= Time(reg[r].doc)
  OBVIOUS
<1>1. WriteSubmit(r) \/ WriteCancel(r)
  <2>1. PICK q \in Requests : WriteSubmit(q) \/ WriteCancel(q)
    BY DEF Next, vars, ReadForSubmit, ReadForCancel, Abort
  <2>2. reg' = [reg EXCEPT ![q] = Null]
    BY <2>1 DEF WriteSubmit, WriteCancel
  <2>3. q = r
    BY <2>2 DEF Inductive, TypeOK
  <2> QED
    BY <2>1, <2>3
<1>2. CASE WriteSubmit(r)
  BY <1>2, SubmitPosts DEF Within
<1>3. CASE WriteCancel(r)
  <2> DEFINE d == reg[r].doc
             rows == reg[r].rows
             ps == {sle[i].pair : i \in rows}
             kept == Flagged(sle, rows)
  <2>1. d \in Documents /\ sle' \in Ledger /\ kept \in Ledger
        /\ \E first \in Int : first >= Time(d) /\ Within(kept, sle', ps, first)
    BY <1>3, CancelPosts
  <2>2. sle \in Ledger /\ \A i \in rows : sle[i].doc = d
    BY <1>3 DEF Inductive, Fits, WriteCancel
  <2>3. Time(d) \in Int
    BY <2>1, EntriesAssumption DEF Time
  <2> HIDE DEF d, rows, ps, kept
  <2>4. /\ DOMAIN kept = DOMAIN sle
        /\ \A i \in DOMAIN sle : kept[i] = IF i \in rows THEN [sle[i] EXCEPT !.live = FALSE] ELSE sle[i]
    BY <2>2, FlaggedRows DEF kept
  <2>5. PICK first \in Int : first >= Time(d) /\ Within(kept, sle', ps, first)
    BY <2>1
  <2>6. ASSUME NEW i \in DOMAIN sle, sle'[i] # sle[i] PROVE sle[i].doc = d \/ sle[i].time > Time(d)
    <3>1. CASE i \in rows
      BY <2>2, <3>1
    <3>2. CASE i \notin rows
      <4>1. kept[i] = sle[i]
        BY <2>4, <3>2
      <4>2. sle[i].time > first /\ sle[i].time \in Nat
        BY <2>2, <2>4, <2>5, <2>6, <4>1, LedgerRows DEF Within, Sle
      <4> QED
        BY <2>3, <2>5, <4>2
    <3> QED
      BY <3>1, <3>2
  <2>7. ASSUME NEW i \in DOMAIN sle' \ DOMAIN sle PROVE sle'[i].time >= Time(d)
    <3>1. sle'[i].time >= first /\ sle'[i] \in Sle
      BY <2>1, <2>4, <2>5, LedgerRows DEF Within
    <3> QED
      BY <2>3, <2>5, <3>1 DEF Sle
  <2> QED
    BY <2>6, <2>7 DEF d
<1> QED
  BY <1>1, <1>2, <1>3

(* THEOREM: a posting never touches what the ledger said up to its posting *)
(* time but for the document's own rows, and writes no row before it.      *)
THEOREM HistoryIsKept == Spec => HistoryKept
<1>1. Inductive /\ [Next]_vars =>
        [\A r \in Requests : reg[r] # Null /\ sle' # sle /\ reg'[r] = Null =>
            LET d == reg[r].doc
            IN /\ \A i \in DOMAIN sle : sle'[i] # sle[i] => sle[i].doc = d \/ sle[i].time > Time(d)
               /\ \A i \in DOMAIN sle' \ DOMAIN sle : sle'[i].time >= Time(d)]_vars
  BY StepKeepsHistory
<1> QED
  BY <1>1, Invariance, PTL DEF Spec, HistoryKept

-----------------------------------------------------------------------------
(* What the rows of a document on a pair move together.                    *)
Of(log, d, p) == {i \in RowsOf(log, d) : log[i].pair = p}
Moves(log, d, p) == Quantity(log, Of(log, d, p))

(* Quantities depend on the rows they are summed over, and one row more    *)
(* adds its own.                                                           *)
LEMMA QuantitySame ==
    ASSUME NEW a, NEW b, NEW S, \A i \in S : a[i].qty = b[i].qty
    PROVE  Quantity(a, S) = Quantity(b, S)
<1>1. [i \in S |-> a[i].qty] = [i \in S |-> b[i].qty]
  OBVIOUS
<1> QED
  BY <1>1 DEF Quantity

LEMMA SumMore ==
    ASSUME NEW S, IsFiniteSet(S), NEW n, n \notin S, NEW f \in [S \cup {n} -> Int]
    PROVE  /\ SumFunction([i \in S |-> f[i]]) \in Int
           /\ SumFunction(f) = SumFunction([i \in S |-> f[i]]) + f[n]
<1> DEFINE U == S \cup {n}
<1>1. IsFiniteSet(U) /\ f \in [U -> Int] /\ f = [i \in U |-> f[i]] /\ f[n] \in Int
  BY FS_AddElement
<1>2. S \in SUBSET U /\ U \in SUBSET U /\ n \in U /\ U \ {n} = S
  OBVIOUS
<1> HIDE DEF U
<1>3. PICK C : PartSums(C, f, U)
  BY <1>1, SumIs
<1>4. C \in [SUBSET U -> Int] /\ C[U] = f[n] + C[U \ {n}]
  BY <1>2, <1>3 DEF PartSums
<1>5. SumFunction([i \in U |-> f[i]]) = C[U] /\ SumFunction([i \in S |-> f[i]]) = C[S] /\ C[S] \in Int
  BY <1>2, <1>3, <1>4 DEF PartSums
<1>6. SumFunction(f) = C[U]
  <2>1. SumFunction(f) = SumFunction([i \in U |-> f[i]])
    BY <1>1, Zenon
  <2> QED
    BY <1>5, <2>1
<1>7. C[U] = C[S] + f[n]
  <2>1. C[U] = f[n] + C[S]
    BY <1>2, <1>4
  <2> QED
    BY <1>1, <1>5, <2>1
<1> QED
  BY <1>5, <1>6, <1>7

LEMMA QuantityMore ==
    ASSUME NEW a, NEW S, IsFiniteSet(S), NEW n, n \notin S, \A i \in S \cup {n} : a[i].qty \in Int
    PROVE  /\ Quantity(a, S) \in Int
           /\ Quantity(a, S \cup {n}) = Quantity(a, S) + a[n].qty
<1> DEFINE f == [i \in S \cup {n} |-> a[i].qty]
<1>1. f \in [S \cup {n} -> Int] /\ [i \in S |-> f[i]] = [i \in S |-> a[i].qty] /\ f[n] = a[n].qty
  OBVIOUS
<1>2. /\ SumFunction([i \in S |-> f[i]]) \in Int
      /\ SumFunction(f) = SumFunction([i \in S |-> f[i]]) + f[n]
  <2> HIDE DEF f
  <2> QED
    BY <1>1, SumMore
<1> QED
  BY <1>1, <1>2 DEF Quantity

LEMMA QuantityOfNone == ASSUME NEW a PROVE Quantity(a, {}) = 0
<1> DEFINE f == [i \in {} |-> a[i].qty]
<1>1. IsFiniteSet({}) /\ f \in [{} -> Int] /\ f = [e \in {} |-> f[e]] /\ {} \in SUBSET {}
  BY FS_EmptySet
<1> HIDE DEF f
<1>2. PICK C : PartSums(C, f, {})
  BY <1>1, SumIs
<1>3. SumFunction([e \in {} |-> f[e]]) = 0
  BY <1>1, <1>2 DEF PartSums
<1> QED
  BY <1>1, <1>3 DEF Quantity, f

(* A row more moves its quantity, if it is one of the document on the pair. *)
Counting(row, d, p) == IF row.doc = d /\ row.pair = p THEN row.qty ELSE 0

LEMMA MovesAppend ==
    ASSUME NEW log \in Ledger, NEW row \in Sle, row.time >= Time(row.doc), NEW d, NEW p
    PROVE  /\ Moves(log, d, p) \in Int
           /\ Moves(Append(log, row), d, p) = Moves(log, d, p) + Counting(row, d, p)
<1> DEFINE new == Append(log, row)
           n == Len(log) + 1
           S == Of(log, d, p)
<1>1. /\ new[n] = row /\ (\A i \in DOMAIN log : new[i] = log[i])
      /\ DOMAIN new = DOMAIN log \cup {n}
  BY LedgerGrows
<1>2. S \in SUBSET DOMAIN log /\ IsFiniteSet(S) /\ n \notin S
      /\ \A i \in S : log[i].qty \in Int
  <2>1. S \in SUBSET DOMAIN log
    BY DEF Of, RowsOf
  <2>2. IsFiniteSet(S) /\ n \notin DOMAIN log /\ \A i \in DOMAIN log : log[i] \in Sle
    BY <2>1, LedgerRows
  <2> QED
    BY <2>1, <2>2 DEF Sle
<1>3. row.qty \in Int
  BY DEF Sle
<1>4. Of(new, d, p) = IF row.doc = d /\ row.pair = p THEN S \cup {n} ELSE S
  <2> HIDE DEF new, n
  <2>1. n \notin DOMAIN log
    BY LedgerRows DEF n
  <2> QED
    BY <1>1, <2>1 DEF Of, RowsOf
<1> HIDE DEF new, n, S
<1>5. \A i \in S : new[i].qty = log[i].qty
  BY <1>1, <1>2
<1>6. Quantity(new, S) = Quantity(log, S)
  BY <1>5, QuantitySame
<1>7. \A i \in S \cup {n} : new[i].qty \in Int
  BY <1>1, <1>2, <1>3, <1>5
<1>8. Quantity(new, S) \in Int /\ Quantity(new, S \cup {n}) = Quantity(new, S) + row.qty
  BY <1>1, <1>2, <1>7, QuantityMore
<1>9. Quantity(new, Of(new, d, p)) = Quantity(log, S) + Counting(row, d, p)
  BY <1>3, <1>4, <1>6, <1>8 DEF Counting
<1> QED
  BY <1>6, <1>8, <1>9 DEF Moves, new, S

(* Flags move nothing.                                                     *)
LEMMA MovesFlagged ==
    ASSUME NEW a, NEW b, DOMAIN a = DOMAIN b, NEW d, NEW p,
           \A i \in DOMAIN a : a[i].doc = b[i].doc /\ a[i].pair = b[i].pair /\ a[i].qty = b[i].qty
    PROVE  Moves(a, d, p) = Moves(b, d, p)
<1>1. Of(a, d, p) = Of(b, d, p)
  BY DEF Of, RowsOf
<1>2. \A i \in Of(a, d, p) : a[i].qty = b[i].qty
  BY DEF Of, RowsOf
<1> QED
  BY <1>1, <1>2, QuantitySame DEF Moves

LEMMA MovesCancel ==
    ASSUME NEW log \in Ledger, NEW i \in DOMAIN log, NEW d, NEW p
    PROVE  /\ Moves(log, d, p) \in Int /\ Counting(log[i], d, p) \in Int
           /\ Moves(CancelSle(log, i), d, p) = Moves(log, d, p) - Counting(log[i], d, p)
<1> DEFINE flagged == [log EXCEPT ![i].live = FALSE]
<1>1. PICK row \in Sle : /\ CancelSle(log, i) = Append(flagged, row)
                         /\ row.pair = log[i].pair /\ row.time = log[i].time + 1
                         /\ row.doc = log[i].doc /\ row.qty = -log[i].qty
  BY CancelledRow
<1>2. flagged \in Ledger /\ DOMAIN flagged = DOMAIN log
  BY LedgerFlagged
<1>3. \A j \in DOMAIN log : log[j] \in Sle /\ log[j].time >= Time(log[j].doc)
  BY LedgerRows
<1>4. \A j \in DOMAIN log : flagged[j] = IF j = i THEN [log[j] EXCEPT !.live = FALSE] ELSE log[j]
  OBVIOUS
<1>5. \A j \in DOMAIN log : /\ flagged[j].doc = log[j].doc /\ flagged[j].pair = log[j].pair
                            /\ flagged[j].qty = log[j].qty
  <2> HIDE DEF flagged
  <2>1. \A e \in Sle : /\ [e EXCEPT !.live = FALSE].doc = e.doc
                       /\ [e EXCEPT !.live = FALSE].pair = e.pair
                       /\ [e EXCEPT !.live = FALSE].qty = e.qty
    BY DEF Sle
  <2> QED
    BY <1>3, <1>4, <2>1
<1> HIDE DEF flagged
<1>6. Moves(flagged, d, p) = Moves(log, d, p)
  BY <1>2, <1>5, MovesFlagged
<1>7. row.time >= Time(row.doc)
  <2>1. log[i].time \in Nat /\ log[i].doc \in Documents
    BY <1>3 DEF Sle
  <2>2. Time(log[i].doc) \in Nat
    BY <2>1, EntriesAssumption DEF Time
  <2> QED
    BY <1>1, <1>3, <2>1, <2>2
<1>8. /\ Moves(flagged, d, p) \in Int
      /\ Moves(Append(flagged, row), d, p) = Moves(flagged, d, p) + Counting(row, d, p)
  BY <1>2, <1>7, MovesAppend
<1>9. log[i].qty \in Int
  BY <1>3 DEF Sle
<1>10. Counting(row, d, p) = -Counting(log[i], d, p) /\ Counting(log[i], d, p) \in Int
  BY <1>1, <1>9 DEF Counting
<1> QED
  BY <1>1, <1>6, <1>8, <1>10

(* Folds whose every step adds, or takes away, a share.                    *)
Gathers(M, f, S) == \A T \in SUBSET S : T # {} => \E k \in T : M[T] = M[T \ {k}] + f[k]
Sheds(M, f, S) == \A T \in SUBSET S : T # {} => \E k \in T : M[T] = M[T \ {k}] - f[k]
Risen(M, C, S) == \A T \in SUBSET S : M[T] = M[{}] + C[T]
Fallen(M, C, S) == \A T \in SUBSET S : M[T] = M[{}] - C[T]

LEMMA Gathered ==
    ASSUME NEW S, IsFiniteSet(S), NEW f \in [S -> Int], NEW C, PartSums(C, f, S),
           NEW M \in [SUBSET S -> Int], Gathers(M, f, S)
    PROVE  Risen(M, C, S)
<1> DEFINE D == {T \in SUBSET S : M[T] # M[{}] + C[T]}
<1>1. SUFFICES ASSUME D # {} PROVE FALSE
  BY DEF Risen
<1>2. PICK T \in D : \A U \in D : U \subseteq T => U = T
  <2>1. D \subseteq SUBSET S
    OBVIOUS
  <2> HIDE DEF D
  <2> QED
    BY <1>1, <2>1, SmallestSubset
<1>3. T \in SUBSET S /\ M[T] # M[{}] + C[T] /\ {} \in SUBSET S
  OBVIOUS
<1>4. M[{}] \in Int /\ C[{}] = 0 /\ C \in [SUBSET S -> Int]
  BY <1>3 DEF PartSums
<1> HIDE DEF D
<1>5. T # {}
  <2>1. T = {} => M[T] = M[{}] /\ C[T] = 0
    BY <1>4
  <2> QED
    BY <1>3, <1>4, <2>1
<1>6. PICK k \in T : M[T] = M[T \ {k}] + f[k]
  BY <1>3, <1>5 DEF Gathers
<1>7. T \ {k} \in SUBSET S /\ T \ {k} \notin D
  BY <1>2, <1>3
<1>8. M[T \ {k}] = M[{}] + C[T \ {k}]
  BY <1>7 DEF D
<1>9. C[T] = f[k] + C[T \ {k}] /\ f[k] \in Int /\ C[T \ {k}] \in Int
  BY <1>3, <1>4, <1>7 DEF PartSums
<1> QED
  BY <1>3, <1>4, <1>6, <1>8, <1>9

LEMMA Shed ==
    ASSUME NEW S, IsFiniteSet(S), NEW f \in [S -> Int], NEW C, PartSums(C, f, S),
           NEW M \in [SUBSET S -> Int], Sheds(M, f, S)
    PROVE  Fallen(M, C, S)
<1> DEFINE W == [T \in SUBSET S |-> M[{}] - M[T]]
<1>1. {} \in SUBSET S /\ M[{}] \in Int
  OBVIOUS
<1>2. W \in [SUBSET S -> Int] /\ W[{}] = 0
  BY <1>1
<1>3. ASSUME NEW T \in SUBSET S, T # {} PROVE \E k \in T : W[T] = W[T \ {k}] + f[k]
  <2>1. PICK k \in T : M[T] = M[T \ {k}] - f[k]
    BY <1>3 DEF Sheds
  <2>2. M[T \ {k}] \in Int /\ f[k] \in Int /\ T \ {k} \in SUBSET S
    OBVIOUS
  <2>3. W[T] = M[{}] - M[T] /\ W[T \ {k}] = M[{}] - M[T \ {k}]
    BY <2>2
  <2> HIDE DEF W
  <2>4. W[T] = W[T \ {k}] + f[k]
    BY <1>1, <2>1, <2>2, <2>3
  <2> QED
    BY <2>4
<1>4. ASSUME NEW T \in SUBSET S PROVE M[T] = M[{}] - C[T]
  <2>1. W[T] = M[{}] - M[T] /\ M[T] \in Int
    OBVIOUS
  <2> HIDE DEF W
  <2>2. Gathers(W, f, S)
    BY <1>3 DEF Gathers
  <2>3. Risen(W, C, S)
    BY <1>2, <2>2, Gathered, Zenon
  <2>5. W[T] = W[{}] + C[T]
    BY <2>3 DEF Risen
  <2>4. C[T] \in Int
    BY DEF PartSums
  <2> QED
    BY <1>1, <1>2, <2>1, <2>4, <2>5
<1> QED
  BY <1>4 DEF Fallen

LEMMA QuantityType ==
    ASSUME NEW a, NEW S, IsFiniteSet(S), \A i \in S : a[i].qty \in Int
    PROVE  Quantity(a, S) \in Int
<1> DEFINE f == [i \in S |-> a[i].qty]
<1>1. f \in [S -> Int] /\ f = [e \in S |-> f[e]] /\ S \in SUBSET S
  OBVIOUS
<1> HIDE DEF f
<1>2. PICK C : PartSums(C, f, S)
  BY <1>1, SumIs
<1>3. SumFunction(f) \in Int
  BY <1>1, <1>2 DEF PartSums
<1> QED
  BY <1>3 DEF Quantity, f

LEMMA MovesType ==
    ASSUME NEW log \in Ledger, NEW d, NEW p
    PROVE  Moves(log, d, p) \in Int
<1>1. Of(log, d, p) \in SUBSET DOMAIN log
  BY DEF Of, RowsOf
<1>2. IsFiniteSet(Of(log, d, p)) /\ \A i \in Of(log, d, p) : log[i].qty \in Int
  BY <1>1, LedgerRows DEF Sle
<1> QED
  BY <1>2, QuantityType DEF Moves

(* A row that is written again moves what it moved before.                 *)
LEMMA MovesAgain ==
    ASSUME NEW log \in Ledger, NEW x, Appendable(x), NEW d, NEW p
    PROVE  Moves(AppendSle(log, x), d, p) = Moves(log, d, p) + Counting(x, d, p)
<1>1. PICK row \in Sle : /\ AppendSle(log, x) = Append(log, row)
                         /\ row.pair = x.pair /\ row.time = x.time /\ row.doc = x.doc /\ row.qty = x.qty
  BY AppendedRow
<1>2. row.time >= Time(row.doc) /\ Counting(row, d, p) = Counting(x, d, p)
  BY <1>1 DEF Appendable, Counting
<1> QED
  BY <1>1, <1>2, MovesAppend

(* A replay moves nothing: what it cancels it writes again.                *)
LEMMA RepostMoves ==
    ASSUME NEW log \in Ledger, NEW p, NEW t \in Int, NEW skipped, NEW d, NEW q
    PROVE  Moves(Repost(log, p, t, skipped), d, q) = Moves(log, d, q)
<1> DEFINE stream == Stream(log, p, t, skipped)
           V == Replaying(log, p, t)
           S == DOMAIN stream
           f == [k \in S |-> Counting(log[stream[k]], d, q)]
<1>1. PICK F, G \in [SUBSET S -> V] : Replays(F, G, log, stream, Repost(log, p, t, skipped))
  BY RepostRuns, Zenon
<1>2. stream \in Seq(DOMAIN log) /\ IsFiniteSet(S) /\ {} \in SUBSET S /\ S \in SUBSET S
  <2>1. stream \in Seq(DOMAIN log)
    BY StreamRows
  <2> HIDE DEF stream
  <2> QED
    BY <2>1, Positions
<1>3. ASSUME NEW k \in S
      PROVE  LET i == stream[k]
                 x == Again(log[i], k)
             IN /\ i \in DOMAIN log /\ log[i].pair = p /\ log[i].time > t /\ log[i] \in Sle
                /\ Appendable(x) /\ x.doc = log[i].doc /\ x.pair = log[i].pair /\ x.qty = log[i].qty
  BY StreamRow
<1> HIDE DEF stream
<1>4. f \in [S -> Int]
  BY <1>3 DEF Counting, Sle
<1>5. \A l \in V : l \in Ledger /\ Moves(l, d, q) \in Int
  BY MovesType DEF Replaying
<1> DEFINE M == [T \in SUBSET S |-> Moves(F[T], d, q)]
           N == [T \in SUBSET S |-> Moves(G[T], d, q)]
<1>6. M \in [SUBSET S -> Int] /\ N \in [SUBSET S -> Int]
  <2> HIDE DEF V
  <2> QED
    BY <1>5
<1>7. ASSUME NEW T \in SUBSET S, T # {}
      PROVE  \E k \in T : M[T] = M[T \ {k}] - f[k]
  <2>1. PICK k \in T : F[T] = CancelSle(F[T \ {k}], stream[k])
    BY <1>1, <1>7 DEF Replays, Cancels
  <2> DEFINE l == F[T \ {k}]
             i == stream[k]
  <2>2. l \in V /\ l \in Ledger /\ i \in DOMAIN log /\ log[i].pair = p /\ log[i].time > t /\ log[i] \in Sle
    BY <1>3, <1>5
  <2> HIDE DEF l, i
  <2>3. i \in DOMAIN l /\ (l[i] = log[i] \/ l[i] = [log[i] EXCEPT !.live = FALSE])
    BY <2>2, CancelInside
  <2>4. Counting(l[i], d, q) = Counting(log[i], d, q)
    BY <2>2, <2>3 DEF Counting, Sle
  <2>5. /\ Moves(l, d, q) \in Int /\ Counting(l[i], d, q) \in Int
        /\ Moves(CancelSle(l, i), d, q) = Moves(l, d, q) - Counting(l[i], d, q)
    BY <2>2, <2>3, MovesCancel
  <2>6. M[T] = Moves(CancelSle(l, i), d, q) /\ M[T \ {k}] = Moves(l, d, q) /\ f[k] = Counting(log[i], d, q)
    BY <2>1 DEF l, i
  <2> HIDE DEF M, f
  <2>7. M[T] = M[T \ {k}] - f[k]
    BY <2>4, <2>5, <2>6
  <2> QED
    BY <2>7
<1>8. ASSUME NEW T \in SUBSET S, T # {}
      PROVE  \E k \in T : N[T] = N[T \ {k}] + f[k]
  <2>1. PICK k \in T : G[T] = AppendSle(G[T \ {k}], Again(log[stream[k]], k))
    BY <1>1, <1>8 DEF Replays, Rewrites
  <2> DEFINE l == G[T \ {k}]
             x == Again(log[stream[k]], k)
  <2>2. l \in Ledger /\ Appendable(x) /\ Counting(x, d, q) = f[k] /\ f[k] \in Int
    BY <1>3, <1>4, <1>5 DEF Counting
  <2>3. N[T] = Moves(AppendSle(l, x), d, q) /\ N[T \ {k}] = Moves(l, d, q)
    BY <2>1
  <2> HIDE DEF l, x, N, f
  <2>4. N[T] = N[T \ {k}] + f[k]
    BY <2>2, <2>3, MovesAgain
  <2> QED
    BY <2>4
<1>9. M[{}] = Moves(log, d, q) /\ N[{}] = M[S] /\ N[S] = Moves(Repost(log, p, t, skipped), d, q)
  BY <1>1, <1>2 DEF Replays, Cancels, Rewrites
<1> HIDE DEF M, N, f, S
<1>10. PICK C : PartSums(C, f, S)
  BY <1>2, <1>4, SumIs
<1>11. M[S] = M[{}] - C[S] /\ N[S] = N[{}] + C[S]
  <2>1. Sheds(M, f, S) /\ Gathers(N, f, S)
    BY <1>7, <1>8 DEF Sheds, Gathers
  <2>2. Fallen(M, C, S) /\ Risen(N, C, S)
    BY <1>2, <1>4, <1>6, <1>10, <2>1, Shed, Gathered, Zenon
  <2> QED
    BY <1>2, <2>2 DEF Fallen, Risen
<1>12. C[S] \in Int /\ M[{}] \in Int
  BY <1>2, <1>6, <1>10 DEF PartSums
<1> QED
  BY <1>9, <1>11, <1>12

LEMMA RepostAllMoves ==
    ASSUME NEW log \in Ledger, NEW ps, IsFiniteSet(ps), NEW t \in Int, NEW skipped, NEW d, NEW q
    PROVE  Moves(RepostAll(log, ps, t, skipped), d, q) = Moves(log, d, q)
<1> DEFINE V == {l \in Ledger : Moves(l, d, q) = Moves(log, d, q)}
<1>1. log \in V
  OBVIOUS
<1>2. ASSUME NEW l \in V, NEW p \in ps PROVE Repost(l, p, t, skipped) \in V
  <2>1. l \in Ledger /\ Moves(l, d, q) = Moves(log, d, q)
    OBVIOUS
  <2>2. Repost(l, p, t, skipped) \in Ledger
    BY <2>1, RepostKeeps
  <2>3. Moves(Repost(l, p, t, skipped), d, q) = Moves(l, d, q)
    BY <2>1, RepostMoves
  <2> QED
    BY <2>1, <2>2, <2>3
<1>3. RepostAll(log, ps, t, skipped) \in V
  <2> HIDE DEF V
  <2> QED
    BY <1>1, <1>2, RepostAllRuns
<1> QED
  BY <1>3

-----------------------------------------------------------------------------
(* What a replay may do to the rows of a document: it leaves them alone, or *)
(* it leaves a reversal of one of them.                                    *)
Reversed(log, e) == \E i \in RowsOf(log, e) : log[i].reversal
Untouched(old, new, e) ==
    RowsOf(new, e) = RowsOf(old, e) /\ \A i \in RowsOf(old, e) : new[i] = old[i]
Kept(old, new, e) == Untouched(old, new, e) \/ (Reversed(new, e) /\ RowsOf(old, e) # {})
AllKept(old, new) == \A e \in Documents : Kept(old, new, e)

LEMMA KeptTwice ==
    ASSUME NEW old, NEW log, NEW new, NEW e, Kept(old, log, e), Kept(log, new, e)
    PROVE  Kept(old, new, e)
<1>1. CASE Untouched(log, new, e)
  BY <1>1 DEF Kept, Untouched, Reversed
<1>2. CASE Reversed(new, e) /\ RowsOf(log, e) # {}
  BY <1>2 DEF Kept, Untouched
<1> QED
  BY <1>1, <1>2 DEF Kept

LEMMA AppendedRows ==
    ASSUME NEW log \in Ledger, NEW row \in Sle, row.time >= Time(row.doc), NEW e
    PROVE  /\ row.doc # e => Untouched(log, Append(log, row), e)
           /\ row.doc = e => RowsOf(Append(log, row), e) = RowsOf(log, e) \cup {Len(log) + 1}
           /\ Append(log, row)[Len(log) + 1] = row
           /\ \A i \in DOMAIN log : Append(log, row)[i] = log[i]
           /\ Len(log) + 1 \notin DOMAIN log
           /\ Reversed(log, e) \/ (row.doc = e /\ row.reversal) => Reversed(Append(log, row), e)
<1> DEFINE new == Append(log, row)
           n == Len(log) + 1
<1>1. /\ new[n] = row /\ (\A i \in DOMAIN log : new[i] = log[i])
      /\ DOMAIN new = DOMAIN log \cup {n}
  BY LedgerGrows
<1>2. n \notin DOMAIN log
  BY LedgerRows
<1> HIDE DEF new, n
<1>3. RowsOf(new, e) = IF row.doc = e THEN RowsOf(log, e) \cup {n} ELSE RowsOf(log, e)
  BY <1>1, <1>2 DEF RowsOf
<1>4. \A i \in RowsOf(log, e) : new[i] = log[i]
  BY <1>1 DEF RowsOf
<1>5. Reversed(log, e) \/ (row.doc = e /\ row.reversal) => Reversed(new, e)
  BY <1>1, <1>3, <1>4 DEF Reversed
<1> QED
  BY <1>1, <1>2, <1>3, <1>4, <1>5 DEF Untouched, new, n

(* A cancelled row leaves a reversal of its document, and the reversals    *)
(* there are.                                                              *)
LEMMA CancelReverses ==
    ASSUME NEW log \in Ledger, NEW i \in DOMAIN log, NEW e
    PROVE  /\ log[i].doc # e => Untouched(log, CancelSle(log, i), e)
           /\ log[i].doc = e => Reversed(CancelSle(log, i), e)
           /\ Reversed(log, e) => Reversed(CancelSle(log, i), e)
<1> DEFINE flagged == [log EXCEPT ![i].live = FALSE]
<1>1. PICK row \in Sle : /\ CancelSle(log, i) = Append(flagged, row)
                         /\ row.time = log[i].time + 1 /\ row.doc = log[i].doc /\ row.reversal
  BY CancelledRow
<1>2. flagged \in Ledger /\ DOMAIN flagged = DOMAIN log
  BY LedgerFlagged
<1>3. \A j \in DOMAIN log : log[j] \in Sle /\ log[j].time >= Time(log[j].doc)
  BY LedgerRows
<1>4. \A j \in DOMAIN log : flagged[j] = IF j = i THEN [log[j] EXCEPT !.live = FALSE] ELSE log[j]
  OBVIOUS
<1>5. row.time >= Time(row.doc)
  <2>1. log[i].time \in Nat /\ log[i].doc \in Documents
    BY <1>3 DEF Sle
  <2>2. Time(log[i].doc) \in Nat
    BY <2>1, EntriesAssumption DEF Time
  <2> QED
    BY <1>1, <1>3, <2>1, <2>2
<1> HIDE DEF flagged
<1>6. \A j \in DOMAIN log : flagged[j].doc = log[j].doc /\ flagged[j].reversal = log[j].reversal
  <2>1. \A x \in Sle : /\ [x EXCEPT !.live = FALSE].doc = x.doc
                       /\ [x EXCEPT !.live = FALSE].reversal = x.reversal
    BY DEF Sle
  <2> QED
    BY <1>3, <1>4, <2>1
<1>7. RowsOf(flagged, e) = RowsOf(log, e)
  BY <1>2, <1>6 DEF RowsOf
<1>8. Reversed(log, e) => Reversed(flagged, e)
  BY <1>6, <1>7 DEF Reversed, RowsOf
<1>9. log[i].doc # e => \A j \in RowsOf(log, e) : flagged[j] = log[j]
  BY <1>4 DEF RowsOf
<1>10. /\ row.doc # e => Untouched(flagged, Append(flagged, row), e)
       /\ Reversed(flagged, e) \/ (row.doc = e /\ row.reversal) => Reversed(Append(flagged, row), e)
  BY <1>2, <1>5, AppendedRows
<1> QED
  BY <1>1, <1>7, <1>8, <1>9, <1>10 DEF Untouched

(* A row that is written again leaves the other documents alone.           *)
LEMMA AgainKept ==
    ASSUME NEW log \in Ledger, NEW x, Appendable(x), NEW e
    PROVE  /\ x.doc # e => Untouched(log, AppendSle(log, x), e)
           /\ Reversed(log, e) => Reversed(AppendSle(log, x), e)
<1>1. PICK row \in Sle : /\ AppendSle(log, x) = Append(log, row)
                         /\ row.time = x.time /\ row.doc = x.doc
  BY AppendedRow
<1>2. row.time >= Time(row.doc)
  BY <1>1 DEF Appendable
<1> QED
  BY <1>1, <1>2, AppendedRows

LEMMA RepostKept ==
    ASSUME NEW log \in Ledger, NEW p, NEW t \in Int, NEW skipped
    PROVE  AllKept(log, Repost(log, p, t, skipped))
<1> DEFINE stream == Stream(log, p, t, skipped)
           V == Replaying(log, p, t)
           S == DOMAIN stream
           doc(k) == log[stream[k]].doc
<1>1. PICK F, G \in [SUBSET S -> V] : Replays(F, G, log, stream, Repost(log, p, t, skipped))
  BY RepostRuns, Zenon
<1>2. stream \in Seq(DOMAIN log) /\ IsFiniteSet(S) /\ {} \in SUBSET S /\ S \in SUBSET S
  <2>1. stream \in Seq(DOMAIN log)
    BY StreamRows
  <2> HIDE DEF stream
  <2> QED
    BY <2>1, Positions
<1>3. ASSUME NEW k \in S
      PROVE  LET i == stream[k]
                 x == Again(log[i], k)
             IN /\ i \in DOMAIN log /\ log[i].pair = p /\ log[i].time > t /\ log[i] \in Sle
                /\ Appendable(x) /\ x.doc = log[i].doc
  BY StreamRow
<1> HIDE DEF stream
<1>4. \A l \in V : l \in Ledger
  BY DEF Replaying
<1>5. \A k \in S : doc(k) \in Documents /\ RowsOf(log, doc(k)) # {}
  BY <1>3 DEF RowsOf, Sle
<1> DEFINE Half(T) == AllKept(log, F[T]) /\ \A k \in T : Reversed(F[T], doc(k))
           D == {T \in SUBSET S : ~Half(T)}
<1>6. D = {}
  <2>1. SUFFICES ASSUME D # {} PROVE FALSE
    OBVIOUS
  <2>2. PICK T \in D : \A U \in D : U \subseteq T => U = T
    <3>1. D \subseteq SUBSET S
      OBVIOUS
    <3> HIDE DEF D
    <3> QED
      BY <1>2, <2>1, <3>1, SmallestSubset
  <2>3. T \in SUBSET S /\ ~Half(T)
    OBVIOUS
  <2>4. Half({})
    <3>1. F[{}] = log
      BY <1>1 DEF Replays, Cancels
    <3> QED
      BY <3>1 DEF AllKept, Kept, Untouched
  <2>5. T # {}
    BY <2>3, <2>4
  <2>6. PICK k \in T : F[T] = CancelSle(F[T \ {k}], stream[k])
    BY <1>1, <2>3, <2>5 DEF Replays, Cancels
  <2> DEFINE l == F[T \ {k}]
             i == stream[k]
  <2>7. Half(T \ {k})
    <3>1. T \ {k} \in SUBSET S /\ T \ {k} \notin D
      <4> HIDE DEF D
      <4> QED
        BY <2>2, <2>3
    <3> QED
      BY <3>1
  <2>8. AllKept(log, l) /\ (\A j \in T \ {k} : Reversed(l, doc(j))) /\ l \in V /\ l \in Ledger /\ k \in S
    BY <1>4, <2>3, <2>7
  <2>9. i \in DOMAIN log /\ log[i].pair = p /\ log[i].time > t /\ log[i] \in Sle
    BY <1>3, <2>8
  <2>10. RowsOf(log, doc(k)) # {} /\ doc(k) = log[i].doc
    BY <1>5, <2>8
  <2> HIDE DEF D, doc, i, l
  <2>11. i \in DOMAIN l /\ (l[i] = log[i] \/ l[i] = [log[i] EXCEPT !.live = FALSE])
    BY <2>8, <2>9, CancelInside
  <2>12. l[i].doc = doc(k)
    BY <2>9, <2>10, <2>11 DEF Sle
  <2>13. ASSUME NEW e
         PROVE  /\ doc(k) # e => Untouched(l, CancelSle(l, i), e)
                /\ doc(k) = e => Reversed(CancelSle(l, i), e)
                /\ Reversed(l, e) => Reversed(CancelSle(l, i), e)
    BY <2>8, <2>11, <2>12, CancelReverses
  <2>14. F[T] = CancelSle(l, i)
    BY <2>6 DEF l, i
  <2>15. ASSUME NEW e \in Documents PROVE Kept(log, CancelSle(l, i), e)
    <3>1. Kept(log, l, e)
      BY <2>8 DEF AllKept
    <3>2. CASE doc(k) = e
      BY <2>10, <2>13, <3>2 DEF Kept
    <3>3. CASE doc(k) # e
      <4>1. Kept(l, CancelSle(l, i), e)
        BY <2>13, <3>3 DEF Kept
      <4> QED
        BY <3>1, <4>1, KeptTwice
    <3> QED
      BY <3>2, <3>3
  <2>16. \A j \in T : Reversed(CancelSle(l, i), doc(j))
    BY <2>8, <2>13
  <2> QED
    BY <2>3, <2>14, <2>15, <2>16 DEF AllKept
<1>7. AllKept(log, F[S]) /\ \A k \in S : Reversed(F[S], doc(k))
  <2>1. S \notin D
    BY <1>6
  <2> QED
    BY <1>2, <2>1
<1> HIDE DEF D
<1> DEFINE Done(T) == AllKept(log, G[T]) /\ \A k \in S : Reversed(G[T], doc(k))
           E == {T \in SUBSET S : ~Done(T)}
<1>8. E = {}
  <2>1. SUFFICES ASSUME E # {} PROVE FALSE
    OBVIOUS
  <2>2. PICK T \in E : \A U \in E : U \subseteq T => U = T
    <3>1. E \subseteq SUBSET S
      OBVIOUS
    <3> HIDE DEF E
    <3> QED
      BY <1>2, <2>1, <3>1, SmallestSubset
  <2>3. T \in SUBSET S /\ ~Done(T)
    OBVIOUS
  <2>4. Done({})
    <3>1. G[{}] = F[S]
      BY <1>1 DEF Replays, Rewrites
    <3> QED
      BY <1>7, <3>1
  <2>5. T # {}
    BY <2>3, <2>4
  <2>6. PICK k \in T : G[T] = AppendSle(G[T \ {k}], Again(log[stream[k]], k))
    BY <1>1, <2>3, <2>5 DEF Replays, Rewrites
  <2> DEFINE l == G[T \ {k}]
             x == Again(log[stream[k]], k)
  <2>7. Done(T \ {k})
    <3>1. T \ {k} \in SUBSET S /\ T \ {k} \notin E
      <4> HIDE DEF E
      <4> QED
        BY <2>2, <2>3
    <3> QED
      BY <3>1
  <2>8. AllKept(log, l) /\ (\A j \in S : Reversed(l, doc(j))) /\ l \in Ledger /\ k \in S
    BY <1>4, <2>3, <2>7
  <2>9. Appendable(x) /\ x.doc = doc(k) /\ RowsOf(log, doc(k)) # {}
    BY <1>3, <1>5, <2>8
  <2>10. G[T] = AppendSle(l, x)
    BY <2>6
  <2> HIDE DEF E, doc, x, l
  <2>11. ASSUME NEW e
         PROVE  /\ doc(k) # e => Untouched(l, AppendSle(l, x), e)
                /\ Reversed(l, e) => Reversed(AppendSle(l, x), e)
    BY <2>8, <2>9, AgainKept
  <2>12. ASSUME NEW e \in Documents PROVE Kept(log, AppendSle(l, x), e)
    <3>1. Kept(log, l, e)
      BY <2>8 DEF AllKept
    <3>2. CASE doc(k) = e
      BY <2>8, <2>9, <2>11, <3>2 DEF Kept
    <3>3. CASE doc(k) # e
      <4>1. Kept(l, AppendSle(l, x), e)
        BY <2>11, <3>3 DEF Kept
      <4> QED
        BY <3>1, <4>1, KeptTwice
    <3> QED
      BY <3>2, <3>3
  <2>13. \A j \in S : Reversed(AppendSle(l, x), doc(j))
    BY <2>8, <2>11
  <2> QED
    BY <2>3, <2>10, <2>12, <2>13 DEF AllKept
<1>9. AllKept(log, G[S])
  <2>1. S \notin E
    BY <1>8
  <2> QED
    BY <1>2, <2>1
<1> QED
  BY <1>1, <1>9 DEF Replays

LEMMA RepostAllKept ==
    ASSUME NEW log \in Ledger, NEW ps, IsFiniteSet(ps), NEW t \in Int, NEW skipped
    PROVE  AllKept(log, RepostAll(log, ps, t, skipped))
<1> DEFINE V == {l \in Ledger : AllKept(log, l)}
<1>1. log \in V
  BY DEF AllKept, Kept, Untouched
<1>2. ASSUME NEW l \in V, NEW p \in ps PROVE Repost(l, p, t, skipped) \in V
  <2> DEFINE new == Repost(l, p, t, skipped)
  <2>1. l \in Ledger /\ AllKept(log, l)
    OBVIOUS
  <2>2. new \in Ledger
    BY <2>1, RepostKeeps
  <2>3. AllKept(l, new)
    BY <2>1, RepostKept
  <2> HIDE DEF new
  <2>4. AllKept(log, new)
    BY <2>1, <2>3, KeptTwice DEF AllKept
  <2> QED
    BY <2>2, <2>4 DEF new
<1>3. RepostAll(log, ps, t, skipped) \in V
  <2> HIDE DEF V
  <2> QED
    BY <1>1, <1>2, RepostAllRuns
<1> QED
  BY <1>3

-----------------------------------------------------------------------------
(* What the live rows of a document are worth.                             *)
Carries(log, d) == Worth(log, LiveRowsOf(log, d))

LEMMA WorthSame ==
    ASSUME NEW a, NEW b, NEW S, \A i \in S : a[i].value = b[i].value
    PROVE  Worth(a, S) = Worth(b, S)
<1>1. [i \in S |-> a[i].value] = [i \in S |-> b[i].value]
  OBVIOUS
<1> QED
  BY <1>1 DEF Worth

LEMMA WorthMore ==
    ASSUME NEW a, NEW S, IsFiniteSet(S), NEW n, n \notin S, \A i \in S \cup {n} : a[i].value \in Int
    PROVE  /\ Worth(a, S) \in Int
           /\ Worth(a, S \cup {n}) = Worth(a, S) + a[n].value
<1> DEFINE f == [i \in S \cup {n} |-> a[i].value]
<1>1. f \in [S \cup {n} -> Int] /\ [i \in S |-> f[i]] = [i \in S |-> a[i].value] /\ f[n] = a[n].value
  OBVIOUS
<1>2. /\ SumFunction([i \in S |-> f[i]]) \in Int
      /\ SumFunction(f) = SumFunction([i \in S |-> f[i]]) + f[n]
  <2> HIDE DEF f
  <2> QED
    BY <1>1, SumMore
<1> QED
  BY <1>1, <1>2 DEF Worth

LEMMA WorthOfNone == ASSUME NEW a PROVE Worth(a, {}) = 0
<1>1. [i \in {} |-> a[i].value] = [i \in {} |-> a[i].qty]
  OBVIOUS
<1> QED
  BY <1>1, QuantityOfNone DEF Worth, Quantity

LEMMA CarriesAppend ==
    ASSUME NEW log \in Ledger, NEW row \in Sle, row.time >= Time(row.doc), NEW d, row.doc = d, row.live
    PROVE  /\ Carries(log, d) \in Int
           /\ Carries(Append(log, row), d) = Carries(log, d) + row.value
<1> DEFINE new == Append(log, row)
           n == Len(log) + 1
           S == LiveRowsOf(log, d)
<1>1. /\ new[n] = row /\ (\A i \in DOMAIN log : new[i] = log[i])
      /\ DOMAIN new = DOMAIN log \cup {n} /\ n \notin DOMAIN log
  BY LedgerGrows, LedgerRows
<1>2. S \in SUBSET DOMAIN log /\ IsFiniteSet(S) /\ \A i \in S : log[i].value \in Int
  <2>1. S \in SUBSET DOMAIN log
    BY DEF LiveRowsOf, RowsOf
  <2>2. IsFiniteSet(S) /\ \A i \in DOMAIN log : log[i] \in Sle
    BY <2>1, LedgerRows
  <2> QED
    BY <2>1, <2>2 DEF Sle
<1>3. row.value \in Int
  BY DEF Sle
<1> HIDE DEF new, n
<1>4. LiveRowsOf(new, d) = S \cup {n}
  BY <1>1 DEF LiveRowsOf, RowsOf
<1> HIDE DEF S
<1>5. \A i \in S : new[i].value = log[i].value
  BY <1>1, <1>2
<1>6. Worth(new, S) = Worth(log, S)
  BY <1>5, WorthSame
<1>7. n \notin S /\ \A i \in S \cup {n} : new[i].value \in Int
  BY <1>1, <1>2, <1>3, <1>5
<1>8. Worth(new, S) \in Int /\ Worth(new, S \cup {n}) = Worth(new, S) + row.value
  BY <1>1, <1>2, <1>7, WorthMore
<1> QED
  BY <1>4, <1>6, <1>8 DEF Carries, new, S

(* Where a document's rows stay as they are, so does what they move and    *)
(* what they are worth.                                                    *)
LEMMA UntouchedSame ==
    ASSUME NEW old, NEW new, NEW e, Untouched(old, new, e)
    PROVE  /\ \A p : Moves(new, e, p) = Moves(old, e, p)
           /\ Carries(new, e) = Carries(old, e)
<1>1. ASSUME NEW p PROVE Moves(new, e, p) = Moves(old, e, p)
  <2>1. Of(new, e, p) = Of(old, e, p) /\ \A i \in Of(old, e, p) : new[i].qty = old[i].qty
    BY DEF Untouched, Of
  <2> QED
    BY <2>1, QuantitySame DEF Moves
<1>2. LiveRowsOf(new, e) = LiveRowsOf(old, e) /\ \A i \in LiveRowsOf(old, e) : new[i].value = old[i].value
  BY DEF Untouched, LiveRowsOf
<1> QED
  BY <1>1, <1>2, WorthSame DEF Carries

LEMMA UntouchedTwice ==
    ASSUME NEW old, NEW log, NEW new, NEW e, Untouched(old, log, e), Untouched(log, new, e)
    PROVE  Untouched(old, new, e)
BY DEF Untouched

(* What a document's own rows add.                                         *)
Postable(d, xs) == xs \in Posting(d) /\ \A k \in DOMAIN xs : Appendable(xs[k])

LEMMA PostedLegs ==
    ASSUME NEW d, NEW xs, Postable(d, xs)
    PROVE  /\ xs \in Seq(Leg) /\ IsFiniteSet(DOMAIN xs)
           /\ \A k \in DOMAIN xs : /\ Appendable(xs[k]) /\ xs[k].doc = d
                                   /\ xs[k].qty \in Int /\ xs[k].value \in Int
<1>1. xs \in Seq(Leg)
  BY DEF Postable, Posting
<1>2. IsFiniteSet(DOMAIN xs)
  BY <1>1, Positions
<1>3. \A k \in DOMAIN xs : Appendable(xs[k]) /\ xs[k].doc = d
  BY DEF Postable, Posting
<1> QED
  BY <1>1, <1>2, <1>3 DEF Appendable

LEMMA AppendOthers ==
    ASSUME NEW log \in Ledger, NEW d, NEW xs, Postable(d, xs), NEW e, e # d
    PROVE  AppendAll(log, d, xs) \in Ledger /\ Untouched(log, AppendAll(log, d, xs), e)
<1> DEFINE V == {l \in Ledger : Untouched(log, l, e)}
<1>1. log \in V
  BY DEF Untouched
<1>2. ASSUME NEW l \in V, NEW k \in DOMAIN xs PROVE AppendFor(d, l, xs[k]) \in V
  <2>1. l \in Ledger /\ Untouched(log, l, e) /\ Appendable(xs[k]) /\ xs[k].doc = d
    BY PostedLegs
  <2>2. PICK row \in Sle : /\ AppendFor(d, l, xs[k]) = Append(l, row)
                           /\ row.time = xs[k].time /\ row.doc = xs[k].doc
    BY <2>1, AppendedFor
  <2>3. row.time >= Time(row.doc) /\ row.doc # e
    BY <2>1, <2>2 DEF Appendable
  <2>4. Append(l, row) \in Ledger
    BY <2>1, <2>3, LedgerGrows
  <2>5. Untouched(l, Append(l, row), e)
    BY <2>1, <2>3, AppendedRows
  <2> QED
    BY <2>1, <2>2, <2>4, <2>5, UntouchedTwice
<1>3. AppendAll(log, d, xs) \in V
  <2>1. xs \in Seq(Leg)
    BY PostedLegs
  <2> HIDE DEF V
  <2> QED
    BY <1>1, <1>2, <2>1, AppendAllStays
<1> QED
  BY <1>3

(* Only the members of K count.                                            *)
Selects(f, g, S, K) == \A k \in S : f[k] = IF k \in K THEN g[k] ELSE 0
Chosen(g, T) == SumFunction([k \in T |-> g[k]])

LEMMA SumOfSome ==
    ASSUME NEW S, IsFiniteSet(S), NEW g \in [S -> Int], NEW K, NEW f \in [S -> Int],
           Selects(f, g, S, K), NEW C, PartSums(C, f, S)
    PROVE  C[S] = Chosen(g, S \cap K)
<1>1. PICK G : PartSums(G, g, S)
  BY SumIs
<1> DEFINE M == [T \in SUBSET S |-> G[T \cap K]]
<1>2. M \in [SUBSET S -> Int] /\ S \in SUBSET S /\ {} \in SUBSET S /\ M[{}] = 0
  <2>1. \A T \in SUBSET S : T \cap K \in SUBSET S
    OBVIOUS
  <2>2. {} \cap K = {}
    OBVIOUS
  <2> QED
    BY <1>1, <2>1, <2>2 DEF PartSums
<1>3. ASSUME NEW T \in SUBSET S, T # {} PROVE \E k \in T : M[T] = M[T \ {k}] + f[k]
  <2>1. PICK k \in T : k \in S
    BY <1>3
  <2>2. M[T] = G[T \cap K] /\ M[T \ {k}] = G[(T \ {k}) \cap K]
    OBVIOUS
  <2>3. G[(T \ {k}) \cap K] \in Int /\ g[k] \in Int
    BY <1>1, <2>1 DEF PartSums
  <2>4. CASE k \in K
    <3>1. G[T \cap K] = g[k] + G[(T \cap K) \ {k}]
      BY <1>1, <2>4 DEF PartSums
    <3>2. (T \cap K) \ {k} = (T \ {k}) \cap K
      OBVIOUS
    <3>3. f[k] = g[k]
      BY <2>1, <2>4 DEF Selects
    <3> HIDE DEF M
    <3>5. M[T] = g[k] + G[(T \ {k}) \cap K]
      BY <2>2, <3>1, <3>2
    <3>4. M[T] = M[T \ {k}] + f[k]
      BY <2>2, <2>3, <3>3, <3>5
    <3> QED
      BY <3>4
  <2>5. CASE k \notin K
    <3>1. T \cap K = (T \ {k}) \cap K
      BY <2>5
    <3>2. f[k] = 0
      BY <2>1, <2>5 DEF Selects
    <3> HIDE DEF M
    <3>3. M[T] = M[T \ {k}] + f[k]
      BY <2>2, <2>3, <3>1, <3>2
    <3> QED
      BY <3>3
  <2> QED
    BY <2>4, <2>5
<1>4. M[S] = G[S \cap K]
  BY <1>2
<1> HIDE DEF M
<1>5. Gathers(M, f, S)
  BY <1>3 DEF Gathers
<1>6. Risen(M, C, S)
  BY <1>2, <1>5, Gathered, Zenon
<1>7. M[S] = M[{}] + C[S] /\ C[S] \in Int
  BY <1>2, <1>6 DEF Risen, PartSums
<1>8. S \cap K \in SUBSET S
  OBVIOUS
<1>9. Chosen(g, S \cap K) = G[S \cap K]
  BY <1>1, <1>8 DEF PartSums, Chosen
<1> QED
  BY <1>2, <1>4, <1>7, <1>9

LEMMA AppendMoves ==
    ASSUME NEW log \in Ledger, NEW d, NEW xs, Postable(d, xs), NEW p
    PROVE  Moves(AppendAll(log, d, xs), d, p)
             = Moves(log, d, p) + Quantity(xs, {k \in DOMAIN xs : xs[k].pair = p})
<1> DEFINE S == DOMAIN xs
           f == [k \in S |-> Counting(xs[k], d, p)]
           g == [k \in S |-> xs[k].qty]
           K == {k \in S : xs[k].pair = p}
<1>1. /\ xs \in Seq(Leg) /\ IsFiniteSet(S) /\ S \in SUBSET S /\ {} \in SUBSET S
      /\ \A k \in S : Appendable(xs[k]) /\ xs[k].doc = d /\ xs[k].qty \in Int
  BY PostedLegs
<1>2. f \in [S -> Int] /\ g \in [S -> Int] /\ Selects(f, g, S, K)
  BY <1>1 DEF Counting, Selects
<1>3. ASSUME NEW l \in Ledger, NEW k \in S
      PROVE  /\ AppendFor(d, l, xs[k]) \in Ledger
             /\ Moves(AppendFor(d, l, xs[k]), d, p) = Moves(l, d, p) + f[k]
  <2>1. PICK row \in Sle : /\ AppendFor(d, l, xs[k]) = Append(l, row) /\ row.pair = xs[k].pair
                           /\ row.time = xs[k].time /\ row.doc = xs[k].doc /\ row.qty = xs[k].qty
    BY <1>1, AppendedFor
  <2>2. row.time >= Time(row.doc) /\ Counting(row, d, p) = f[k]
    BY <1>1, <2>1 DEF Appendable, Counting
  <2>3. Append(l, row) \in Ledger
    BY <2>2, LedgerGrows
  <2> HIDE DEF f
  <2>4. Moves(Append(l, row), d, p) = Moves(l, d, p) + f[k]
    BY <2>2, MovesAppend
  <2> QED
    BY <2>1, <2>3, <2>4
<1>4. PICK F \in [SUBSET S -> Ledger] : AppendAll(log, d, xs) = F[S] /\ Appends(F, d, log, xs)
  <2>1. \A l \in Ledger : \A k \in DOMAIN xs : AppendFor(d, l, xs[k]) \in Ledger
    BY <1>3
  <2> QED
    BY <1>1, <2>1, AppendAllRuns, Zenon
<1> DEFINE M == [T \in SUBSET S |-> Moves(F[T], d, p)]
<1>5. M \in [SUBSET S -> Int]
  BY MovesType
<1>6. ASSUME NEW T \in SUBSET S, T # {} PROVE \E k \in T : M[T] = M[T \ {k}] + f[k]
  <2>1. PICK k \in T : F[T] = AppendFor(d, F[T \ {k}], xs[k])
    BY <1>4, <1>6 DEF Appends
  <2>2. F[T \ {k}] \in Ledger /\ k \in S
    OBVIOUS
  <2>3. M[T] = Moves(AppendFor(d, F[T \ {k}], xs[k]), d, p) /\ M[T \ {k}] = Moves(F[T \ {k}], d, p)
    BY <2>1
  <2> HIDE DEF M, f, S
  <2>4. M[T] = M[T \ {k}] + f[k]
    BY <1>3, <2>2, <2>3
  <2> QED
    BY <2>4
<1>7. M[{}] = Moves(log, d, p) /\ M[S] = Moves(AppendAll(log, d, xs), d, p)
  BY <1>1, <1>4 DEF Appends
<1>8. S \cap K = K /\ [k \in K |-> g[k]] = [k \in K |-> xs[k].qty]
  OBVIOUS
<1> HIDE DEF M, f, g, S, K
<1>9. PICK C : PartSums(C, f, S)
  BY <1>1, <1>2, SumIs
<1>10. Risen(M, C, S)
  <2>1. Gathers(M, f, S)
    BY <1>6 DEF Gathers
  <2> QED
    BY <1>1, <1>2, <1>5, <1>9, <2>1, Gathered, Zenon
<1>11. C[S] = Chosen(g, S \cap K)
  <2>1. /\ IsFiniteSet(S) /\ g \in [S -> Int] /\ f \in [S -> Int]
        /\ Selects(f, g, S, K) /\ PartSums(C, f, S)
    BY <1>1, <1>2, <1>9
  <2> QED
    BY <2>1, SumOfSome, ZenonT(60)
<1>12. M[S] = M[{}] + C[S]
  BY <1>1, <1>10 DEF Risen
<1>13. Quantity(xs, K) = C[S]
  BY <1>8, <1>11 DEF Quantity, Chosen
<1> QED
  BY <1>7, <1>12, <1>13 DEF K, S

(* The rows of a reconciliation are worth the difference it has planned.   *)
LEMMA AppendCarries ==
    ASSUME NEW log \in Ledger, NEW d, NEW xs, Postable(d, xs), Counts(d), RowsOf(log, d) = {}
    PROVE  Carries(AppendAll(log, d, xs), d) = Worth(xs, DOMAIN xs)
<1> DEFINE S == DOMAIN xs
           f == [k \in S |-> xs[k].value]
<1>1. /\ xs \in Seq(Leg) /\ IsFiniteSet(S) /\ S \in SUBSET S /\ {} \in SUBSET S
      /\ \A k \in S : Appendable(xs[k]) /\ xs[k].doc = d /\ xs[k].value \in Int
  BY PostedLegs
<1>2. f \in [S -> Int] /\ f = [k \in S |-> f[k]]
  BY <1>1
<1>3. ASSUME NEW l \in Ledger, NEW k \in S
      PROVE  /\ AppendFor(d, l, xs[k]) \in Ledger /\ Carries(l, d) \in Int
             /\ Carries(AppendFor(d, l, xs[k]), d) = Carries(l, d) + f[k]
  <2>1. PICK row \in Sle : /\ AppendFor(d, l, xs[k]) = Append(l, row) /\ row.live
                           /\ row.time = xs[k].time /\ row.doc = xs[k].doc
                           /\ Counts(d) => row.value = xs[k].value
    BY <1>1, AppendedFor
  <2>2. row.time >= Time(row.doc) /\ row.value = f[k] /\ row.doc = d
    BY <1>1, <2>1 DEF Appendable
  <2>3. Append(l, row) \in Ledger
    BY <2>2, LedgerGrows
  <2> HIDE DEF f
  <2>4. Carries(l, d) \in Int /\ Carries(Append(l, row), d) = Carries(l, d) + f[k]
    BY <2>1, <2>2, CarriesAppend
  <2> QED
    BY <2>1, <2>3, <2>4
<1>4. PICK F \in [SUBSET S -> Ledger] : AppendAll(log, d, xs) = F[S] /\ Appends(F, d, log, xs)
  <2>1. \A l \in Ledger : \A k \in DOMAIN xs : AppendFor(d, l, xs[k]) \in Ledger
    BY <1>3
  <2> QED
    BY <1>1, <2>1, AppendAllRuns, Zenon
<1>0. \A l \in Ledger : Carries(l, d) \in Int
  <2> TAKE l \in Ledger
  <2>1. LiveRowsOf(l, d) \in SUBSET DOMAIN l
    BY DEF LiveRowsOf, RowsOf
  <2>2. IsFiniteSet(LiveRowsOf(l, d)) /\ \A i \in LiveRowsOf(l, d) : l[i].value \in Int
    BY <2>1, LedgerRows DEF Sle
  <2> QED
    BY <2>2, WorthType DEF Carries
<1> DEFINE M == [T \in SUBSET S |-> Carries(F[T], d)]
<1>5. M \in [SUBSET S -> Int]
  BY <1>0
<1>6. ASSUME NEW T \in SUBSET S, T # {} PROVE \E k \in T : M[T] = M[T \ {k}] + f[k]
  <2>1. PICK k \in T : F[T] = AppendFor(d, F[T \ {k}], xs[k])
    BY <1>4, <1>6 DEF Appends
  <2>2. F[T \ {k}] \in Ledger /\ k \in S
    OBVIOUS
  <2>3. M[T] = Carries(AppendFor(d, F[T \ {k}], xs[k]), d) /\ M[T \ {k}] = Carries(F[T \ {k}], d)
    BY <2>1
  <2> HIDE DEF M, f, S
  <2>4. M[T] = M[T \ {k}] + f[k]
    BY <1>3, <2>2, <2>3
  <2> QED
    BY <2>4
<1>7. M[{}] = 0 /\ M[S] = Carries(AppendAll(log, d, xs), d)
  <2>1. M[{}] = Carries(log, d) /\ M[S] = Carries(AppendAll(log, d, xs), d)
    BY <1>1, <1>4 DEF Appends
  <2>2. LiveRowsOf(log, d) = {}
    BY DEF LiveRowsOf
  <2> QED
    BY <2>1, <2>2, WorthOfNone DEF Carries
<1>8. Worth(xs, S) = SumFunction(f)
  BY DEF Worth
<1> HIDE DEF M, f, S
<1>9. PICK C : PartSums(C, f, S)
  BY <1>1, <1>2, SumIs
<1>10. Risen(M, C, S)
  <2>1. Gathers(M, f, S)
    BY <1>6 DEF Gathers
  <2> QED
    BY <1>1, <1>2, <1>5, <1>9, <2>1, Gathered, Zenon
<1>11. M[S] = M[{}] + C[S] /\ SumFunction([k \in S |-> f[k]]) = C[S] /\ C[S] \in Int
  BY <1>1, <1>9, <1>10 DEF Risen, PartSums
<1> QED
  BY <1>2, <1>7, <1>8, <1>11 DEF S

-----------------------------------------------------------------------------
(* What a submit does to the rows of its document and to those of others.  *)
AtPair(xs, p) == {k \in DOMAIN xs : xs[k].pair = p}

LEMMA SubmitMoves ==
    ASSUME Inductive, NEW r \in Requests, WriteSubmit(r)
    PROVE  LET d == reg[r].doc
               xs == reg[r].intents
           IN /\ \A e \in Documents : e # d =>
                    Kept(sle, sle', e) /\ \A p : Moves(sle', e, p) = Moves(sle, e, p)
              /\ \A p : Moves(sle', d, p) = Moves(sle, d, p) + Quantity(xs, AtPair(xs, p))
              /\ Counts(d) /\ RowsOf(sle, d) = {} =>
                    Reversed(sle', d) \/ Carries(sle', d) = Worth(xs, DOMAIN xs)
<1> DEFINE d == reg[r].doc
           xs == reg[r].intents
           ps == PairsOf(xs)
           added == AppendAll(sle, d, xs)
<1>1. d \in Documents /\ xs \in Posting(d) /\ sle \in Ledger /\ Time(d) \in Int /\ Time(d) \in Nat
  BY EntriesAssumption DEF Inductive, TypeOK, Fits, WriteSubmit, Time
<1>2. /\ \A k \in DOMAIN xs : xs[k].in # Null => xs[k].in >= 0
      /\ sle' = IF reg[r].backdated THEN RepostAll(added, ps, Time(d), Skipped(d)) ELSE added
  BY DEF WriteSubmit
<1> HIDE DEF d, xs
<1>3. Postable(d, xs) /\ IsFiniteSet(ps)
  <2>1. xs \in Seq(Leg) /\ \A k \in DOMAIN xs : xs[k] \in Leg /\ xs[k].time = Time(d) /\ xs[k].doc = d
    <3>1. xs \in Seq(Leg)
      BY <1>1 DEF Posting
    <3>2. DOMAIN xs = 1..Len(xs) /\ Len(xs) \in Nat
      BY <3>1
    <3> QED
      BY <1>1, <3>1, <3>2 DEF Posting
  <2>2. ASSUME NEW k \in DOMAIN xs PROVE Appendable(xs[k])
    <3>1. xs[k] \in Leg /\ xs[k].time = Time(d) /\ xs[k].doc = d
      BY <2>1
    <3>2. xs[k].in \in Nat \cup {Null}
      BY <1>2, <3>1 DEF Leg
    <3> QED
      BY <1>1, <3>1, <3>2 DEF Leg, Appendable
  <2>3. IsFiniteSet(DOMAIN xs)
    BY <2>1, Positions
  <2>4. IsFiniteSet(ps)
    BY <2>3, FinitePairs DEF PairsOf
  <2> QED
    BY <1>1, <2>2, <2>4 DEF Postable
<1> HIDE DEF ps
<1>4. ASSUME NEW e, e # d PROVE added \in Ledger /\ Untouched(sle, added, e)
  BY <1>1, <1>3, <1>4, AppendOthers
<1>5. added \in Ledger
  <2>1. \E e : e # d
    <3>1. {d} # d \/ {} # d
      BY <1>1
    <3> QED
      BY <3>1
  <2> QED
    BY <1>4, <2>1
<1>6. ASSUME NEW p PROVE Moves(added, d, p) = Moves(sle, d, p) + Quantity(xs, AtPair(xs, p))
  BY <1>1, <1>3, AppendMoves DEF AtPair
<1>7. Counts(d) /\ RowsOf(sle, d) = {} => Carries(added, d) = Worth(xs, DOMAIN xs)
  BY <1>1, <1>3, AppendCarries
<1> HIDE DEF added
<1>8. AllKept(added, sle') /\ \A e, p : Moves(sle', e, p) = Moves(added, e, p)
  <2>1. CASE reg[r].backdated
    <3>1. sle' = RepostAll(added, ps, Time(d), Skipped(d))
      BY <1>2, <2>1
    <3>2. AllKept(added, sle')
      BY <1>1, <1>3, <1>5, <3>1, RepostAllKept
    <3>3. ASSUME NEW e, NEW p PROVE Moves(sle', e, p) = Moves(added, e, p)
      BY <1>1, <1>3, <1>5, <3>1, RepostAllMoves
    <3> QED
      BY <3>2, <3>3
  <2>2. CASE ~reg[r].backdated
    <3>1. sle' = added
      BY <1>2, <2>2
    <3> QED
      BY <3>1 DEF AllKept, Kept, Untouched
  <2> QED
    BY <2>1, <2>2
<1>9. ASSUME NEW e \in Documents, e # d
      PROVE  Kept(sle, sle', e) /\ \A p : Moves(sle', e, p) = Moves(sle, e, p)
  <2>1. Untouched(sle, added, e) /\ Kept(added, sle', e)
    BY <1>4, <1>8, <1>9 DEF AllKept
  <2>2. Kept(sle, sle', e)
    BY <2>1, KeptTwice DEF Kept
  <2>3. \A p : Moves(added, e, p) = Moves(sle, e, p)
    BY <2>1, UntouchedSame
  <2> QED
    BY <1>8, <2>2, <2>3
<1>10. ASSUME NEW p PROVE Moves(sle', d, p) = Moves(sle, d, p) + Quantity(xs, AtPair(xs, p))
  BY <1>6, <1>8
<1>11. Reversed(sle', d) \/ Carries(sle', d) = Carries(added, d)
  <2>1. Kept(added, sle', d)
    BY <1>1, <1>8 DEF AllKept
  <2>2. Untouched(added, sle', d) => Carries(sle', d) = Carries(added, d)
    BY UntouchedSame
  <2> QED
    BY <2>1, <2>2 DEF Kept
<1> QED
  BY <1>7, <1>9, <1>10, <1>11 DEF d, xs

(* What a cancel does: the rows of its document are there, and they move   *)
(* what they did; the other documents are kept.                            *)
LEMMA CancelMoves ==
    ASSUME Inductive, NEW r \in Requests, WriteCancel(r)
    PROVE  LET d == reg[r].doc
           IN /\ RowsOf(sle, d) # {}
              /\ \A e \in Documents : e # d => Kept(sle, sle', e)
              /\ \A e, p : Moves(sle', e, p) = Moves(sle, e, p)
<1> DEFINE d == reg[r].doc
           rows == reg[r].rows
           ps == {sle[i].pair : i \in rows}
           times == {sle[i].time : i \in rows}
           first == CHOOSE t \in times : \A i \in rows : t <= sle[i].time
           kept == Flagged(sle, rows)
<1>1. d \in Documents /\ rows \in SUBSET DOMAIN sle /\ rows # {} /\ sle \in Ledger /\ Time(d) \in Nat
      /\ \A i \in rows : sle[i].doc = d
  BY EntriesAssumption DEF Inductive, TypeOK, Fits, WriteCancel, Time
<1>2. sle' = RepostAll(kept, ps, first, {})
  BY DEF WriteCancel
<1> HIDE DEF d, rows
<1>3. first \in Int
  <2>1. IsFiniteSet(rows) /\ \A i \in rows : sle[i].time \in Nat
    <3>1. IsFiniteSet(rows)
      BY <1>1, LedgerRows
    <3>2. \A i \in rows : sle[i] \in Sle
      BY <1>1, LedgerRows
    <3> QED
      BY <3>1, <3>2 DEF Sle
  <2>2. \E m \in rows : \A i \in rows : sle[m].time <= sle[i].time
    BY <1>1, <2>1, Earliest
  <2>3. \E t \in times : \A i \in rows : t <= sle[i].time
    BY <2>2
  <2>4. first \in times
    BY <2>3
  <2> HIDE DEF first
  <2> QED
    BY <2>1, <2>4
<1> HIDE DEF first
<1>4. IsFiniteSet(ps)
  BY <1>1, LedgerRows, FinitePairs
<1> HIDE DEF ps
<1>5. /\ kept \in Ledger /\ DOMAIN kept = DOMAIN sle
      /\ \A i \in DOMAIN sle : kept[i] = IF i \in rows THEN [sle[i] EXCEPT !.live = FALSE] ELSE sle[i]
  BY <1>1, FlaggedRows
<1> HIDE DEF kept
<1>6. \A i \in DOMAIN sle : kept[i].doc = sle[i].doc /\ kept[i].pair = sle[i].pair /\ kept[i].qty = sle[i].qty
  <2>1. \A x \in Sle : /\ [x EXCEPT !.live = FALSE].doc = x.doc /\ [x EXCEPT !.live = FALSE].pair = x.pair
                       /\ [x EXCEPT !.live = FALSE].qty = x.qty
    BY DEF Sle
  <2>2. \A i \in DOMAIN sle : sle[i] \in Sle
    BY <1>1, LedgerRows
  <2> QED
    BY <1>5, <2>1, <2>2
<1>7. RowsOf(sle, d) # {}
  BY <1>1 DEF RowsOf
<1>8. ASSUME NEW e \in Documents, e # d PROVE Kept(sle, sle', e)
  <2>1. Untouched(sle, kept, e)
    BY <1>1, <1>5, <1>6, <1>8 DEF Untouched, RowsOf
  <2>2. AllKept(kept, sle')
    BY <1>2, <1>3, <1>4, <1>5, RepostAllKept
  <2>3. Kept(sle, kept, e) /\ Kept(kept, sle', e)
    BY <2>1, <2>2 DEF AllKept, Kept
  <2> QED
    BY <2>3, KeptTwice
<1>9. ASSUME NEW e, NEW p PROVE Moves(sle', e, p) = Moves(sle, e, p)
  <2>1. Moves(sle', e, p) = Moves(kept, e, p)
    BY <1>2, <1>3, <1>4, <1>5, RepostAllMoves
  <2>2. Moves(kept, e, p) = Moves(sle, e, p)
    BY <1>5, <1>6, MovesFlagged
  <2> QED
    BY <2>1, <2>2
<1> QED
  BY <1>7, <1>8, <1>9 DEF d

-----------------------------------------------------------------------------
(* What a document orders of a pair does not depend on the stock: the sum  *)
(* over its lines.                                                         *)
Share(x, p) == IF x.pair = p THEN x.qty ELSE 0
Wants(xs, p) == Quantity(xs, AtPair(xs, p))

LineWants(d, l, p) ==
    CASE Entries[d].type = "receipt" -> (IF l.target = p THEN l.qty ELSE 0)
      [] Entries[d].type = "issue" -> (IF l.source = p THEN -l.qty ELSE 0)
      [] Entries[d].type = "transfer" ->
           (IF l.source = p THEN -l.qty ELSE 0) + (IF l.target = p THEN l.qty ELSE 0)
      [] OTHER -> 0

Total(d, p) == SumFunction([k \in DOMAIN Entries[d].lines |-> LineWants(d, Entries[d].lines[k], p)])

LEMMA WantsMore ==
    ASSUME NEW xs \in Seq(Leg), NEW x \in Leg, NEW p
    PROVE  Wants(xs, p) \in Int /\ Wants(Append(xs, x), p) = Wants(xs, p) + Share(x, p)
<1> DEFINE ys == Append(xs, x)
           n == Len(xs) + 1
           S == AtPair(xs, p)
<1>1. /\ Len(xs) \in Nat /\ DOMAIN xs = 1..Len(xs) /\ DOMAIN ys = 1..n
      /\ ys[n] = x /\ \A k \in DOMAIN xs : ys[k] = xs[k] /\ xs[k] \in Leg
  OBVIOUS
<1>2. DOMAIN ys = DOMAIN xs \cup {n} /\ n \notin DOMAIN xs
  BY <1>1
<1>3. S \in SUBSET DOMAIN xs /\ IsFiniteSet(DOMAIN xs)
  BY Positions DEF AtPair
<1>4. IsFiniteSet(S)
  BY <1>3, FS_Subset
<1> HIDE DEF ys, n
<1>5. AtPair(ys, p) = IF x.pair = p THEN S \cup {n} ELSE S
  BY <1>1, <1>2 DEF AtPair
<1>6. x.qty \in Int /\ \A k \in S : xs[k].qty \in Int
  <2>1. \A k \in S : xs[k] \in Leg
    BY <1>1, <1>3
  <2> QED
    BY <2>1 DEF Leg
<1> HIDE DEF S
<1>7. \A k \in S : ys[k].qty = xs[k].qty
  BY <1>1, <1>3
<1>8. Quantity(ys, S) = Quantity(xs, S)
  BY <1>7, QuantitySame
<1>9. n \notin S /\ \A k \in S \cup {n} : ys[k].qty \in Int
  BY <1>1, <1>2, <1>3, <1>6, <1>7
<1>10. Quantity(ys, S) \in Int /\ Quantity(ys, S \cup {n}) = Quantity(ys, S) + ys[n].qty
  BY <1>4, <1>9, QuantityMore
<1>11. Quantity(ys, AtPair(ys, p)) = Quantity(xs, S) + Share(x, p)
  BY <1>1, <1>5, <1>6, <1>8, <1>10 DEF Share
<1> QED
  BY <1>8, <1>10, <1>11 DEF Wants, ys, S

LEMMA LegsWant ==
    ASSUME sle \in Ledger, NEW d \in Documents, ~Counts(d), NEW k \in DOMAIN Entries[d].lines,
           NEW xs \in Posting(d), NEW p
    PROVE  /\ LineWants(d, Entries[d].lines[k], p) \in Int
           /\ Wants(xs \o Legs(d, Entries[d].lines[k]), p) = Wants(xs, p) + LineWants(d, Entries[d].lines[k], p)
<1> DEFINE l == Entries[d].lines[k]
           leg(q, n, in) == [pair |-> q, time |-> Time(d), doc |-> d, qty |-> n, in |-> in, value |-> 0]
<1>1. /\ Entries[d].type \in Types /\ Entries[d].type # "reconciliation" /\ l.qty \in Int /\ -l.qty \in Int
      /\ xs \in Seq(Leg)
  <2>1. l \in Lines /\ Entries[d].type \in Types
    BY EntriesAssumption
  <2>2. l.qty \in Nat
    BY <2>1 DEF Lines
  <2> HIDE DEF l
  <2>3. l.qty \in Int /\ -l.qty \in Int
    BY <2>2
  <2> QED
    BY <2>1, <2>3 DEF Counts, Posting
<1>2. Legs(d, l) \in Posting(d)
  BY LegsType
<1> HIDE DEF l
<1>3. \A q, n, in : leg(q, n, in).pair = q /\ leg(q, n, in).qty = n
  OBVIOUS
<1>4. CASE Entries[d].type \in {"receipt", "issue"}
  <2>1. PICK x : /\ Legs(d, l) = << x >>
                 /\ Share(x, p) = LineWants(d, l, p) /\ LineWants(d, l, p) \in Int
    <3>1. CASE Entries[d].type = "receipt"
      <4>1. Legs(d, l) = << leg(l.target, l.qty, l.rate) >>
        BY <3>1 DEF Legs, Counts
      <4> HIDE DEF leg
      <4>2. Share(leg(l.target, l.qty, l.rate), p) = LineWants(d, l, p) /\ LineWants(d, l, p) \in Int
        BY <1>1, <1>3, <3>1 DEF Share, LineWants
      <4> QED
        BY <4>1, <4>2
    <3>2. CASE Entries[d].type = "issue"
      <4>1. Legs(d, l) = << leg(l.source, -l.qty, Null) >>
        BY <3>2 DEF Legs, Counts
      <4> HIDE DEF leg
      <4>2. Share(leg(l.source, -l.qty, Null), p) = LineWants(d, l, p) /\ LineWants(d, l, p) \in Int
        BY <1>1, <1>3, <3>2 DEF Share, LineWants
      <4> QED
        BY <4>1, <4>2
    <3> QED
      BY <1>4, <3>1, <3>2
  <2>2. x \in Leg
    <3>1. << x >> \in Seq(Leg)
      BY <1>2, <2>1 DEF Posting
    <3>2. << x >>[1] \in Leg
      BY <3>1
    <3> QED
      BY <3>2
  <2>3. xs \o << x >> = Append(xs, x)
    BY <1>1, <2>2
  <2>4. Wants(Append(xs, x), p) = Wants(xs, p) + Share(x, p)
    BY <1>1, <2>2, WantsMore
  <2> QED
    BY <2>1, <2>3, <2>4 DEF l
<1>5. CASE Entries[d].type = "transfer"
  <2> DEFINE rate == LastAt(sle, l.source, Time(d)).rate
  <2>1. PICK x, y : /\ Legs(d, l) = << x, y >>
                    /\ Share(x, p) + Share(y, p) = LineWants(d, l, p)
                    /\ Share(x, p) \in Int /\ Share(y, p) \in Int
    <3>1. Legs(d, l) = << leg(l.source, -l.qty, Null), leg(l.target, l.qty, rate) >>
      BY <1>5 DEF Legs, Counts
    <3> HIDE DEF leg, rate
    <3>2. /\ Share(leg(l.source, -l.qty, Null), p) = (IF l.source = p THEN -l.qty ELSE 0)
          /\ Share(leg(l.target, l.qty, rate), p) = (IF l.target = p THEN l.qty ELSE 0)
      BY <1>3 DEF Share
    <3>3. LineWants(d, l, p) = (IF l.source = p THEN -l.qty ELSE 0) + (IF l.target = p THEN l.qty ELSE 0)
      BY <1>5 DEF LineWants
    <3> QED
      BY <1>1, <3>1, <3>2, <3>3
  <2>2. x \in Leg /\ y \in Leg
    <3>1. << x, y >> \in Seq(Leg)
      BY <1>2, <2>1 DEF Posting
    <3>2. << x, y >>[1] \in Leg /\ << x, y >>[2] \in Leg
      BY <3>1
    <3> QED
      BY <3>2
  <2>3. xs \o << x, y >> = Append(Append(xs, x), y) /\ Append(xs, x) \in Seq(Leg)
    BY <1>1, <2>2
  <2>4. Wants(xs, p) \in Int /\ Wants(Append(xs, x), p) = Wants(xs, p) + Share(x, p)
    BY <1>1, <2>2, WantsMore
  <2>5. Wants(Append(Append(xs, x), y), p) = Wants(Append(xs, x), p) + Share(y, p)
    BY <2>2, <2>3, WantsMore
  <2>6. LineWants(d, l, p) \in Int
    BY <2>1
  <2>7. Wants(xs \o << x, y >>, p) = Wants(xs, p) + LineWants(d, l, p)
    <3>1. Wants(xs \o << x, y >>, p) = Wants(Append(Append(xs, x), y), p)
      BY <2>3
    <3>2. Wants(xs \o << x, y >>, p) = (Wants(xs, p) + Share(x, p)) + Share(y, p)
      BY <2>4, <2>5, <3>1
    <3>3. Wants(xs \o << x, y >>, p) = Wants(xs, p) + (Share(x, p) + Share(y, p))
      BY <2>1, <2>4, <3>2
    <3> QED
      BY <2>1, <3>3
  <2> QED
    BY <2>1, <2>6, <2>7 DEF l
<1> QED
  BY <1>1, <1>4, <1>5 DEF Types

LEMMA OrderedIs ==
    ASSUME sle \in Ledger, NEW d \in Documents, ~Counts(d), NEW p
    PROVE  Ordered(d, p) = Total(d, p) /\ Wants(Intents(d), p) = Total(d, p)
<1> DEFINE S == DOMAIN Entries[d].lines
           V == Posting(d)
           f == [k \in S |-> LineWants(d, Entries[d].lines[k], p)]
<1>1. << >> \in V /\ \A xs \in V : \A k \in S : xs \o Legs(d, Entries[d].lines[k]) \in V
  <2>1. << >> \in V
    BY DEF Posting
  <2> QED
    BY <2>1, LegsType, PostingGrows
<1>2. IsFiniteSet(S) /\ S \in SUBSET S /\ {} \in SUBSET S
  <2>1. Entries[d].lines \in Seq(Lines)
    BY EntriesAssumption
  <2> QED
    BY <2>1, Positions
<1>3. PICK F \in [SUBSET S -> V] : Intents(d) = F[S] /\ Plans(F, d)
  <2> HIDE DEF V
  <2> QED
    BY <1>1, IntentsRun, Zenon
<1>4. \A xs \in V : \A k \in S : /\ f[k] \in Int
                                 /\ Wants(xs \o Legs(d, Entries[d].lines[k]), p) = Wants(xs, p) + f[k]
  BY LegsWant
<1>5. \A xs \in V : Wants(xs, p) \in Int
  <2> SUFFICES ASSUME NEW xs \in V PROVE Wants(xs, p) \in Int
    OBVIOUS
  <2>1. xs \in Seq(Leg)
    BY DEF Posting
  <2>2. AtPair(xs, p) \in SUBSET DOMAIN xs /\ IsFiniteSet(DOMAIN xs) /\ \A k \in DOMAIN xs : xs[k] \in Leg
    BY <2>1, Positions DEF AtPair
  <2>3. IsFiniteSet(AtPair(xs, p)) /\ \A k \in AtPair(xs, p) : xs[k].qty \in Int
    BY <2>2, FS_Subset DEF Leg
  <2> QED
    BY <2>3, QuantityType DEF Wants
<1>6. f \in [S -> Int] /\ f = [k \in S |-> f[k]]
  BY <1>1, <1>4
<1> DEFINE M == [T \in SUBSET S |-> Wants(F[T], p)]
<1>7. M \in [SUBSET S -> Int]
  <2> HIDE DEF V
  <2> QED
    BY <1>5
<1>8. ASSUME NEW T \in SUBSET S, T # {} PROVE \E k \in T : M[T] = M[T \ {k}] + f[k]
  <2>1. PICK k \in T : F[T] = F[T \ {k}] \o Legs(d, Entries[d].lines[k])
    BY <1>3, <1>8 DEF Plans
  <2>2. F[T \ {k}] \in V /\ k \in S
    OBVIOUS
  <2>3. M[T] = Wants(F[T \ {k}] \o Legs(d, Entries[d].lines[k]), p) /\ M[T \ {k}] = Wants(F[T \ {k}], p)
    BY <2>1
  <2> HIDE DEF M, f, S, V
  <2>4. M[T] = M[T \ {k}] + f[k]
    BY <1>4, <2>2, <2>3
  <2> QED
    BY <2>4
<1>9. M[{}] = 0 /\ M[S] = Wants(Intents(d), p)
  <2>1. M[{}] = Wants(<< >>, p) /\ M[S] = Wants(Intents(d), p)
    BY <1>2, <1>3 DEF Plans
  <2>2. AtPair(<< >>, p) = {}
    BY DEF AtPair
  <2> QED
    BY <2>1, <2>2, QuantityOfNone DEF Wants
<1>10. Total(d, p) = SumFunction(f)
  BY DEF Total
<1> HIDE DEF M, f, S
<1>11. PICK C : PartSums(C, f, S)
  BY <1>2, <1>6, SumIs
<1>12. Risen(M, C, S)
  <2>1. Gathers(M, f, S)
    BY <1>8 DEF Gathers
  <2> QED
    BY <1>2, <1>6, <1>7, <1>11, <2>1, Gathered, Zenon
<1>13. M[S] = M[{}] + C[S] /\ SumFunction([k \in S |-> f[k]]) = C[S] /\ C[S] \in Int
  BY <1>2, <1>11, <1>12 DEF Risen, PartSums
<1>14. Wants(Intents(d), p) = Total(d, p)
  BY <1>6, <1>9, <1>10, <1>13
<1> QED
  BY <1>14 DEF Ordered, Wants, AtPair

-----------------------------------------------------------------------------
(* The invariant behind the two theorems.  A document that has left its    *)
(* draft has an automatic journal, its first, or is one that a submit      *)
(* found nothing to post of; a draft has no rows; and a request holds what *)
(* its entry orders, whatever was posted since.                            *)
Recorded(d) ==
    /\ journal[d] # << >> => journal[d][1].type = "AUTO"
    /\ journal[d] = << >> /\ d \notin unpriced => status[d] = "draft"
    /\ status[d] = "draft" => RowsOf(sle, d) = {}
    /\ d \in unpriced => ~Counts(d)
    /\ ~Counts(d) /\ status[d] # "draft" /\ d \notin unpriced =>
          \A p \in Pairs : Moves(sle, d, p) = Total(d, p)
    /\ status[d] = "submitted" /\ ~Reversed(sle, d) =>
          Carries(sle, d) = Posted(d) \/ (d \in unpriced /\ Carries(sle, d) = 0)

Planned(r) ==
    reg[r].op = "submit" /\ ~Counts(reg[r].doc) =>
        \A p \in Pairs : Wants(reg[r].intents, p) = Total(reg[r].doc, p)

Booked ==
    /\ \A d \in Documents : Recorded(d)
    /\ \A r \in Requests : reg[r] # Null => Planned(r)

LEMMA BookedInit == Init => Booked
<1> SUFFICES ASSUME Init PROVE Booked
  OBVIOUS
<1>1. /\ sle = << >> /\ unpriced = {} /\ \A d \in Documents : status[d] = "draft" /\ journal[d] = << >>
  BY DEF Init
<1>2. ASSUME NEW d \in Documents PROVE Recorded(d)
  <2>1. RowsOf(sle, d) = {}
    BY <1>1 DEF RowsOf
  <2> QED
    BY <1>1, <2>1 DEF Recorded
<1>3. \A r \in Requests : reg[r] = Null
  BY DEF Init
<1> QED
  BY <1>2, <1>3 DEF Booked

(* A document that a step writes nothing of stays recorded, though its     *)
(* rows may be replayed.                                                   *)
LEMMA StillRecorded ==
    ASSUME NEW e \in Documents, Recorded(e), journal'[e] = journal[e], status'[e] = status[e],
           e \in unpriced' <=> e \in unpriced, Kept(sle, sle', e),
           \A p \in Pairs : Moves(sle', e, p) = Moves(sle, e, p)
    PROVE  Recorded(e)'
<1>1. Posted(e)' = Posted(e)
  BY DEF Posted
<1>2. RowsOf(sle, e) = {} => RowsOf(sle', e) = {}
  BY DEF Kept, Untouched
<1>3. ~Reversed(sle', e) => ~Reversed(sle, e) /\ Carries(sle', e) = Carries(sle, e)
  <2> SUFFICES ASSUME ~Reversed(sle', e) PROVE ~Reversed(sle, e) /\ Carries(sle', e) = Carries(sle, e)
    OBVIOUS
  <2>1. Untouched(sle, sle', e)
    BY DEF Kept
  <2>2. ~Reversed(sle, e)
    BY <2>1 DEF Untouched, Reversed
  <2> QED
    BY <2>1, <2>2, UntouchedSame
<1>4. (journal[e] # << >> => journal[e][1].type = "AUTO")'
  BY DEF Recorded
<1>5. (journal[e] = << >> /\ e \notin unpriced => status[e] = "draft")'
  BY DEF Recorded
<1>6. (status[e] = "draft" => RowsOf(sle, e) = {})'
  BY <1>2 DEF Recorded
<1>7. (e \in unpriced => ~Counts(e))'
  BY DEF Recorded, Counts
<1>8. (~Counts(e) /\ status[e] # "draft" /\ e \notin unpriced =>
          \A p \in Pairs : Moves(sle, e, p) = Total(e, p))'
  BY DEF Recorded
<1>9. (status[e] = "submitted" /\ ~Reversed(sle, e) =>
          Carries(sle, e) = Posted(e) \/ (e \in unpriced /\ Carries(sle, e) = 0))'
  BY <1>1, <1>3 DEF Recorded
<1> QED
  BY <1>4, <1>5, <1>6, <1>7, <1>8, <1>9 DEF Recorded

(* The journal of one amount.                                              *)
LEMMA PostedOne ==
    ASSUME NEW a \in Int
    PROVE  SumFunction([k \in DOMAIN << [type |-> "AUTO", amount |-> a] >> |->
                           << [type |-> "AUTO", amount |-> a] >>[k].amount]) = a
<1> DEFINE f == [k \in {1} |-> a]
<1>1. [k \in DOMAIN << [type |-> "AUTO", amount |-> a] >> |->
          << [type |-> "AUTO", amount |-> a] >>[k].amount] = f
  <2>1. DOMAIN << [type |-> "AUTO", amount |-> a] >> = {1}
    OBVIOUS
  <2>2. \A k \in {1} : << [type |-> "AUTO", amount |-> a] >>[k].amount = a
    OBVIOUS
  <2> QED
    BY <2>1, <2>2
<1>2. /\ IsFiniteSet({1}) /\ f \in [{1} -> Int] /\ f = [k \in {1} |-> f[k]] /\ f[1] = a
      /\ {1} \in SUBSET {1} /\ {} \in SUBSET {1} /\ {1} \ {1} = {}
  BY FS_Singleton
<1> HIDE DEF f
<1>3. PICK C : PartSums(C, f, {1})
  BY <1>2, SumIs
<1>4. SumFunction([k \in {1} |-> f[k]]) = C[{1}] /\ C[{1}] = f[1] + C[{}] /\ C[{}] = 0
  BY <1>2, <1>3 DEF PartSums
<1>5. SumFunction(f) = a
  <2>1. SumFunction(f) = SumFunction([k \in {1} |-> f[k]])
    BY <1>2, Zenon
  <2> QED
    BY <1>2, <1>4, <2>1
<1> QED
  BY <1>1, <1>5

LEMMA SubmitBooks ==
    ASSUME Inductive, Booked, NEW r \in Requests, WriteSubmit(r), NEW d \in Documents, d = reg[r].doc
    PROVE  Recorded(d)'
<1> DEFINE xs == reg[r].intents
           amount == Difference(d, xs, sle')
           x == [type |-> "AUTO", amount |-> amount]
<1>1. d \in Documents /\ xs \in Seq(Leg) /\ sle' \in Ledger /\ TypeOK
  BY SubmitPosts DEF Inductive, TypeOK, WriteSubmit
<1>2. /\ Post(d, amount) /\ status' = [status EXCEPT ![d] = "submitted"]
      /\ unpriced' = IF ~Counts(d) /\ amount = 0 THEN unpriced \cup {d} ELSE unpriced
  BY DEF WriteSubmit
<1>3. /\ \A p \in Pairs : Moves(sle', d, p) = Moves(sle, d, p) + Wants(xs, p)
      /\ Counts(d) /\ RowsOf(sle, d) = {} =>
            Reversed(sle', d) \/ Carries(sle', d) = Worth(xs, DOMAIN xs)
  BY SubmitMoves DEF Wants
<1>4. Recorded(d) /\ (~Counts(d) => \A p \in Pairs : Wants(xs, p) = Total(d, p))
  BY <1>1 DEF Booked, Planned, WriteSubmit
<1>5. ~Counts(d) => amount = Carries(sle', d)
  BY DEF Difference, Carries
<1>6. Counts(d) => amount = Worth(xs, DOMAIN xs)
  BY DEF Difference
<1>7. amount \in Int
  BY <1>1, DifferenceType
<1>8. journal \in Journals /\ status \in [Documents -> {"draft", "submitted", "cancelled"}]
  BY <1>1 DEF TypeOK, Journals
<1> HIDE DEF xs, amount
<1>9. status'[d] = "submitted"
  BY <1>1, <1>2, <1>8
<1>10. CASE amount = 0 /\ ~Counts(d)
  <2>1. d \in unpriced' /\ journal' = journal /\ Carries(sle', d) = 0
    BY <1>2, <1>5, <1>10 DEF Post
  <2> QED
    BY <1>4, <1>9, <1>10, <2>1 DEF Recorded, Counts
<1>11. CASE ~(amount = 0 /\ ~Counts(d))
  <2>1. /\ unpriced' = unpriced /\ \A k \in DOMAIN journal[d] : journal[d][k].type # "AUTO"
        /\ journal' = [journal EXCEPT ![d] = Append(@, x)]
    BY <1>2, <1>11 DEF Post
  <2>2. journal[d] = << >>
    <3>1. journal[d] \in Seq([type : {"AUTO", "REVERSAL"}, amount : Int])
      BY <1>1, <1>8 DEF Journals
    <3>2. journal[d] # << >> => 1 \in DOMAIN journal[d]
      <4>1. journal[d] # << >> => Len(journal[d]) # 0
        BY <3>1
      <4> QED
        BY <3>1, <4>1
    <3> QED
      BY <1>4, <2>1, <3>2 DEF Recorded
  <2>3. journal'[d] = << x >>
    <3>1. journal'[d] = Append(journal[d], x)
      BY <1>1, <1>8, <2>1 DEF Journals
    <3> HIDE DEF x
    <3> QED
      BY <2>2, <3>1
  <2>4. Posted(d)' = amount
    <3>1. Posted(d)' = SumFunction([k \in DOMAIN journal'[d] |-> journal'[d][k].amount])
      BY DEF Posted
    <3> QED
      BY <1>7, <2>3, <3>1, PostedOne
  <2>5. d \notin unpriced => RowsOf(sle, d) = {}
    BY <1>4, <2>2 DEF Recorded
  <2>6. Counts(d) => RowsOf(sle, d) = {}
    BY <1>4, <2>5 DEF Recorded
  <2>7. Reversed(sle', d) \/ Carries(sle', d) = Posted(d)'
    BY <1>3, <1>5, <1>6, <2>4, <2>6
  <2>8. ASSUME ~Counts(d), d \notin unpriced, NEW p \in Pairs PROVE Moves(sle', d, p) = Total(d, p)
    <3>1. Of(sle, d, p) = {}
      BY <2>5, <2>8 DEF Of
    <3>2. Moves(sle, d, p) = 0
      BY <3>1, QuantityOfNone DEF Moves
    <3>3. Wants(xs, p) \in Int
      <4>1. AtPair(xs, p) \in SUBSET DOMAIN xs /\ IsFiniteSet(DOMAIN xs) /\ \A k \in DOMAIN xs : xs[k] \in Leg
        BY <1>1, Positions DEF AtPair
      <4>2. IsFiniteSet(AtPair(xs, p)) /\ \A k \in AtPair(xs, p) : xs[k].qty \in Int
        BY <4>1, FS_Subset DEF Leg
      <4> QED
        BY <4>2, QuantityType DEF Wants
    <3>4. Moves(sle', d, p) = Wants(xs, p)
      BY <1>3, <3>2, <3>3
    <3> QED
      BY <1>4, <2>8, <3>4
  <2>9. journal'[d] # << >> /\ journal'[d][1].type = "AUTO"
    BY <2>3
  <2>10. (d \in unpriced => ~Counts(d))'
    BY <1>4, <2>1 DEF Recorded, Counts
  <2> QED
    BY <1>9, <2>1, <2>7, <2>8, <2>9, <2>10 DEF Recorded, Counts
<1> QED
  BY <1>10, <1>11

LEMMA CancelBooks ==
    ASSUME Inductive, Booked, NEW r \in Requests, WriteCancel(r), NEW d \in Documents, d = reg[r].doc
    PROVE  Recorded(d)'
<1>1. Recorded(d) /\ journal \in Journals /\ status \in [Documents -> {"draft", "submitted", "cancelled"}]
  BY DEF Booked, Inductive, TypeOK, Journals
<1>2. status' = [status EXCEPT ![d] = "cancelled"] /\ unpriced' = unpriced
      /\ (PostReversal(d) \/ journal' = journal)
  BY DEF WriteCancel
<1>3. RowsOf(sle, d) # {} /\ \A p \in Pairs : Moves(sle', d, p) = Moves(sle, d, p)
  BY CancelMoves
<1>4. status[d] # "draft" /\ status'[d] = "cancelled"
  BY <1>1, <1>2, <1>3 DEF Recorded
<1>5. journal'[d] # << >> => journal'[d][1].type = "AUTO"
  <2>1. CASE journal' = journal
    BY <1>1, <2>1 DEF Recorded
  <2>2. CASE PostReversal(d)
    <3> DEFINE x == [type |-> "REVERSAL", amount |-> -Last(journal[d]).amount]
    <3>1. journal[d] # << >> /\ journal'[d] = Append(journal[d], x)
      BY <1>1, <2>2 DEF PostReversal, Journals
    <3>2. journal[d] \in Seq([type : {"AUTO", "REVERSAL"}, amount : Int])
      BY <1>1 DEF Journals
    <3>3. Len(journal[d]) \in Nat /\ Len(journal[d]) # 0
      BY <3>1, <3>2
    <3> HIDE DEF x
    <3>4. journal'[d][1] = journal[d][1]
      BY <3>1, <3>2, <3>3
    <3> QED
      BY <1>1, <3>1, <3>4 DEF Recorded
  <2> QED
    BY <1>2, <2>1, <2>2
<1>6. d \in unpriced' \/ journal'[d] # << >>
  <2>1. d \in unpriced \/ journal[d] # << >>
    BY <1>1, <1>4 DEF Recorded
  <2>2. PostReversal(d) => journal'[d] # << >>
    <3>1. journal[d] \in Seq([type : {"AUTO", "REVERSAL"}, amount : Int])
      BY <1>1 DEF Journals
    <3>2. PostReversal(d) => journal'[d] = Append(journal[d], [type |-> "REVERSAL", amount |-> -Last(journal[d]).amount])
      BY <1>1 DEF PostReversal, Journals
    <3>3. \A x : Append(journal[d], x) # << >>
      BY <3>1
    <3> QED
      BY <3>2, <3>3
  <2> QED
    BY <1>2, <2>1, <2>2
<1>7. (d \in unpriced => ~Counts(d))'
  BY <1>1, <1>2 DEF Recorded, Counts
<1> QED
  BY <1>1, <1>2, <1>3, <1>4, <1>5, <1>6, <1>7 DEF Recorded, Counts

(* The documents a step does not write.                                    *)
LEMMA OthersBooked ==
    ASSUME Booked, Inductive, NEW d \in Documents, Recorded(d)',
           \A e \in Documents : e # d =>
               /\ journal'[e] = journal[e] /\ status'[e] = status[e] /\ (e \in unpriced' <=> e \in unpriced)
               /\ Kept(sle, sle', e) /\ \A p \in Pairs : Moves(sle', e, p) = Moves(sle, e, p),
           NEW r \in Requests, reg' = [reg EXCEPT ![r] = Null]
    PROVE  Booked'
<1>1. ASSUME NEW e \in Documents PROVE Recorded(e)'
  <2>1. CASE e = d
    BY <2>1
  <2>2. CASE e # d
    <3>1. Recorded(e)
      BY DEF Booked
    <3> QED
      BY <2>2, <3>1, StillRecorded
  <2> QED
    BY <2>1, <2>2
<1>2. ASSUME NEW q \in Requests, reg'[q] # Null PROVE Planned(q)'
  <2>1. reg'[q] = reg[q] /\ reg[q] # Null
    BY <1>2 DEF Inductive, TypeOK
  <2>2. Planned(q)
    BY <2>1 DEF Booked
  <2> QED
    BY <2>1, <2>2 DEF Planned, Counts
<1> QED
  BY <1>1, <1>2 DEF Booked

LEMMA BookedStep ==
    ASSUME Inductive, Booked, [Next]_vars PROVE Booked'
<1>1. ASSUME UNCHANGED << sle, status, journal, unpriced >>, NEW e \in Documents PROVE Recorded(e)'
  <2>1. Recorded(e)
    BY DEF Booked
  <2>2. Kept(sle, sle', e) /\ \A p \in Pairs : Moves(sle', e, p) = Moves(sle, e, p)
    BY <1>1 DEF Kept, Untouched
  <2> QED
    BY <1>1, <2>1, <2>2, StillRecorded
<1>2. CASE UNCHANGED vars
  BY <1>1, <1>2 DEF vars, Booked, Planned, Counts
<1>3. ASSUME NEW r \in Requests, NEW d \in Documents, ReadForSubmit(r, d) PROVE Booked'
  <2>1. /\ reg' = [reg EXCEPT ![r] = [op |-> "submit", doc |-> d, intents |-> Intents(d),
                                      backdated |-> Backdated(d, PairsOf(Intents(d)))]]
        /\ UNCHANGED << sle, status, journal, unpriced >>
    BY <1>3 DEF ReadForSubmit
  <2> DEFINE e == [op |-> "submit", doc |-> d, intents |-> Intents(d),
                   backdated |-> Backdated(d, PairsOf(Intents(d)))]
  <2>2. e.doc = d /\ e.intents = Intents(d)
    OBVIOUS
  <2> HIDE DEF e
  <2>3. ~Counts(d) => \A p \in Pairs : Wants(Intents(d), p) = Total(d, p)
    BY OrderedIs DEF Inductive
  <2>4. ASSUME NEW q \in Requests, reg'[q] # Null PROVE Planned(q)'
    <3>1. CASE q = r
      <4>1. reg'[q] = e
        BY <2>1, <3>1 DEF e, Inductive, TypeOK
      <4> QED
        BY <2>2, <2>3, <4>1 DEF Planned, Counts
    <3>2. CASE q # r
      <4>1. reg'[q] = reg[q]
        BY <2>1, <3>2 DEF Inductive, TypeOK
      <4>2. Planned(q)
        BY <2>4, <4>1 DEF Booked
      <4> QED
        BY <4>1, <4>2 DEF Planned, Counts
    <3> QED
      BY <3>1, <3>2
  <2>5. \A f \in Documents : Recorded(f)'
    BY <1>1, <2>1
  <2> QED
    BY <2>4, <2>5 DEF Booked
<1>4. ASSUME NEW r \in Requests, NEW d \in Documents, ReadForCancel(r, d) PROVE Booked'
  <2> DEFINE e == [op |-> "cancel", doc |-> d, rows |-> LiveRowsOf(sle, d),
                   worth |-> Worth(sle, LiveRowsOf(sle, d))]
  <2>1. reg' = [reg EXCEPT ![r] = e] /\ UNCHANGED << sle, status, journal, unpriced >>
    BY <1>4 DEF ReadForCancel
  <2>2. e.op = "cancel"
    OBVIOUS
  <2> HIDE DEF e
  <2>3. ASSUME NEW q \in Requests, reg'[q] # Null PROVE Planned(q)'
    <3>1. CASE q = r
      <4>1. reg'[q].op = "cancel"
        BY <2>1, <2>2, <3>1 DEF Inductive, TypeOK
      <4> QED
        BY <4>1 DEF Planned
    <3>2. CASE q # r
      <4>1. reg'[q] = reg[q]
        BY <2>1, <3>2 DEF Inductive, TypeOK
      <4>2. Planned(q)
        BY <2>3, <4>1 DEF Booked
      <4> QED
        BY <4>1, <4>2 DEF Planned, Counts
    <3> QED
      BY <3>1, <3>2
  <2>4. \A f \in Documents : Recorded(f)'
    BY <1>1, <2>1
  <2> QED
    BY <2>3, <2>4 DEF Booked
<1>5. ASSUME NEW r \in Requests, WriteSubmit(r) PROVE Booked'
  <2>1. PICK d \in Documents : d = reg[r].doc
    BY <1>5 DEF Inductive, TypeOK, WriteSubmit
  <2>2. Recorded(d)'
    BY <1>5, <2>1, SubmitBooks
  <2>3. /\ Post(d, Difference(d, reg[r].intents, sle')) /\ status' = [status EXCEPT ![d] = "submitted"]
        /\ unpriced' = unpriced \/ unpriced' = unpriced \cup {d}
        /\ reg' = [reg EXCEPT ![r] = Null]
    BY <1>5, <2>1 DEF WriteSubmit
  <2>4. \A e \in Documents : e # d =>
          Kept(sle, sle', e) /\ \A p \in Pairs : Moves(sle', e, p) = Moves(sle, e, p)
    BY <1>5, <2>1, SubmitMoves
  <2>5. \A e \in Documents : e # d => journal'[e] = journal[e] /\ status'[e] = status[e]
    BY <2>3 DEF Post, Inductive, TypeOK
  <2> QED
    BY <2>2, <2>3, <2>4, <2>5, OthersBooked
<1>6. ASSUME NEW r \in Requests, WriteCancel(r) PROVE Booked'
  <2>1. PICK d \in Documents : d = reg[r].doc
    BY <1>6 DEF Inductive, TypeOK, WriteCancel
  <2>2. Recorded(d)'
    BY <1>6, <2>1, CancelBooks
  <2>3. /\ PostReversal(d) \/ journal' = journal
        /\ status' = [status EXCEPT ![d] = "cancelled"]
        /\ unpriced' = unpriced /\ reg' = [reg EXCEPT ![r] = Null]
    BY <1>6, <2>1 DEF WriteCancel
  <2>4. \A e \in Documents : e # d =>
          Kept(sle, sle', e) /\ \A p \in Pairs : Moves(sle', e, p) = Moves(sle, e, p)
    BY <1>6, <2>1, CancelMoves
  <2>5. \A e \in Documents : e # d => journal'[e] = journal[e] /\ status'[e] = status[e]
    BY <2>3 DEF PostReversal, Inductive, TypeOK
  <2> QED
    BY <2>2, <2>3, <2>4, <2>5, OthersBooked
<1>7. ASSUME NEW r \in Requests, Abort(r) PROVE Booked'
  <2>1. UNCHANGED << sle, status, journal, unpriced >> /\ reg' = [reg EXCEPT ![r] = Null]
    BY <1>7 DEF Abort
  <2>2. ASSUME NEW q \in Requests, reg'[q] # Null PROVE Planned(q)'
    <3>1. reg'[q] = reg[q] /\ reg[q] # Null
      BY <2>1, <2>2 DEF Inductive, TypeOK
    <3>2. Planned(q)
      BY <3>1 DEF Booked
    <3> QED
      BY <3>1, <3>2 DEF Planned, Counts
  <2>3. \A f \in Documents : Recorded(f)'
    BY <1>1, <2>1
  <2> QED
    BY <2>2, <2>3 DEF Booked
<1> QED
  BY <1>2, <1>3, <1>4, <1>5, <1>6, <1>7 DEF Next

LEMMA BooksInvariance == Spec => [](Inductive /\ Booked)
<1> QED
  BY InductiveInit, InductiveStep, BookedInit, BookedStep, PTL DEF Spec

(* THEOREM: an entry is posted once.  Whatever is submitted, cancelled and *)
(* replayed around it, and however many submits of it run at once, its     *)
(* rows together move what its lines order, unless a submit of it found    *)
(* nothing to post.                                                        *)
THEOREM EntriesPostOnce == Spec => []EntryPostedOnce
<1>1. Inductive /\ Booked => EntryPostedOnce
  <2> SUFFICES ASSUME Inductive, Booked, NEW d \in Documents, ~Counts(d), status[d] # "draft",
                      d \notin unpriced, NEW p \in Pairs
               PROVE  Moved(d, p) = Ordered(d, p)
    BY DEF EntryPostedOnce
  <2>1. Moves(sle, d, p) = Total(d, p)
    BY DEF Booked, Recorded
  <2>2. Ordered(d, p) = Total(d, p)
    BY OrderedIs DEF Inductive
  <2>3. Moved(d, p) = Moves(sle, d, p)
    BY DEF Moved, Moves, Of
  <2> QED
    BY <2>1, <2>2, <2>3
<1> QED
  BY <1>1, BooksInvariance, PTL

(* THEOREM: the general ledger follows the stock ledger.  The journals of  *)
(* a submitted document that no replay has rebuilt add up to what its rows *)
(* are worth, also where the plan was made before the locks.               *)
THEOREM BooksFollowStock == Spec => []BooksMatchStock
<1>1. Booked => BooksMatchStock
  BY DEF Booked, Recorded, BooksMatchStock, Rebuilt, Reversed, Carries
<1> QED
  BY <1>1, BooksInvariance, PTL

-----------------------------------------------------------------------------
(* What a change of a ledger leaves alone: the rows of d on the pair p.    *)
Same(old, new, d, p) ==
    Of(new, d, p) = Of(old, d, p) /\ \A i \in Of(old, d, p) : new[i] = old[i]

LEMMA SameTwice ==
    ASSUME NEW old, NEW log, NEW new, NEW d, NEW p, Same(old, log, d, p), Same(log, new, d, p)
    PROVE  Same(old, new, d, p)
BY DEF Same

LEMMA SameUntouched ==
    ASSUME NEW old, NEW new, NEW d, NEW p, Untouched(old, new, d)
    PROVE  Same(old, new, d, p)
BY DEF Same, Untouched, Of

(* A row of another document, or of another pair, changes nothing of it.   *)
LEMMA SameAppend ==
    ASSUME NEW log \in Ledger, NEW row \in Sle, row.time >= Time(row.doc), NEW d, NEW p,
           row.doc # d \/ row.pair # p
    PROVE  Same(log, Append(log, row), d, p)
<1> DEFINE new == Append(log, row)
           n == Len(log) + 1
<1>1. /\ new[n] = row /\ (\A i \in DOMAIN log : new[i] = log[i])
      /\ DOMAIN new = DOMAIN log \cup {n}
  BY LedgerGrows
<1>2. n \notin DOMAIN log
  BY LedgerRows
<1> HIDE DEF new, n
<1>3. Of(new, d, p) = Of(log, d, p)
  BY <1>1, <1>2 DEF Of, RowsOf
<1>4. \A i \in Of(log, d, p) : new[i] = log[i]
  BY <1>1 DEF Of, RowsOf
<1> QED
  BY <1>3, <1>4 DEF Same, new

LEMMA SameFlag ==
    ASSUME NEW log \in Ledger, NEW i \in DOMAIN log, NEW d, NEW p, log[i].doc # d \/ log[i].pair # p
    PROVE  Same(log, [log EXCEPT ![i].live = FALSE], d, p)
<1> DEFINE new == [log EXCEPT ![i].live = FALSE]
<1>1. DOMAIN new = DOMAIN log
  BY LedgerFlagged
<1>2. \A j \in DOMAIN log : new[j] = IF j = i THEN [log[j] EXCEPT !.live = FALSE] ELSE log[j]
  OBVIOUS
<1>3. log[i] \in Sle
  BY LedgerRows
<1>4. [log[i] EXCEPT !.live = FALSE].doc = log[i].doc /\ [log[i] EXCEPT !.live = FALSE].pair = log[i].pair
  BY <1>3 DEF Sle
<1> HIDE DEF new
<1>5. \A j \in DOMAIN log : new[j].doc = log[j].doc /\ new[j].pair = log[j].pair
  BY <1>2, <1>4
<1>6. Of(new, d, p) = Of(log, d, p) /\ i \notin Of(log, d, p)
  BY <1>1, <1>5 DEF Of, RowsOf
<1>7. \A j \in Of(log, d, p) : new[j] = log[j]
  BY <1>2, <1>6 DEF Of, RowsOf
<1> QED
  BY <1>6, <1>7 DEF Same, new

LEMMA SameCancel ==
    ASSUME NEW log \in Ledger, NEW i \in DOMAIN log, NEW d, NEW p, log[i].doc # d \/ log[i].pair # p
    PROVE  Same(log, CancelSle(log, i), d, p)
<1> DEFINE flagged == [log EXCEPT ![i].live = FALSE]
<1>1. PICK row \in Sle : /\ CancelSle(log, i) = Append(flagged, row)
                         /\ row.pair = log[i].pair /\ row.time = log[i].time + 1
                         /\ row.doc = log[i].doc
  BY CancelledRow
<1>2. flagged \in Ledger /\ Same(log, flagged, d, p)
  BY LedgerFlagged, SameFlag
<1> HIDE DEF flagged
<1>3. row.time >= Time(row.doc)
  <2>1. log[i].time \in Nat /\ log[i].doc \in Documents /\ log[i].time >= Time(log[i].doc)
    BY LedgerRows DEF Sle
  <2>2. Time(log[i].doc) \in Nat
    BY <2>1, EntriesAssumption DEF Time
  <2> QED
    BY <1>1, <2>1, <2>2
<1>4. Same(flagged, Append(flagged, row), d, p)
  BY <1>1, <1>2, <1>3, SameAppend
<1> QED
  BY <1>1, <1>2, <1>4, SameTwice

(* What a replay passes over: documents it skips, other pairs, and rows    *)
(* that lie no later than its start.                                       *)
Spared(log, d, p, q, t, skipped) ==
    d \in skipped \/ q # p \/ \A i \in Of(log, d, p) : log[i].time <= t

LEMMA StreamSpares ==
    ASSUME NEW log \in Ledger, NEW q, NEW t \in Int, NEW skipped, NEW d, NEW p,
           Spared(log, d, p, q, t, skipped), NEW k \in DOMAIN Stream(log, q, t, skipped)
    PROVE  LET i == Stream(log, q, t, skipped)[k] IN log[i].doc # d \/ log[i].pair # p
<1> DEFINE S == {i \in LiveRows(log, q) : log[i].time > t /\ log[i].doc \notin skipped}
           i == Stream(log, q, t, skipped)[k]
<1>1. S \in SUBSET DOMAIN log
  BY DEF LiveRows
<1>2. IsFiniteSet(S) /\ Timed(log, S)
  BY <1>1, LedgerRows
<1>3. i \in S
  <2>1. Stream(log, q, t, skipped) = InTimeOrder(log, S)
    BY DEF Stream
  <2> HIDE DEF S
  <2>2. InTimeOrder(log, S) \in Seq(S)
    BY <1>2, InOrder
  <2> QED
    BY <2>1, <2>2
<1> HIDE DEF i
<1>4. i \in DOMAIN log /\ log[i].pair = q /\ log[i].time > t /\ log[i].doc \notin skipped
  BY <1>3 DEF LiveRows
<1>5. log[i].time \in Nat
  BY <1>4, LedgerRows DEF Sle
<1>6. ASSUME log[i].doc = d, log[i].pair = p PROVE FALSE
  <2>1. i \in Of(log, d, p) /\ d \notin skipped /\ q = p
    BY <1>4, <1>6 DEF Of, RowsOf
  <2>2. log[i].time <= t
    BY <2>1 DEF Spared
  <2> QED
    BY <1>4, <1>5, <2>2
<1> QED
  BY <1>6 DEF i

LEMMA RepostSame ==
    ASSUME NEW log \in Ledger, NEW q, NEW t \in Int, NEW skipped, NEW d, NEW p,
           Spared(log, d, p, q, t, skipped)
    PROVE  Repost(log, q, t, skipped) \in Ledger /\ Same(log, Repost(log, q, t, skipped), d, p)
<1> DEFINE stream == Stream(log, q, t, skipped)
           V == {l \in Replaying(log, q, t) : Same(log, l, d, p)}
<1>1. stream \in Seq(DOMAIN log)
  BY StreamRows
<1>2. \A k \in DOMAIN stream :
          /\ stream[k] \in DOMAIN log /\ log[stream[k]].pair = q /\ log[stream[k]].time > t
          /\ log[stream[k]].doc # d \/ log[stream[k]].pair # p
          /\ Appendable(Again(log[stream[k]], k)) /\ Again(log[stream[k]], k).time >= t
          /\ Again(log[stream[k]], k).doc = log[stream[k]].doc /\ Again(log[stream[k]], k).pair = q
  BY StreamRow, StreamSpares
<1> HIDE DEF stream
<1>3. log \in V
  BY WithinSelf DEF Replaying, Same
<1>4. ASSUME NEW l \in V, NEW k \in DOMAIN stream PROVE CancelSle(l, stream[k]) \in V
  <2> DEFINE i == stream[k]
  <2>1. i \in DOMAIN log /\ log[i].pair = q /\ log[i].time > t /\ (log[i].doc # d \/ log[i].pair # p)
    BY <1>2
  <2> HIDE DEF i
  <2>2. l \in Replaying(log, q, t) /\ l \in Ledger /\ Same(log, l, d, p)
    BY DEF Replaying
  <2>3. CancelSle(l, i) \in Replaying(log, q, t) /\ i \in DOMAIN l
        /\ (l[i] = log[i] \/ l[i] = [log[i] EXCEPT !.live = FALSE])
    BY <2>1, <2>2, CancelInside
  <2>4. log[i] \in Sle
    BY <2>1, LedgerRows
  <2>5. l[i].doc = log[i].doc /\ l[i].pair = log[i].pair
    BY <2>3, <2>4 DEF Sle
  <2>6. Same(l, CancelSle(l, i), d, p)
    BY <2>1, <2>2, <2>3, <2>5, SameCancel
  <2>7. Same(log, CancelSle(l, i), d, p)
    BY <2>2, <2>6, SameTwice
  <2> QED
    BY <2>3, <2>7 DEF i
<1>5. ASSUME NEW l \in V, NEW k \in DOMAIN stream PROVE AppendSle(l, Again(log[stream[k]], k)) \in V
  <2> DEFINE x == Again(log[stream[k]], k)
  <2>1. Appendable(x) /\ x.pair = q /\ x.time >= t /\ (x.doc # d \/ x.pair # p)
    BY <1>2
  <2> HIDE DEF x
  <2>2. l \in Replaying(log, q, t) /\ l \in Ledger /\ Same(log, l, d, p)
    BY DEF Replaying
  <2>3. AppendSle(l, x) \in Replaying(log, q, t)
    BY <2>1, <2>2, AgainInside
  <2>4. PICK row \in Sle : /\ AppendSle(l, x) = Append(l, row)
                           /\ row.pair = x.pair /\ row.time = x.time /\ row.doc = x.doc
    BY <2>1, <2>2, AppendedRow
  <2>5. row.time >= Time(row.doc)
    BY <2>1, <2>4 DEF Appendable
  <2>6. Same(l, AppendSle(l, x), d, p)
    BY <2>1, <2>2, <2>4, <2>5, SameAppend
  <2>7. Same(log, AppendSle(l, x), d, p)
    BY <2>2, <2>6, SameTwice
  <2> QED
    BY <2>3, <2>7 DEF x
<1>6. Repost(log, q, t, skipped) = AppendAgain(CancelAll(log, stream), log, stream)
  BY DEF Repost, stream
<1> HIDE DEF V
<1>7. CancelAll(log, stream) \in V
  BY <1>1, <1>3, <1>4, CancelAllStays
<1>8. AppendAgain(CancelAll(log, stream), log, stream) \in V
  <2> DEFINE start == CancelAll(log, stream)
  <2> HIDE DEF start
  <2>1. AppendAgain(start, log, stream) \in V
    BY <1>1, <1>5, <1>7, AppendAgainStays DEF start
  <2> QED
    BY <2>1 DEF start
<1> QED
  BY <1>6, <1>8 DEF V, Replaying

LEMMA RepostAllSame ==
    ASSUME NEW log \in Ledger, NEW ps, IsFiniteSet(ps), NEW t \in Int, NEW skipped, NEW d, NEW p,
           \A q \in ps : Spared(log, d, p, q, t, skipped)
    PROVE  Same(log, RepostAll(log, ps, t, skipped), d, p)
<1> DEFINE V == {l \in Ledger : Same(log, l, d, p)}
<1>1. log \in V
  BY DEF Same
<1>2. ASSUME NEW l \in V, NEW q \in ps PROVE Repost(l, q, t, skipped) \in V
  <2>1. l \in Ledger /\ Same(log, l, d, p)
    OBVIOUS
  <2>2. Spared(l, d, p, q, t, skipped)
    <3>1. Spared(log, d, p, q, t, skipped)
      OBVIOUS
    <3> QED
      BY <2>1, <3>1 DEF Spared, Same
  <2>3. Repost(l, q, t, skipped) \in Ledger /\ Same(l, Repost(l, q, t, skipped), d, p)
    BY <2>1, <2>2, RepostSame
  <2> QED
    BY <2>1, <2>3, SameTwice
<1>3. RepostAll(log, ps, t, skipped) \in V
  <2> HIDE DEF V
  <2> QED
    BY <1>1, <1>2, RepostAllRuns
<1> QED
  BY <1>3

-----------------------------------------------------------------------------
(* A replay moves a row later, by less than the rows there are: rows never *)
(* drift further from the posting of their document than their number.     *)
Drifts(log) == \A i \in DOMAIN log : log[i].time <= Time(log[i].doc) + i

LEMMA DriftsAppend ==
    ASSUME NEW log \in Ledger, Drifts(log), NEW row \in Sle, row.time >= Time(row.doc),
           row.time <= Time(row.doc) + (Len(log) + 1)
    PROVE  Drifts(Append(log, row))
BY LedgerGrows DEF Drifts

LEMMA DriftsFlag ==
    ASSUME NEW log \in Ledger, Drifts(log), NEW new \in Ledger, DOMAIN new = DOMAIN log,
           \A i \in DOMAIN log : new[i] = log[i] \/ new[i] = [log[i] EXCEPT !.live = FALSE]
    PROVE  Drifts(new)
<1>1. \A e \in Sle : [e EXCEPT !.live = FALSE].time = e.time /\ [e EXCEPT !.live = FALSE].doc = e.doc
  BY DEF Sle
<1>2. \A i \in DOMAIN log : new[i].time = log[i].time /\ new[i].doc = log[i].doc
  BY <1>1, LedgerRows
<1> QED
  BY <1>2 DEF Drifts

LEMMA TimesType ==
    ASSUME NEW log \in Ledger, NEW i \in DOMAIN log
    PROVE  /\ log[i] \in Sle /\ log[i].time \in Nat /\ log[i].doc \in Documents /\ i \in Nat
           /\ Time(log[i].doc) \in Nat /\ log[i].time >= Time(log[i].doc)
<1>1. log[i] \in Sle /\ log[i].time >= Time(log[i].doc) /\ i \in Nat
  BY LedgerRows
<1>2. log[i].time \in Nat /\ log[i].doc \in Documents
  BY <1>1 DEF Sle
<1>3. Time(log[i].doc) \in Nat
  BY <1>2, EntriesAssumption DEF Time
<1> QED
  BY <1>1, <1>2, <1>3

LEMMA DriftsCancel ==
    ASSUME NEW log \in Ledger, Drifts(log), NEW i \in DOMAIN log
    PROVE  Drifts(CancelSle(log, i)) /\ Len(CancelSle(log, i)) = Len(log) + 1
<1> DEFINE flagged == [log EXCEPT ![i].live = FALSE]
<1>1. PICK row \in Sle : /\ CancelSle(log, i) = Append(flagged, row)
                         /\ row.pair = log[i].pair /\ row.time = log[i].time + 1
                         /\ row.doc = log[i].doc
  BY CancelledRow
<1>2. flagged \in Ledger /\ DOMAIN flagged = DOMAIN log /\ Len(flagged) = Len(log)
  BY LedgerFlagged
<1>3. \A j \in DOMAIN log : flagged[j] = log[j] \/ flagged[j] = [log[j] EXCEPT !.live = FALSE]
  OBVIOUS
<1> HIDE DEF flagged
<1>4. Drifts(flagged)
  BY <1>2, <1>3, DriftsFlag
<1>5. log[i].time <= Time(log[i].doc) + i
  BY DEF Drifts
<1>6. i <= Len(log) /\ Len(log) \in Nat
  BY LedgerRows
<1>7. row.time >= Time(row.doc) /\ row.time <= Time(row.doc) + (Len(flagged) + 1)
  BY <1>1, <1>2, <1>5, <1>6, TimesType
<1> QED
  BY <1>1, <1>2, <1>4, <1>7, DriftsAppend, LedgerGrows

LEMMA StillThere ==
    ASSUME NEW log \in Ledger, NEW p, NEW t, NEW l \in Replaying(log, p, t), NEW i \in DOMAIN log
    PROVE  i \in DOMAIN l
<1>1. l \in Ledger /\ Len(l) >= Len(log)
  BY DEF Replaying, Within
<1> QED
  BY <1>1, LedgerRows

(* Every cancelled row is followed by one reversal.                        *)
LEMMA CancelLength ==
    ASSUME NEW log \in Ledger, NEW p, NEW t \in Int, NEW skipped,
           NEW F \in [SUBSET DOMAIN Stream(log, p, t, skipped) -> Replaying(log, p, t)],
           Cancels(F, log, Stream(log, p, t, skipped))
    PROVE  LET S == DOMAIN Stream(log, p, t, skipped)
           IN Len(F[S]) = Len(log) + Cardinality(S)
<1> DEFINE stream == Stream(log, p, t, skipped)
           S == DOMAIN stream
           Wrong == {T \in SUBSET S : Len(F[T]) # Len(log) + Cardinality(T)}
<1>1. stream \in Seq(DOMAIN log) /\ IsFiniteSet(S)
  BY StreamRows, Positions
<1>2. \A k \in S : stream[k] \in DOMAIN log /\ log[stream[k]].pair = p /\ log[stream[k]].time > t
  BY StreamRow
<1>3. F[{}] = log /\ \A T \in SUBSET S : T # {} => \E k \in T : F[T] = CancelSle(F[T \ {k}], stream[k])
  BY DEF Cancels
<1>4. F \in [SUBSET S -> Replaying(log, p, t)]
  OBVIOUS
<1> HIDE DEF stream, S
<1>5. Wrong = {}
  <2>1. SUFFICES ASSUME Wrong # {} PROVE FALSE
    OBVIOUS
  <2>2. Wrong \subseteq SUBSET S
    OBVIOUS
  <2>3. PICK T \in Wrong : \A U \in Wrong : U \subseteq T => U = T
    <3> HIDE DEF Wrong
    <3> QED
      BY <1>1, <2>1, <2>2, SmallestSubset
  <2>4. T # {}
    <3>1. Len(F[{}]) = Len(log) + Cardinality({})
      BY <1>3, LedgerRows, FS_EmptySet
    <3> QED
      BY <3>1
  <2>5. PICK k \in T : F[T] = CancelSle(F[T \ {k}], stream[k])
    BY <1>3, <2>4
  <2> DEFINE l == F[T \ {k}]
  <2>6. l \in Replaying(log, p, t) /\ l \in Ledger /\ k \in S
    BY <1>4, <2>2 DEF Replaying
  <2>7. Len(l) = Len(log) + Cardinality(T \ {k})
    BY <2>3
  <2>8. IsFiniteSet(T) /\ Cardinality(T \ {k}) = Cardinality(T) - 1 /\ Cardinality(T) \in Nat
    BY <1>1, FS_Subset, FS_RemoveElement, FS_CardinalityType
  <2>9. stream[k] \in DOMAIN l
    BY <1>2, <2>6, StillThere
  <2>10. F[T] = CancelSle(l, stream[k])
    BY <2>5
  <2> HIDE DEF l
  <2>11. Len(CancelSle(l, stream[k])) = Len(l) + 1
    <3>1. PICK row \in Sle : /\ CancelSle(l, stream[k]) = Append([l EXCEPT ![stream[k]].live = FALSE], row)
                             /\ row.time = l[stream[k]].time + 1 /\ row.doc = l[stream[k]].doc
      BY <2>6, <2>9, CancelledRow
    <3>2. [l EXCEPT ![stream[k]].live = FALSE] \in Ledger /\ Len([l EXCEPT ![stream[k]].live = FALSE]) = Len(l)
      BY <2>6, <2>9, LedgerFlagged
    <3>3. row.time >= Time(row.doc)
      BY <2>6, <2>9, <3>1, TimesType
    <3> QED
      BY <3>1, <3>2, <3>3, LedgerGrows
  <2>12. Len(F[T]) = Len(log) + Cardinality(T)
    BY <2>7, <2>8, <2>10, <2>11, LedgerRows
  <2> QED
    BY <2>12
<1>6. Len(F[S]) = Len(log) + Cardinality(S)
  BY <1>5
<1> QED
  BY <1>6 DEF S, stream

LEMMA RepostDrifts ==
    ASSUME NEW log \in Ledger, Drifts(log), NEW p, NEW t \in Int, NEW skipped
    PROVE  Repost(log, p, t, skipped) \in Ledger /\ Drifts(Repost(log, p, t, skipped))
<1> DEFINE stream == Stream(log, p, t, skipped)
           S == DOMAIN stream
           R == Replaying(log, p, t)
           n == Len(log) + Cardinality(S)
           V == {l \in R : Drifts(l)}
           W == {l \in V : Len(l) >= n}
<1>1. stream \in Seq(DOMAIN log) /\ IsFiniteSet(S)
  BY StreamRows, Positions
<1>2. \A k \in S :
          /\ stream[k] \in DOMAIN log /\ log[stream[k]].pair = p /\ log[stream[k]].time > t
          /\ Appendable(Again(log[stream[k]], k)) /\ Again(log[stream[k]], k).time >= t
          /\ Again(log[stream[k]], k).doc = log[stream[k]].doc /\ Again(log[stream[k]], k).pair = p
  BY StreamRow
<1>3. ASSUME NEW l \in R, NEW k \in S PROVE CancelSle(l, stream[k]) \in R /\ stream[k] \in DOMAIN l
  <2> DEFINE i == stream[k]
  <2>1. i \in DOMAIN log /\ log[i].pair = p /\ log[i].time > t
    BY <1>2
  <2> HIDE DEF i
  <2>2. CancelSle(l, i) \in R /\ i \in DOMAIN l
    BY <2>1, CancelInside
  <2> QED
    BY <2>2 DEF i
<1>4. Len(CancelAll(log, stream)) = n
  <2>1. log \in R
    BY WithinSelf DEF Replaying
  <2>2. PICK F \in [SUBSET S -> R] : CancelAll(log, stream) = F[S] /\ Cancels(F, log, stream)
    <3> HIDE DEF stream, R
    <3> QED
      BY <1>1, <1>3, <2>1, CancelAllRuns, Zenon
  <2>3. Len(F[S]) = n
    BY <2>2, CancelLength
  <2> QED
    BY <2>2, <2>3
<1>5. \A k \in S : k \in Nat /\ k >= 1 /\ k <= Cardinality(S)
  <2>1. S = 1..Len(stream) /\ Len(stream) \in Nat
    BY <1>1
  <2>2. Cardinality(1..Len(stream)) = Len(stream)
    BY <2>1, FS_Interval
  <2> QED
    BY <2>1, <2>2
<1>6. Cardinality(S) \in Nat /\ Len(log) \in Nat
  BY <1>1, FS_CardinalityType, LedgerRows
<1>7. \A l \in R : l \in Ledger
  BY DEF Replaying
<1>8. log \in V
  BY WithinSelf DEF Replaying
<1>9. ASSUME NEW l \in V, NEW k \in S PROVE CancelSle(l, stream[k]) \in V
  <2>1. CancelSle(l, stream[k]) \in R /\ stream[k] \in DOMAIN l
    BY <1>3
  <2>2. Drifts(CancelSle(l, stream[k]))
    BY <1>7, <2>1, DriftsCancel
  <2> QED
    BY <2>1, <2>2
<1> HIDE DEF stream, S, R
<1>10. CancelAll(log, stream) \in V
  <2> HIDE DEF V
  <2> QED
    BY <1>1, <1>8, <1>9, CancelAllStays DEF S
<1>11. ASSUME NEW l \in W, NEW k \in S PROVE AppendSle(l, Again(log[stream[k]], k)) \in W
  <2> DEFINE x == Again(log[stream[k]], k)
             i == stream[k]
  <2>1. /\ Appendable(x) /\ x.pair = p /\ x.time >= t /\ x.doc = log[i].doc /\ i \in DOMAIN log
        /\ x.time = log[i].time + (k - 1)
    <3>1. log[i] \in Sle
      BY <1>2, LedgerRows
    <3>2. x.time = log[i].time + (k - 1)
      BY <3>1 DEF Again, Sle
    <3> QED
      BY <1>2, <3>2
  <2> HIDE DEF x, i
  <2>2. l \in R /\ l \in Ledger /\ Drifts(l) /\ Len(l) >= n
    BY <1>7
  <2>3. AppendSle(l, x) \in R
    BY <2>1, <2>2, AgainInside DEF R
  <2>4. PICK row \in Sle : /\ AppendSle(l, x) = Append(l, row)
                           /\ row.pair = x.pair /\ row.time = x.time /\ row.doc = x.doc
    BY <2>1, <2>2, AppendedRow
  <2>5. row.time >= Time(row.doc)
    BY <2>1, <2>4 DEF Appendable
  <2>6. log[i].time <= Time(log[i].doc) + i /\ i <= Len(log)
    BY <2>1, LedgerRows DEF Drifts
  <2>7. row.time <= Time(row.doc) + (Len(l) + 1)
    <3>1. row.time = log[i].time + (k - 1) /\ Time(row.doc) = Time(log[i].doc)
      BY <2>1, <2>4
    <3>2. log[i].time \in Nat /\ Time(log[i].doc) \in Nat /\ i \in Nat
      BY <2>1, TimesType
    <3>3. Len(l) \in Nat
      BY <2>2, LedgerRows
    <3> QED
      BY <1>5, <1>6, <2>2, <2>6, <3>1, <3>2, <3>3
  <2>8. Drifts(AppendSle(l, x)) /\ Len(AppendSle(l, x)) = Len(l) + 1
    BY <2>2, <2>4, <2>5, <2>7, DriftsAppend, LedgerGrows
  <2>9. Len(AppendSle(l, x)) >= n
    BY <1>6, <2>2, <2>8, LedgerRows
  <2> QED
    BY <2>3, <2>8, <2>9 DEF x, i
<1>12. CancelAll(log, stream) \in W
  BY <1>4, <1>6, <1>10
<1>13. AppendAgain(CancelAll(log, stream), log, stream) \in W
  <2> DEFINE start == CancelAll(log, stream)
  <2> HIDE DEF start, W
  <2>1. AppendAgain(start, log, stream) \in W
    BY <1>1, <1>11, <1>12, AppendAgainStays DEF start, S
  <2> QED
    BY <2>1 DEF start
<1>14. Repost(log, p, t, skipped) = AppendAgain(CancelAll(log, stream), log, stream)
  BY DEF Repost, stream
<1> QED
  BY <1>7, <1>13, <1>14

-----------------------------------------------------------------------------
(* Appending the legs of a document leaves the rows that are there.        *)
Extends(old, new, d) ==
    /\ Len(new) >= Len(old)
    /\ \A i \in DOMAIN old : new[i] = old[i]
    /\ \A i \in DOMAIN new \ DOMAIN old : new[i].doc = d

Extended(log, d) == {l \in Ledger : Extends(log, l, d)}

LEMMA ExtendRow ==
    ASSUME NEW log \in Ledger, NEW d, NEW l \in Extended(log, d),
           NEW row \in Sle, row.doc = d, row.time >= Time(row.doc)
    PROVE  Append(l, row) \in Extended(log, d)
<1>1. l \in Ledger /\ Extends(log, l, d)
  BY DEF Extended
<1> DEFINE new == Append(l, row)
<1>2. /\ new \in Ledger /\ Len(new) = Len(l) + 1 /\ new[Len(l) + 1] = row
      /\ \A i \in DOMAIN l : new[i] = l[i]
      /\ DOMAIN new = DOMAIN l \cup {Len(l) + 1}
  BY <1>1, LedgerGrows
<1> HIDE DEF new
<1>3. Len(l) \in Nat /\ Len(log) \in Nat /\ DOMAIN l = 1..Len(l) /\ DOMAIN log = 1..Len(log)
  BY <1>1, LedgerRows
<1>4. Len(new) >= Len(log) /\ DOMAIN log \subseteq DOMAIN l
  BY <1>1, <1>2, <1>3 DEF Extends
<1>5. Extends(log, new, d)
  BY <1>1, <1>2, <1>4 DEF Extends
<1> QED
  BY <1>2, <1>5 DEF Extended, new

LEMMA AppendExtends ==
    ASSUME NEW log \in Ledger, NEW d, NEW xs, Postable(d, xs)
    PROVE  AppendAll(log, d, xs) \in Extended(log, d)
<1>1. log \in Extended(log, d)
  BY LedgerRows DEF Extended, Extends
<1>2. ASSUME NEW l \in Extended(log, d), NEW k \in DOMAIN xs
      PROVE  AppendFor(d, l, xs[k]) \in Extended(log, d)
  <2>1. l \in Ledger /\ Appendable(xs[k]) /\ xs[k].doc = d
    BY PostedLegs DEF Extended
  <2>2. PICK row \in Sle : /\ AppendFor(d, l, xs[k]) = Append(l, row)
                           /\ row.time = xs[k].time /\ row.doc = xs[k].doc
    BY <2>1, AppendedFor
  <2>3. row.time >= Time(row.doc) /\ row.doc = d
    BY <2>1, <2>2 DEF Appendable
  <2> QED
    BY <2>2, <2>3, ExtendRow
<1>3. xs \in Seq(Leg)
  BY PostedLegs
<1> QED
  BY <1>1, <1>2, <1>3, AppendAllStays

(* Every leg is given a row.                                               *)
Given(log, new, d, x) ==
    \E i \in DOMAIN new \ DOMAIN log : new[i].doc = d /\ new[i].pair = x.pair

LEMMA AppendGives ==
    ASSUME NEW log \in Ledger, NEW d, NEW xs, Postable(d, xs)
    PROVE  \A k \in DOMAIN xs : Given(log, AppendAll(log, d, xs), d, xs[k])
<1> DEFINE S == DOMAIN xs
           V == Extended(log, d)
<1>1. xs \in Seq(Leg) /\ IsFiniteSet(S) /\ log \in V
  BY PostedLegs, LedgerRows DEF Extended, Extends
<1>2. ASSUME NEW l \in V, NEW k \in S
      PROVE  /\ AppendFor(d, l, xs[k]) \in V
             /\ Given(log, AppendFor(d, l, xs[k]), d, xs[k])
             /\ \A j \in S : Given(log, l, d, xs[j]) => Given(log, AppendFor(d, l, xs[k]), d, xs[j])
  <2>1. l \in Ledger /\ Appendable(xs[k]) /\ xs[k].doc = d /\ Len(l) >= Len(log)
    BY PostedLegs DEF Extended, Extends
  <2>2. PICK row \in Sle : /\ AppendFor(d, l, xs[k]) = Append(l, row) /\ row.pair = xs[k].pair
                           /\ row.time = xs[k].time /\ row.doc = xs[k].doc
    BY <2>1, AppendedFor
  <2>3. row.time >= Time(row.doc) /\ row.doc = d
    BY <2>1, <2>2 DEF Appendable
  <2>4. Append(l, row) \in V
    BY <2>3, ExtendRow
  <2> DEFINE new == Append(l, row)
             n == Len(l) + 1
  <2>5. /\ new[n] = row /\ \A i \in DOMAIN l : new[i] = l[i]
        /\ DOMAIN new = DOMAIN l \cup {n}
    BY <2>1, <2>3, LedgerGrows
  <2>6. n \notin DOMAIN log
    BY <2>1, LedgerRows
  <2> HIDE DEF new, n
  <2>7. Given(log, new, d, xs[k])
    BY <2>2, <2>3, <2>5, <2>6 DEF Given
  <2>8. \A j \in S : Given(log, l, d, xs[j]) => Given(log, new, d, xs[j])
    BY <2>5 DEF Given
  <2> QED
    BY <2>2, <2>4, <2>7, <2>8 DEF new
<1>3. PICK F \in [SUBSET S -> V] : AppendAll(log, d, xs) = F[S] /\ Appends(F, d, log, xs)
  <2> HIDE DEF V
  <2>1. \A l \in V : \A k \in DOMAIN xs : AppendFor(d, l, xs[k]) \in V
    BY <1>2
  <2> QED
    BY <1>1, <2>1, AppendAllRuns, Zenon
<1>4. \A T \in SUBSET S : T # {} => \E k \in T : F[T] = AppendFor(d, F[T \ {k}], xs[k])
  BY <1>3 DEF Appends
<1> DEFINE Wrong == {T \in SUBSET S : \E j \in T : ~Given(log, F[T], d, xs[j])}
<1> HIDE DEF S, V
<1>5. Wrong = {}
  <2>1. SUFFICES ASSUME Wrong # {} PROVE FALSE
    OBVIOUS
  <2>2. Wrong \subseteq SUBSET S
    OBVIOUS
  <2>3. PICK T \in Wrong : \A U \in Wrong : U \subseteq T => U = T
    <3> HIDE DEF Wrong
    <3> QED
      BY <1>1, <2>1, <2>2, SmallestSubset
  <2>4. T # {} /\ T \in SUBSET S
    OBVIOUS
  <2>5. PICK k \in T : F[T] = AppendFor(d, F[T \ {k}], xs[k])
    BY <1>4, <2>4
  <2>6. F[T \ {k}] \in V /\ k \in S
    BY <2>4
  <2>7. \A j \in T \ {k} : Given(log, F[T \ {k}], d, xs[j])
    BY <2>3
  <2>8. \A j \in T : Given(log, F[T], d, xs[j])
    BY <1>2, <2>4, <2>5, <2>6, <2>7
  <2> QED
    BY <2>8
<1> QED
  BY <1>3, <1>5 DEF S

(* What a submit writes, before and after its replay.                      *)
LEMMA SubmitWrites ==
    ASSUME Inductive, NEW r \in Requests, WriteSubmit(r), NEW d \in Documents, d = reg[r].doc
    PROVE  LET xs == reg[r].intents
               added == AppendAll(sle, d, xs)
           IN /\ Postable(d, xs) /\ IsFiniteSet(PairsOf(xs)) /\ Time(d) \in Int
              /\ sle \in Ledger /\ added \in Extended(sle, d) /\ added \in Ledger
              /\ sle' = added \/ sle' = RepostAll(added, PairsOf(xs), Time(d), Skipped(d))
<1> DEFINE xs == reg[r].intents
           added == AppendAll(sle, d, xs)
<1>1. xs \in Posting(d) /\ sle \in Ledger /\ Time(d) \in Nat
  BY EntriesAssumption DEF Inductive, TypeOK, Fits, WriteSubmit, Time
<1>2. /\ \A k \in DOMAIN xs : xs[k].in # Null => xs[k].in >= 0
      /\ sle' = added \/ sle' = RepostAll(added, PairsOf(xs), Time(d), Skipped(d))
  BY DEF WriteSubmit
<1> HIDE DEF xs, added
<1>3. xs \in Seq(Leg) /\ \A k \in DOMAIN xs : xs[k] \in Leg /\ xs[k].time = Time(d) /\ xs[k].doc = d
  BY <1>1 DEF Posting
<1>4. ASSUME NEW k \in DOMAIN xs PROVE Appendable(xs[k])
  <2>1. xs[k] \in Leg /\ xs[k].time = Time(d) /\ xs[k].doc = d
    BY <1>3
  <2>2. xs[k].in \in Nat \cup {Null}
    BY <1>2, <2>1 DEF Leg
  <2> QED
    BY <1>1, <2>1, <2>2 DEF Leg, Appendable
<1>5. Postable(d, xs)
  BY <1>1, <1>4 DEF Postable
<1>6. IsFiniteSet(PairsOf(xs))
  BY <1>3, Positions, FinitePairs DEF PairsOf
<1>7. added \in Extended(sle, d)
  BY <1>1, <1>5, AppendExtends DEF added
<1> QED
  BY <1>1, <1>2, <1>5, <1>6, <1>7 DEF xs, added, Extended

LEMMA AppendDrifts ==
    ASSUME NEW log \in Ledger, Drifts(log), NEW d \in Documents, NEW xs, Postable(d, xs)
    PROVE  AppendAll(log, d, xs) \in Ledger /\ Drifts(AppendAll(log, d, xs))
<1> DEFINE V == {l \in Ledger : Drifts(l)}
<1>1. ASSUME NEW l \in V, NEW k \in DOMAIN xs PROVE AppendFor(d, l, xs[k]) \in V
  <2>1. l \in Ledger /\ Drifts(l) /\ Appendable(xs[k]) /\ xs[k].doc = d /\ xs[k].time = Time(d)
    BY PostedLegs DEF Postable, Posting
  <2>2. PICK row \in Sle : /\ AppendFor(d, l, xs[k]) = Append(l, row)
                           /\ row.time = xs[k].time /\ row.doc = xs[k].doc
    BY <2>1, AppendedFor
  <2>3. Time(d) \in Nat /\ Len(l) \in Nat
    BY <2>1, LedgerRows, EntriesAssumption DEF Time
  <2>4. row.time >= Time(row.doc) /\ row.time <= Time(row.doc) + (Len(l) + 1)
    BY <2>1, <2>2, <2>3
  <2> QED
    BY <2>1, <2>2, <2>4, DriftsAppend, LedgerGrows
<1>2. xs \in Seq(Leg) /\ log \in V
  BY PostedLegs
<1>3. AppendAll(log, d, xs) \in V
  <2> HIDE DEF V
  <2> QED
    BY <1>1, <1>2, AppendAllStays
<1> QED
  BY <1>3

LEMMA RepostAllDrifts ==
    ASSUME NEW log \in Ledger, Drifts(log), NEW ps, IsFiniteSet(ps), NEW t \in Int, NEW skipped
    PROVE  Drifts(RepostAll(log, ps, t, skipped))
<1> DEFINE V == {l \in Ledger : Drifts(l)}
<1>1. ASSUME NEW l \in V, NEW p \in ps PROVE Repost(l, p, t, skipped) \in V
  BY RepostDrifts
<1>2. RepostAll(log, ps, t, skipped) \in V
  <2>1. log \in V
    OBVIOUS
  <2> HIDE DEF V
  <2> QED
    BY <1>1, <2>1, RepostAllRuns
<1> QED
  BY <1>2

(* The rows of a ledger lie near the posting of their documents.           *)
Paced == Len(sle) <= MaxRows /\ Drifts(sle)

LEMMA SubmitPaced ==
    ASSUME Inductive, Paced, NEW r \in Requests, WriteSubmit(r)
    PROVE  Paced'
<1>1. PICK d \in Documents : d = reg[r].doc
  BY DEF Inductive, TypeOK, WriteSubmit
<1> DEFINE xs == reg[r].intents
           added == AppendAll(sle, d, xs)
<1>2. /\ Postable(d, xs) /\ IsFiniteSet(PairsOf(xs)) /\ Time(d) \in Int /\ sle \in Ledger
      /\ sle' = added \/ sle' = RepostAll(added, PairsOf(xs), Time(d), Skipped(d))
  BY <1>1, SubmitWrites
<1> HIDE DEF xs
<1>3. added \in Ledger /\ Drifts(added)
  BY <1>2, AppendDrifts DEF Paced
<1> HIDE DEF added
<1>4. Drifts(sle')
  BY <1>2, <1>3, RepostAllDrifts
<1>5. Len(sle') <= MaxRows
  BY DEF WriteSubmit
<1> QED
  BY <1>4, <1>5 DEF Paced

(* A cancel flags its rows and replays the pairs from the first of them.   *)
LEMMA CancelWrites ==
    ASSUME Inductive, NEW r \in Requests, WriteCancel(r), NEW d \in Documents, d = reg[r].doc
    PROVE  LET kept == Flagged(sle, reg[r].rows)
               ps == {sle[i].pair : i \in reg[r].rows}
           IN /\ sle \in Ledger /\ kept \in Ledger /\ IsFiniteSet(ps) /\ Time(d) \in Int
              /\ \A i \in reg[r].rows : i \in DOMAIN sle /\ sle[i].doc = d
              /\ \E first \in Int : /\ first >= Time(d) /\ sle' = RepostAll(kept, ps, first, {})
                                    /\ \A i \in reg[r].rows : first <= sle[i].time
<1> DEFINE rows == reg[r].rows
           ps == {sle[i].pair : i \in rows}
           times == {sle[i].time : i \in rows}
           first == CHOOSE t \in times : \A i \in rows : t <= sle[i].time
           kept == Flagged(sle, rows)
<1>1. rows \in SUBSET DOMAIN sle /\ rows # {} /\ sle \in Ledger /\ Time(d) \in Nat
      /\ \A i \in rows : sle[i].doc = d
  BY EntriesAssumption DEF Inductive, TypeOK, Fits, WriteCancel, Time
<1>2. sle' = RepostAll(kept, ps, first, {})
  BY DEF WriteCancel
<1> HIDE DEF rows
<1>3. first \in Int /\ first >= Time(d) /\ \A i \in rows : first <= sle[i].time
  <2>1. IsFiniteSet(rows) /\ \A i \in rows : sle[i].time >= Time(d) /\ sle[i].time \in Nat
    BY <1>1, LedgerRows, TimesType
  <2>2. \E m \in rows : \A i \in rows : sle[m].time <= sle[i].time
    BY <1>1, <2>1, Earliest
  <2>3. \E t \in times : \A i \in rows : t <= sle[i].time
    BY <2>2
  <2>4. first \in times /\ \A i \in rows : first <= sle[i].time
    BY <2>3
  <2> HIDE DEF first
  <2> QED
    BY <2>1, <2>4
<1> HIDE DEF first
<1>4. IsFiniteSet(ps)
  BY <1>1, LedgerRows, FinitePairs
<1> HIDE DEF ps
<1>5. kept \in Ledger
  BY <1>1, FlaggedRows
<1> HIDE DEF kept
<1> QED
  BY <1>1, <1>2, <1>3, <1>4, <1>5 DEF ps, rows, kept

LEMMA CancelPaced ==
    ASSUME Inductive, Paced, NEW r \in Requests, WriteCancel(r)
    PROVE  Paced'
<1>1. PICK d \in Documents : d = reg[r].doc
  BY DEF Inductive, TypeOK, WriteCancel
<1> DEFINE rows == reg[r].rows
           kept == Flagged(sle, rows)
           ps == {sle[i].pair : i \in rows}
<1>2. /\ sle \in Ledger /\ kept \in Ledger /\ IsFiniteSet(ps)
      /\ \A i \in rows : i \in DOMAIN sle
      /\ \E first \in Int : sle' = RepostAll(kept, ps, first, {})
  BY <1>1, CancelWrites
<1> HIDE DEF rows, ps
<1>3. Drifts(kept)
  <2>1. /\ DOMAIN kept = DOMAIN sle
        /\ \A i \in DOMAIN sle : kept[i] = sle[i] \/ kept[i] = [sle[i] EXCEPT !.live = FALSE]
    BY <1>2 DEF Flagged
  <2> HIDE DEF kept
  <2> QED
    BY <1>2, <2>1, DriftsFlag DEF Paced
<1> HIDE DEF kept
<1>4. Drifts(sle')
  BY <1>2, <1>3, RepostAllDrifts
<1>5. Len(sle') <= MaxRows
  BY DEF WriteCancel
<1> QED
  BY <1>4, <1>5 DEF Paced

-----------------------------------------------------------------------------
LEMMA SameLatest ==
    ASSUME NEW old \in Ledger, NEW new, NEW S \in SUBSET DOMAIN old, \A i \in S : new[i] = old[i]
    PROVE  Latest(new, S) = Latest(old, S)
<1>1. CASE S = {}
  BY <1>1 DEF Latest
<1>2. CASE S # {}
  <2> DEFINE top == CHOOSE i \in S : \A j \in S : Later(old, i, j)
  <2>1. ASSUME NEW i
        PROVE  (i \in S /\ \A j \in S : Later(new, i, j)) <=> (i \in S /\ \A j \in S : Later(old, i, j))
    BY DEF Later
  <2>2. (CHOOSE i \in S : \A j \in S : Later(new, i, j)) = top
    BY <2>1, Zenon
  <2>3. PICK last \in S : \A j \in S : Later(old, last, j)
    BY <1>2, LedgerRows, LatestRow
  <2>4. top \in S
    BY <2>3
  <2>5. Latest(old, S) = old[top]
    BY <1>2 DEF Latest
  <2>6. Latest(new, S) = new[CHOOSE i \in S : \A j \in S : Later(new, i, j)]
    BY <1>2 DEF Latest
  <2> HIDE DEF top
  <2> QED
    BY <2>2, <2>4, <2>5, <2>6
<1> QED
  BY <1>1, <1>2

(* A pair that the document has no rows on yet is as it was before.        *)
LEMMA SameLast ==
    ASSUME NEW log \in Ledger, NEW d, NEW l \in Extended(log, d), NEW p, Of(l, d, p) = {}, NEW t
    PROVE  LastAt(l, p, t) = LastAt(log, p, t)
<1> DEFINE S == {i \in LiveRows(log, p) : log[i].time <= t}
<1>1. l \in Ledger /\ Len(l) >= Len(log) /\ (\A i \in DOMAIN log : l[i] = log[i])
      /\ \A i \in DOMAIN l \ DOMAIN log : l[i].doc = d
  BY DEF Extended, Extends
<1>2. DOMAIN log \subseteq DOMAIN l
  BY <1>1, LedgerRows
<1>3. LiveRows(l, p) = LiveRows(log, p)
  <2>1. ASSUME NEW i \in LiveRows(l, p) PROVE i \in DOMAIN log
    <3>1. i \in DOMAIN l /\ l[i].pair = p
      BY DEF LiveRows
    <3>2. i \notin DOMAIN log => i \in Of(l, d, p)
      BY <1>1, <3>1 DEF Of, RowsOf
    <3> QED
      BY <3>2
  <2> QED
    BY <1>1, <1>2, <2>1 DEF LiveRows
<1>4. {i \in LiveRows(l, p) : l[i].time <= t} = S
  BY <1>1, <1>3 DEF LiveRows
<1>5. S \in SUBSET DOMAIN log
  BY DEF LiveRows
<1> HIDE DEF S
<1>6. Latest(l, S) = Latest(log, S)
  BY <1>1, <1>5, SameLatest
<1> QED
  BY <1>4, <1>6 DEF LastAt, S

(* The row a count is given.                                               *)
LEMMA CountedRow ==
    ASSUME NEW log \in Ledger, NEW d, Counts(d), NEW x, Appendable(x)
    PROVE  LET v == Counted(LastAt(log, x.pair, x.time), x)
           IN \E row \in Sle : /\ AppendFor(d, log, x) = Append(log, row)
                               /\ row.pair = x.pair /\ row.time = x.time /\ row.doc = x.doc
                               /\ row.live /\ row.after = v.after /\ row.rate = v.rate
                               /\ row.qty = x.qty /\ row.value = x.value
<1> DEFINE prev == LastAt(log, x.pair, x.time)
           v == Counted(prev, x)
<1>1. PICK row \in Sle : /\ AppendFor(d, log, x) = Append(log, row)
                         /\ row.pair = x.pair /\ row.time = x.time /\ row.doc = x.doc /\ row.live
                         /\ row.qty = x.qty /\ row.value = x.value
  BY AppendedFor
<1> DEFINE made == [pair |-> x.pair, time |-> x.time, doc |-> x.doc, qty |-> x.qty,
                    in |-> x.in, rate |-> v.rate, value |-> v.value,
                    before |-> prev.after, after |-> v.after, live |-> TRUE, reversal |-> FALSE]
<1>2. AppendFor(d, log, x) = Append(log, made)
  BY DEF AppendFor, AppendRow
<1>3. made.after = v.after /\ made.rate = v.rate
  OBVIOUS
<1> HIDE DEF v, made
<1>4. Append(log, made) = Append(log, row)
  BY <1>1, <1>2
<1>5. Append(log, made)[Len(log) + 1] = made /\ Append(log, row)[Len(log) + 1] = row
  <2>1. log \in Seq(Sle) /\ Len(log) \in Nat
    BY LedgerRows
  <2>2. Append(log, row)[Len(log) + 1] = row
    BY <2>1
  <2>3. ASSUME NEW e PROVE Append(log, e)[Len(log) + 1] = e
    BY <2>1
  <2> QED
    BY <2>2, <2>3
<1>6. row = made
  BY <1>4, <1>5
<1>7. row.after = v.after /\ row.rate = v.rate
  BY <1>3, <1>6
<1> QED
  BY <1>1, <1>7 DEF v

(* The only row of a document on the pair of a leg, valued as a count on   *)
(* the ledger there was.                                                   *)
Placed(new, log, d, x) ==
    \E i \in DOMAIN new :
        /\ Of(new, d, x.pair) = {i} /\ new[i].live /\ new[i].time = x.time
        /\ new[i].after = Counted(LastAt(log, x.pair, x.time), x).after
        /\ new[i].rate = Counted(LastAt(log, x.pair, x.time), x).rate
        /\ new[i].qty = x.qty /\ new[i].value = x.value

LEMMA PlacedStays ==
    ASSUME NEW new, NEW newer, NEW log, NEW d, NEW x, Placed(new, log, d, x), Same(new, newer, d, x.pair)
    PROVE  Placed(newer, log, d, x)
<1>1. PICK i \in DOMAIN new :
        /\ Of(new, d, x.pair) = {i} /\ new[i].live /\ new[i].time = x.time
        /\ new[i].after = Counted(LastAt(log, x.pair, x.time), x).after
        /\ new[i].rate = Counted(LastAt(log, x.pair, x.time), x).rate
        /\ new[i].qty = x.qty /\ new[i].value = x.value
  BY DEF Placed
<1>2. Of(newer, d, x.pair) = {i} /\ newer[i] = new[i]
  BY <1>1 DEF Same
<1>3. i \in DOMAIN newer
  BY <1>2 DEF Of, RowsOf
<1> QED
  BY <1>1, <1>2, <1>3 DEF Placed

LEMMA AppendCounts ==
    ASSUME NEW log \in Ledger, NEW d, Counts(d), NEW xs, Postable(d, xs), RowsOf(log, d) = {},
           \A j, k \in DOMAIN xs : xs[j].pair = xs[k].pair => j = k
    PROVE  \A k \in DOMAIN xs : Placed(AppendAll(log, d, xs), log, d, xs[k])
<1> DEFINE S == DOMAIN xs
           V == Extended(log, d)
           Free(l, k) == Of(l, d, xs[k].pair) = {}
<1>1. xs \in Seq(Leg) /\ IsFiniteSet(S) /\ log \in V
  BY PostedLegs, LedgerRows DEF Extended, Extends
<1>2. ASSUME NEW l \in V, NEW k \in S, Free(l, k)
      PROVE  /\ Placed(AppendFor(d, l, xs[k]), log, d, xs[k])
             /\ \A j \in S \ {k} : /\ Placed(l, log, d, xs[j]) => Placed(AppendFor(d, l, xs[k]), log, d, xs[j])
                                   /\ Free(l, j) => Free(AppendFor(d, l, xs[k]), j)
  <2> DEFINE x == xs[k]
             v == Counted(LastAt(log, x.pair, x.time), x)
  <2>1. l \in Ledger /\ Appendable(x) /\ x.doc = d
    BY PostedLegs DEF Extended
  <2>2. LastAt(l, x.pair, x.time) = LastAt(log, x.pair, x.time)
    BY <1>2, SameLast
  <2>3. PICK row \in Sle : /\ AppendFor(d, l, x) = Append(l, row)
                           /\ row.pair = x.pair /\ row.time = x.time /\ row.doc = x.doc
                           /\ row.live /\ row.after = v.after /\ row.rate = v.rate
                           /\ row.qty = x.qty /\ row.value = x.value
    <3> HIDE DEF x
    <3> QED
      BY <2>1, <2>2, CountedRow
  <2>4. row.time >= Time(row.doc) /\ row.doc = d
    BY <2>1, <2>3 DEF Appendable
  <2> DEFINE new == Append(l, row)
             n == Len(l) + 1
  <2>5. /\ new[n] = row /\ \A i \in DOMAIN l : new[i] = l[i]
        /\ DOMAIN new = DOMAIN l \cup {n}
    BY <2>1, <2>4, LedgerGrows
  <2>6. ASSUME NEW j \in S \ {k} PROVE Same(l, new, d, xs[j].pair)
    <3>1. row.pair # xs[j].pair
      BY <2>3
    <3> QED
      BY <2>1, <2>4, <3>1, SameAppend
  <2> HIDE DEF new, n
  <2>7. Of(new, d, x.pair) = {n}
    <3>1. Of(l, d, x.pair) = {}
      BY <1>2
    <3> QED
      BY <2>3, <2>4, <2>5, <3>1 DEF Of, RowsOf
  <2>8. Placed(new, log, d, x)
    <3> HIDE DEF x
    <3> QED
      BY <2>3, <2>5, <2>7 DEF Placed
  <2>9. ASSUME NEW j \in S \ {k}
        PROVE  /\ Placed(l, log, d, xs[j]) => Placed(new, log, d, xs[j])
               /\ Free(l, j) => Free(new, j)
    <3>1. Same(l, new, d, xs[j].pair)
      BY <2>6
    <3>2. Placed(l, log, d, xs[j]) => Placed(new, log, d, xs[j])
      BY <3>1, PlacedStays
    <3> QED
      BY <3>1, <3>2 DEF Same
  <2>10. AppendFor(d, l, xs[k]) = new
    BY <2>3 DEF new
  <2> HIDE DEF Free
  <2> QED
    BY <2>8, <2>9, <2>10
<1>3. PICK F \in [SUBSET S -> V] : AppendAll(log, d, xs) = F[S] /\ Appends(F, d, log, xs)
  <2>1. ASSUME NEW l \in V, NEW k \in DOMAIN xs PROVE AppendFor(d, l, xs[k]) \in V
    <3>1. l \in Ledger /\ Appendable(xs[k]) /\ xs[k].doc = d
      BY PostedLegs DEF Extended
    <3>2. PICK row \in Sle : /\ AppendFor(d, l, xs[k]) = Append(l, row)
                             /\ row.time = xs[k].time /\ row.doc = xs[k].doc
      BY <3>1, AppendedFor
    <3>3. row.time >= Time(row.doc) /\ row.doc = d
      BY <3>1, <3>2 DEF Appendable
    <3> QED
      BY <3>2, <3>3, ExtendRow
  <2> HIDE DEF V
  <2>2. \A l \in V : \A k \in DOMAIN xs : AppendFor(d, l, xs[k]) \in V
    BY <2>1
  <2> QED
    BY <1>1, <2>2, AppendAllRuns, Zenon
<1>4. F[{}] = log /\ \A T \in SUBSET S : T # {} => \E k \in T : F[T] = AppendFor(d, F[T \ {k}], xs[k])
  BY <1>3 DEF Appends
<1>5. \A j \in S : Free(log, j)
  BY DEF Of
<1> DEFINE Right(T, j) == IF j \in T THEN Placed(F[T], log, d, xs[j]) ELSE Free(F[T], j)
           Wrong == {T \in SUBSET S : \E j \in S : ~Right(T, j)}
<1> HIDE DEF S, V, Free
<1>6. Wrong = {}
  <2>1. SUFFICES ASSUME Wrong # {} PROVE FALSE
    OBVIOUS
  <2>2. Wrong \subseteq SUBSET S
    OBVIOUS
  <2>3. PICK T \in Wrong : \A U \in Wrong : U \subseteq T => U = T
    <3> HIDE DEF Wrong
    <3> QED
      BY <1>1, <2>1, <2>2, SmallestSubset
  <2>4. T # {} /\ T \in SUBSET S
    BY <1>4, <1>5
  <2>5. PICK k \in T : F[T] = AppendFor(d, F[T \ {k}], xs[k])
    BY <1>4, <2>4
  <2>6. F[T \ {k}] \in V /\ k \in S
    BY <2>4
  <2>7. \A j \in S : Right(T \ {k}, j)
    BY <2>3
  <2>8. Free(F[T \ {k}], k) /\ \A j \in S \ {k} : IF j \in T THEN Placed(F[T \ {k}], log, d, xs[j]) ELSE Free(F[T \ {k}], j)
    BY <2>6, <2>7
  <2>9. /\ Placed(F[T], log, d, xs[k])
        /\ \A j \in S \ {k} : IF j \in T THEN Placed(F[T], log, d, xs[j]) ELSE Free(F[T], j)
    <3>1. /\ Placed(F[T], log, d, xs[k])
          /\ \A j \in S \ {k} : /\ Placed(F[T \ {k}], log, d, xs[j]) => Placed(F[T], log, d, xs[j])
                                /\ Free(F[T \ {k}], j) => Free(F[T], j)
      <4> HIDE DEF Free, V
      <4> QED
        BY <1>2, <2>5, <2>6, <2>8, ZenonT(60)
    <3> HIDE DEF Free
    <3> QED
      BY <2>8, <3>1
  <2>10. \A j \in S : Right(T, j)
    BY <2>9
  <2> QED
    BY <2>10
<1>7. \A j \in S : Placed(F[S], log, d, xs[j])
  BY <1>6
<1> QED
  BY <1>3, <1>7 DEF S

-----------------------------------------------------------------------------
(* What a division of a multiple gives back.                               *)
LEMMA OverExact ==
    ASSUME NEW a \in Int, NEW b \in Nat, b # 0
    PROVE  Over(b * a, b) = a
<1>1. b > 0 /\ (b * a) \div b = a
  OBVIOUS
<1> QED
  BY <1>1 DEF Over

(* A count that finds the stock it was planned on is valued as it says.    *)
LEMMA CountValued ==
    ASSUME sle \in Ledger, NEW d \in Documents, Counts(d), NEW k \in DOMAIN Entries[d].lines
    PROVE  LET l == Entries[d].lines[k]
               x == CountLeg(d, l)
               v == Counted(LastAt(sle, x.pair, x.time), x)
               now == LastAt(sle, x.pair, x.time)
           IN /\ x.pair = l.target /\ x.time = Time(d) /\ v.after = l.qty
              /\ l.qty # 0 /\ l.rate # Null => v.rate = l.rate
              /\ v.after = now.after + x.qty
              /\ v.after * v.rate = now.after * now.rate + x.value
<1> DEFINE l == Entries[d].lines[k]
           x == CountLeg(d, l)
           now == LastAt(sle, l.target, Time(d))
           rate == IF l.rate = Null THEN now.rate ELSE l.rate
           v == Counted(now, x)
<1>1. l.qty \in Nat /\ l.rate \in Nat \cup {Null}
  <2>1. l \in Lines
    BY EntriesAssumption
  <2> HIDE DEF l
  <2> QED
    BY <2>1 DEF Lines
<1>2. now.after \in Int /\ now.rate \in Int
  <2>1. {i \in LiveRows(sle, l.target) : sle[i].time <= Time(d)} \in SUBSET DOMAIN sle
    BY DEF LiveRows
  <2> QED
    BY <2>1, LatestType DEF LastAt
<1>3. /\ x.pair = l.target /\ x.time = Time(d) /\ x.qty = l.qty - now.after
      /\ x.value = l.qty * rate - now.after * now.rate
  BY DEF CountLeg
<1> HIDE DEF l, x, now
<1>4. rate \in Int /\ l.qty * rate \in Int /\ now.after * now.rate \in Int
  BY <1>1, <1>2
<1> DEFINE whole == l.qty * rate
           held == now.after * now.rate
<1>5. held + x.value = whole /\ whole \in Int /\ held \in Int
  <2>1. x.value = whole - held /\ whole \in Int /\ held \in Int
    BY <1>3, <1>4
  <2> HIDE DEF whole, held
  <2> QED
    BY <2>1
<1> HIDE DEF held, whole
<1>6. l.qty # 0 => Over(whole, l.qty) = rate
  BY <1>1, <1>4, OverExact DEF whole
<1> HIDE DEF rate
<1>7. ASSUME x.qty = 0 PROVE v.after = l.qty /\ (l.qty # 0 => v.rate = rate)
  <2>1. now.after = l.qty
    BY <1>1, <1>2, <1>3, <1>7
  <2>2. v = [after |-> now.after, value |-> x.value,
             rate |-> IF now.after = 0 THEN 0 ELSE Over(held + x.value, now.after)]
    BY <1>7 DEF Counted, Valued, held
  <2>3. v.after = l.qty /\ (l.qty # 0 => v.rate = Over(held + x.value, l.qty))
    BY <2>1, <2>2
  <2> HIDE DEF v
  <2>4. v.after = l.qty /\ (l.qty # 0 => v.rate = rate)
    BY <1>5, <1>6, <2>3
  <2> QED
    BY <2>4
<1>8. ASSUME x.qty # 0 PROVE v.after = l.qty /\ (l.qty # 0 => v.rate = rate)
  <2>1. now.after + x.qty = l.qty
    BY <1>1, <1>2, <1>3
  <2>2. v = [after |-> l.qty, value |-> x.value,
             rate |-> IF l.qty = 0 THEN now.rate ELSE Over(held + x.value, l.qty)]
    BY <1>8, <2>1 DEF Counted, held
  <2>3. v.after = l.qty /\ (l.qty # 0 => v.rate = Over(held + x.value, l.qty))
    BY <2>2
  <2> HIDE DEF v
  <2>4. v.after = l.qty /\ (l.qty # 0 => v.rate = rate)
    BY <1>5, <1>6, <2>3
  <2> QED
    BY <2>4
<1> HIDE DEF v
<1>9. v.after = l.qty /\ (l.qty # 0 => v.rate = rate)
  BY <1>7, <1>8
<1>10. v.rate \in Int
  <2>1. CASE l.qty # 0
    BY <1>4, <1>9, <2>1
  <2>2. ASSUME l.qty = 0, x.qty = 0 PROVE v.rate = 0
    <3>1. now.after = 0
      BY <1>2, <1>3, <2>2
    <3> QED
      BY <2>2, <3>1 DEF v, Counted, Valued
  <2>3. ASSUME l.qty = 0, x.qty # 0 PROVE v.rate = now.rate
    <3>1. now.after + x.qty = 0
      BY <1>2, <1>3, <2>3
    <3> QED
      BY <2>3, <3>1 DEF v, Counted
  <2> QED
    BY <1>2, <2>1, <2>2, <2>3
<1>11. v.after * v.rate = now.after * now.rate + x.value
  <2>1. l.qty * v.rate = whole
    <3>1. CASE l.qty = 0
      BY <1>1, <1>4, <1>10, <3>1 DEF whole
    <3>2. CASE l.qty # 0
      BY <1>9, <3>2 DEF whole
    <3> QED
      BY <3>1, <3>2
  <2>2. v.after * v.rate = held + x.value
    BY <1>5, <1>9, <2>1
  <2> QED
    BY <2>2 DEF held
<1>12. v.after = now.after + x.qty
  BY <1>1, <1>2, <1>3, <1>9
<1>13. v = Counted(LastAt(sle, x.pair, x.time), x)
  BY <1>3 DEF v, now
<1>14. l.rate # Null => rate = l.rate
  BY DEF rate
<1>15. now = LastAt(sle, x.pair, x.time)
  BY <1>3 DEF now
<1> QED
  BY <1>3, <1>9, <1>13, <1>14, <1>11, <1>12, <1>15 DEF l, x

(* A count plans a leg for every line, each on a pair of its own.          *)
CountsLines(xs, d) ==
    /\ \A k \in DOMAIN Entries[d].lines :
          \E j \in DOMAIN xs : xs[j] = CountLeg(d, Entries[d].lines[k])
    /\ \A j \in DOMAIN xs :
          \E k \in DOMAIN Entries[d].lines : xs[j] = CountLeg(d, Entries[d].lines[k])
    /\ \A i, j \in DOMAIN xs : xs[i].pair = xs[j].pair => i = j

(* The legs of the lines in T.                                             *)
Covers(xs, d, T) ==
    /\ \A j \in DOMAIN xs : \E k \in T : xs[j] = CountLeg(d, Entries[d].lines[k])
    /\ \A k \in T : \E j \in DOMAIN xs : xs[j] = CountLeg(d, Entries[d].lines[k])
    /\ \A i, j \in DOMAIN xs : xs[i].pair = xs[j].pair => i = j

LEMMA CoversMore ==
    ASSUME NEW d \in Documents, Counts(d), NEW T \in SUBSET DOMAIN Entries[d].lines,
           NEW k \in T, NEW xs \in Posting(d), Covers(xs, d, T \ {k})
    PROVE  Covers(xs \o Legs(d, Entries[d].lines[k]), d, T)
<1> DEFINE x == CountLeg(d, Entries[d].lines[k])
           zs == xs \o << x >>
           n == Len(xs) + 1
           target(m) == Entries[d].lines[m].target
<1>1. Legs(d, Entries[d].lines[k]) = << x >>
  BY DEF Legs, Counts
<1>2. \A m \in T : CountLeg(d, Entries[d].lines[m]).pair = target(m)
  BY DEF CountLeg
<1>3. \A m \in T \ {k} : target(m) # target(k)
  BY CountsAssumption
<1> HIDE DEF x, target
<1>4. xs \in Seq(Leg) /\ Len(xs) \in Nat /\ DOMAIN xs = 1..Len(xs)
  BY DEF Posting
<1>5. /\ DOMAIN zs = DOMAIN xs \cup {n} /\ n \notin DOMAIN xs /\ zs[n] = x
      /\ \A j \in DOMAIN xs : zs[j] = xs[j]
  <2>1. Len(<< x >>) = 1 /\ << x >>[1] = x
    OBVIOUS
  <2>2. zs = [j \in 1..(Len(xs) + 1) |-> IF j <= Len(xs) THEN xs[j] ELSE << x >>[j - Len(xs)]]
    BY <1>4, <2>1
  <2> QED
    BY <1>4, <2>1, <2>2
<1> HIDE DEF zs, n
<1>6. x.pair = target(k) /\ \A j \in DOMAIN xs : xs[j].pair # target(k)
  <2>1. x.pair = target(k)
    BY <1>2 DEF x
  <2>2. ASSUME NEW j \in DOMAIN xs PROVE xs[j].pair # target(k)
    <3>1. PICK m \in T \ {k} : xs[j] = CountLeg(d, Entries[d].lines[m])
      BY DEF Covers
    <3> QED
      BY <1>2, <1>3, <3>1
  <2> QED
    BY <2>1, <2>2
<1>7. \A j \in DOMAIN zs : \E m \in T : zs[j] = CountLeg(d, Entries[d].lines[m])
  BY <1>5 DEF Covers, x
<1>8. \A m \in T : \E j \in DOMAIN zs : zs[j] = CountLeg(d, Entries[d].lines[m])
  <2> SUFFICES ASSUME NEW m \in T PROVE \E j \in DOMAIN zs : zs[j] = CountLeg(d, Entries[d].lines[m])
    OBVIOUS
  <2>1. CASE m = k
    BY <1>5, <2>1 DEF x
  <2>2. CASE m # k
    <3>1. PICK j \in DOMAIN xs : xs[j] = CountLeg(d, Entries[d].lines[m])
      BY <2>2 DEF Covers
    <3> QED
      BY <1>5, <3>1
  <2> QED
    BY <2>1, <2>2
<1>9. \A i, j \in DOMAIN zs : zs[i].pair = zs[j].pair => i = j
  BY <1>5, <1>6 DEF Covers
<1>10. Covers(zs, d, T)
  BY <1>7, <1>8, <1>9 DEF Covers
<1> QED
  BY <1>1, <1>10 DEF zs

LEMMA CountIntents ==
    ASSUME sle \in Ledger, NEW d \in Documents, Counts(d)
    PROVE  CountsLines(Intents(d), d)
<1> DEFINE S == DOMAIN Entries[d].lines
           V == Posting(d)
<1>1. << >> \in V /\ \A xs \in V : \A k \in S : xs \o Legs(d, Entries[d].lines[k]) \in V
  <2>1. << >> \in V
    BY DEF Posting
  <2> QED
    BY <2>1, LegsType, PostingGrows
<1>2. IsFiniteSet(S)
  <2>1. Entries[d].lines \in Seq(Lines)
    BY EntriesAssumption
  <2> QED
    BY <2>1, Positions
<1>3. PICK F \in [SUBSET S -> V] : Intents(d) = F[S] /\ Plans(F, d)
  <2> HIDE DEF V
  <2> QED
    BY <1>1, IntentsRun, Zenon
<1>4. /\ F[{}] = << >>
      /\ \A T \in SUBSET S : T # {} => \E k \in T : F[T] = F[T \ {k}] \o Legs(d, Entries[d].lines[k])
  BY <1>3 DEF Plans
<1> DEFINE Wrong == {T \in SUBSET S : ~Covers(F[T], d, T)}
<1>5. Wrong = {}
  <2>1. SUFFICES ASSUME Wrong # {} PROVE FALSE
    OBVIOUS
  <2>2. Wrong \subseteq SUBSET S
    OBVIOUS
  <2>3. PICK T \in Wrong : \A U \in Wrong : U \subseteq T => U = T
    <3> HIDE DEF Wrong, S
    <3> QED
      BY <1>2, <2>1, <2>2, SmallestSubset
  <2>4. T # {}
    <3>1. Covers(F[{}], d, {})
      BY <1>4 DEF Covers
    <3> QED
      BY <3>1
  <2>5. PICK k \in T : F[T] = F[T \ {k}] \o Legs(d, Entries[d].lines[k])
    BY <1>4, <2>4
  <2>6. F[T \ {k}] \in V /\ k \in S /\ T \in SUBSET S
    OBVIOUS
  <2>7. Covers(F[T \ {k}], d, T \ {k})
    BY <2>3
  <2>8. Covers(F[T], d, T)
    BY <2>5, <2>6, <2>7, CoversMore
  <2> QED
    BY <2>8
<1>6. Covers(Intents(d), d, S)
  BY <1>3, <1>5
<1> QED
  BY <1>6 DEF Covers, CountsLines

-----------------------------------------------------------------------------
(* Requests that run one at a time, and documents that are posted far      *)
(* enough apart for no replayed row to reach the posting of another one.   *)
OneAtATime == \A r, q \in Requests : r = q
FarApart ==
    \A d, e \in Documents : d # e =>
        Time(d) + MaxRows < Time(e) \/ Time(e) + MaxRows < Time(d)

(* What a line of a count has left in the ledger: its one row, as counted. *)
Stands(log, d, l) ==
    \E i \in DOMAIN log :
        /\ Of(log, d, l.target) = {i} /\ log[i].live /\ log[i].time = Time(d)
        /\ log[i].after = l.qty
        /\ l.qty # 0 /\ l.rate # Null => log[i].rate = l.rate

Standing(d) ==
    Counts(d) /\ status[d] = "submitted" =>
        \A k \in DOMAIN Entries[d].lines :
            Undisturbed(d, Entries[d].lines[k].target) => Stands(sle, d, Entries[d].lines[k])

(* What a request has read is what it would read now.                      *)
Current(r) ==
    reg[r].op = "submit" =>
        /\ status[reg[r].doc] = "draft"
        /\ Counts(reg[r].doc) => CountsLines(reg[r].intents, reg[r].doc)

UpToDate == \A r \in Requests : reg[r] # Null => Current(r)

Steady ==
    /\ Paced
    /\ UpToDate
    /\ \A d \in Documents : Standing(d)

LEMMA StandsStays ==
    ASSUME NEW old, NEW new, NEW d, NEW l, Stands(old, d, l), Same(old, new, d, l.target)
    PROVE  Stands(new, d, l)
<1>1. PICK i \in DOMAIN old :
        /\ Of(old, d, l.target) = {i} /\ old[i].live /\ old[i].time = Time(d)
        /\ old[i].after = l.qty /\ (l.qty # 0 /\ l.rate # Null => old[i].rate = l.rate)
  BY DEF Stands
<1>2. Of(new, d, l.target) = {i} /\ new[i] = old[i]
  BY <1>1 DEF Same
<1>3. i \in DOMAIN new
  BY <1>2 DEF Of, RowsOf
<1> QED
  BY <1>1, <1>2, <1>3 DEF Stands

LEMMA StandsTimes ==
    ASSUME NEW log, NEW d, NEW l, Stands(log, d, l)
    PROVE  Of(log, d, l.target) # {} /\ \A i \in Of(log, d, l.target) : log[i].time = Time(d)
BY DEF Stands

(* What disturbed a count disturbs it for good.                            *)
LEMMA DisturbedStays ==
    ASSUME sle \in Ledger, sle' \in Ledger, Len(sle') >= Len(sle), NEW d \in Documents, NEW p,
           \A i \in DOMAIN sle : sle'[i].doc = sle[i].doc /\ sle'[i].pair = sle[i].pair,
           \A e \in Documents : status[e] = "cancelled" => status'[e] = "cancelled",
           Undisturbed(d, p)'
    PROVE  Undisturbed(d, p)
<1>1. DOMAIN sle = 1..Len(sle) /\ Len(sle) \in Nat /\ DOMAIN sle' = 1..Len(sle') /\ Len(sle') \in Nat
  BY LedgerRows
<1>2. DOMAIN sle \subseteq DOMAIN sle'
  BY <1>1
<1>3. \A e : RowsAt(e, p) = RowsAt(e, p)' \cap DOMAIN sle
  BY <1>2 DEF RowsAt, RowsOf
<1> SUFFICES ASSUME NEW e \in Documents, Time(e) < Time(d)
             PROVE  /\ status[e] # "cancelled"
                    /\ ~Counts(e) => \A j \in RowsAt(e, p) :
                          \E i \in RowsAt(e, p) : i <= j /\ \A k \in RowsAt(d, p) : i < k
  BY DEF Undisturbed
<1>4. /\ status'[e] # "cancelled"
      /\ ~Counts(e) => \A j \in RowsAt(e, p)' :
            \E i \in RowsAt(e, p)' : i <= j /\ \A k \in RowsAt(d, p)' : i < k
  BY DEF Undisturbed, Time, Counts
<1>5. ASSUME ~Counts(e), NEW j \in RowsAt(e, p)
      PROVE  \E i \in RowsAt(e, p) : i <= j /\ \A k \in RowsAt(d, p) : i < k
  <2>1. j \in RowsAt(e, p)' /\ j \in DOMAIN sle
    BY <1>3
  <2>2. PICK i \in RowsAt(e, p)' : i <= j /\ \A k \in RowsAt(d, p)' : i < k
    BY <1>4, <1>5, <2>1
  <2>3. i \in DOMAIN sle'
    BY DEF RowsAt, RowsOf
  <2>4. i \in RowsAt(e, p)
    BY <1>1, <1>3, <2>1, <2>2, <2>3
  <2> QED
    BY <1>3, <2>2, <2>4
<1> QED
  BY <1>4, <1>5

(* A submit of another document passes over the rows of a count ...        *)
LEMMA SubmitSpares ==
    ASSUME Inductive, NEW r \in Requests, WriteSubmit(r), NEW e \in Documents, e = reg[r].doc,
           NEW d \in Documents, d # e, Counts(d), NEW p,
           \A i \in Of(sle, d, p) : sle[i].time = Time(d),
           Counts(e) \/ Time(e) >= Time(d) \/ p \notin PairsOf(reg[r].intents)
    PROVE  Same(sle, sle', d, p)
<1> DEFINE xs == reg[r].intents
           added == AppendAll(sle, e, xs)
<1>1. /\ Postable(e, xs) /\ IsFiniteSet(PairsOf(xs)) /\ Time(e) \in Int /\ sle \in Ledger
      /\ added \in Ledger
      /\ sle' = added \/ sle' = RepostAll(added, PairsOf(xs), Time(e), Skipped(e))
  BY SubmitWrites
<1>2. Counts(e) \/ Time(e) >= Time(d) \/ p \notin PairsOf(xs)
  OBVIOUS
<1> HIDE DEF xs
<1>3. Same(sle, added, d, p)
  BY <1>1, AppendOthers, SameUntouched
<1> HIDE DEF added
<1>4. ASSUME NEW q \in PairsOf(xs) PROVE Spared(added, d, p, q, Time(e), Skipped(e))
  <2>1. CASE Counts(e)
    <3>1. d \in Skipped(e)
      BY <2>1 DEF Skipped
    <3> QED
      BY <3>1 DEF Spared
  <2>2. CASE p \notin PairsOf(xs)
    BY <2>2 DEF Spared
  <2>3. CASE Time(e) >= Time(d)
    <3>1. \A i \in Of(added, d, p) : added[i].time = Time(d)
      BY <1>3 DEF Same
    <3>2. Time(d) \in Int
      BY EntriesAssumption DEF Time
    <3> QED
      BY <1>1, <2>3, <3>1, <3>2 DEF Spared
  <2> QED
    BY <1>2, <2>1, <2>2, <2>3
<1>5. Same(added, RepostAll(added, PairsOf(xs), Time(e), Skipped(e)), d, p)
  BY <1>1, <1>4, RepostAllSame
<1> QED
  BY <1>1, <1>3, <1>5, SameTwice

(* ... unless it is an entry of an earlier time on its pair.               *)
LEMMA SubmitDisturbs ==
    ASSUME Inductive, NEW r \in Requests, WriteSubmit(r), NEW e \in Documents, e = reg[r].doc,
           RowsOf(sle, e) = {}, ~Counts(e), NEW d \in Documents, Time(e) < Time(d),
           NEW p \in PairsOf(reg[r].intents), Of(sle, d, p) # {}
    PROVE  ~Undisturbed(d, p)'
<1> DEFINE xs == reg[r].intents
           added == AppendAll(sle, e, xs)
<1>1. /\ Postable(e, xs) /\ IsFiniteSet(PairsOf(xs)) /\ Time(e) \in Int /\ sle \in Ledger
      /\ added \in Ledger /\ added \in Extended(sle, e)
      /\ sle' = added \/ sle' = RepostAll(added, PairsOf(xs), Time(e), Skipped(e))
  BY SubmitWrites
<1>2. PICK k \in DOMAIN xs : xs[k].pair = p
  BY DEF PairsOf
<1> HIDE DEF xs
<1>3. PICK j \in DOMAIN added \ DOMAIN sle : added[j].doc = e /\ added[j].pair = p
  BY <1>1, <1>2, AppendGives DEF Given
<1>4. /\ sle' \in Ledger /\ Len(sle') >= Len(added)
      /\ \A i \in DOMAIN added : sle'[i].doc = added[i].doc /\ sle'[i].pair = added[i].pair
  <2>1. CASE sle' = added
    BY <1>1, <2>1, LedgerRows
  <2>2. CASE sle' = RepostAll(added, PairsOf(xs), Time(e), Skipped(e))
    <3>1. sle' \in Ledger /\ Within(added, sle', PairsOf(xs), Time(e))
      BY <1>1, <2>2, RepostAllKeeps
    <3>2. \A row \in Sle : /\ [row EXCEPT !.live = FALSE].pair = row.pair
                           /\ [row EXCEPT !.live = FALSE].doc = row.doc
      BY DEF Sle
    <3>3. \A i \in DOMAIN added : added[i] \in Sle
      BY <1>1, LedgerRows
    <3> QED
      BY <3>1, <3>2, <3>3 DEF Within
  <2> QED
    BY <1>1, <2>1, <2>2
<1>5. /\ Len(added) \in Nat /\ DOMAIN added = 1..Len(added) /\ Len(added) >= Len(sle)
      /\ Len(sle) \in Nat /\ DOMAIN sle = 1..Len(sle)
      /\ Len(sle') \in Nat /\ DOMAIN sle' = 1..Len(sle')
      /\ \A i \in DOMAIN sle : added[i] = sle[i]
  BY <1>1, <1>4, LedgerRows DEF Extended, Extends
<1> HIDE DEF added
<1>6. j \in RowsAt(e, p)'
  <2>1. j \in DOMAIN sle' /\ sle'[j].doc = e /\ sle'[j].pair = p
    BY <1>3, <1>4, <1>5
  <2> QED
    BY <2>1 DEF RowsAt, RowsOf
<1>7. PICK m \in Of(sle, d, p) : TRUE
  OBVIOUS
<1>8. m \in RowsAt(d, p)' /\ m \in DOMAIN sle
  <2>1. m \in DOMAIN sle /\ sle[m].doc = d /\ sle[m].pair = p
    BY <1>7 DEF Of, RowsOf
  <2>2. m \in DOMAIN sle' /\ sle'[m].doc = d /\ sle'[m].pair = p
    BY <1>4, <1>5, <2>1
  <2> QED
    BY <2>1, <2>2 DEF RowsAt, RowsOf
<1>9. ASSUME NEW i \in RowsAt(e, p)' PROVE ~(i < m)
  <2>1. i \in DOMAIN sle' /\ sle'[i].doc = e
    BY DEF RowsAt, RowsOf
  <2>2. i \notin DOMAIN sle
    <3>1. i \in DOMAIN sle => sle[i].doc = e
      BY <1>4, <1>5, <2>1
    <3> QED
      BY <3>1 DEF RowsOf
  <2> QED
    BY <1>5, <1>8, <2>1, <2>2
<1>10. (~Counts(e) /\ Time(e) < Time(d))'
  BY DEF Counts, Time
<1> QED
  BY <1>6, <1>8, <1>9, <1>10 DEF Undisturbed

(* A count that is submitted stands, its own replay skipping it.           *)
LEMMA SubmitStands ==
    ASSUME Inductive, NEW r \in Requests, WriteSubmit(r), NEW d \in Documents, d = reg[r].doc,
           RowsOf(sle, d) = {}, Counts(d), CountsLines(reg[r].intents, d),
           NEW k \in DOMAIN Entries[d].lines
    PROVE  Stands(sle', d, Entries[d].lines[k])
<1> DEFINE xs == reg[r].intents
           added == AppendAll(sle, d, xs)
           l == Entries[d].lines[k]
           x == CountLeg(d, l)
           v == Counted(LastAt(sle, x.pair, x.time), x)
<1>1. /\ Postable(d, xs) /\ IsFiniteSet(PairsOf(xs)) /\ Time(d) \in Int /\ sle \in Ledger
      /\ added \in Ledger
      /\ sle' = added \/ sle' = RepostAll(added, PairsOf(xs), Time(d), Skipped(d))
  BY SubmitWrites
<1>2. /\ \E j \in DOMAIN xs : xs[j] = CountLeg(d, Entries[d].lines[k])
      /\ \A i, j \in DOMAIN xs : xs[i].pair = xs[j].pair => i = j
  BY DEF CountsLines
<1> HIDE DEF xs
<1>3. PICK j \in DOMAIN xs : xs[j] = x
  BY <1>2
<1>4. Placed(added, sle, d, x)
  BY <1>1, <1>2, <1>3, AppendCounts
<1>5. /\ x.pair = l.target /\ x.time = Time(d) /\ v.after = l.qty
      /\ l.qty # 0 /\ l.rate # Null => v.rate = l.rate
  BY <1>1, CountValued
<1> HIDE DEF added, x, l
<1>6. Stands(added, d, l)
  BY <1>4, <1>5 DEF Placed, Stands
<1>7. Same(added, RepostAll(added, PairsOf(xs), Time(d), Skipped(d)), d, l.target)
  <2>1. \A q \in PairsOf(xs) : Spared(added, d, l.target, q, Time(d), Skipped(d))
    BY DEF Spared, Skipped
  <2> QED
    BY <1>1, <2>1, RepostAllSame
<1>8. Stands(sle', d, l)
  BY <1>1, <1>6, <1>7, StandsStays
<1> QED
  BY <1>8 DEF l

(* A cancel passes over counts that lie before it.                         *)
LEMMA CancelSpares ==
    ASSUME Inductive, NEW r \in Requests, WriteCancel(r), NEW e \in Documents, e = reg[r].doc,
           NEW d \in Documents, d # e, NEW p,
           \A i \in Of(sle, d, p) : sle[i].time = Time(d), Time(e) >= Time(d)
    PROVE  Same(sle, sle', d, p)
<1> DEFINE rows == reg[r].rows
           kept == Flagged(sle, rows)
           ps == {sle[i].pair : i \in rows}
<1>1. /\ sle \in Ledger /\ kept \in Ledger /\ IsFiniteSet(ps) /\ Time(e) \in Int
      /\ \A i \in rows : i \in DOMAIN sle /\ sle[i].doc = e
      /\ \E first \in Int : first >= Time(e) /\ sle' = RepostAll(kept, ps, first, {})
  BY CancelWrites
<1> HIDE DEF rows, ps
<1>2. PICK first \in Int : first >= Time(e) /\ sle' = RepostAll(kept, ps, first, {})
  BY <1>1
<1>3. Same(sle, kept, d, p)
  <2>1. DOMAIN kept = DOMAIN sle
        /\ \A i \in DOMAIN sle : kept[i] = IF i \in rows THEN [sle[i] EXCEPT !.live = FALSE] ELSE sle[i]
    BY <1>1 DEF Flagged
  <2>2. \A row \in Sle : /\ [row EXCEPT !.live = FALSE].pair = row.pair
                         /\ [row EXCEPT !.live = FALSE].doc = row.doc
    BY DEF Sle
  <2>3. \A i \in DOMAIN sle : sle[i] \in Sle
    BY <1>1, LedgerRows
  <2> HIDE DEF kept
  <2>4. \A i \in DOMAIN sle : kept[i].doc = sle[i].doc /\ kept[i].pair = sle[i].pair
    BY <2>1, <2>2, <2>3
  <2>5. Of(kept, d, p) = Of(sle, d, p)
    BY <2>1, <2>4 DEF Of, RowsOf
  <2>6. \A i \in Of(sle, d, p) : kept[i] = sle[i]
    BY <1>1, <2>1 DEF Of, RowsOf
  <2> QED
    BY <2>5, <2>6 DEF Same
<1> HIDE DEF kept
<1>4. Time(d) \in Int
  BY EntriesAssumption DEF Time
<1>5. \A i \in Of(kept, d, p) : kept[i].time = Time(d)
  BY <1>3 DEF Same
<1>6. \A q \in ps : Spared(kept, d, p, q, first, {})
  BY <1>1, <1>2, <1>4, <1>5 DEF Spared
<1>7. Same(kept, RepostAll(kept, ps, first, {}), d, p)
  BY <1>1, <1>6, RepostAllSame
<1> QED
  BY <1>2, <1>3, <1>7, SameTwice

-----------------------------------------------------------------------------
LEMMA SteadyInit == Init => Steady
<1> SUFFICES ASSUME Init PROVE Steady
  OBVIOUS
<1>1. sle = << >> /\ DOMAIN sle = {} /\ Len(sle) = 0
  BY DEF Init
<1>2. Paced
  BY <1>1, EntriesAssumption DEF Paced, Drifts
<1>3. \A r \in Requests : reg[r] = Null
  BY DEF Init
<1>4. \A d \in Documents : Standing(d)
  BY DEF Init, Standing
<1> QED
  BY <1>2, <1>3, <1>4 DEF Steady, UpToDate

(* A count that a step writes nothing of stands if its rows are passed     *)
(* over, or something has disturbed it.                                    *)
LEMMA StillStanding ==
    ASSUME sle \in Ledger, sle' \in Ledger, Len(sle') >= Len(sle), NEW d \in Documents, Standing(d),
           \A i \in DOMAIN sle : sle'[i].doc = sle[i].doc /\ sle'[i].pair = sle[i].pair,
           \A e \in Documents : status[e] = "cancelled" => status'[e] = "cancelled",
           status'[d] = status[d],
           \A k \in DOMAIN Entries[d].lines :
               /\ Counts(d) /\ status[d] = "submitted" /\ Stands(sle, d, Entries[d].lines[k])
               /\ Undisturbed(d, Entries[d].lines[k].target)'
               => Same(sle, sle', d, Entries[d].lines[k].target)
    PROVE  Standing(d)'
<1> SUFFICES ASSUME (Counts(d) /\ status[d] = "submitted")',
                    NEW k \in DOMAIN Entries[d].lines, Undisturbed(d, Entries[d].lines[k].target)'
             PROVE  Stands(sle', d, Entries[d].lines[k])
  BY DEF Standing, Stands, Of, RowsOf, Time
<1>1. Counts(d) /\ status[d] = "submitted"
  BY DEF Counts
<1> DEFINE p == Entries[d].lines[k].target
<1>2. Undisturbed(d, p)
  <2> HIDE DEF p
  <2>1. Undisturbed(d, p)'
    BY DEF p
  <2> QED
    BY <2>1, DisturbedStays
<1>3. Stands(sle, d, Entries[d].lines[k])
  BY <1>1, <1>2 DEF Standing
<1>4. Same(sle, sle', d, p)
  BY <1>1, <1>3
<1> QED
  BY <1>3, <1>4, StandsStays

LEMMA SubmitSteady ==
    ASSUME FarApart, Inductive, Inductive', Booked, Steady, NEW r \in Requests, WriteSubmit(r),
           NEW d \in Documents
    PROVE  Standing(d)'
<1>1. PICK e \in Documents : e = reg[r].doc
  BY DEF Inductive, TypeOK, WriteSubmit
<1>2. /\ status[e] = "draft" /\ (Counts(e) => CountsLines(reg[r].intents, e))
      /\ RowsOf(sle, e) = {}
  BY <1>1 DEF Steady, UpToDate, Current, WriteSubmit, Booked, Recorded
<1>3. /\ sle \in Ledger /\ sle' \in Ledger /\ Len(sle') >= Len(sle)
      /\ \A i \in DOMAIN sle : sle'[i].doc = sle[i].doc /\ sle'[i].pair = sle[i].pair
      /\ status' = [status EXCEPT ![e] = "submitted"]
      /\ status \in [Documents -> {"draft", "submitted", "cancelled"}]
  <2>1. sle \in Ledger /\ sle' \in Ledger /\ status \in [Documents -> {"draft", "submitted", "cancelled"}]
    BY DEF Inductive, TypeOK
  <2>2. Within(sle, sle', PairsOf(reg[r].intents), Time(e))
    BY <1>1, SubmitPosts
  <2>3. \A row \in Sle : /\ [row EXCEPT !.live = FALSE].pair = row.pair
                         /\ [row EXCEPT !.live = FALSE].doc = row.doc
    BY DEF Sle
  <2>4. \A i \in DOMAIN sle : sle[i] \in Sle
    BY <2>1, LedgerRows
  <2>5. status' = [status EXCEPT ![e] = "submitted"]
    BY <1>1 DEF WriteSubmit
  <2> QED
    BY <2>1, <2>2, <2>3, <2>4, <2>5 DEF Within
<1>4. CASE d = e
  <2>1. Counts(d) => \A k \in DOMAIN Entries[d].lines : Stands(sle', d, Entries[d].lines[k])
    BY <1>1, <1>2, <1>4, SubmitStands
  <2>2. (\A k \in DOMAIN Entries[d].lines : Stands(sle, d, Entries[d].lines[k]))' => Standing(d)'
    BY DEF Standing
  <2>3. Counts(d)' => Counts(d)
    BY DEF Counts
  <2>4. \A k \in DOMAIN Entries[d].lines :
           Stands(sle', d, Entries[d].lines[k]) => Stands(sle, d, Entries[d].lines[k])'
    BY DEF Stands, Of, RowsOf, Time
  <2> QED
    BY <2>1, <2>2, <2>3, <2>4 DEF Standing
<1>5. CASE d # e
  <2>1. Standing(d)
    BY DEF Steady
  <2>2. Time(d) \in Nat /\ Time(e) \in Nat /\ MaxRows \in Nat /\ Time(d) # Time(e)
    <3>1. Time(d) \in Nat /\ Time(e) \in Nat /\ MaxRows \in Nat
      BY EntriesAssumption DEF Time
    <3>2. Time(d) + MaxRows < Time(e) \/ Time(e) + MaxRows < Time(d)
      BY <1>5 DEF FarApart
    <3> QED
      BY <3>1, <3>2
  <2>3. ASSUME NEW k \in DOMAIN Entries[d].lines, Counts(d), status[d] = "submitted",
               Stands(sle, d, Entries[d].lines[k]), Undisturbed(d, Entries[d].lines[k].target)'
        PROVE  Same(sle, sle', d, Entries[d].lines[k].target)
    <3> DEFINE p == Entries[d].lines[k].target
    <3>1. Of(sle, d, p) # {} /\ \A i \in Of(sle, d, p) : sle[i].time = Time(d)
      BY <2>3, StandsTimes
    <3>2. Undisturbed(d, p)'
      BY <2>3
    <3> HIDE DEF p
    <3>3. Counts(e) \/ Time(e) >= Time(d) \/ p \notin PairsOf(reg[r].intents)
      BY <1>1, <1>2, <2>2, <3>1, <3>2, SubmitDisturbs
    <3>4. Same(sle, sle', d, p)
      BY <1>1, <1>5, <2>3, <3>1, <3>3, SubmitSpares
    <3> QED
      BY <3>4 DEF p
  <2>4. status'[d] = status[d]
    BY <1>3, <1>5
  <2>5. \A f \in Documents : status[f] = "cancelled" => status'[f] = "cancelled"
    BY <1>2, <1>3
  <2> QED
    BY <1>3, <2>1, <2>3, <2>4, <2>5, StillStanding
<1> QED
  BY <1>4, <1>5

LEMMA CancelSteady ==
    ASSUME FarApart, Inductive, Inductive', Steady, NEW r \in Requests, WriteCancel(r),
           NEW d \in Documents
    PROVE  Standing(d)'
<1>1. PICK e \in Documents : e = reg[r].doc
  BY DEF Inductive, TypeOK, WriteCancel
<1>2. /\ sle \in Ledger /\ sle' \in Ledger /\ Len(sle') >= Len(sle)
      /\ \A i \in DOMAIN sle : sle'[i].doc = sle[i].doc /\ sle'[i].pair = sle[i].pair
      /\ status' = [status EXCEPT ![e] = "cancelled"]
      /\ status \in [Documents -> {"draft", "submitted", "cancelled"}]
  <2> DEFINE kept == Flagged(sle, reg[r].rows)
             ps == {sle[i].pair : i \in reg[r].rows}
  <2>1. sle \in Ledger /\ sle' \in Ledger /\ status \in [Documents -> {"draft", "submitted", "cancelled"}]
    BY DEF Inductive, TypeOK
  <2>2. kept \in Ledger /\ \E first \in Int : Within(kept, sle', ps, first)
    BY CancelPosts
  <2>3. \A row \in Sle : /\ [row EXCEPT !.live = FALSE].pair = row.pair
                         /\ [row EXCEPT !.live = FALSE].doc = row.doc
    BY DEF Sle
  <2>4. /\ DOMAIN kept = DOMAIN sle
        /\ \A i \in DOMAIN sle : kept[i] = sle[i] \/ kept[i] = [sle[i] EXCEPT !.live = FALSE]
    BY <2>1 DEF Flagged
  <2>5. Len(kept) = Len(sle)
    BY <2>1, <2>2, <2>4, LedgerRows
  <2> HIDE DEF kept, ps
  <2>6. /\ \A i \in DOMAIN sle : sle[i] \in Sle
        /\ \A i \in DOMAIN kept : kept[i] \in Sle
    BY <2>1, <2>2, LedgerRows
  <2>7. /\ Len(sle') >= Len(kept)
        /\ \A i \in DOMAIN kept : sle'[i].doc = kept[i].doc /\ sle'[i].pair = kept[i].pair
    BY <2>2, <2>3, <2>6 DEF Within
  <2>8. \A i \in DOMAIN sle : kept[i].doc = sle[i].doc /\ kept[i].pair = sle[i].pair
    BY <2>3, <2>4, <2>6
  <2>9. status' = [status EXCEPT ![e] = "cancelled"]
    BY <1>1 DEF WriteCancel
  <2> QED
    BY <2>1, <2>4, <2>5, <2>7, <2>8, <2>9
<1>3. CASE d = e
  <2>1. status'[d] = "cancelled"
    BY <1>2, <1>3
  <2> QED
    BY <2>1 DEF Standing
<1>4. CASE d # e
  <2>1. Standing(d)
    BY DEF Steady
  <2>2. ASSUME NEW k \in DOMAIN Entries[d].lines,
               Stands(sle, d, Entries[d].lines[k]), Undisturbed(d, Entries[d].lines[k].target)'
        PROVE  Same(sle, sle', d, Entries[d].lines[k].target)
    <3> DEFINE p == Entries[d].lines[k].target
    <3>1. \A i \in Of(sle, d, p) : sle[i].time = Time(d)
      BY <2>2, StandsTimes
    <3>2. ~(Time(e) < Time(d))
      <4>1. status'[e] = "cancelled"
        BY <1>2
      <4> QED
        BY <2>2, <4>1 DEF Undisturbed, Time
    <3>3. Time(e) >= Time(d)
      BY <3>2, EntriesAssumption DEF Time
    <3> HIDE DEF p
    <3>4. Same(sle, sle', d, p)
      BY <1>1, <1>4, <3>1, <3>3, CancelSpares
    <3> QED
      BY <3>4 DEF p
  <2>3. status'[d] = status[d]
    BY <1>2, <1>4
  <2>4. \A f \in Documents : status[f] = "cancelled" => status'[f] = "cancelled"
    BY <1>2
  <2> QED
    BY <1>2, <2>1, <2>2, <2>3, <2>4, StillStanding
<1> QED
  BY <1>3, <1>4

LEMMA CountsLinesStay ==
    ASSUME sle' = sle, NEW d, NEW xs, CountsLines(xs, d) PROVE CountsLines(xs, d)'
<1>1. \A l : CountLeg(d, l)' = CountLeg(d, l)
  BY DEF CountLeg, Time
<1> QED
  BY <1>1 DEF CountsLines

LEMMA UpToDateStep ==
    ASSUME OneAtATime, Inductive, UpToDate, [Next]_vars PROVE UpToDate'
<1>1. CASE UNCHANGED vars
  <2>1. ASSUME NEW q \in Requests, reg'[q] # Null PROVE Current(q)'
    <3>1. Current(q) /\ reg'[q] = reg[q] /\ sle' = sle /\ status' = status
      BY <1>1, <2>1 DEF vars, UpToDate
    <3>2. PICK e : e = reg[q]
      OBVIOUS
    <3>3. reg'[q] = e
      BY <3>1, <3>2
    <3>4. Counts(e.doc)' => Counts(e.doc)
      BY DEF Counts
    <3>5. CountsLines(e.intents, e.doc) => CountsLines(e.intents, e.doc)'
      BY <3>1, CountsLinesStay
    <3> QED
      BY <3>1, <3>2, <3>3, <3>4, <3>5 DEF Current
  <2> QED
    BY <2>1 DEF UpToDate
<1>2. ASSUME NEW r \in Requests, NEW d \in Documents, ReadForSubmit(r, d) PROVE UpToDate'
  <2> DEFINE e == [op |-> "submit", doc |-> d, intents |-> Intents(d),
                   backdated |-> Backdated(d, PairsOf(Intents(d)))]
  <2>1. reg' = [reg EXCEPT ![r] = e] /\ status[d] = "draft" /\ UNCHANGED << sle, status >>
    BY <1>2 DEF ReadForSubmit
  <2>2. e.doc = d /\ e.intents = Intents(d)
    OBVIOUS
  <2> HIDE DEF e
  <2>3. Counts(d) => CountsLines(Intents(d), d)
    BY CountIntents DEF Inductive
  <2>4. ASSUME NEW q \in Requests PROVE reg'[q] = e
    BY <2>1 DEF OneAtATime, Inductive, TypeOK
  <2> DEFINE xs == Intents(d)
  <2> HIDE DEF xs
  <2>5. e.intents = xs /\ (Counts(d) => CountsLines(xs, d))
    BY <2>2, <2>3 DEF xs
  <2>6. PICK ys : ys = xs
    OBVIOUS
  <2>7. Counts(d) => CountsLines(ys, d)'
    BY <2>1, <2>5, <2>6, CountsLinesStay
  <2>8. \A q \in Requests : reg'[q].doc = d /\ reg'[q].intents = ys
    BY <2>2, <2>4, <2>5, <2>6
  <2>9. ASSUME NEW q \in Requests PROVE Current(q)'
    <3>1. status'[d] = "draft"
      BY <2>1
    <3>2. Counts(d)' => Counts(d)
      BY DEF Counts
    <3> QED
      BY <2>7, <2>8, <3>1, <3>2 DEF Current
  <2> QED
    BY <2>9 DEF UpToDate
<1>3. ASSUME NEW r \in Requests, NEW d \in Documents, ReadForCancel(r, d) PROVE UpToDate'
  <2> DEFINE e == [op |-> "cancel", doc |-> d, rows |-> LiveRowsOf(sle, d),
                   worth |-> Worth(sle, LiveRowsOf(sle, d))]
  <2>1. reg' = [reg EXCEPT ![r] = e]
    BY <1>3 DEF ReadForCancel
  <2>2. e.op = "cancel"
    OBVIOUS
  <2> HIDE DEF e
  <2>3. ASSUME NEW q \in Requests PROVE reg'[q] = e
    BY <2>1 DEF OneAtATime, Inductive, TypeOK
  <2>4. \A q \in Requests : Current(q)'
    BY <2>2, <2>3 DEF Current
  <2> QED
    BY <2>4 DEF UpToDate
<1>4. ASSUME NEW r \in Requests, WriteSubmit(r) \/ WriteCancel(r) \/ Abort(r) PROVE UpToDate'
  <2>1. reg' = [reg EXCEPT ![r] = Null]
    BY <1>4 DEF WriteSubmit, WriteCancel, Abort
  <2>2. \A q \in Requests : reg'[q] = Null
    BY <2>1 DEF OneAtATime, Inductive, TypeOK
  <2> QED
    BY <2>2 DEF UpToDate
<1> QED
  BY <1>1, <1>2, <1>3, <1>4 DEF Next

LEMMA SteadyStep ==
    ASSUME OneAtATime, FarApart, Inductive, Inductive', Booked, Steady, [Next]_vars PROVE Steady'
<1>1. UpToDate'
  BY UpToDateStep DEF Steady
<1>2. ASSUME UNCHANGED << sle, status >> PROVE Steady'
  <2>1. Paced'
    BY <1>2 DEF Steady, Paced, Drifts, Time
  <2>2. ASSUME NEW d \in Documents PROVE Standing(d)'
    <3>1. Standing(d)
      BY DEF Steady
    <3>2. /\ sle \in Ledger /\ sle' \in Ledger /\ Len(sle') >= Len(sle)
      BY <1>2, LedgerRows DEF Inductive
    <3>3. \A p : Same(sle, sle', d, p)
      BY <1>2 DEF Same
    <3> QED
      BY <1>2, <3>1, <3>2, <3>3, StillStanding
  <2> QED
    BY <1>1, <2>1, <2>2 DEF Steady
<1>3. ASSUME NEW r \in Requests, WriteSubmit(r) PROVE Steady'
  <2>1. Paced'
    BY <1>3, SubmitPaced DEF Steady
  <2>2. \A d \in Documents : Standing(d)'
    BY <1>3, SubmitSteady
  <2> QED
    BY <1>1, <2>1, <2>2 DEF Steady
<1>4. ASSUME NEW r \in Requests, WriteCancel(r) PROVE Steady'
  <2>1. Paced'
    BY <1>4, CancelPaced DEF Steady
  <2>2. \A d \in Documents : Standing(d)'
    BY <1>4, CancelSteady
  <2> QED
    BY <1>1, <2>1, <2>2 DEF Steady
<1>5. ASSUME NEW r \in Requests, NEW d \in Documents, ReadForSubmit(r, d) \/ ReadForCancel(r, d)
      PROVE  UNCHANGED << sle, status >>
  BY <1>5 DEF ReadForSubmit, ReadForCancel
<1>6. ASSUME NEW r \in Requests, Abort(r) PROVE UNCHANGED << sle, status >>
  BY <1>6 DEF Abort
<1>7. UNCHANGED vars => UNCHANGED << sle, status >>
  BY DEF vars
<1> QED
  BY <1>2, <1>3, <1>4, <1>5, <1>6, <1>7 DEF Next

(* The row of a count is the last of its pair at its time.                 *)
LEMMA StandsLast ==
    ASSUME FarApart, sle \in Ledger, Paced, NEW d \in Documents, NEW l, Stands(sle, d, l)
    PROVE  LET now == LastAt(sle, l.target, Time(d))
           IN now.after = l.qty /\ (l.qty # 0 /\ l.rate # Null => now.rate = l.rate)
<1> DEFINE p == l.target
           S == {j \in LiveRows(sle, p) : sle[j].time <= Time(d)}
<1>1. PICK i \in DOMAIN sle :
        /\ Of(sle, d, p) = {i} /\ sle[i].live /\ sle[i].time = Time(d)
        /\ sle[i].after = l.qty /\ (l.qty # 0 /\ l.rate # Null => sle[i].rate = l.rate)
  BY DEF Stands
<1>2. S \in SUBSET DOMAIN sle
  BY DEF LiveRows
<1>3. Time(d) \in Nat /\ MaxRows \in Nat
  BY EntriesAssumption DEF Time
<1>4. i \in S
  <2>1. sle[i].pair = p
    BY <1>1 DEF Of, RowsOf
  <2> QED
    BY <1>1, <1>3, <2>1 DEF LiveRows
<1>5. \A j \in S : sle[j].pair = p /\ sle[j].time <= Time(d)
  BY DEF LiveRows
<1> HIDE DEF S
<1>6. PICK m \in S : Latest(sle, S) = sle[m] /\ \A j \in S : Later(sle, m, j)
  BY <1>2, <1>4, LedgerRows, LatestRow
<1>7. sle[m].time = Time(d)
  <2>1. Later(sle, m, i) /\ sle[m].time <= Time(d) /\ m \in DOMAIN sle
    BY <1>2, <1>4, <1>5, <1>6
  <2>2. sle[m].time \in Nat
    BY <2>1, TimesType
  <2> QED
    BY <1>1, <1>3, <2>1, <2>2 DEF Later
<1>8. sle[m].doc = d
  <2>1. SUFFICES ASSUME sle[m].doc # d PROVE FALSE
    OBVIOUS
  <2>2. PICK e \in Documents : e = sle[m].doc
    BY <1>2, TimesType
  <2>3. /\ Time(e) \in Nat /\ m \in Nat /\ sle[m].time >= Time(e)
        /\ sle[m].time <= Time(e) + m /\ m <= MaxRows
    <3>1. m \in DOMAIN sle /\ Len(sle) \in Nat /\ DOMAIN sle = 1..Len(sle) /\ Len(sle) <= MaxRows
      BY <1>2, LedgerRows DEF Paced
    <3>2. m <= MaxRows
      BY <1>3, <3>1
    <3> QED
      BY <2>2, <3>1, <3>2, TimesType DEF Paced, Drifts
  <2>4. Time(d) + MaxRows < Time(e) \/ Time(e) + MaxRows < Time(d)
    BY <2>1, <2>2 DEF FarApart
  <2> QED
    BY <1>3, <1>7, <2>3, <2>4
<1>9. m = i
  <2>1. m \in Of(sle, d, p)
    BY <1>2, <1>5, <1>8 DEF Of, RowsOf
  <2> QED
    BY <1>1, <2>1
<1>10. LastAt(sle, p, Time(d)) = sle[i]
  BY <1>6, <1>9 DEF LastAt, S
<1> QED
  BY <1>1, <1>10

(* THEOREM: a count stands.  If requests run one at a time and no two      *)
(* documents have posting times as close as the rows a replay may add,     *)
(* then whatever is posted, cancelled or replayed around a reconciliation, *)
(* the ledger holds at its time the quantity and the rate that were        *)
(* counted, unless an entry before it changed after it.                    *)
THEOREM CountsStand == OneAtATime /\ FarApart /\ Spec => []CountStands
<1> SUFFICES ASSUME OneAtATime, FarApart PROVE Spec => []CountStands
  OBVIOUS
<1>1. Init => Inductive /\ Booked /\ Steady
  BY InductiveInit, BookedInit, SteadyInit
<1>2. Inductive /\ Booked /\ Steady /\ [Next]_vars => (Inductive /\ Booked /\ Steady)'
  BY InductiveStep, BookedStep, SteadyStep
<1>3. Inductive /\ Steady => CountStands
  <2> SUFFICES ASSUME Inductive, Steady, NEW d \in Documents, Counts(d), status[d] = "submitted",
                      NEW k \in DOMAIN Entries[d].lines, Undisturbed(d, Entries[d].lines[k].target)
               PROVE  LET l == Entries[d].lines[k]
                          now == LastAt(sle, l.target, Time(d))
                      IN now.after = l.qty /\ (l.qty # 0 /\ l.rate # Null => now.rate = l.rate)
    BY DEF CountStands
  <2>1. Stands(sle, d, Entries[d].lines[k])
    BY DEF Steady, Standing
  <2> QED
    BY <2>1, StandsLast DEF Inductive, Steady
<1> QED
  BY <1>1, <1>2, <1>3, PTL DEF Spec

-----------------------------------------------------------------------------
(* What the rows of a pair add up to: up to each live row, the quantities  *)
(* of the live rows before it, unless a count on the pair was passed over, *)
(* and their values, if the averages of the receipts came out even.        *)
Reversals(log, p) == \E i \in DOMAIN log : log[i].pair = p /\ log[i].reversal
Before(log, p, i) == {j \in LiveRows(log, p) : Later(log, i, j)}
LeaptAt(log, p, i) ==
    \E a, b \in LiveRows(log, p) :
        Counts(log[a].doc) /\ a < b /\ log[b].time < log[a].time /\ Later(log, i, a)
Receives(log, i) == log[i].qty > 0 /\ ~Counts(log[i].doc)
EvenRow(log, p, i) ==
    LET prev == Latest(log, Before(log, p, i) \ {i})
    IN log[i].after * log[i].rate = prev.after * prev.rate + log[i].value
EvenTo(log, p, i) == \A j \in Before(log, p, i) : Receives(log, j) => EvenRow(log, p, j)
Summed(log, p, i) ==
    \/ LeaptAt(log, p, i)
    \/ /\ log[i].after = Quantity(log, Before(log, p, i))
       /\ EvenTo(log, p, i) => log[i].after * log[i].rate = Worth(log, Before(log, p, i))
Sums(log, p) == \A i \in LiveRows(log, p) : Summed(log, p, i)
OnTime(log, p) == \A i \in DOMAIN log : log[i].pair = p => log[i].time = Time(log[i].doc)

(* Two ledgers with the same rows on a pair.                               *)
On(log, p) == {i \in DOMAIN log : log[i].pair = p}
SameOn(old, new, p) == On(new, p) = On(old, p) /\ \A i \in On(old, p) : new[i] = old[i]

LEMMA SameOnTwice ==
    ASSUME NEW old, NEW log, NEW new, NEW p, SameOn(old, log, p), SameOn(log, new, p)
    PROVE  SameOn(old, new, p)
BY DEF SameOn

LEMMA SameOnLive ==
    ASSUME NEW old, NEW new, NEW p, SameOn(old, new, p)
    PROVE  LiveRows(new, p) = LiveRows(old, p) /\ \A i \in LiveRows(old, p) : new[i] = old[i]
BY DEF SameOn, On, LiveRows

(* A row up to which two ledgers are the same on a pair.                   *)
SameTo(old, new, p, i) ==
    /\ i \in LiveRows(old, p) /\ Before(new, p, i) = Before(old, p, i)
    /\ \A j \in Before(old, p, i) : new[j] = old[j]

LEMMA LaterTwice ==
    ASSUME NEW log \in Ledger, NEW i \in DOMAIN log, NEW j \in DOMAIN log, NEW k \in DOMAIN log,
           Later(log, i, j), Later(log, j, k)
    PROVE  Later(log, i, k)
<1>1. /\ log[i].time \in Int /\ log[j].time \in Int /\ log[k].time \in Int
      /\ i \in Int /\ j \in Int /\ k \in Int
  BY LedgerRows DEF Timed
<1> QED
  BY <1>1 DEF Later

LEMMA SelfBefore ==
    ASSUME NEW log \in Ledger, NEW p, NEW i \in LiveRows(log, p)
    PROVE  i \in Before(log, p, i)
<1>1. i \in DOMAIN log
  BY DEF LiveRows
<1>2. i \in Int /\ log[i].time \in Int
  BY <1>1, LedgerRows DEF Timed
<1> QED
  BY <1>2 DEF Before, Later

LEMMA SameBelow ==
    ASSUME NEW old \in Ledger, NEW new \in Ledger, NEW p, NEW i, SameTo(old, new, p, i),
           NEW j \in Before(old, p, i)
    PROVE  SameTo(old, new, p, j)
<1> DEFINE B == Before(old, p, i)
<1>1. /\ i \in B /\ B = Before(new, p, i)
      /\ \A k \in B : /\ k \in LiveRows(old, p) /\ k \in LiveRows(new, p) /\ k \in DOMAIN old
                      /\ k \in DOMAIN new /\ Later(old, i, k) /\ Later(new, i, k) /\ new[k] = old[k]
  BY SelfBefore DEF SameTo, Before, LiveRows
<1>2. \A k \in Before(old, p, j) : k \in LiveRows(old, p) /\ k \in DOMAIN old /\ Later(old, j, k)
  BY DEF Before, LiveRows
<1>3. \A k \in Before(new, p, j) : k \in LiveRows(new, p) /\ k \in DOMAIN new /\ Later(new, j, k)
  BY DEF Before, LiveRows
<1>4. j \in B
  OBVIOUS
<1>5. \A k \in Before(old, p, j) : k \in B
  <2> SUFFICES ASSUME NEW k \in Before(old, p, j) PROVE k \in B
    OBVIOUS
  <2>1. Later(old, i, k)
    BY <1>1, <1>2, <1>4, LaterTwice
  <2> QED
    BY <1>2, <2>1 DEF Before
<1>6. \A k \in Before(new, p, j) : k \in B
  <2> SUFFICES ASSUME NEW k \in Before(new, p, j) PROVE k \in B
    OBVIOUS
  <2>1. Later(new, i, k)
    BY <1>1, <1>3, <1>4, LaterTwice
  <2> QED
    BY <1>1, <1>3, <2>1 DEF Before
<1> HIDE DEF B
<1>7. \A k \in B : Later(new, j, k) <=> Later(old, j, k)
  BY <1>1, <1>4 DEF Later
<1>8. \A k : k \in Before(new, p, j) <=> k \in Before(old, p, j)
  BY <1>1, <1>2, <1>3, <1>5, <1>6, <1>7 DEF Before
<1>9. Before(new, p, j) = Before(old, p, j)
  BY <1>8
<1> QED
  BY <1>1, <1>4, <1>5, <1>9 DEF SameTo

LEMMA EvenBack ==
    ASSUME NEW old \in Ledger, NEW new \in Ledger, NEW p, NEW i, SameTo(old, new, p, i),
           EvenTo(new, p, i)
    PROVE  EvenTo(old, p, i)
<1> SUFFICES ASSUME NEW j \in Before(old, p, i), Receives(old, j) PROVE EvenRow(old, p, j)
  BY DEF EvenTo
<1> DEFINE S == Before(old, p, j) \ {j}
<1>1. SameTo(old, new, p, j) /\ new[j] = old[j] /\ j \in Before(new, p, i)
  BY SameBelow DEF SameTo
<1>2. EvenRow(new, p, j)
  BY <1>1 DEF EvenTo, Receives
<1>3. S \in SUBSET DOMAIN old /\ (\A k \in S : new[k] = old[k]) /\ S = Before(new, p, j) \ {j}
  BY <1>1 DEF SameTo, Before, LiveRows
<1>4. EvenRow(new, p, j) <=> LET prev == Latest(new, S)
                             IN new[j].after * new[j].rate = prev.after * prev.rate + new[j].value
  BY <1>3 DEF EvenRow
<1>5. EvenRow(old, p, j) <=> LET prev == Latest(old, S)
                             IN old[j].after * old[j].rate = prev.after * prev.rate + old[j].value
  BY DEF EvenRow
<1> HIDE DEF S
<1>6. Latest(new, S) = Latest(old, S)
  BY <1>3, SameLatest
<1> QED
  BY <1>1, <1>2, <1>4, <1>5, <1>6

LEMMA SummedStays ==
    ASSUME NEW old \in Ledger, NEW new \in Ledger, NEW p, NEW i, SameTo(old, new, p, i),
           Summed(old, p, i)
    PROVE  Summed(new, p, i)
<1> DEFINE B == Before(old, p, i)
<1>1. i \in B /\ B = Before(new, p, i) /\ \A j \in B : new[j] = old[j]
  BY SelfBefore DEF SameTo
<1>2. CASE LeaptAt(old, p, i)
  <2>1. PICK a \in LiveRows(old, p), b \in LiveRows(old, p) :
          Counts(old[a].doc) /\ a < b /\ old[b].time < old[a].time /\ Later(old, i, a)
    BY <1>2 DEF LeaptAt
  <2>2. i \in LiveRows(old, p)
    BY DEF SameTo
  <2>3. a \in B
    BY <2>1 DEF Before
  <2>4. b \in B
    <3>1. /\ i \in Int /\ a \in Int /\ b \in Int
          /\ old[i].time \in Int /\ old[a].time \in Int /\ old[b].time \in Int
      BY <2>1, <2>2, LedgerRows DEF LiveRows, Timed
    <3>2. Later(old, i, b)
      BY <2>1, <3>1 DEF Later
    <3> QED
      BY <2>1, <3>2 DEF Before
  <2>5. a \in LiveRows(new, p) /\ b \in LiveRows(new, p) /\ Later(new, i, a)
    BY <1>1, <2>3, <2>4 DEF Before
  <2>6. LeaptAt(new, p, i)
    BY <1>1, <2>1, <2>3, <2>4, <2>5 DEF LeaptAt
  <2> QED
    BY <2>6 DEF Summed
<1>3. ASSUME old[i].after = Quantity(old, B),
             EvenTo(old, p, i) => old[i].after * old[i].rate = Worth(old, B)
      PROVE  Summed(new, p, i)
  <2> HIDE DEF B
  <2>1. Quantity(old, B) = Quantity(new, B)
    BY <1>1, QuantitySame
  <2>2. Worth(old, B) = Worth(new, B)
    BY <1>1, WorthSame
  <2>3. EvenTo(new, p, i) => EvenTo(old, p, i)
    BY EvenBack
  <2>4. new[i].after = Quantity(new, Before(new, p, i))
    BY <1>1, <1>3, <2>1
  <2>5. EvenTo(new, p, i) => new[i].after * new[i].rate = Worth(new, Before(new, p, i))
    BY <1>1, <1>3, <2>2, <2>3
  <2> QED
    BY <2>4, <2>5 DEF Summed
<1> QED
  BY <1>2, <1>3 DEF Summed

LEMMA SumsSame ==
    ASSUME NEW old \in Ledger, NEW new \in Ledger, NEW p, SameOn(old, new, p), Sums(old, p), OnTime(old, p)
    PROVE  Sums(new, p) /\ OnTime(new, p)
<1> DEFINE S == LiveRows(old, p)
<1>1. LiveRows(new, p) = S /\ \A i \in S : new[i] = old[i]
  BY SameOnLive
<1>2. OnTime(new, p)
  BY DEF OnTime, SameOn, On
<1> HIDE DEF S
<1>3. ASSUME NEW i \in S PROVE Summed(new, p, i)
  <2>1. Before(new, p, i) = Before(old, p, i)
    BY <1>1, <1>3 DEF Before, Later, S
  <2>2. SameTo(old, new, p, i)
    BY <1>1, <1>3, <2>1 DEF SameTo, Before, S
  <2> QED
    BY <1>3, <2>2, SummedStays DEF Sums, S
<1> QED
  BY <1>1, <1>2, <1>3 DEF Sums

(* What a posting leaves of the pairs it has no rows on.                   *)
LEMMA WithinSameOn ==
    ASSUME NEW old \in Ledger, NEW new \in Ledger, NEW ps, NEW t, Within(old, new, ps, t),
           NEW p, p \notin ps
    PROVE  SameOn(old, new, p)
<1>1. DOMAIN old \subseteq DOMAIN new
  BY LedgerRows DEF Within
<1>2. \A i \in DOMAIN old : new[i] = old[i] \/ old[i].pair # p
  BY DEF Within
<1>3. \A i \in DOMAIN old : new[i] = old[i] \/ new[i] = [old[i] EXCEPT !.live = FALSE]
  BY DEF Within
<1>4. \A e \in Sle : [e EXCEPT !.live = FALSE].pair = e.pair
  BY DEF Sle
<1>5. \A i \in DOMAIN old : new[i].pair = old[i].pair
  BY <1>3, <1>4, LedgerRows
<1>6. \A i \in DOMAIN new \ DOMAIN old : new[i].pair # p
  BY DEF Within
<1> QED
  BY <1>1, <1>2, <1>5, <1>6 DEF SameOn, On

(* A reversal stays.                                                       *)
LEMMA ReversalsStay ==
    ASSUME NEW old \in Ledger, NEW new \in Ledger, NEW ps, NEW t, Within(old, new, ps, t),
           NEW p, Reversals(old, p)
    PROVE  Reversals(new, p)
<1>1. PICK i \in DOMAIN old : old[i].pair = p /\ old[i].reversal
  BY DEF Reversals
<1>2. new[i] = old[i] \/ new[i] = [old[i] EXCEPT !.live = FALSE]
  BY DEF Within
<1>3. i \in DOMAIN new /\ old[i] \in Sle
  BY LedgerRows DEF Within
<1>4. [old[i] EXCEPT !.live = FALSE].pair = old[i].pair /\ [old[i] EXCEPT !.live = FALSE].reversal = old[i].reversal
  BY <1>3 DEF Sle
<1> QED
  BY <1>1, <1>2, <1>3, <1>4 DEF Reversals

-----------------------------------------------------------------------------
(* The rows a replay takes up.                                             *)
Taken(log, p, t, skipped) == {i \in LiveRows(log, p) : log[i].time > t /\ log[i].doc \notin skipped}

LEMMA TakenSame ==
    ASSUME NEW old, NEW new, NEW p, SameOn(old, new, p), NEW t, NEW skipped
    PROVE  Taken(new, p, t, skipped) = Taken(old, p, t, skipped)
BY SameOnLive DEF Taken

LEMMA StreamOf ==
    ASSUME NEW log \in Ledger, NEW p, NEW t \in Int, NEW skipped
    PROVE  DOMAIN Stream(log, p, t, skipped) = {} <=> Taken(log, p, t, skipped) = {}
<1> DEFINE S == Taken(log, p, t, skipped)
<1>1. S \in SUBSET DOMAIN log /\ Stream(log, p, t, skipped) = InTimeOrder(log, S)
  BY DEF Taken, LiveRows, Stream
<1> HIDE DEF S
<1>2. IsFiniteSet(S) /\ DOMAIN InTimeOrder(log, S) = 1..Cardinality(S)
  BY <1>1, LedgerRows, InOrder
<1>3. Cardinality(S) \in Nat /\ (Cardinality(S) = 0 <=> S = {})
  BY <1>2, FS_CardinalityType, FS_EmptySet
<1>4. 1..Cardinality(S) = {} <=> Cardinality(S) = 0
  BY <1>3
<1> QED
  BY <1>1, <1>2, <1>3, <1>4 DEF S

(* A replay with nothing to take up leaves the ledger as it is.            *)
LEMMA RepostNothing ==
    ASSUME NEW log \in Ledger, NEW p, NEW t \in Int, NEW skipped, Taken(log, p, t, skipped) = {}
    PROVE  Repost(log, p, t, skipped) = log
<1> DEFINE stream == Stream(log, p, t, skipped)
           V == {log}
<1>1. stream \in Seq(DOMAIN log) /\ DOMAIN stream = {}
  BY StreamRows, StreamOf
<1>2. Repost(log, p, t, skipped) = AppendAgain(CancelAll(log, stream), log, stream)
  BY DEF Repost
<1> HIDE DEF stream
<1>3. log \in V
  OBVIOUS
<1>4. /\ \A l \in V : \A k \in DOMAIN stream : CancelSle(l, stream[k]) \in V
      /\ \A l \in V : \A k \in DOMAIN stream : AppendSle(l, Again(log[stream[k]], k)) \in V
  BY <1>1
<1> HIDE DEF V
<1>5. CancelAll(log, stream) \in V
  BY <1>1, <1>3, <1>4, CancelAllStays
<1>6. AppendAgain(CancelAll(log, stream), log, stream) \in V
  <2> DEFINE start == CancelAll(log, stream)
  <2> HIDE DEF start
  <2>1. AppendAgain(start, log, stream) \in V
    BY <1>1, <1>4, <1>5, AppendAgainStays DEF start
  <2> QED
    BY <2>1 DEF start
<1> QED
  BY <1>2, <1>6 DEF V

(* A replay with something to take up leaves a reversal.                   *)
LEMMA RepostReverses ==
    ASSUME NEW log \in Ledger, NEW p, NEW t \in Int, NEW skipped, Taken(log, p, t, skipped) # {}
    PROVE  Reversals(Repost(log, p, t, skipped), p)
<1> DEFINE stream == Stream(log, p, t, skipped)
           S == DOMAIN stream
           V == Replaying(log, p, t)
           W == {l \in V : Reversals(l, p)}
<1>1. stream \in Seq(DOMAIN log) /\ S # {}
  BY StreamRows, StreamOf
<1>2. \A k \in S :
          /\ stream[k] \in DOMAIN log /\ log[stream[k]].pair = p /\ log[stream[k]].time > t
          /\ Appendable(Again(log[stream[k]], k)) /\ Again(log[stream[k]], k).time >= t
          /\ Again(log[stream[k]], k).pair = p
  BY StreamRow
<1>3. Repost(log, p, t, skipped) = AppendAgain(CancelAll(log, stream), log, stream)
  BY DEF Repost
<1> HIDE DEF stream
<1>4. log \in V /\ V \subseteq Ledger
  BY WithinSelf DEF Replaying
<1>5. ASSUME NEW l \in V, NEW k \in S PROVE CancelSle(l, stream[k]) \in W
  <2> DEFINE i == stream[k]
  <2>1. i \in DOMAIN log /\ log[i].pair = p /\ log[i].time > t
    BY <1>2
  <2> HIDE DEF i, V
  <2>2. l \in Replaying(log, p, t) /\ l \in Ledger
    BY <1>4 DEF V
  <2>3. CancelSle(l, i) \in Replaying(log, p, t) /\ i \in DOMAIN l
        /\ (l[i] = log[i] \/ l[i] = [log[i] EXCEPT !.live = FALSE])
    BY <2>1, <2>2, CancelInside
  <2>4. l[i].pair = p
    <3>1. log[i] \in Sle
      BY <2>1, LedgerRows
    <3>2. [log[i] EXCEPT !.live = FALSE].pair = log[i].pair
      BY <3>1 DEF Sle
    <3> QED
      BY <2>1, <2>3, <3>2
  <2> DEFINE flagged == [l EXCEPT ![i].live = FALSE]
  <2>5. PICK row \in Sle : /\ CancelSle(l, i) = Append(flagged, row)
                           /\ row.pair = l[i].pair /\ row.time = l[i].time + 1
                           /\ row.doc = l[i].doc /\ row.reversal
    BY <2>2, <2>3, CancelledRow
  <2>6. flagged \in Ledger
    BY <2>2, <2>3, LedgerFlagged
  <2> HIDE DEF flagged
  <2>7. row.time >= Time(row.doc)
    BY <2>2, <2>3, <2>5, TimesType
  <2>8. Reversals(Append(flagged, row), p)
    BY <2>4, <2>5, <2>6, <2>7, LedgerGrows DEF Reversals
  <2> QED
    BY <2>3, <2>5, <2>8 DEF i, V
<1>6. ASSUME NEW l \in W, NEW k \in S PROVE AppendSle(l, Again(log[stream[k]], k)) \in W
  <2> DEFINE x == Again(log[stream[k]], k)
  <2>1. Appendable(x) /\ x.pair = p /\ x.time >= t
    BY <1>2
  <2> HIDE DEF x
  <2>2. l \in Replaying(log, p, t) /\ l \in Ledger /\ Reversals(l, p)
    BY <1>4
  <2>3. AppendSle(l, x) \in Replaying(log, p, t)
    BY <2>1, <2>2, AgainInside
  <2>4. PICK row \in Sle : /\ AppendSle(l, x) = Append(l, row)
                           /\ row.pair = x.pair /\ row.time = x.time /\ row.doc = x.doc
    BY <2>1, <2>2, AppendedRow
  <2>5. row.time >= Time(row.doc)
    BY <2>1, <2>4 DEF Appendable
  <2>6. Reversals(Append(l, row), p)
    BY <2>2, <2>5, LedgerGrows DEF Reversals
  <2> QED
    BY <2>3, <2>4, <2>6 DEF x
<1> HIDE DEF V
<1>7. PICK F \in [SUBSET S -> V] : CancelAll(log, stream) = F[S] /\ Cancels(F, log, stream)
  <2>1. \A l \in V : \A k \in DOMAIN stream : CancelSle(l, stream[k]) \in V
    BY <1>5
  <2> QED
    BY <1>1, <1>4, <2>1, CancelAllRuns, Zenon
<1>8. CancelAll(log, stream) \in W
  <2>1. PICK k \in S : F[S] = CancelSle(F[S \ {k}], stream[k])
    BY <1>1, <1>7 DEF Cancels
  <2>2. F[S \ {k}] \in V
    OBVIOUS
  <2> HIDE DEF W
  <2> QED
    BY <1>5, <1>7, <2>1, <2>2
<1> HIDE DEF W
<1>9. AppendAgain(CancelAll(log, stream), log, stream) \in W
  <2> DEFINE start == CancelAll(log, stream)
  <2> HIDE DEF start
  <2>1. AppendAgain(start, log, stream) \in W
    BY <1>1, <1>6, <1>8, AppendAgainStays DEF start
  <2> QED
    BY <2>1 DEF start
<1> QED
  BY <1>3, <1>9 DEF W

-----------------------------------------------------------------------------
(* What replays leave of a pair: everything, if there is nothing to take   *)
(* up, and a reversal if there is and they get to it.                      *)
LEMMA RepostAllNothing ==
    ASSUME NEW log \in Ledger, NEW ps, IsFiniteSet(ps), NEW t \in Int, NEW skipped, NEW p,
           Taken(log, p, t, skipped) = {}
    PROVE  SameOn(log, RepostAll(log, ps, t, skipped), p)
<1> DEFINE V == {l \in Ledger : SameOn(log, l, p)}
<1>1. log \in V
  BY DEF SameOn
<1>2. ASSUME NEW l \in V, NEW q \in ps PROVE Repost(l, q, t, skipped) \in V
  <2>1. l \in Ledger /\ SameOn(log, l, p)
    OBVIOUS
  <2>2. CASE q = p
    <3>1. Taken(l, p, t, skipped) = {}
      BY <2>1, TakenSame
    <3> QED
      BY <2>1, <2>2, <3>1, RepostNothing
  <2>3. CASE q # p
    <3>1. Repost(l, q, t, skipped) \in Ledger /\ Within(l, Repost(l, q, t, skipped), {q}, t)
      BY <2>1, RepostKeeps
    <3>2. SameOn(l, Repost(l, q, t, skipped), p)
      BY <2>1, <2>3, <3>1, WithinSameOn
    <3> QED
      BY <2>1, <3>1, <3>2, SameOnTwice
  <2> QED
    BY <2>2, <2>3
<1>3. RepostAll(log, ps, t, skipped) \in V
  <2> HIDE DEF V
  <2> QED
    BY <1>1, <1>2, RepostAllRuns
<1> QED
  BY <1>3

LEMMA RepostAllReverses ==
    ASSUME NEW log \in Ledger, NEW ps, IsFiniteSet(ps), NEW t \in Int, NEW skipped, NEW p \in ps,
           Taken(log, p, t, skipped) # {}
    PROVE  Reversals(RepostAll(log, ps, t, skipped), p)
<1> DEFINE Right(l, T) == IF p \in T THEN Reversals(l, p) ELSE SameOn(log, l, p)
<1>1. ASSUME NEW l \in Ledger, NEW q \in ps PROVE Repost(l, q, t, skipped) \in Ledger
  BY RepostKeeps
<1>2. PICK F \in [SUBSET ps -> Ledger] :
         RepostAll(log, ps, t, skipped) = F[ps] /\ Reposts(F, log, ps, t, skipped)
  BY <1>1, RepostAllTraced, Zenon
<1>3. F[{}] = log /\ \A T \in SUBSET ps : T # {} => \E q \in T : F[T] = Repost(F[T \ {q}], q, t, skipped)
  BY <1>2 DEF Reposts
<1>4. ASSUME NEW l \in Ledger, NEW T \in SUBSET ps, NEW q \in T, Right(l, T \ {q})
      PROVE  Right(Repost(l, q, t, skipped), T)
  <2> DEFINE new == Repost(l, q, t, skipped)
  <2>1. new \in Ledger /\ Within(l, new, {q}, t)
    BY RepostKeeps
  <2>2. CASE q = p
    <3>1. SameOn(log, l, p)
      BY <1>4, <2>2
    <3>2. Taken(l, p, t, skipped) # {}
      BY <3>1, TakenSame
    <3> QED
      BY <2>2, <3>2, RepostReverses
  <2>3. CASE q # p /\ p \in T
    <3>1. Reversals(l, p)
      BY <1>4, <2>3
    <3> HIDE DEF new
    <3>2. Reversals(new, p)
      BY <2>1, <3>1, ReversalsStay
    <3> QED
      BY <2>3, <3>2 DEF new
  <2>4. CASE q # p /\ p \notin T
    <3>1. SameOn(log, l, p)
      BY <1>4, <2>4
    <3> HIDE DEF new
    <3>2. SameOn(l, new, p)
      BY <2>1, <2>4, WithinSameOn
    <3>3. SameOn(log, new, p)
      BY <3>1, <3>2, SameOnTwice
    <3> QED
      BY <2>4, <3>3 DEF new
  <2> QED
    BY <2>2, <2>3, <2>4
<1>5. Right(log, {})
  BY DEF SameOn
<1> DEFINE Wrong == {T \in SUBSET ps : ~Right(F[T], T)}
<1> HIDE DEF Right
<1>6. Wrong = {}
  <2>1. SUFFICES ASSUME Wrong # {} PROVE FALSE
    OBVIOUS
  <2>2. Wrong \subseteq SUBSET ps
    OBVIOUS
  <2>3. PICK T \in Wrong : \A U \in Wrong : U \subseteq T => U = T
    <3> HIDE DEF Wrong
    <3> QED
      BY <2>1, <2>2, SmallestSubset
  <2>4. T # {} /\ T \in SUBSET ps
    BY <1>3, <1>5
  <2>5. PICK q \in T : F[T] = Repost(F[T \ {q}], q, t, skipped)
    BY <1>3, <2>4
  <2>6. F[T \ {q}] \in Ledger /\ T \ {q} \notin Wrong /\ T \ {q} \in SUBSET ps
    BY <2>3, <2>4
  <2>7. Right(F[T \ {q}], T \ {q})
    BY <2>6
  <2>8. Right(F[T], T)
    BY <1>4, <2>4, <2>5, <2>6, <2>7
  <2> QED
    BY <2>8
<1>7. Right(F[ps], ps)
  BY <1>6
<1> QED
  BY <1>2, <1>7 DEF Right

-----------------------------------------------------------------------------
(* A leg of an entry moves what it says: a receipt without a rate would be *)
(* taken for a revaluation.                                                *)
Moving(x) == x.qty < 0 \/ (x.qty > 0 /\ x.in # Null)

(* The row it is given; what is taken from the stock is valued as it was.  *)
LEMMA MovedAfter ==
    ASSUME NEW log \in Ledger, NEW d, ~Counts(d), NEW x, Appendable(x), Moving(x)
    PROVE  LET prev == LastAt(log, x.pair, x.time)
           IN \E row \in Sle :
                  /\ AppendFor(d, log, x) = Append(log, row)
                  /\ row.pair = x.pair /\ row.time = x.time /\ row.doc = x.doc
                  /\ row.qty = x.qty /\ row.live /\ ~row.reversal
                  /\ row.after = prev.after + row.qty
                  /\ row.qty > 0 \/ row.after * row.rate = prev.after * prev.rate + row.value
<1> DEFINE prev == LastAt(log, x.pair, x.time)
           v == Valued(prev, x)
<1>1. PICK row \in Sle : /\ AppendFor(d, log, x) = Append(log, row)
                         /\ row.pair = x.pair /\ row.time = x.time /\ row.doc = x.doc
                         /\ row.qty = x.qty /\ row.live /\ ~row.reversal
  BY AppendedFor
<1>2. prev.after \in Int /\ prev.rate \in Int /\ x.qty \in Int
  <2>1. {i \in LiveRows(log, x.pair) : log[i].time <= x.time} \in SUBSET DOMAIN log
    BY DEF LiveRows
  <2> QED
    BY <2>1, LatestType DEF LastAt, Appendable
<1> DEFINE made == [pair |-> x.pair, time |-> x.time, doc |-> x.doc, qty |-> x.qty,
                    in |-> x.in, rate |-> v.rate, value |-> v.value,
                    before |-> prev.after, after |-> v.after, live |-> TRUE, reversal |-> FALSE]
<1>3. AppendFor(d, log, x) = Append(log, made)
  BY DEF AppendFor, AppendSle, AppendRow
<1> HIDE DEF prev
<1>4. v.after = prev.after + x.qty
  <2>1. CASE x.qty < 0
    <3>1. ~(x.qty > 0)
      BY <1>2, <2>1
    <3> QED
      BY <2>1, <3>1 DEF Valued
  <2>2. CASE x.qty > 0 /\ x.in # Null
    BY <2>2 DEF Valued
  <2> QED
    BY <2>1, <2>2 DEF Moving
<1>5. ASSUME ~(x.qty > 0) PROVE v.after * v.rate = prev.after * prev.rate + v.value
  <2>1. x.qty < 0
    BY <1>5 DEF Moving
  <2>2. v.value = x.qty * prev.rate /\ v.rate = prev.rate
    BY <1>5, <2>1 DEF Valued
  <2> HIDE DEF v
  <2>3. v.after * v.rate = (prev.after + x.qty) * prev.rate
    BY <1>4, <2>2
  <2>4. (prev.after + x.qty) * prev.rate = prev.after * prev.rate + x.qty * prev.rate
    BY <1>2
  <2> QED
    BY <2>2, <2>3, <2>4
<1>6. made.after = v.after /\ made.rate = v.rate /\ made.value = v.value
  OBVIOUS
<1> HIDE DEF v, made
<1>7. row = made
  <2>1. log \in Seq(Sle) /\ Len(log) \in Nat
    BY LedgerRows
  <2>2. ASSUME NEW e PROVE Append(log, e)[Len(log) + 1] = e
    BY <2>1
  <2>3. Append(log, row) = Append(log, made)
    BY <1>1, <1>3
  <2>4. Append(log, row)[Len(log) + 1] = row /\ Append(log, made)[Len(log) + 1] = made
    BY <2>2, Zenon
  <2> QED
    BY <2>3, <2>4, Zenon
<1>8. row.after = prev.after + row.qty
  BY <1>1, <1>4, <1>6, <1>7
<1>9. row.qty > 0 \/ row.after * row.rate = prev.after * prev.rate + row.value
  BY <1>1, <1>5, <1>6, <1>7
<1> QED
  BY <1>1, <1>8, <1>9 DEF prev

(* The sums go on where only counts lie later.                             *)
LateCounts(log, p, t) == \A i \in LiveRows(log, p) : log[i].time > t => Counts(log[i].doc)

LEMMA SumsGrow ==
    ASSUME NEW log \in Ledger, NEW new \in Ledger, NEW p, Sums(log, p),
           NEW n \in DOMAIN new, n \notin DOMAIN log, LiveRows(new, p) = LiveRows(log, p) \cup {n},
           \A i \in LiveRows(log, p) : new[i] = log[i],
           LET prev == LastAt(log, p, new[n].time)
           IN /\ new[n].after = prev.after + new[n].qty
              /\ Receives(new, n) \/ new[n].after * new[n].rate = prev.after * prev.rate + new[n].value,
           LateCounts(log, p, new[n].time)
    PROVE  Sums(new, p)
<1> DEFINE S == LiveRows(log, p)
           t == new[n].time
           L == {i \in S : log[i].time <= t}
           prev == Latest(log, L)
<1>1. LiveRows(new, p) = S \cup {n} /\ \A i \in S : new[i] = log[i]
  OBVIOUS
<1>2. n \in Int /\ \A i \in DOMAIN log : i \in Int /\ i < n
  <2>1. DOMAIN log = 1..Len(log) /\ DOMAIN new = 1..Len(new) /\ Len(log) \in Nat /\ Len(new) \in Nat
    BY LedgerRows
  <2> QED
    BY <2>1
<1>3. \A i \in DOMAIN log : log[i].time \in Int /\ log[i].qty \in Int /\ log[i].value \in Int
  BY LedgerRows DEF Sle
<1>4. t \in Int /\ new[n].qty \in Int /\ new[n].value \in Int
  BY LedgerRows DEF Sle
<1>5. S \in SUBSET DOMAIN log /\ L \in SUBSET S /\ n \notin S
  BY DEF LiveRows
<1>6. /\ new[n].after = prev.after + new[n].qty
      /\ Receives(new, n) \/ new[n].after * new[n].rate = prev.after * prev.rate + new[n].value
  BY DEF LastAt
<1>7. \A i \in S : log[i].time > t => Counts(log[i].doc)
  BY DEF LateCounts
<1>8. \A i \in S : Summed(log, p, i)
  BY DEF Sums
<1> HIDE DEF S, t, prev
<1>9. ASSUME NEW i \in S, ~(log[i].time > t) PROVE SameTo(log, new, p, i)
  <2>1. ~Later(new, i, n)
    BY <1>1, <1>2, <1>3, <1>4, <1>5, <1>9 DEF Later, t
  <2>2. \A j \in S : Later(new, i, j) <=> Later(log, i, j)
    BY <1>1 DEF Later
  <2>3. Before(new, p, i) = Before(log, p, i)
    BY <1>1, <2>1, <2>2 DEF Before, S
  <2> QED
    BY <1>1, <1>9, <2>3 DEF SameTo, Before, S
<1>10. ASSUME NEW i \in S PROVE Summed(new, p, i)
  <2>1. CASE log[i].time > t
    <3>1. Counts(new[i].doc) /\ i < n /\ new[n].time < new[i].time /\ Later(new, i, i)
      BY <1>1, <1>2, <1>3, <1>4, <1>5, <1>7, <2>1 DEF Later, t
    <3>2. LeaptAt(new, p, i)
      BY <1>1, <3>1 DEF LeaptAt
    <3> QED
      BY <3>2 DEF Summed
  <2>2. CASE ~(log[i].time > t)
    BY <1>8, <1>9, <2>2, SummedStays
  <2> QED
    BY <2>1, <2>2
<1>11. Before(new, p, n) = L \cup {n} /\ \A i \in S : Later(new, n, i) <=> i \in L
  <2>1. \A i \in S : Later(new, n, i) <=> i \in L
    BY <1>1, <1>2, <1>3, <1>4, <1>5 DEF Later, t
  <2>2. Later(new, n, n)
    BY <1>2, <1>4 DEF Later, t
  <2> QED
    BY <1>1, <1>5, <2>1, <2>2 DEF Before
<1>12. IsFiniteSet(L) /\ n \notin L /\ L \in SUBSET DOMAIN log /\ \A i \in L : i \in S /\ new[i] = log[i]
  BY <1>1, <1>5, LedgerRows
<1>13. \A i \in L : log[i].time <= t /\ ~(log[i].time > t)
  BY <1>3, <1>4, <1>5
<1> HIDE DEF L
<1>14. \A i \in L \cup {n} : new[i].qty \in Int /\ new[i].value \in Int
  BY <1>3, <1>4, <1>12
<1>15. /\ Quantity(new, L \cup {n}) = Quantity(new, L) + new[n].qty
       /\ Worth(new, L \cup {n}) = Worth(new, L) + new[n].value
  BY <1>12, <1>14, QuantityMore, WorthMore
<1>16. /\ Quantity(new, L) = Quantity(log, L) /\ Worth(new, L) = Worth(log, L)
  BY <1>12, QuantitySame, WorthSame
<1>17. ASSUME EvenTo(new, p, n) PROVE new[n].after * new[n].rate = prev.after * prev.rate + new[n].value
  <2>1. CASE Receives(new, n)
    <3>1. EvenRow(new, p, n)
      BY <1>11, <1>17, <2>1 DEF EvenTo
    <3>2. Before(new, p, n) \ {n} = L
      BY <1>11, <1>12
    <3>3. Latest(new, L) = prev
      BY <1>12, SameLatest DEF prev
    <3> QED
      BY <3>1, <3>2, <3>3 DEF EvenRow
  <2> QED
    BY <1>6, <2>1
<1>18. ASSUME prev.after = Quantity(log, L), EvenTo(new, p, n) => prev.after * prev.rate = Worth(log, L)
       PROVE  Summed(new, p, n)
  <2>1. new[n].after = Quantity(new, Before(new, p, n))
    BY <1>6, <1>11, <1>15, <1>16, <1>18
  <2>2. EvenTo(new, p, n) => new[n].after * new[n].rate = Worth(new, Before(new, p, n))
    BY <1>11, <1>15, <1>16, <1>17, <1>18
  <2> QED
    BY <2>1, <2>2 DEF Summed
<1>19. CASE L = {}
  <2>1. prev.after = 0 /\ prev.rate = 0
    BY <1>19 DEF prev, Latest
  <2>2. Quantity(log, L) = 0 /\ Worth(log, L) = 0
    BY <1>19, QuantityOfNone, WorthOfNone
  <2>3. Summed(new, p, n)
    BY <1>18, <2>1, <2>2
  <2> QED
    BY <1>1, <1>10, <2>3 DEF Sums
<1>20. CASE L # {}
  <2>1. PICK m \in L : prev = log[m] /\ \A i \in L : Later(log, m, i)
    BY <1>12, <1>20, LedgerRows, LatestRow DEF prev
  <2>2. m \in S /\ m \in DOMAIN log /\ log[m].time <= t /\ ~(log[m].time > t)
    BY <1>12, <1>13
  <2>3. SameTo(log, new, p, m)
    BY <1>9, <2>2
  <2>4. \A i \in S : Later(log, m, i) <=> i \in L
    <3>1. ASSUME NEW i \in S, Later(log, m, i) PROVE i \in L
      <4>1. log[i].time <= t
        BY <1>3, <1>4, <1>5, <2>2, <3>1 DEF Later
      <4> QED
        BY <4>1 DEF L
    <3> QED
      BY <2>1, <3>1
  <2>5. Before(log, p, m) = L /\ Before(new, p, m) = L
    <3>1. Before(log, p, m) = L
      BY <1>12, <2>4 DEF Before, S
    <3> QED
      BY <2>3, <3>1 DEF SameTo
  <2>6. CASE LeaptAt(log, p, m)
    <3>1. PICK a \in S, b \in S : Counts(log[a].doc) /\ a < b /\ log[b].time < log[a].time /\ Later(log, m, a)
      BY <2>6 DEF LeaptAt, S
    <3>2. Counts(new[a].doc) /\ new[b].time < new[a].time /\ Later(new, n, a)
      BY <1>1, <1>11, <2>4, <3>1
    <3>3. LeaptAt(new, p, n)
      BY <1>1, <3>1, <3>2 DEF LeaptAt
    <3>4. Summed(new, p, n)
      BY <3>3 DEF Summed
    <3> QED
      BY <1>1, <1>10, <3>4 DEF Sums
  <2>7. ASSUME log[m].after = Quantity(log, Before(log, p, m)),
               EvenTo(log, p, m) => log[m].after * log[m].rate = Worth(log, Before(log, p, m))
        PROVE  Sums(new, p)
    <3>1. EvenTo(new, p, n) => EvenTo(new, p, m)
      BY <1>11, <2>5 DEF EvenTo
    <3>2. EvenTo(new, p, m) => EvenTo(log, p, m)
      BY <2>3, EvenBack
    <3>3. Summed(new, p, n)
      BY <1>18, <2>1, <2>5, <2>7, <3>1, <3>2
    <3> QED
      BY <1>1, <1>10, <3>3 DEF Sums
  <2> QED
    BY <1>8, <2>2, <2>6, <2>7 DEF Summed
<1> QED
  BY <1>19, <1>20

-----------------------------------------------------------------------------
(* The postings of an entry, and of a count.                              *)
LEMMA AppendAllSums ==
    ASSUME NEW log \in Ledger, NEW d \in Documents, ~Counts(d), NEW xs, Postable(d, xs),
           \A k \in DOMAIN xs : Moving(xs[k]),
           NEW p, Sums(log, p), OnTime(log, p), LateCounts(log, p, Time(d))
    PROVE  Sums(AppendAll(log, d, xs), p) /\ OnTime(AppendAll(log, d, xs), p)
<1> DEFINE V == {l \in Ledger : Sums(l, p) /\ OnTime(l, p) /\ LateCounts(l, p, Time(d))}
<1>1. log \in V /\ xs \in Seq(Leg)
  BY PostedLegs
<1>2. Time(d) \in Nat
  BY EntriesAssumption DEF Time
<1>3. ASSUME NEW l \in V, NEW k \in DOMAIN xs PROVE AppendFor(d, l, xs[k]) \in V
  <2> DEFINE x == xs[k]
  <2>1. Appendable(x) /\ Moving(x) /\ x.doc = d /\ x.time = Time(d)
    BY PostedLegs DEF Postable, Posting
  <2> HIDE DEF x
  <2>2. l \in Ledger /\ Sums(l, p) /\ OnTime(l, p) /\ LateCounts(l, p, Time(d))
    OBVIOUS
  <2> DEFINE prev == LastAt(l, x.pair, x.time)
  <2>3. PICK row \in Sle : /\ AppendFor(d, l, x) = Append(l, row)
                           /\ row.pair = x.pair /\ row.time = x.time /\ row.doc = x.doc
                           /\ row.qty = x.qty /\ row.live /\ row.after = prev.after + row.qty
                           /\ row.qty > 0 \/ row.after * row.rate = prev.after * prev.rate + row.value
    BY <2>1, <2>2, MovedAfter
  <2> HIDE DEF prev
  <2>4. row.time >= Time(row.doc) /\ row.time = Time(row.doc) /\ row.time = Time(d) /\ row.doc = d
    BY <1>2, <2>1, <2>3
  <2> DEFINE new == Append(l, row)
             n == Len(l) + 1
  <2>5. /\ new \in Ledger /\ new[n] = row /\ \A i \in DOMAIN l : new[i] = l[i]
        /\ DOMAIN new = DOMAIN l \cup {n}
    BY <2>2, <2>4, LedgerGrows
  <2>6. n \notin DOMAIN l
    BY <2>2, LedgerRows
  <2>7. ASSUME x.pair = p PROVE Sums(new, p)
    <3> HIDE DEF V, new, n
    <3>1. LateCounts(l, p, new[n].time)
      BY <2>2, <2>4, <2>5
    <3>2. prev = LastAt(l, p, new[n].time)
      BY <2>3, <2>5, <2>7 DEF prev
    <3>3. /\ new[n].after = prev.after + new[n].qty
          /\ Receives(new, n) \/ new[n].after * new[n].rate = prev.after * prev.rate + new[n].value
      BY <2>3, <2>4, <2>5 DEF Receives
    <3>4. LiveRows(new, p) = LiveRows(l, p) \cup {n} /\ \A i \in LiveRows(l, p) : new[i] = l[i]
      BY <2>3, <2>5, <2>6, <2>7 DEF LiveRows
    <3>5. n \in DOMAIN new
      BY <2>5
    <3> QED
      BY <2>2, <2>5, <2>6, <3>1, <3>2, <3>3, <3>4, <3>5, SumsGrow
  <2>8. ASSUME x.pair # p PROVE Sums(new, p)
    <3>1. SameOn(l, new, p)
      <4> HIDE DEF new, n
      <4> QED
        BY <2>3, <2>5, <2>6, <2>8 DEF SameOn, On
    <3> HIDE DEF new, V
    <3>2. Sums(new, p)
      BY <2>2, <2>5, <3>1, SumsSame DEF new
    <3> QED
      BY <3>2 DEF new
  <2> HIDE DEF new, n
  <2>9. Sums(new, p)
    BY <2>7, <2>8 DEF new
  <2>10. OnTime(new, p)
    BY <2>2, <2>4, <2>5 DEF OnTime
  <2>11. LateCounts(new, p, Time(d))
    BY <1>2, <2>2, <2>4, <2>5, <2>6 DEF LateCounts, LiveRows
  <2> QED
    BY <2>3, <2>5, <2>9, <2>10, <2>11 DEF new, x
<1>4. AppendAll(log, d, xs) \in V
  <2> HIDE DEF V
  <2> QED
    BY <1>1, <1>3, AppendAllStays
<1> QED
  BY <1>4

LEMMA AppendCountsSums ==
    ASSUME sle \in Ledger, NEW d \in Documents, Counts(d), NEW xs, Postable(d, xs),
           CountsLines(xs, d), RowsOf(sle, d) = {}, NEW added \in Extended(sle, d),
           added = AppendAll(sle, d, xs),
           NEW p \in PairsOf(xs), Sums(sle, p), OnTime(sle, p), LateCounts(sle, p, Time(d))
    PROVE  Sums(added, p) /\ OnTime(added, p)
<1>1. PICK k \in DOMAIN xs : xs[k].pair = p
  BY DEF PairsOf
<1>2. PICK j \in DOMAIN Entries[d].lines : xs[k] = CountLeg(d, Entries[d].lines[j])
  BY DEF CountsLines
<1> DEFINE x == CountLeg(d, Entries[d].lines[j])
           now == LastAt(sle, x.pair, x.time)
           v == Counted(now, x)
<1>3. /\ x.time = Time(d) /\ x.pair = p /\ v.after = now.after + x.qty
      /\ v.after * v.rate = now.after * now.rate + x.value
  BY <1>1, <1>2, CountValued
<1>4. Placed(added, sle, d, x)
  BY <1>2, AppendCounts DEF CountsLines
<1> HIDE DEF x
<1>5. PICK n \in DOMAIN added :
        /\ Of(added, d, p) = {n} /\ added[n].live /\ added[n].time = Time(d)
        /\ added[n].after = v.after /\ added[n].rate = v.rate
        /\ added[n].qty = x.qty /\ added[n].value = x.value
  BY <1>3, <1>4 DEF Placed
<1>6. now = LastAt(sle, p, added[n].time)
  BY <1>3, <1>5
<1> HIDE DEF v, now
<1>7. /\ added \in Ledger /\ Len(added) >= Len(sle)
      /\ \A i \in DOMAIN sle : added[i] = sle[i]
      /\ \A i \in DOMAIN added \ DOMAIN sle : added[i].doc = d
  BY DEF Extended, Extends
<1>8. \A i \in DOMAIN sle : i \in DOMAIN added
  BY <1>7, LedgerRows
<1>9. \A i \in DOMAIN added : i \in Of(added, d, p) <=> i \notin DOMAIN sle /\ added[i].pair = p
  <2>1. \A i \in DOMAIN sle : sle[i].doc # d
    BY DEF RowsOf
  <2> QED
    BY <1>7, <1>8, <2>1 DEF Of, RowsOf
<1>10. n \notin DOMAIN sle /\ added[n].pair = p /\ added[n].doc = d
  BY <1>5, <1>7, <1>9
<1>11. LiveRows(added, p) = LiveRows(sle, p) \cup {n} /\ \A i \in LiveRows(sle, p) : added[i] = sle[i]
  BY <1>5, <1>7, <1>8, <1>9, <1>10 DEF LiveRows
<1>12. /\ added[n].after = now.after + added[n].qty
       /\ added[n].after * added[n].rate = now.after * now.rate + added[n].value
  BY <1>3, <1>5
<1>13. LateCounts(sle, p, added[n].time)
  BY <1>5
<1>14. Sums(added, p)
  BY <1>6, <1>7, <1>10, <1>11, <1>12, <1>13, SumsGrow
<1>15. OnTime(added, p)
  <2> SUFFICES ASSUME NEW i \in DOMAIN added, added[i].pair = p PROVE added[i].time = Time(added[i].doc)
    BY DEF OnTime
  <2>1. CASE i \in DOMAIN sle
    BY <1>7, <2>1 DEF OnTime
  <2>2. CASE i \notin DOMAIN sle
    <3>1. i = n
      BY <1>5, <1>9, <2>2
    <3> QED
      BY <1>5, <1>10, <3>1
  <2> QED
    BY <2>1, <2>2
<1> QED
  BY <1>14, <1>15

(* A pair is tallied while no replay has written to it.                    *)
Tallied(log, p) == Reversals(log, p) \/ (Sums(log, p) /\ OnTime(log, p))

LEMMA SubmitTallies ==
    ASSUME Inductive, NEW r \in Requests, WriteSubmit(r), NEW d \in Documents, d = reg[r].doc,
           reg[r].backdated <=> Backdated(d, PairsOf(reg[r].intents)),
           Counts(d) => CountsLines(reg[r].intents, d) /\ RowsOf(sle, d) = {},
           ~Counts(d) => \A k \in DOMAIN reg[r].intents : Moving(reg[r].intents[k]),
           NEW p \in Pairs, Tallied(sle, p)
    PROVE  Tallied(sle', p)
<1> DEFINE xs == reg[r].intents
           ps == PairsOf(xs)
           added == AppendAll(sle, d, xs)
           t == Time(d)
<1>1. /\ Postable(d, xs) /\ IsFiniteSet(ps) /\ t \in Int
      /\ sle \in Ledger /\ added \in Extended(sle, d) /\ added \in Ledger
  BY SubmitWrites
<1>2. sle' = IF reg[r].backdated THEN RepostAll(added, ps, t, Skipped(d)) ELSE added
  BY DEF WriteSubmit
<1>3. sle' \in Ledger /\ Within(sle, sle', ps, t)
  BY SubmitPosts
<1>4. /\ Counts(d) => CountsLines(xs, d) /\ RowsOf(sle, d) = {}
      /\ ~Counts(d) => \A k \in DOMAIN xs : Moving(xs[k])
  OBVIOUS
<1>5. reg[r].backdated <=> Backdated(d, ps)
  OBVIOUS
<1> DEFINE log == sle
<1>6. PICK new \in Ledger : new = sle'
  BY <1>3
<1>7. ps = PairsOf(xs) /\ Within(log, new, ps, t)
      /\ new = IF reg[r].backdated THEN RepostAll(added, ps, t, Skipped(d)) ELSE added
  BY <1>2, <1>3, <1>6
<1> HIDE DEF xs, ps, t
<1>8. CASE Reversals(log, p)
  <2>1. Reversals(new, p)
    BY <1>1, <1>7, <1>8, ReversalsStay
  <2> QED
    BY <1>6, <2>1 DEF Tallied
<1>9. CASE p \notin ps /\ Sums(log, p) /\ OnTime(log, p)
  <2>1. SameOn(log, new, p)
    BY <1>1, <1>7, <1>9, WithinSameOn
  <2>2. Sums(new, p) /\ OnTime(new, p)
    BY <1>1, <1>6, <1>9, <2>1, SumsSame
  <2> QED
    BY <1>6, <2>2 DEF Tallied
<1>10. CASE p \in ps /\ Sums(log, p) /\ OnTime(log, p)
  <2>1. ASSUME LateCounts(log, p, t) PROVE Sums(added, p) /\ OnTime(added, p)
    <3>1. CASE Counts(d)
      BY <1>1, <1>4, <1>7, <1>10, <2>1, <3>1, AppendCountsSums DEF t
    <3>2. CASE ~Counts(d)
      BY <1>1, <1>4, <1>10, <2>1, <3>2, AppendAllSums DEF t
    <3> QED
      BY <3>1, <3>2
  <2> HIDE DEF added
  <2>2. CASE ~reg[r].backdated
    <3>1. \A i \in LiveRows(log, p) : ~(log[i].time > t)
      BY <1>5, <1>10, <2>2 DEF Backdated, t
    <3>2. LateCounts(log, p, t)
      BY <3>1 DEF LateCounts
    <3> QED
      BY <1>6, <1>7, <2>1, <2>2, <3>2 DEF Tallied
  <2>3. CASE reg[r].backdated /\ Taken(added, p, t, Skipped(d)) # {}
    <3>1. new = RepostAll(added, ps, t, Skipped(d))
      BY <1>7, <2>3
    <3>2. Reversals(new, p)
      BY <1>1, <1>10, <2>3, <3>1, RepostAllReverses
    <3> QED
      BY <1>6, <3>2 DEF Tallied
  <2>4. CASE reg[r].backdated /\ Taken(added, p, t, Skipped(d)) = {}
    <3>1. \A i \in DOMAIN log : i \in DOMAIN added /\ added[i] = log[i]
      <4>1. Len(added) >= Len(log) /\ \A i \in DOMAIN log : added[i] = log[i]
        BY <1>1 DEF Extended, Extends
      <4> QED
        BY <1>1, <4>1, LedgerRows
    <3>2. LateCounts(log, p, t)
      <4>1. SUFFICES ASSUME NEW i \in LiveRows(log, p), log[i].time > t PROVE Counts(log[i].doc)
        BY DEF LateCounts
      <4>2. i \in LiveRows(added, p) /\ added[i] = log[i]
        BY <3>1 DEF LiveRows
      <4>3. log[i].doc \in Skipped(d)
        BY <2>4, <4>1, <4>2 DEF Taken
      <4> QED
        BY <4>3 DEF Skipped
    <3>3. new = RepostAll(added, ps, t, Skipped(d))
      BY <1>7, <2>4
    <3>4. SameOn(added, new, p)
      BY <1>1, <2>4, <3>3, RepostAllNothing
    <3>5. Sums(new, p) /\ OnTime(new, p)
      BY <1>1, <1>6, <2>1, <3>2, <3>4, SumsSame
    <3> QED
      BY <1>6, <3>5 DEF Tallied
  <2> QED
    BY <2>2, <2>3, <2>4
<1> QED
  BY <1>8, <1>9, <1>10 DEF Tallied

-----------------------------------------------------------------------------
LEMMA LegsMove ==
    ASSUME sle \in Ledger, NEW d \in Documents, ~Counts(d), NEW k \in DOMAIN Entries[d].lines,
           NEW j \in DOMAIN Legs(d, Entries[d].lines[k])
    PROVE  Moving(Legs(d, Entries[d].lines[k])[j])
<1> DEFINE l == Entries[d].lines[k]
           leg(p, q, in) == [pair |-> p, time |-> Time(d), doc |-> d, qty |-> q,
                             in |-> in, value |-> 0]
           rate == LastAt(sle, l.source, Time(d)).rate
<1>1. /\ l \in Lines /\ Entries[d].type \in Types
      /\ l.qty # 0 /\ l.rate # Null
  BY EntriesAssumption DEF Counts
<1>2. l.qty \in Nat /\ l.qty > 0 /\ -l.qty < 0
  BY <1>1 DEF Lines
<1>3. rate # Null
  <2>1. {i \in LiveRows(sle, l.source) : sle[i].time <= Time(d)} \in SUBSET DOMAIN sle
    BY DEF LiveRows
  <2>2. rate \in Int
    BY <2>1, LatestType DEF LastAt
  <2> QED
    BY <2>2, NullAssumption
<1> HIDE DEF rate
<1>4. CASE Entries[d].type = "receipt"
  <2>1. Legs(d, l) = << leg(l.target, l.qty, l.rate) >>
    BY <1>4 DEF Legs, Counts
  <2>2. Legs(d, l)[j] = leg(l.target, l.qty, l.rate)
    BY <2>1
  <2>3. leg(l.target, l.qty, l.rate).in # Null /\ leg(l.target, l.qty, l.rate).qty > 0
    BY <1>1, <1>2
  <2> QED
    BY <2>2, <2>3 DEF Moving
<1>5. ASSUME NEW p PROVE Moving(leg(p, -l.qty, Null))
  <2>1. leg(p, -l.qty, Null).qty = -l.qty
    OBVIOUS
  <2> HIDE DEF leg, l
  <2> QED
    BY <1>2, <2>1 DEF Moving
<1>6. CASE Entries[d].type = "issue"
  <2>1. Legs(d, l) = << leg(l.source, -l.qty, Null) >>
    BY <1>6 DEF Legs, Counts
  <2>2. Legs(d, l)[j] = leg(l.source, -l.qty, Null)
    BY <2>1
  <2> HIDE DEF leg, l
  <2> QED
    BY <1>5, <2>2 DEF l
<1>7. CASE Entries[d].type = "transfer"
  <2>1. Legs(d, l) = << leg(l.source, -l.qty, Null), leg(l.target, l.qty, rate) >>
    BY <1>7 DEF Legs, Counts, rate
  <2>2. Legs(d, l)[j] = leg(l.source, -l.qty, Null) \/ Legs(d, l)[j] = leg(l.target, l.qty, rate)
    BY <2>1
  <2>3. Moving(leg(l.target, l.qty, rate))
    <3>1. leg(l.target, l.qty, rate).in = rate /\ leg(l.target, l.qty, rate).qty > 0
      BY <1>2
    <3> QED
      BY <1>3, <3>1 DEF Moving
  <2> HIDE DEF leg, l
  <2> QED
    BY <1>5, <2>2, <2>3 DEF l
<1> QED
  BY <1>1, <1>4, <1>6, <1>7 DEF Types, Counts

LEMMA IntentsMove ==
    ASSUME sle \in Ledger, NEW d \in Documents, ~Counts(d)
    PROVE  \A k \in DOMAIN Intents(d) : Moving(Intents(d)[k])
<1> DEFINE V == {xs \in Posting(d) : \A k \in DOMAIN xs : Moving(xs[k])}
           S == DOMAIN Entries[d].lines
<1>1. << >> \in V
  BY DEF Posting
<1>2. ASSUME NEW xs \in V, NEW k \in S PROVE xs \o Legs(d, Entries[d].lines[k]) \in V
  <2> DEFINE ys == Legs(d, Entries[d].lines[k])
  <2>1. ys \in Posting(d) /\ \A j \in DOMAIN ys : Moving(ys[j])
    BY LegsType, LegsMove
  <2> HIDE DEF ys
  <2>2. xs \in Posting(d) /\ xs \o ys \in Posting(d)
    BY <2>1, PostingGrows
  <2>3. xs \in Seq(Leg) /\ ys \in Seq(Leg)
    BY <2>1, <2>2 DEF Posting
  <2>4. ASSUME NEW j \in DOMAIN (xs \o ys) PROVE Moving((xs \o ys)[j])
    <3>1. Len(xs) \in Nat /\ Len(ys) \in Nat /\ DOMAIN xs = 1..Len(xs) /\ DOMAIN ys = 1..Len(ys)
          /\ j \in 1..(Len(xs) + Len(ys))
      BY <2>3
    <3>2. CASE j <= Len(xs)
      <4>1. j \in DOMAIN xs /\ (xs \o ys)[j] = xs[j]
        BY <2>3, <3>1, <3>2
      <4> QED
        BY <4>1
    <3>3. CASE ~(j <= Len(xs))
      <4>1. j - Len(xs) \in DOMAIN ys /\ (xs \o ys)[j] = ys[j - Len(xs)]
        BY <2>3, <3>1, <3>3
      <4> QED
        BY <2>1, <4>1
    <3> QED
      BY <3>2, <3>3
  <2> QED
    BY <2>2, <2>4 DEF ys
<1>3. S \in SUBSET S
  OBVIOUS
<1>4. PICK F \in [SUBSET S -> V] : Intents(d) = F[S] /\ Plans(F, d)
  <2> HIDE DEF V
  <2>1. << >> \in V /\ \A xs \in V : \A k \in DOMAIN Entries[d].lines :
                          xs \o Legs(d, Entries[d].lines[k]) \in V
    BY <1>1, <1>2
  <2> QED
    BY <2>1, IntentsRun, Zenon
<1>5. Intents(d) \in V
  BY <1>3, <1>4
<1> QED
  BY <1>5

(* Flagging all rows of a pair at one time leaves the sums before it.      *)
LEMMA FlaggedSums ==
    ASSUME NEW log \in Ledger, NEW p, Sums(log, p), NEW rows, NEW t \in Int,
           \A i \in LiveRows(log, p) : IF i \in rows THEN log[i].time = t ELSE log[i].time < t
    PROVE  Sums(Flagged(log, rows), p)
<1> DEFINE kept == Flagged(log, rows)
           S == LiveRows(log, p)
<1>1. /\ kept \in Ledger /\ DOMAIN kept = DOMAIN log
      /\ \A i \in DOMAIN log : kept[i] = IF i \in rows THEN [log[i] EXCEPT !.live = FALSE] ELSE log[i]
  BY FlaggedRows
<1> HIDE DEF kept
<1>2. \A e \in Sle : [e EXCEPT !.live = FALSE].pair = e.pair /\ ~[e EXCEPT !.live = FALSE].live
  BY DEF Sle
<1>3. \A i \in DOMAIN log : log[i].time \in Nat /\ log[i] \in Sle
  BY LedgerRows DEF Sle
<1>4. LiveRows(kept, p) = S \ rows /\ \A i \in S \ rows : kept[i] = log[i] /\ i \in DOMAIN log
  BY <1>1, <1>2, <1>3 DEF LiveRows
<1>5. \A i \in S : (i \in rows => log[i].time = t) /\ (i \notin rows => log[i].time < t)
  OBVIOUS
<1>6. S \subseteq DOMAIN log
  BY DEF LiveRows
<1> HIDE DEF S
<1>7. ASSUME NEW i \in S \ rows PROVE Summed(kept, p, i)
  <2>1. log[i].time < t /\ log[i].time \in Nat /\ kept[i] = log[i]
    BY <1>3, <1>4, <1>5
  <2>2. ASSUME NEW j \in S, Later(log, i, j) PROVE j \in S \ rows /\ kept[j] = log[j]
    <3>1. log[j].time <= log[i].time
      BY <1>3, <1>6, <2>1, <2>2 DEF Later
    <3>2. j \notin rows
      BY <1>3, <1>5, <1>6, <2>1, <2>2, <3>1
    <3> QED
      BY <1>4, <3>2
  <2>3. \A j \in S \ rows : Later(kept, i, j) <=> Later(log, i, j)
    BY <1>4, <2>1 DEF Later
  <2>4. Before(kept, p, i) = Before(log, p, i)
    <3>1. Before(kept, p, i) = {j \in S \ rows : Later(kept, i, j)}
      BY <1>4 DEF Before
    <3>2. Before(log, p, i) = {j \in S : Later(log, i, j)}
      BY DEF Before, S
    <3> QED
      BY <2>2, <2>3, <3>1, <3>2
  <2>5. SameTo(log, kept, p, i)
    BY <2>2, <2>4 DEF SameTo, Before, S
  <2>6. Summed(log, p, i)
    BY DEF Sums, S
  <2> QED
    BY <1>1, <2>5, <2>6, SummedStays
<1> QED
  BY <1>4, <1>7 DEF Sums, kept

-----------------------------------------------------------------------------
Distinct == \A d, e \in Documents : d # e => Time(d) # Time(e)

LEMMA CancelTallies ==
    ASSUME Distinct, Inductive, NEW r \in Requests, WriteCancel(r), NEW d \in Documents, d = reg[r].doc,
           reg[r].rows = LiveRowsOf(sle, d), NEW p \in Pairs, Tallied(sle, p)
    PROVE  Tallied(sle', p)
<1> DEFINE rows == reg[r].rows
           ps == {sle[i].pair : i \in rows}
           kept == Flagged(sle, rows)
           t == Time(d)
           log == sle
<1>1. /\ log \in Ledger /\ kept \in Ledger /\ IsFiniteSet(ps) /\ t \in Int
      /\ \A i \in rows : i \in DOMAIN log /\ log[i].doc = d
  BY CancelWrites
<1>2. PICK first \in Int : /\ first >= t /\ sle' = RepostAll(kept, ps, first, {})
                           /\ \A i \in rows : first <= log[i].time
  BY CancelWrites
<1>3. PICK new \in Ledger : new = sle'
  BY <1>1, <1>2, RepostAllKeeps
<1>4. new = RepostAll(kept, ps, first, {}) /\ Within(kept, new, ps, first)
  BY <1>1, <1>2, <1>3, RepostAllKeeps
<1>5. \A i \in DOMAIN log : i \in rows <=> log[i].live /\ log[i].doc = d
  BY DEF LiveRowsOf, RowsOf
<1>6. /\ DOMAIN kept = DOMAIN log
      /\ \A i \in DOMAIN log : kept[i] = IF i \in rows THEN [log[i] EXCEPT !.live = FALSE] ELSE log[i]
  BY <1>1, FlaggedRows
<1>7. \A e \in Sle : LET f == [e EXCEPT !.live = FALSE]
                     IN f.pair = e.pair /\ f.time = e.time /\ f.doc = e.doc /\ f.reversal = e.reversal
  BY DEF Sle
<1>8. \A i \in DOMAIN log : /\ kept[i].pair = log[i].pair /\ kept[i].time = log[i].time
                            /\ kept[i].doc = log[i].doc /\ kept[i].reversal = log[i].reversal
  BY <1>1, <1>6, <1>7, LedgerRows
<1>9. \A q : q \in ps <=> \E i \in rows : log[i].pair = q
  OBVIOUS
<1>10. \A i \in DOMAIN log : log[i].time \in Nat /\ log[i].doc \in Documents
  BY <1>1, TimesType
<1>11. Tallied(log, p)
  OBVIOUS
<1> HIDE DEF kept, rows, ps, t, log
<1>12. ASSUME Reversals(log, p) PROVE Tallied(new, p)
  <2>1. Reversals(kept, p)
    BY <1>6, <1>8, <1>12 DEF Reversals
  <2> QED
    BY <1>1, <1>4, <2>1, ReversalsStay DEF Tallied
<1>13. ASSUME Sums(log, p), OnTime(log, p), p \notin ps PROVE Tallied(new, p)
  <2>1. SameOn(log, kept, p)
    BY <1>6, <1>8, <1>9, <1>13 DEF SameOn, On
  <2>2. SameOn(kept, new, p)
    BY <1>1, <1>4, <1>13, WithinSameOn
  <2>3. SameOn(log, new, p)
    BY <2>1, <2>2, SameOnTwice
  <2> QED
    BY <1>1, <1>3, <1>13, <2>3, SumsSame DEF Tallied
<1>14. ASSUME Sums(log, p), OnTime(log, p), p \in ps PROVE Tallied(new, p)
  <2>1. PICK i \in rows : log[i].pair = p
    BY <1>9, <1>14
  <2>2. first = t
    <3>1. log[i].time = t /\ first <= log[i].time
      BY <1>1, <1>2, <1>14, <2>1 DEF OnTime, t
    <3> QED
      BY <1>1, <1>2, <3>1
  <2>3. CASE Taken(kept, p, first, {}) # {}
    <3>1. Reversals(new, p)
      BY <1>1, <1>4, <1>14, <2>3, RepostAllReverses
    <3> QED
      BY <3>1 DEF Tallied
  <2>4. CASE Taken(kept, p, first, {}) = {}
    <3>1. \A j \in LiveRows(log, p) : IF j \in rows THEN log[j].time = t ELSE log[j].time < t
      <4>1. SUFFICES ASSUME NEW j \in LiveRows(log, p)
                     PROVE  IF j \in rows THEN log[j].time = t ELSE log[j].time < t
        OBVIOUS
      <4>2. j \in DOMAIN log /\ log[j].pair = p /\ log[j].live /\ log[j].time = Time(log[j].doc)
        BY <1>14 DEF LiveRows, OnTime
      <4>3. CASE j \in rows
        BY <1>5, <4>2, <4>3 DEF t
      <4>4. CASE j \notin rows
        <5>1. log[j].doc # d /\ kept[j] = log[j]
          BY <1>5, <1>6, <4>2, <4>4
        <5>2. j \in LiveRows(kept, p)
          BY <1>6, <4>2, <5>1 DEF LiveRows
        <5>3. ~(log[j].time > t)
          BY <2>2, <2>4, <5>1, <5>2 DEF Taken
        <5>4. log[j].time # t
          BY <1>10, <4>2, <5>1 DEF Distinct, t
        <5> QED
          BY <1>1, <1>10, <4>2, <4>4, <5>3, <5>4
      <4> QED
        BY <4>3, <4>4
    <3>2. Sums(kept, p)
      BY <1>1, <1>14, <3>1, FlaggedSums DEF kept, log
    <3>3. OnTime(kept, p)
      BY <1>6, <1>8, <1>14 DEF OnTime
    <3>4. SameOn(kept, new, p)
      BY <1>1, <1>4, <2>4, RepostAllNothing
    <3> QED
      BY <1>1, <1>3, <3>2, <3>3, <3>4, SumsSame DEF Tallied
  <2> QED
    BY <2>3, <2>4
<1> QED
  BY <1>3, <1>11, <1>12, <1>13, <1>14 DEF Tallied

(* What a request has read is what it would read now.                      *)
LateOn(log, d, ps) == \E p \in ps : \E i \in LiveRows(log, p) : log[i].time > Time(d)
Fresh(log, e) ==
    /\ e.op = "submit" => /\ e.backdated <=> LateOn(log, e.doc, PairsOf(e.intents))
                          /\ ~Counts(e.doc) => \A k \in DOMAIN e.intents : Moving(e.intents[k])
    /\ e.op = "cancel" => e.rows = LiveRowsOf(log, e.doc)

Tallies ==
    /\ \A r \in Requests : reg[r] # Null => Fresh(sle, reg[r])
    /\ \A p \in Pairs : Tallied(sle, p)

LEMMA TalliesInit == Init => Tallies
<1> SUFFICES ASSUME Init PROVE Tallies
  OBVIOUS
<1>1. sle = << >> /\ \A r \in Requests : reg[r] = Null
  BY DEF Init
<1>2. DOMAIN sle = {}
  BY <1>1
<1>3. \A p \in Pairs : Sums(sle, p) /\ OnTime(sle, p)
  BY <1>2 DEF Sums, OnTime, LiveRows
<1> QED
  BY <1>1, <1>3 DEF Tallies, Tallied

LEMMA TalliesStep ==
    ASSUME OneAtATime, Distinct, Inductive, Booked, UpToDate, Tallies, [Next]_vars PROVE Tallies'
<1>1. ASSUME sle' = sle PROVE \A p \in Pairs : Tallied(sle', p)
  BY <1>1 DEF Tallies
<1>2. CASE UNCHANGED vars
  <2>1. sle' = sle /\ reg' = reg
    BY <1>2 DEF vars
  <2> QED
    BY <2>1 DEF Tallies
<1>3. ASSUME NEW r \in Requests, NEW d \in Documents, ReadForSubmit(r, d) PROVE Tallies'
  <2> DEFINE e == [op |-> "submit", doc |-> d, intents |-> Intents(d),
                   backdated |-> Backdated(d, PairsOf(Intents(d)))]
  <2>1. reg' = [reg EXCEPT ![r] = e] /\ sle' = sle
    BY <1>3 DEF ReadForSubmit
  <2>2. ~Counts(d) => \A k \in DOMAIN Intents(d) : Moving(Intents(d)[k])
    BY IntentsMove DEF Inductive
  <2>3. Backdated(d, PairsOf(Intents(d))) = LateOn(sle, d, PairsOf(Intents(d)))
    BY DEF Backdated, LateOn
  <2>4. Fresh(sle, e)
    BY <2>2, <2>3 DEF Fresh
  <2> HIDE DEF e
  <2>5. ASSUME NEW q \in Requests PROVE reg'[q] = e
    BY <2>1 DEF OneAtATime, Inductive, TypeOK
  <2> QED
    BY <1>1, <2>1, <2>4, <2>5 DEF Tallies
<1>4. ASSUME NEW r \in Requests, NEW d \in Documents, ReadForCancel(r, d) PROVE Tallies'
  <2> DEFINE e == [op |-> "cancel", doc |-> d, rows |-> LiveRowsOf(sle, d),
                   worth |-> Worth(sle, LiveRowsOf(sle, d))]
  <2>1. reg' = [reg EXCEPT ![r] = e] /\ sle' = sle
    BY <1>4 DEF ReadForCancel
  <2>2. Fresh(sle, e)
    BY DEF Fresh
  <2> HIDE DEF e
  <2>3. ASSUME NEW q \in Requests PROVE reg'[q] = e
    BY <2>1 DEF OneAtATime, Inductive, TypeOK
  <2> QED
    BY <1>1, <2>1, <2>2, <2>3 DEF Tallies
<1>5. ASSUME NEW r \in Requests, reg' = [reg EXCEPT ![r] = Null] PROVE \A q \in Requests : reg'[q] = Null
  BY <1>5 DEF OneAtATime, Inductive, TypeOK
<1>6. ASSUME NEW r \in Requests, WriteSubmit(r) PROVE Tallies'
  <2>1. PICK d \in Documents : d = reg[r].doc
    BY <1>6 DEF Inductive, TypeOK, WriteSubmit
  <2>2. Fresh(sle, reg[r]) /\ reg[r].op = "submit"
    BY <1>6 DEF Tallies, WriteSubmit
  <2>3. /\ reg[r].backdated <=> LateOn(sle, d, PairsOf(reg[r].intents))
        /\ ~Counts(d) => \A k \in DOMAIN reg[r].intents : Moving(reg[r].intents[k])
    BY <2>1, <2>2 DEF Fresh
  <2>4. reg[r].backdated <=> Backdated(d, PairsOf(reg[r].intents))
    BY <2>3 DEF Backdated, LateOn
  <2>5. Counts(d) => CountsLines(reg[r].intents, d) /\ RowsOf(sle, d) = {}
    BY <1>6, <2>1 DEF UpToDate, Current, WriteSubmit, Booked, Recorded
  <2>6. \A p \in Pairs : Tallied(sle', p)
    BY <1>6, <2>1, <2>3, <2>4, <2>5, SubmitTallies DEF Tallies
  <2>7. \A q \in Requests : reg'[q] = Null
    BY <1>5, <1>6 DEF WriteSubmit
  <2> QED
    BY <2>6, <2>7 DEF Tallies
<1>7. ASSUME NEW r \in Requests, WriteCancel(r) PROVE Tallies'
  <2>1. PICK d \in Documents : d = reg[r].doc
    BY <1>7 DEF Inductive, TypeOK, WriteCancel
  <2>2. Fresh(sle, reg[r]) /\ reg[r].op = "cancel"
    BY <1>7 DEF Tallies, WriteCancel
  <2>3. reg[r].rows = LiveRowsOf(sle, d)
    BY <2>1, <2>2 DEF Fresh
  <2>4. \A p \in Pairs : Tallied(sle', p)
    BY <1>7, <2>1, <2>3, CancelTallies DEF Tallies
  <2>5. \A q \in Requests : reg'[q] = Null
    BY <1>5, <1>7 DEF WriteCancel
  <2> QED
    BY <2>4, <2>5 DEF Tallies
<1>8. ASSUME NEW r \in Requests, Abort(r) PROVE Tallies'
  <2>1. sle' = sle /\ \A q \in Requests : reg'[q] = Null
    BY <1>5, <1>8 DEF Abort
  <2> QED
    BY <1>1, <2>1 DEF Tallies
<1> QED
  BY <1>2, <1>3, <1>4, <1>6, <1>7, <1>8 DEF Next

(* What the bin of a tallied pair holds.                                   *)
LEMMA TalliedBin ==
    ASSUME Inductive, NEW p \in Pairs, Tallied(sle, p)
    PROVE  \/ Replayed(p) \/ Leapt(p)
           \/ /\ bin[p].qty = Quantity(sle, LiveRows(sle, p))
              /\ (\A i \in LiveRows(sle, p) : Receives(sle, i) => EvenRow(sle, p, i))
                    => bin[p].qty * bin[p].rate = Worth(sle, LiveRows(sle, p))
<1> DEFINE S == LiveRows(sle, p)
<1>1. bin[p].qty = Latest(sle, S).after /\ bin[p].rate = Latest(sle, S).rate
  <2> DEFINE last == Latest(sle, S)
  <2>1. bin[p] = [qty |-> last.after, rate |-> last.rate]
    BY DEF Inductive, BinIsSnapshot
  <2> HIDE DEF last
  <2> QED
    BY <2>1 DEF last
<1>2. CASE Reversals(sle, p)
  BY <1>2 DEF Reversals, Replayed
<1>3. CASE Sums(sle, p) /\ S = {}
  <2>1. Latest(sle, S).after = 0 /\ Latest(sle, S).rate = 0
    BY <1>3 DEF Latest
  <2>2. bin[p].qty = 0 /\ bin[p].qty * bin[p].rate = 0
    BY <1>1, <2>1
  <2> QED
    BY <1>3, <2>2, QuantityOfNone, WorthOfNone
<1>4. CASE Sums(sle, p) /\ S # {}
  <2>1. S \in SUBSET DOMAIN sle
    BY DEF LiveRows
  <2> HIDE DEF S
  <2>2. PICK i \in S : Latest(sle, S) = sle[i] /\ \A j \in S : Later(sle, i, j)
    BY <1>4, <2>1, LedgerRows, LatestRow DEF Inductive
  <2>3. Before(sle, p, i) = S
    BY <2>2 DEF Before, S
  <2>4. CASE LeaptAt(sle, p, i)
    BY <2>4 DEF LeaptAt, Leapt
  <2>5. ASSUME sle[i].after = Quantity(sle, S), EvenTo(sle, p, i) => sle[i].after * sle[i].rate = Worth(sle, S)
        PROVE  /\ bin[p].qty = Quantity(sle, S)
               /\ (\A j \in S : Receives(sle, j) => EvenRow(sle, p, j))
                     => bin[p].qty * bin[p].rate = Worth(sle, S)
    BY <1>1, <2>2, <2>3, <2>5 DEF EvenTo
  <2>6. Summed(sle, p, i)
    BY <1>4 DEF Sums, S
  <2> QED
    BY <2>3, <2>4, <2>5, <2>6 DEF Summed, S
<1> QED
  BY <1>2, <1>3, <1>4 DEF Tallied

LEMMA TalliesAlways ==
    ASSUME OneAtATime, Distinct
    PROVE  Spec => [](Inductive /\ Tallies)
<1>1. Init => UpToDate
  BY DEF Init, UpToDate
<1>2. Init => Inductive /\ Booked /\ UpToDate /\ Tallies
  BY <1>1, InductiveInit, BookedInit, TalliesInit
<1>3. Inductive /\ Booked /\ UpToDate /\ Tallies /\ [Next]_vars
        => (Inductive /\ Booked /\ UpToDate /\ Tallies)'
  BY InductiveStep, BookedStep, UpToDateStep, TalliesStep
<1> QED
  BY <1>2, <1>3, PTL DEF Spec

(* A pair that was not replayed, nor a count on it passed over, carries    *)
(* the quantity of its live rows: the first half of UnreplayedBalances.    *)
UnreplayedQuantities ==
    \A p \in Pairs : Replayed(p) \/ Leapt(p) \/ bin[p].qty = Quantity(sle, LiveRows(sle, p))

(* THEOREM: stock adds up.  If requests run one at a time and no two       *)
(* documents are posted at one time, the bin of a pair that was not        *)
(* replayed holds what its live rows move together, whatever was posted or *)
(* cancelled, unless a count was passed over.                              *)
THEOREM QuantitiesAddUp == OneAtATime /\ Distinct /\ Spec => []UnreplayedQuantities
<1> SUFFICES ASSUME OneAtATime, Distinct PROVE Spec => []UnreplayedQuantities
  OBVIOUS
<1>1. Spec => [](Inductive /\ Tallies)
  BY TalliesAlways
<1>2. Inductive /\ Tallies => UnreplayedQuantities
  BY TalliedBin DEF Tallies, UnreplayedQuantities
<1> QED
  BY <1>1, <1>2, PTL

(* On the pairs in question no receipt has lost a rest when its moving     *)
(* average was divided by the quantity it leaves.                          *)
EvenAverages ==
    \A p \in Pairs :
        \/ Replayed(p) \/ Leapt(p)
        \/ \A i \in LiveRows(sle, p) : Receives(sle, i) => EvenRow(sle, p, i)

(* THEOREM: stock is worth what was posted.  Under the same hypotheses,    *)
(* while the divisions by which receipts get their averages are exact, the *)
(* bin also carries the value of its live rows: issues, transfers, counts, *)
(* late postings and cancels lose none.                                    *)
THEOREM ValuesAddUp == OneAtATime /\ Distinct /\ Spec => [](EvenAverages => UnreplayedBalances)
<1> SUFFICES ASSUME OneAtATime, Distinct PROVE Spec => [](EvenAverages => UnreplayedBalances)
  OBVIOUS
<1>1. Spec => [](Inductive /\ Tallies)
  BY TalliesAlways
<1>2. ASSUME Inductive, Tallies, EvenAverages, NEW p \in Pairs
      PROVE  Replayed(p) \/ Leapt(p) \/ Balances(p)
  BY <1>2, TalliedBin DEF Tallies, EvenAverages, Balances
<1>3. Inductive /\ Tallies => (EvenAverages => UnreplayedBalances)
  BY <1>2 DEF UnreplayedBalances
<1> QED
  BY <1>1, <1>3, PTL
=============================================================================
