------------------------------ MODULE Counting ------------------------------
(***************************************************************************)
(* Facts about finite sets that the proofs of several modules need.        *)
(***************************************************************************)
EXTENDS Integers, Sequences, FiniteSetsExt, FiniteSetTheorems, TLAPS

(* What is divided into classes of n is n times as much as there are       *)
(* classes.                                                                *)
LEMMA EqualClasses ==
  ASSUME NEW S, IsFiniteSet(S), NEW T, NEW class \in [S -> T], NEW n \in Nat \ {0},
         \A t \in T : Cardinality({s \in S : class[s] = t}) = n
  PROVE  /\ IsFiniteSet(T) /\ Cardinality(T) \in Nat
         /\ Cardinality(S) = Cardinality(T) * n
<1> DEFINE members(t) == {s \in S : class[s] = t}
           numberings(t) == Bijection(1..n, members(t))
           num == [t \in T |-> CHOOSE g : g \in numberings(t)]
           place == [x \in T \X (1..n) |-> num[x[1]][x[2]]]
<1>1. \A t \in T : IsFiniteSet(members(t)) /\ members(t) # {}
  <2> TAKE t \in T
  <2>1. IsFiniteSet(members(t))
    BY FS_Subset
  <2> QED
    BY <2>1, FS_EmptySet
<1>2. class \in Surjection(S, T)
  BY <1>1 DEF Surjection
<1>3. IsFiniteSet(T) /\ Cardinality(T) \in Nat
  BY <1>2, FS_Surjection, FS_CardinalityType
<1>4. \A t \in T : num[t] \in numberings(t)
  <2> TAKE t \in T
  <2>1. ExistsBijection(1..n, members(t))
    BY <1>1, FS_CardinalityType
  <2>2. \E g : g \in numberings(t)
    BY <2>1 DEF ExistsBijection
  <2> QED
    BY <2>2
<1>5. \A t \in T : /\ \A i \in 1..n : num[t][i] \in members(t)
                   /\ \A i, j \in 1..n : num[t][i] = num[t][j] => i = j
                   /\ \A s \in members(t) : \E i \in 1..n : num[t][i] = s
  <2> TAKE t \in T
  <2>1. num[t] \in Bijection(1..n, members(t))
    BY <1>4
  <2> HIDE DEF num, members
  <2> QED
    BY <2>1 DEF Bijection, Injection, IsInjective, Surjection
<1> HIDE DEF num
<1>6. place \in [T \X (1..n) -> S]
  BY <1>5
<1>7. \A x, y \in T \X (1..n) : place[x] = place[y] => x = y
  <2> SUFFICES ASSUME NEW x \in T \X (1..n), NEW y \in T \X (1..n), place[x] = place[y]
               PROVE  x = y
    OBVIOUS
  <2>1. num[x[1]][x[2]] \in members(x[1]) /\ num[y[1]][y[2]] \in members(y[1])
    BY <1>5
  <2>2. x[1] = y[1]
    BY <2>1
  <2>3. x[2] = y[2]
    BY <1>5, <2>2
  <2> QED
    BY <2>2, <2>3
<1>8. \A s \in S : \E x \in T \X (1..n) : place[x] = s
  <2> TAKE s \in S
  <2>1. class[s] \in T /\ s \in members(class[s])
    OBVIOUS
  <2>2. PICK i \in 1..n : num[class[s]][i] = s
    BY <1>5, <2>1
  <2>3. <<class[s], i>> \in T \X (1..n) /\ place[<<class[s], i>>] = s
    BY <2>1, <2>2
  <2> QED
    BY <2>3
<1>9. ExistsBijection(T \X (1..n), S)
  <2> HIDE DEF place
  <2>1. place \in Bijection(T \X (1..n), S)
    BY <1>6, <1>7, <1>8 DEF Bijection, Injection, IsInjective, Surjection
  <2> QED
    BY <2>1 DEF ExistsBijection
<1>10. IsFiniteSet(1..n) /\ Cardinality(1..n) = n
  BY FS_Interval
<1>11. /\ IsFiniteSet(T \X (1..n))
       /\ Cardinality(T \X (1..n)) = Cardinality(T) * n
  BY <1>3, <1>10, FS_Product
<1> QED
  BY <1>3, <1>9, <1>11, FS_Bijection

(* Induction over a finite set: if it is bad, then there is a bad subset   *)
(* that is not bad without one of its elements, whichever.                 *)
LEMMA MinimalSubset ==
  ASSUME NEW S, IsFiniteSet(S), NEW bad \in SUBSET (SUBSET S), S \in bad
  PROVE  \E T \in bad : T \in SUBSET S /\ \A x \in T : T \ {x} \notin bad
<1>1. bad \subseteq FiniteSubsetsOf(S)
  BY FS_FiniteSubsetsOfFinite
<1>2. PICK T \in bad : \A U \in bad : <<U, T>> \notin StrictSubsetOrdering(S)
  BY <1>1, FS_StrictSubsetOrderingWellFounded, WFMin
<1>3. ASSUME NEW x \in T PROVE T \ {x} \notin bad
  <2>1. T \ {x} \subseteq T /\ T \ {x} # T
    OBVIOUS
  <2>2. T \ {x} \in bad => <<T \ {x}, T>> \in StrictSubsetOrdering(S)
    BY <2>1 DEF StrictSubsetOrdering
  <2> QED
    BY <1>2, <2>2
<1> QED
  BY <1>3

(* A finite set of numbers has a greatest one. *)
LEMMA GreatestExists ==
  ASSUME NEW S \in SUBSET Int, IsFiniteSet(S), S # {}
  PROVE  \E x \in S : \A y \in S : y <= x
<1> DEFINE bad == {T \in SUBSET S : T # {} /\ ~ \E x \in T : \A y \in T : y <= x}
<1>1. SUFFICES ASSUME S \in bad PROVE FALSE
  OBVIOUS
<1>2. PICK T \in bad : T \in SUBSET S /\ \A x \in T : T \ {x} \notin bad
  <2> HIDE DEF bad
  <2>1. bad \in SUBSET (SUBSET S)
    BY DEF bad
  <2> QED
    BY <1>1, <2>1, MinimalSubset
<1>3. PICK z \in T : TRUE
  OBVIOUS
<1>4. T \ {z} \notin bad
  BY <1>2
<1>6. CASE T \ {z} = {}
  BY <1>3, <1>6
<1>7. CASE T \ {z} # {}
  <2>1. PICK x \in T \ {z} : \A y \in T \ {z} : y <= x
    BY <1>4, <1>7
  <2>2. x \in Int /\ z \in Int /\ \A y \in T : y \in Int
    OBVIOUS
  <2>3. CASE z <= x
    BY <2>1, <2>3
  <2>4. CASE x < z
    <3>1. \A y \in T : y <= z
      BY <2>1, <2>2, <2>4
    <3> QED
      BY <3>1
  <2> QED
    BY <2>2, <2>3, <2>4
<1> QED
  BY <1>6, <1>7

-----------------------------------------------------------------------------
(***************************************************************************)
(* Sums of natural numbers.  The sum of f over S is how many things there  *)
(* are when each x of S has a pile of f[x] of them.                        *)
(***************************************************************************)
Pile(f, S) == {z \in S \X Nat : z[2] \in 1..f[z[1]]}
Total(f, S) == Cardinality(Pile(f, S))

LEMMA TotalIsNat ==
  ASSUME NEW S, IsFiniteSet(S), NEW f, \A x \in S : f[x] \in Nat
  PROVE  IsFiniteSet(Pile(f, S)) /\ Total(f, S) \in Nat
<1> DEFINE values == {f[x] : x \in S}
           map == [x \in S |-> f[x]]
<1>1. IsFiniteSet(values)
  <2>1. map \in Surjection(S, values)
    BY DEF Surjection
  <2> HIDE DEF map, values
  <2> QED
    BY <2>1, FS_Surjection
<1>2. CASE S = {}
  BY <1>2, FS_EmptySet DEF Pile, Total
<1>3. CASE S # {}
  <2>1. PICK m \in values : \A y \in values : y <= m
    <3>1. values \in SUBSET Int /\ values # {}
      BY <1>3
    <3> HIDE DEF values
    <3> QED
      BY <1>1, <3>1, GreatestExists
  <2>2. m \in Nat /\ \A x \in S : f[x] <= m
    BY <2>1
  <2>3. Pile(f, S) \in SUBSET (S \X (1..m))
    BY <2>2 DEF Pile
  <2>4. IsFiniteSet(S \X (1..m))
    <3>1. IsFiniteSet(1..m)
      BY <2>2, FS_Interval
    <3> QED
      BY <3>1, FS_Product
  <2> QED
    BY <2>3, <2>4, FS_Subset, FS_CardinalityType DEF Total
<1> QED
  BY <1>2, <1>3

LEMMA TotalEmpty ==
  ASSUME NEW f
  PROVE  Total(f, {}) = 0
<1>1. Pile(f, {}) = {}
  BY DEF Pile
<1> QED
  BY <1>1, FS_EmptySet DEF Total

(* One more. *)
LEMMA TotalAdd ==
  ASSUME NEW S, IsFiniteSet(S), NEW f, \A x \in S : f[x] \in Nat, NEW x \in S
  PROVE  Total(f, S) = f[x] + Total(f, S \ {x})
<1> DEFINE rest == Pile(f, S \ {x})
           own == {x} \X (1..f[x])
<1>1. IsFiniteSet(S \ {x})
  BY FS_RemoveElement
<1>2. IsFiniteSet(rest) /\ Cardinality(rest) \in Nat
  BY <1>1, TotalIsNat DEF Total
<1>3. IsFiniteSet(own) /\ Cardinality(own) = f[x]
  <2>1. IsFiniteSet(1..f[x]) /\ Cardinality(1..f[x]) = f[x]
    BY FS_Interval
  <2>2. IsFiniteSet({x}) /\ Cardinality({x}) = 1
    BY FS_Singleton
  <2>3. IsFiniteSet(own) /\ Cardinality(own) = Cardinality({x}) * Cardinality(1..f[x])
    BY <2>1, <2>2, FS_Product
  <2> HIDE DEF own
  <2> QED
    BY <2>1, <2>2, <2>3
<1>4. Pile(f, S) = rest \cup own
  BY DEF Pile
<1>5. rest \cap own = {}
  BY DEF Pile
<1> HIDE DEF rest, own
<1>6. Cardinality(rest \cup own) = Cardinality(rest) + Cardinality(own) - Cardinality({})
  BY <1>2, <1>3, <1>5, FS_Union
<1> QED
  BY <1>2, <1>3, <1>4, <1>6, FS_EmptySet DEF Total, rest

LEMMA TotalAgree ==
  ASSUME NEW S, NEW f, NEW g, \A x \in S : f[x] = g[x]
  PROVE  Total(f, S) = Total(g, S)
<1>1. Pile(f, S) = Pile(g, S)
  BY DEF Pile
<1> QED
  BY <1>1 DEF Total

(* The sum of a sum. *)
LEMMA TotalSum ==
  ASSUME NEW S, IsFiniteSet(S), NEW f, NEW g, NEW h,
         \A x \in S : f[x] \in Nat /\ g[x] \in Nat /\ h[x] = f[x] + g[x]
  PROVE  Total(h, S) = Total(f, S) + Total(g, S)
<1> DEFINE bad == {T \in SUBSET S : Total(h, T) # Total(f, T) + Total(g, T)}
<1> SUFFICES ASSUME S \in bad PROVE FALSE
  OBVIOUS
<1>1. PICK T \in bad : T \in SUBSET S /\ \A x \in T : T \ {x} \notin bad
  <2>1. bad \in SUBSET (SUBSET S)
    OBVIOUS
  <2> HIDE DEF bad
  <2> QED
    BY <2>1, MinimalSubset
<1>2. PICK x \in T : TRUE
  <2>1. Total(f, {}) = 0 /\ Total(g, {}) = 0 /\ Total(h, {}) = 0
    BY TotalEmpty
  <2>2. T # {}
    BY <1>1, <2>1
  <2> QED
    BY <2>2
<1>3. IsFiniteSet(T) /\ IsFiniteSet(T \ {x})
  BY <1>1, FS_Subset, FS_RemoveElement
<1>4. \A y \in T : f[y] \in Nat /\ g[y] \in Nat /\ h[y] \in Nat
  BY <1>1
<1>5. /\ Total(h, T) = h[x] + Total(h, T \ {x})
      /\ Total(f, T) = f[x] + Total(f, T \ {x})
      /\ Total(g, T) = g[x] + Total(g, T \ {x})
  BY <1>2, <1>3, <1>4, TotalAdd
<1>6. Total(f, T \ {x}) \in Nat /\ Total(g, T \ {x}) \in Nat
  BY <1>3, <1>4, TotalIsNat
<1>7. Total(h, T \ {x}) = Total(f, T \ {x}) + Total(g, T \ {x})
  BY <1>1
<1>8. h[x] = f[x] + g[x]
  BY <1>1
<1> QED
  BY <1>4, <1>5, <1>6, <1>7, <1>8

(* One each. *)
LEMMA TotalOfOnes ==
  ASSUME NEW S, IsFiniteSet(S), NEW D \in SUBSET S, NEW f,
         \A x \in S : f[x] = IF x \in D THEN 1 ELSE 0
  PROVE  Total(f, S) = Cardinality(D)
<1> DEFINE one == [x \in D |-> <<x, 1>>]
<1>1. \A z \in Pile(f, S) : z[1] \in D /\ z = <<z[1], 1>>
  BY DEF Pile
<1>2. \A x \in D : one[x] \in Pile(f, S)
  BY DEF Pile
<1>3. one \in Bijection(D, Pile(f, S))
  BY <1>1, <1>2 DEF Bijection, Injection, IsInjective, Surjection
<1>4. IsFiniteSet(D)
  BY FS_Subset
<1> QED
  BY <1>3, <1>4, FS_Bijection DEF ExistsBijection, Total

(* What is divided into classes is as much as all classes together.        *)
LEMMA TotalOfClasses ==
  ASSUME NEW S, IsFiniteSet(S), NEW T, IsFiniteSet(T), NEW class \in [S -> T], NEW f,
         \A t \in T : f[t] = Cardinality({s \in S : class[s] = t})
  PROVE  Total(f, T) = Cardinality(S)
<1> DEFINE in(U) == {s \in S : class[s] \in U}
           of(t) == {s \in S : class[s] = t}
           bad == {U \in SUBSET T : Total(f, U) # Cardinality(in(U))}
<1>1. in(T) = S /\ in({}) = {}
  OBVIOUS
<1> SUFFICES ASSUME T \in bad PROVE FALSE
  BY <1>1
<1>2. PICK U \in bad : U \in SUBSET T /\ \A x \in U : U \ {x} \notin bad
  <2>1. bad \in SUBSET (SUBSET T)
    OBVIOUS
  <2> HIDE DEF bad
  <2> QED
    BY <2>1, MinimalSubset
<1>3. PICK t \in U : TRUE
  BY <1>1, TotalEmpty, FS_EmptySet
<1>4. \A V : /\ IsFiniteSet(in(V)) /\ Cardinality(in(V)) \in Nat
             /\ IsFiniteSet(of(V)) /\ Cardinality(of(V)) \in Nat
  BY FS_Subset, FS_CardinalityType
<1>5. \A v \in T : f[v] \in Nat
  <2>1. \A v \in T : f[v] = Cardinality(of(v))
    OBVIOUS
  <2> HIDE DEF of
  <2> QED
    BY <1>4, <2>1
<1>6. Total(f, U) = f[t] + Total(f, U \ {t})
  BY <1>2, <1>5, FS_Subset, TotalAdd
<1>7. Total(f, U \ {t}) = Cardinality(in(U \ {t})) /\ f[t] = Cardinality(of(t))
  BY <1>2
<1>8. in(U) = in(U \ {t}) \cup of(t) /\ in(U \ {t}) \cap of(t) = {}
  BY <1>2
<1>9. Total(f, U) # Cardinality(in(U))
  BY <1>2
<1> HIDE DEF in, of, bad
<1>10. Cardinality(in(U)) = Cardinality(in(U \ {t})) + Cardinality(of(t)) - Cardinality({})
  BY <1>4, <1>8, FS_Union
<1> QED
  BY <1>4, <1>6, <1>7, <1>9, <1>10, FS_EmptySet

(* The fold that MapThenSumSet is has a solution, which is the sum.        *)
IsFold(F, f, S) ==
  F = [s \in SUBSET S |-> IF s = {} THEN 0
                          ELSE f[CHOOSE x \in s : TRUE] + F[s \ {CHOOSE x \in s : TRUE}]]

LEMMA TotalIsFold ==
  ASSUME NEW S, IsFiniteSet(S), NEW f, \A x \in S : f[x] \in Nat
  PROVE  \E F : IsFold(F, f, S)
<1> DEFINE it == [s \in SUBSET S |-> Total(f, s)]
           c(s) == CHOOSE x \in s : TRUE
<1>1. ASSUME NEW s \in SUBSET S
      PROVE  it[s] = IF s = {} THEN 0 ELSE f[c(s)] + it[s \ {c(s)}]
  <2>1. CASE s = {}
    BY <2>1, TotalEmpty
  <2>2. CASE s # {}
    <3>1. c(s) \in s
      BY <2>2
    <3>2. Total(f, s) = f[c(s)] + Total(f, s \ {c(s)})
      <4> HIDE DEF c
      <4> QED
        BY <3>1, FS_Subset, TotalAdd
    <3> QED
      BY <2>2, <3>2
  <2> QED
    BY <2>1, <2>2
<1>2. it = [s \in SUBSET S |-> IF s = {} THEN 0 ELSE f[c(s)] + it[s \ {c(s)}]]
  <2> HIDE DEF c
  <2> QED
    BY <1>1
<1> HIDE DEF it
<1> QED
  BY <1>2, Zenon DEF IsFold

(* There is no other. *)
LEMMA FoldIsTotal ==
  ASSUME NEW S, IsFiniteSet(S), NEW f, \A x \in S : f[x] \in Nat, NEW it,
         IsFold(it, f, S)
  PROVE  it[S] = Total(f, S)
<1> DEFINE c(s) == CHOOSE x \in s : TRUE
           bad == {T \in SUBSET S : it[T] # Total(f, T)}
<1> SUFFICES ASSUME S \in bad PROVE FALSE
  OBVIOUS
<1>1. PICK T \in bad : T \in SUBSET S /\ \A x \in T : T \ {x} \notin bad
  <2>1. bad \in SUBSET (SUBSET S)
    OBVIOUS
  <2> HIDE DEF bad
  <2> QED
    BY <2>1, MinimalSubset
<1>2. \A s \in SUBSET S : it[s] = IF s = {} THEN 0 ELSE f[c(s)] + it[s \ {c(s)}]
  BY DEF IsFold
<1>3. CASE T = {}
  BY <1>1, <1>2, <1>3, TotalEmpty
<1>4. CASE T # {}
  <2>1. c(T) \in T
    BY <1>4
  <2> HIDE DEF c
  <2>2. it[T] = f[c(T)] + it[T \ {c(T)}]
    BY <1>1, <1>2, <1>4
  <2>3. it[T \ {c(T)}] = Total(f, T \ {c(T)})
    BY <1>1, <2>1
  <2>4. Total(f, T) = f[c(T)] + Total(f, T \ {c(T)})
    <3>1. IsFiniteSet(T) /\ \A x \in T : f[x] \in Nat
      BY <1>1, FS_Subset
    <3> QED
      BY <2>1, <3>1, TotalAdd
  <2> QED
    BY <1>1, <2>2, <2>3, <2>4
<1> QED
  BY <1>3, <1>4

LEMMA SumIsTotal ==
  ASSUME NEW S, IsFiniteSet(S), NEW f, \A x \in S : f[x] \in Nat
  PROVE  MapThenSumSet(LAMBDA x : f[x], S) = Total(f, S)
<1> DEFINE it == CHOOSE F : IsFold(F, f, S)
<1>1. IsFold(it, f, S)
  BY TotalIsFold
<1>2. MapThenSumSet(LAMBDA x : f[x], S) = it[S]
  BY Zenon DEF MapThenSumSet, MapThenFoldSet, IsFold
<1> HIDE DEF it
<1> QED
  BY <1>1, <1>2, FoldIsTotal

(* A sum of which one part changes. *)
LEMMA TotalChange ==
  ASSUME NEW S, IsFiniteSet(S), NEW f, NEW g, \A x \in S : f[x] \in Nat /\ g[x] \in Nat,
         NEW x \in S, \A y \in S : y # x => g[y] = f[y]
  PROVE  /\ Total(f, S) \in Nat /\ Total(g, S) \in Nat
         /\ Total(g, S) - g[x] = Total(f, S) - f[x]
<1>1. Total(f, S) = f[x] + Total(f, S \ {x}) /\ Total(g, S) = g[x] + Total(g, S \ {x})
  BY TotalAdd
<1>2. Total(g, S \ {x}) = Total(f, S \ {x})
  BY TotalAgree
<1>3. Total(f, S \ {x}) \in Nat
  BY FS_RemoveElement, TotalIsNat
<1> QED
  BY <1>1, <1>2, <1>3

(* A finite set of numbers has a least one. *)
LEMMA LeastExists ==
  ASSUME NEW S \in SUBSET Int, IsFiniteSet(S), S # {}
  PROVE  \E x \in S : \A y \in S : y >= x
<1> DEFINE N == {n \in Int : -n \in S}
           minus == [x \in S |-> -x]
<1>1. minus \in Surjection(S, N)
  BY DEF Surjection
<1>2. IsFiniteSet(N)
  <2> HIDE DEF N, minus
  <2> QED
    BY <1>1, FS_Surjection
<1>3. N \in SUBSET Int /\ N # {}
  <2>1. \A x \in S : -x \in N
    OBVIOUS
  <2> QED
    BY <2>1
<1>4. PICK n \in N : \A m \in N : m <= n
  <2> HIDE DEF N
  <2> QED
    BY <1>2, <1>3, GreatestExists
<1>5. -n \in S /\ \A y \in S : -y \in N /\ y >= -n
  BY <1>4
<1> QED
  BY <1>5

(* Max and Min are what they are called. *)
LEMMA MaxIsGreatest ==
  ASSUME NEW S \in SUBSET Int, IsFiniteSet(S), S # {}
  PROVE  Max(S) \in S /\ \A y \in S : y <= Max(S)
<1>1. \E x \in S : \A y \in S : x >= y
  BY GreatestExists
<1> QED
  BY <1>1 DEF Max

LEMMA MinIsLeast ==
  ASSUME NEW S \in SUBSET Int, IsFiniteSet(S), S # {}
  PROVE  Min(S) \in S /\ \A y \in S : Min(S) <= y
<1>1. \E x \in S : \A y \in S : x <= y
  BY LeastExists
<1> QED
  BY <1>1 DEF Min

(* A sum of integers, some of them negative, is one. *)
Sum(f, S) == MapThenSumSet(LAMBDA x : f[x], S)

LEMMA SumIsInt ==
  ASSUME NEW S, IsFiniteSet(S), NEW f, \A x \in S : f[x] \in Int
  PROVE  Sum(f, S) \in Int
<1> DEFINE it == CHOOSE F : IsFold(F, f, S)
           gain == [x \in S |-> IF f[x] > 0 THEN f[x] ELSE 0]
           loss == [x \in S |-> IF f[x] > 0 THEN 0 ELSE -f[x]]
           net == [s \in SUBSET S |-> Total(gain, s) - Total(loss, s)]
           c(s) == CHOOSE x \in s : TRUE
<1>1. \A x \in S : gain[x] \in Nat /\ loss[x] \in Nat /\ f[x] = gain[x] - loss[x]
  OBVIOUS
<1>2. ASSUME NEW s \in SUBSET S
      PROVE  /\ net[s] \in Int
             /\ net[s] = IF s = {} THEN 0 ELSE f[c(s)] + net[s \ {c(s)}]
  <2> HIDE DEF gain, loss
  <2>1. \A r \in SUBSET S : IsFiniteSet(r) /\ Total(gain, r) \in Nat /\ Total(loss, r) \in Nat
    BY <1>1, FS_Subset, TotalIsNat
  <2>2. CASE s = {}
    BY <2>2, TotalEmpty
  <2>3. CASE s # {}
    <3>1. c(s) \in s /\ s \ {c(s)} \in SUBSET S
      BY <2>3
    <3> HIDE DEF c
    <3>2. \A x \in s : gain[x] \in Nat /\ loss[x] \in Nat
      BY <1>1
    <3>3. /\ Total(gain, s) = gain[c(s)] + Total(gain, s \ {c(s)})
          /\ Total(loss, s) = loss[c(s)] + Total(loss, s \ {c(s)})
      BY <2>1, <3>1, <3>2, TotalAdd
    <3>4. /\ gain[c(s)] \in Nat /\ loss[c(s)] \in Nat /\ f[c(s)] = gain[c(s)] - loss[c(s)]
          /\ Total(gain, s \ {c(s)}) \in Nat /\ Total(loss, s \ {c(s)}) \in Nat
      BY <1>1, <2>1, <3>1
    <3>5. /\ net[s] = Total(gain, s) - Total(loss, s)
          /\ net[s \ {c(s)}] = Total(gain, s \ {c(s)}) - Total(loss, s \ {c(s)})
      BY <3>1
    <3> HIDE DEF net
    <3> QED
      BY <2>3, <3>3, <3>4, <3>5
  <2> QED
    BY <2>2, <2>3
<1>3. net = [s \in SUBSET S |-> IF s = {} THEN 0 ELSE f[c(s)] + net[s \ {c(s)}]]
  <2> HIDE DEF c, gain, loss
  <2> QED
    BY <1>2
<1>4. IsFold(it, f, S)
  <2> HIDE DEF net
  <2>1. IsFold(net, f, S)
    BY <1>3, Zenon DEF IsFold
  <2> QED
    BY <2>1
<1>5. Sum(f, S) = it[S]
  BY Zenon DEF Sum, MapThenSumSet, MapThenFoldSet, IsFold
<1> HIDE DEF it
<1>6. \A s \in SUBSET S : it[s] = IF s = {} THEN 0 ELSE f[c(s)] + it[s \ {c(s)}]
  BY <1>4 DEF IsFold
<1>7. it[S] \in Int
  <2> DEFINE odd == {T \in SUBSET S : it[T] \notin Int}
  <2> SUFFICES ASSUME S \in odd PROVE FALSE
    OBVIOUS
  <2>1. PICK T \in odd : T \in SUBSET S /\ \A x \in T : T \ {x} \notin odd
    <3>1. odd \in SUBSET (SUBSET S)
      OBVIOUS
    <3> HIDE DEF odd
    <3> QED
      BY <3>1, MinimalSubset
  <2>2. T # {} /\ c(T) \in T
    <3>1. it[{}] = 0
      BY <1>6
    <3>2. T \in SUBSET S /\ it[T] \notin Int
      BY <2>1
    <3>3. T # {}
      BY <3>1, <3>2
    <3> QED
      BY <3>3
  <2> HIDE DEF c
  <2>3. it[T] = f[c(T)] + it[T \ {c(T)}] /\ it[T \ {c(T)}] \in Int /\ f[c(T)] \in Int
    BY <1>6, <2>1, <2>2
  <2> QED
    BY <2>1, <2>3
<1> QED
  BY <1>5, <1>7

(* Things numbered another way sum up to as much.                          *)
LEMMA TotalBijection ==
  ASSUME NEW S, IsFiniteSet(S), NEW T, NEW b \in Bijection(S, T), NEW f, NEW g,
         \A x \in S : f[x] \in Nat /\ g[b[x]] = f[x]
  PROVE  IsFiniteSet(T) /\ Total(g, T) = Total(f, S)
<1> DEFINE moved == [z \in Pile(f, S) |-> <<b[z[1]], z[2]>>]
<1>1. /\ \A x \in S : b[x] \in T
      /\ \A x, y \in S : b[x] = b[y] => x = y
      /\ \A y \in T : \E x \in S : b[x] = y
  BY DEF Bijection, Injection, IsInjective, Surjection
<1>2. \A z \in Pile(f, S) : z[1] \in S /\ z[2] \in Nat /\ z[2] \in 1..f[z[1]] /\ z = <<z[1], z[2]>>
  BY DEF Pile
<1>3. \A z \in Pile(f, S) : moved[z] \in Pile(g, T)
  BY <1>1, <1>2 DEF Pile
<1>4. ASSUME NEW y \in Pile(f, S), NEW z \in Pile(f, S), moved[y] = moved[z] PROVE y = z
  <2>1. b[y[1]] = b[z[1]] /\ y[2] = z[2]
    BY <1>4
  <2> QED
    BY <1>1, <1>2, <2>1
<1>5. ASSUME NEW w \in Pile(g, T) PROVE \E z \in Pile(f, S) : moved[z] = w
  <2>1. w[1] \in T /\ w[2] \in Nat /\ w[2] \in 1..g[w[1]] /\ w = <<w[1], w[2]>>
    BY DEF Pile
  <2>2. PICK x \in S : b[x] = w[1]
    BY <1>1, <2>1
  <2>3. <<x, w[2]>> \in Pile(f, S)
    BY <2>1, <2>2 DEF Pile
  <2>4. moved[<<x, w[2]>>] = w
    BY <2>1, <2>2, <2>3
  <2> QED
    BY <2>3, <2>4
<1> HIDE DEF moved
<1>6. moved \in Bijection(Pile(f, S), Pile(g, T))
  <2>1. moved \in [Pile(f, S) -> Pile(g, T)]
    BY <1>3 DEF moved
  <2> QED
    BY <1>4, <1>5, <2>1 DEF Bijection, Injection, IsInjective, Surjection
<1>7. IsFiniteSet(Pile(f, S))
  BY TotalIsNat
<1>8. Total(g, T) = Total(f, S)
  BY <1>6, <1>7, FS_Bijection DEF ExistsBijection, Total
<1>9. IsFiniteSet(T)
  BY FS_Bijection DEF ExistsBijection
<1> QED
  BY <1>8, <1>9

-----------------------------------------------------------------------------
(***************************************************************************)
(* Folds over a finite set, an element at a time: pick[s] is the one taken *)
(* last of s.  There is a function that does what its equation says, and   *)
(* what every step keeps holds of the result.                              *)
(***************************************************************************)
Picks(S, pick) == \A s \in SUBSET S : s # {} => pick[s] \in s
FoldOf(F, S, pick, base, step) ==
  /\ F[{}] = base
  /\ \A s \in SUBSET S : s # {} => F[s] = step[<<F[s \ {pick[s]}], pick[s]>>]

LEMMA FoldExists ==
  ASSUME NEW S, IsFiniteSet(S),
         NEW pick, Picks(S, pick),
         NEW A, NEW base \in A, NEW step \in [A \X S -> A]
  PROVE  \E F \in [SUBSET S -> A] : FoldOf(F, S, pick, base, step)
<1> DEFINE space == (SUBSET S) \X A
           closed(R) == /\ <<{}, base>> \in R
                        /\ \A s \in SUBSET S : \A a \in A :
                             s # {} /\ <<s \ {pick[s]}, a>> \in R
                               => <<s, step[<<a, pick[s]>>]>> \in R
           least == {z \in space : \A R \in SUBSET space : closed(R) => z \in R}
           unique(T) == \E a \in A : \A b \in A : <<T, b>> \in least <=> b = a
           bad == {T \in SUBSET S : ~unique(T)}
<1>0. \A s \in SUBSET S : s # {} => pick[s] \in s
  BY DEF Picks
<1>1. closed(least)
  <2>1. <<{}, base>> \in least
    OBVIOUS
  <2>2. ASSUME NEW s \in SUBSET S, NEW a \in A, s # {}, <<s \ {pick[s]}, a>> \in least
        PROVE  <<s, step[<<a, pick[s]>>]>> \in least
    <3>1. step[<<a, pick[s]>>] \in A
      BY <1>0, <2>2
    <3>2. ASSUME NEW R \in SUBSET space, closed(R) PROVE <<s, step[<<a, pick[s]>>]>> \in R
      <4>1. <<s \ {pick[s]}, a>> \in R
        BY <2>2, <3>2
      <4> QED
        BY <2>2, <3>2, <4>1
    <3> HIDE DEF closed
    <3> QED
      BY <3>1, <3>2
  <2> HIDE DEF least
  <2> QED
    BY <2>1, <2>2
<1>2. \A R \in SUBSET space : closed(R) => least \subseteq R
  <2> HIDE DEF closed, space
  <2> QED
    OBVIOUS
<1>3. least \in SUBSET space
  OBVIOUS
<1> HIDE DEF least
<1>4. bad = {}
  <2> SUFFICES ASSUME bad # {} PROVE FALSE
    OBVIOUS
  <2>1. PICK T0 \in bad : TRUE
    OBVIOUS
  <2>2. T0 \in SUBSET S /\ IsFiniteSet(T0)
    BY <2>1, FS_Subset
  <2> DEFINE badIn == {T \in SUBSET T0 : ~unique(T)}
  <2>3. T0 \in badIn /\ badIn \in SUBSET (SUBSET T0)
    BY <2>1
  <2>4. PICK T \in badIn : T \in SUBSET T0 /\ \A x \in T : T \ {x} \notin badIn
    <3> HIDE DEF badIn
    <3> QED
      BY <2>2, <2>3, MinimalSubset
  <2>5. T \in SUBSET S /\ ~unique(T)
    BY <2>2, <2>4
  <2>6. CASE T = {}
    <3>1. ASSUME NEW b \in A, <<{}, b>> \in least, b # base PROVE FALSE
      <4> DEFINE R == least \ {<<{}, b>>}
      <4>1. closed(R)
        BY <1>1, <3>1
      <4>2. R \in SUBSET space
        BY <1>3
      <4> QED
        BY <1>2, <3>1, <4>1, <4>2
    <3>2. <<{}, base>> \in least
      BY <1>1
    <3> QED
      BY <2>5, <2>6, <3>1, <3>2
  <2>7. CASE T # {}
    <3> DEFINE m == pick[T]
    <3>1. m \in T /\ m \in S
      BY <1>0, <2>5, <2>7
    <3> HIDE DEF m
    <3>2. T \ {m} \notin badIn /\ T \ {m} \in SUBSET T0
      BY <2>4, <3>1
    <3>3. PICK a \in A : \A b \in A : <<T \ {m}, b>> \in least <=> b = a
      BY <3>2
    <3> DEFINE it == step[<<a, m>>]
    <3>4. it \in A
      BY <3>1
    <3>5. <<T, it>> \in least
      BY <1>1, <2>5, <2>7, <3>3 DEF m
    <3>6. ASSUME NEW b \in A, <<T, b>> \in least, b # it PROVE FALSE
      <4> DEFINE R == least \ {<<T, b>>}
      <4>1. <<{}, base>> \in R
        BY <1>1, <2>7
      <4>2. ASSUME NEW s \in SUBSET S, NEW d \in A, s # {}, <<s \ {pick[s]}, d>> \in R
            PROVE  <<s, step[<<d, pick[s]>>]>> \in R
        <5>1. <<s \ {pick[s]}, d>> \in least
          BY <4>2
        <5>2. <<s, step[<<d, pick[s]>>]>> \in least
          BY <1>1, <4>2, <5>1
        <5>3. s = T => d = a
          BY <3>3, <5>1 DEF m
        <5>4. s = T => step[<<d, pick[s]>>] = it
          BY <5>3 DEF m
        <5> HIDE DEF it
        <5> QED
          BY <3>6, <5>2, <5>4
      <4>3. R \in SUBSET space
        BY <1>3
      <4> HIDE DEF R, space
      <4>4. closed(R)
        BY <4>1, <4>2
      <4>5. least \subseteq R
        BY <1>2, <4>3, <4>4
      <4> QED
        BY <3>6, <4>5 DEF R
    <3> HIDE DEF it
    <3>7. unique(T)
      BY <3>4, <3>5, <3>6
    <3> QED
      BY <2>5, <3>7
  <2> QED
    BY <2>6, <2>7
<1>5. \A s \in SUBSET S : unique(s)
  BY <1>4
<1> DEFINE F == [s \in SUBSET S |-> CHOOSE a \in A : <<s, a>> \in least]
<1>6. \A s \in SUBSET S : F[s] \in A /\ \A b \in A : <<s, b>> \in least <=> b = F[s]
  <2> TAKE s \in SUBSET S
  <2>1. PICK a \in A : \A b \in A : <<s, b>> \in least <=> b = a
    BY <1>5
  <2>2. F[s] \in A /\ <<s, F[s]>> \in least
    BY <2>1
  <2> QED
    BY <2>1, <2>2
<1>7. F \in [SUBSET S -> A]
  BY <1>6
<1> HIDE DEF F
<1>8. F[{}] = base
  BY <1>1, <1>6
<1>9. ASSUME NEW s \in SUBSET S, s # {}
      PROVE  F[s] = step[<<F[s \ {pick[s]}], pick[s]>>]
  <2> DEFINE m == pick[s]
  <2>1. m \in S /\ s \ {m} \in SUBSET S
    BY <1>0, <1>9
  <2>2. F[s \ {m}] \in A /\ <<s \ {m}, F[s \ {m}]>> \in least
    BY <1>6, <2>1
  <2>3. <<s, step[<<F[s \ {m}], m>>]>> \in least
    BY <1>1, <1>9, <2>2
  <2>4. step[<<F[s \ {m}], m>>] \in A
    BY <2>1, <2>2
  <2> QED
    BY <1>6, <2>3, <2>4
<1> QED
  BY <1>7, <1>8, <1>9 DEF FoldOf

LEMMA FoldKeeps ==
  ASSUME NEW S, IsFiniteSet(S),
         NEW pick, Picks(S, pick),
         NEW A, NEW it, it[{}] \in A,
         \A s \in SUBSET S : s # {} /\ it[s \ {pick[s]}] \in A => it[s] \in A
  PROVE  it[S] \in A
<1> DEFINE bad == {T \in SUBSET S : it[T] \notin A}
<1> SUFFICES ASSUME S \in bad PROVE FALSE
  OBVIOUS
<1>1. PICK T \in bad : T \in SUBSET S /\ \A x \in T : T \ {x} \notin bad
  <2>1. bad \in SUBSET (SUBSET S)
    OBVIOUS
  <2> HIDE DEF bad
  <2> QED
    BY <2>1, MinimalSubset
<1>2. T \in SUBSET S /\ it[T] \notin A
  BY <1>1
<1>3. T # {}
  BY <1>2
<1>4. pick[T] \in T
  BY <1>2, <1>3 DEF Picks
<1>5. it[T \ {pick[T]}] \in A
  BY <1>1, <1>4
<1> QED
  BY <1>2, <1>3, <1>5

(* The same for a sequence, whose elements are taken in order: the fold is *)
(* of its indices, the greatest last.                                      *)
InOrder(F, seq, base, step) ==
  F = [s \in SUBSET (DOMAIN seq) |->
         IF s = {} THEN base ELSE step[<<F[s \ {Max(s)}], seq[Max(s)]>>]]

LEMMA SequenceFoldExists ==
  ASSUME NEW D, NEW seq \in Seq(D), NEW A, NEW base \in A, NEW step \in [A \X D -> A]
  PROVE  \E F \in [SUBSET (DOMAIN seq) -> A] : InOrder(F, seq, base, step)
<1> DEFINE S == DOMAIN seq
           pick == [s \in SUBSET S |-> Max(s)]
           at == [x \in A \X S |-> step[<<x[1], seq[x[2]]>>]]
<1>1. IsFiniteSet(S) /\ S \in SUBSET Int
  BY FS_Interval
<1>2. \A s \in SUBSET S : s # {} => pick[s] \in s
  <2> TAKE s \in SUBSET S
  <2>1. IsFiniteSet(s) /\ s \in SUBSET Int
    BY <1>1, FS_Subset
  <2>2. s # {} => Max(s) \in s
    BY <2>1, MaxIsGreatest
  <2> QED
    BY <2>2
<1> Picks(S, pick)
  BY <1>2 DEF Picks
<1>3. at \in [A \X S -> A]
  <2> SUFFICES ASSUME NEW x \in A \X S PROVE step[<<x[1], seq[x[2]]>>] \in A
    OBVIOUS
  <2>1. x[1] \in A /\ seq[x[2]] \in D
    OBVIOUS
  <2>2. <<x[1], seq[x[2]]>> \in A \X D
    BY <2>1
  <2> QED
    BY <2>2
<1>4. PICK F \in [SUBSET S -> A] : FoldOf(F, S, pick, base, at)
  <2> HIDE DEF pick, at, S
  <2> QED
    BY <1>1, <1>3, FoldExists
<1>5. \A s \in SUBSET S : s # {} => F[s] = step[<<F[s \ {Max(s)}], seq[Max(s)]>>]
  <2> SUFFICES ASSUME NEW s \in SUBSET S, s # {}
               PROVE  F[s] = step[<<F[s \ {Max(s)}], seq[Max(s)]>>]
    OBVIOUS
  <2>1. pick[s] = Max(s) /\ Max(s) \in S
    BY <1>2
  <2>2. F[s \ {Max(s)}] \in A
    BY <1>4
  <2>3. <<F[s \ {Max(s)}], Max(s)>> \in A \X S
    BY <2>1, <2>2
  <2>4. at[<<F[s \ {Max(s)}], Max(s)>>] = step[<<F[s \ {Max(s)}], seq[Max(s)]>>]
    BY <2>3
  <2> QED
    BY <1>4, <2>1, <2>4 DEF FoldOf
<1>6. F = [s \in SUBSET S |-> IF s = {} THEN base
                              ELSE step[<<F[s \ {Max(s)}], seq[Max(s)]>>]]
  BY <1>4, <1>5 DEF FoldOf
<1> QED
  BY <1>6 DEF InOrder

LEMMA SequenceFoldKeeps ==
  ASSUME NEW D, NEW seq \in Seq(D), NEW A, NEW it, it[{}] \in A,
         \A s \in SUBSET (DOMAIN seq) : s # {} /\ it[s \ {Max(s)}] \in A => it[s] \in A
  PROVE  it[DOMAIN seq] \in A
<1> DEFINE S == DOMAIN seq
           pick == [s \in SUBSET S |-> Max(s)]
<1>1. IsFiniteSet(S) /\ S \in SUBSET Int
  BY FS_Interval
<1>2. \A s \in SUBSET S : s # {} => pick[s] = Max(s) /\ pick[s] \in s
  <2> TAKE s \in SUBSET S
  <2>1. IsFiniteSet(s) /\ s \in SUBSET Int
    BY <1>1, FS_Subset
  <2>2. s # {} => Max(s) \in s
    BY <2>1, MaxIsGreatest
  <2> QED
    BY <2>2
<1>3. \A s \in SUBSET S : s # {} /\ it[s \ {pick[s]}] \in A => it[s] \in A
  BY <1>2
<1> Picks(S, pick)
  BY <1>2 DEF Picks
<1> HIDE DEF pick, S
<1>4. it[S] \in A
  BY <1>1, <1>2, <1>3, FoldKeeps
<1> QED
  BY <1>4 DEF S
=============================================================================
