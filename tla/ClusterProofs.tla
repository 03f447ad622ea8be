---------------------------- MODULE ClusterProofs ---------------------------
(***************************************************************************)
(* What the operators on clusters return, for every grid: the cells a      *)
(* breadth-first search reaches, the centre of a cluster, the ways a large *)
(* one is split. All are recursive functions; the first section gives the  *)
(* induction and the existence of such functions that the others rest on.  *)
(***************************************************************************)
EXTENDS FrontierMap, FiniteSetTheorems, WellFoundedInduction, TLAPS

-----------------------------------------------------------------------------
(* Induction and recursion. *)

\* Induction over the natural numbers, for a set of them.
LEMMA NumbersFromZero ==
  ASSUME NEW G, 0 \in G, \A n \in Nat : n \in G => n + 1 \in G
  PROVE  Nat \subseteq G
<1> SUFFICES ASSUME Nat \ G # {} PROVE FALSE
  OBVIOUS
<1>1. PICK n \in Nat \ G : \A m \in Nat \ G : ~(<<m, n>> \in OpToRel(<, Nat))
  BY NatLessThanWellFounded, WFMin
<1>2. n \in Nat /\ n \notin G /\ \A m \in Nat : m < n => m \in G
  BY <1>1 DEF OpToRel
<1>3. n # 0 /\ n - 1 \in Nat /\ n - 1 < n /\ (n - 1) + 1 = n
  BY <1>2
<1>4. n - 1 \in G
  BY <1>2, <1>3
<1>5. (n - 1) + 1 \in G
  BY <1>3, <1>4
<1> QED
  BY <1>2, <1>3, <1>5

\* A family of subsets of a finite set has a minimal member.
LEMMA MinimalMember ==
  ASSUME NEW S, IsFiniteSet(S), NEW F \in SUBSET SUBSET S, F # {}
  PROVE  \E T \in F : \A U \in F : U \subseteq T => U = T
<1>1. IsWellFoundedOn(StrictSubsetOrdering(S), SUBSET S)
  BY FS_FiniteSubsetsOfFinite, FS_StrictSubsetOrderingWellFounded
<1>2. PICK T \in F : \A U \in F : ~(<<U, T>> \in StrictSubsetOrdering(S))
  BY <1>1, WFMin
<1> QED
  BY <1>2 DEF StrictSubsetOrdering

\* H gives the value of a function at an argument, which depends on its values
\* at arguments of lower rank only.
Ranked(D, rank, N) == rank \in [D -> Nat] /\ N \in Nat /\ \A s \in D : rank[s] <= N
Recursive(D, R, rank, H) ==
  /\ H \in [[D -> R] \X D -> R]
  /\ \A f, g \in [D -> R], s \in D :
       (\A t \in D : rank[t] < rank[s] => f[t] = g[t]) => H[<<f, s>>] = H[<<g, s>>]
HasFunction(D, R, H) == \E f \in [D -> R] : f = [s \in D |-> H[<<f, s>>]]

\* When ranks have a bound, such a function exists.
LEMMA RecursiveFunctionExists ==
  ASSUME NEW D, NEW R, R # {}, NEW rank, NEW N, Ranked(D, rank, N),
         NEW H, Recursive(D, R, rank, H)
  PROVE  HasFunction(D, R, H)
<1> USE DEF Ranked, Recursive
<1> DEFINE Upto(n) == \E f \in [D -> R] : \A s \in D : rank[s] < n => f[s] = H[<<f, s>>]
           G == {n \in Nat : Upto(n)}
<1>1. 0 \in G
  <2>1. PICK r \in R : TRUE
    OBVIOUS
  <2>2. [s \in D |-> r] \in [D -> R]
    OBVIOUS
  <2>3. \A s \in D : ~(rank[s] < 0)
    OBVIOUS
  <2> QED
    BY <2>2, <2>3
<1>2. ASSUME NEW n \in Nat, n \in G PROVE n + 1 \in G
  <2>1. PICK f \in [D -> R] : \A s \in D : rank[s] < n => f[s] = H[<<f, s>>]
    BY <1>2
  <2> DEFINE g == [s \in D |-> H[<<f, s>>]]
  <2>2. g \in [D -> R]
    OBVIOUS
  <2>3. ASSUME NEW s \in D, rank[s] < n + 1 PROVE g[s] = H[<<g, s>>]
    <3>1. \A t \in D : rank[t] < rank[s] => rank[t] < n
      BY <2>3
    <3>2. \A t \in D : rank[t] < rank[s] => f[t] = g[t]
      BY <2>1, <3>1
    <3> HIDE DEF g
    <3>3. H[<<f, s>>] = H[<<g, s>>]
      BY <2>2, <3>2
    <3> QED
      BY <3>3 DEF g
  <2> HIDE DEF g
  <2>4. Upto(n + 1)
    BY <2>2, <2>3
  <2> QED
    BY <2>4
<1>3. N + 1 \in G
  <2>1. 0 \in G /\ \A n \in Nat : n \in G => n + 1 \in G
    BY <1>1, <1>2
  <2> HIDE DEF G
  <2>2. Nat \subseteq G
    BY <2>1, NumbersFromZero
  <2> QED
    BY <2>2
<1>4. PICK f \in [D -> R] : \A s \in D : rank[s] < N + 1 => f[s] = H[<<f, s>>]
  BY <1>3
<1>5. \A s \in D : f[s] = H[<<f, s>>]
  <2>1. \A s \in D : rank[s] < N + 1
    OBVIOUS
  <2> QED
    BY <1>4, <2>1
<1>6. f = [s \in D |-> H[<<f, s>>]]
  BY <1>5
<1> QED
  BY <1>6 DEF HasFunction

\* The same for a function on the subsets of a finite set, whose value at a set
\* depends on those at its proper subsets.
SetRecursive(S, R, H) ==
  /\ H \in [[SUBSET S -> R] \X SUBSET S -> R]
  /\ \A f, g \in [SUBSET S -> R], s \in SUBSET S :
       (\A t \in SUBSET s : t # s => f[t] = g[t]) => H[<<f, s>>] = H[<<g, s>>]

\* The cardinality is the rank.
LEMMA SetFunctionExists ==
  ASSUME NEW S, IsFiniteSet(S), NEW R, R # {}, NEW H, SetRecursive(S, R, H)
  PROVE  HasFunction(SUBSET S, R, H)
<1> DEFINE D == SUBSET S
           rank == [s \in D |-> Cardinality(s)]
           N == Cardinality(S)
<1>1. N \in Nat /\ \A s \in D : IsFiniteSet(s) /\ Cardinality(s) \in Nat
                                /\ Cardinality(s) <= N
  BY FS_Subset, FS_CardinalityType
<1>2. Ranked(D, rank, N)
  BY <1>1 DEF Ranked
<1>3. ASSUME NEW s \in D, NEW t \in SUBSET s, t # s
      PROVE  t \in D /\ rank[t] < rank[s]
  <2>1. IsFiniteSet(s) /\ Cardinality(s) \in Nat /\ t \in D /\ Cardinality(t) \in Nat
    BY <1>1
  <2>2. Cardinality(t) <= Cardinality(s) /\ Cardinality(s) # Cardinality(t)
    BY <1>3, <2>1, FS_Subset
  <2> QED
    BY <2>1, <2>2
<1> HIDE DEF rank, N
<1>4. Recursive(D, R, rank, H)
  <2>1. ASSUME NEW f \in [D -> R], NEW g \in [D -> R], NEW s \in D,
               \A t \in D : rank[t] < rank[s] => f[t] = g[t]
        PROVE  H[<<f, s>>] = H[<<g, s>>]
    <3>1. \A t \in SUBSET s : t # s => f[t] = g[t]
      BY <1>3, <2>1
    <3> QED
      BY <3>1 DEF SetRecursive
  <2> QED
    BY <2>1 DEF Recursive, SetRecursive
<1> HIDE DEF D
<1>5. HasFunction(D, R, H)
  BY <1>2, <1>4, RecursiveFunctionExists
<1> QED
  BY <1>5 DEF D

-----------------------------------------------------------------------------
(* The cells a search reaches. *)

\* S is closed under the steps of a search within W.
ClosedWithin(S, W) == \A d \in W, e \in S : Close(d, e, 1) => d \in S

Grown(r, W) == r \cup {d \in W : \E e \in r : Close(d, e, 1)}

\* r is the recursive function of Component.
Reaching(r, c, W) ==
  /\ Component(c, W) = r[Cardinality(W)] /\ Cardinality(W) \in Nat
  /\ r[0] = {c}
  /\ \A n \in Nat : n + 1 <= Cardinality(W) => r[n + 1] = Grown(r[n], W)

\* It exists.
LEMMA ReachedExists ==
  ASSUME NEW c, NEW W, IsFiniteSet(W)
  PROVE  \E r : Reaching(r, c, W)
<1> DEFINE N == Cardinality(W)
           D == 0 .. N
           R == SUBSET (W \cup {c})
           Val(f, n) == IF n = 0 THEN {c} ELSE Grown(f[n - 1], W)
           H == [p \in [D -> R] \X D |-> Val(p[1], p[2])]
           rank == [n \in D |-> n]
<1>1. N \in Nat
  BY FS_CardinalityType
<1> HIDE DEF N
<1>2. ASSUME NEW f \in [D -> R], NEW n \in D
      PROVE  Val(f, n) \in R /\ H[<<f, n>>] = Val(f, n)
  <2>1. CASE n = 0
    BY <2>1
  <2>2. CASE n # 0
    <3>1. n - 1 \in D
      BY <1>1, <2>2
    <3>2. f[n - 1] \in R
      BY <3>1
    <3> QED
      BY <2>2, <3>2 DEF Grown
  <2> QED
    BY <2>1, <2>2
<1>3. Ranked(D, rank, N)
  BY <1>1 DEF Ranked
<1>4. Recursive(D, R, rank, H)
  <2>1. H \in [[D -> R] \X D -> R]
    <3>1. \A f \in [D -> R], n \in D : Val(f, n) \in R
      BY <1>2
    <3> HIDE DEF Val, R, D
    <3> QED
      BY <3>1
  <2>2. ASSUME NEW f \in [D -> R], NEW g \in [D -> R], NEW n \in D,
               \A t \in D : rank[t] < rank[n] => f[t] = g[t]
        PROVE  H[<<f, n>>] = H[<<g, n>>]
    <3>1. n # 0 => n - 1 \in D /\ rank[n - 1] < rank[n]
      BY <1>1
    <3>2. Val(f, n) = Val(g, n)
      BY <2>2, <3>1
    <3> QED
      BY <1>2, <3>2
  <2> HIDE DEF H, rank, D, R
  <2> QED
    BY <2>1, <2>2 DEF Recursive
<1>5. PICK f \in [D -> R] : f = [n \in D |-> H[<<f, n>>]]
  <2> HIDE DEF H, rank, D
  <2>1. R # {}
    OBVIOUS
  <2> HIDE DEF R
  <2>2. HasFunction(D, R, H)
    BY <1>3, <1>4, <2>1, RecursiveFunctionExists
  <2> QED
    BY <2>2 DEF HasFunction
<1> DEFINE Fix(r) == r = [n \in D |-> Val(r, n)]
           chosen == CHOOSE r : Fix(r)
<1>6. Fix(f)
  <2>1. \A n \in D : H[<<f, n>>] = Val(f, n)
    BY <1>2
  <2>2. [n \in D |-> H[<<f, n>>]] = [n \in D |-> Val(f, n)]
    BY <2>1
  <2> QED
    BY <1>5, <2>2
<1>7. Fix(chosen)
  <2> HIDE DEF Fix
  <2> QED
    BY <1>6
<1>8. Component(c, W) = chosen[N]
  BY DEF Component, Grown, N
<1> HIDE DEF chosen
<1>9. \A n \in D : chosen[n] = Val(chosen, n)
  BY <1>7
<1>10. chosen[0] = {c}
  BY <1>1, <1>9
<1>11. ASSUME NEW n \in Nat, n + 1 <= N PROVE chosen[n + 1] = Grown(chosen[n], W)
  <2>1. n + 1 \in D /\ n + 1 # 0 /\ (n + 1) - 1 = n
    BY <1>1, <1>11
  <2> QED
    BY <1>9, <2>1
<1> QED
  BY <1>1, <1>8, <1>10, <1>11 DEF N, Reaching

\* A search stays within every closed set it starts in.
LEMMA ComponentIsLeast ==
  ASSUME NEW W, IsFiniteSet(W), NEW S, NEW c \in S, ClosedWithin(S, W)
  PROVE  Component(c, W) \subseteq S
<1>0. PICK r : Reaching(r, c, W)
  BY ReachedExists
<1>1. /\ Component(c, W) = r[Cardinality(W)] /\ Cardinality(W) \in Nat
      /\ r[0] = {c}
      /\ \A n \in Nat : n + 1 <= Cardinality(W) => r[n + 1] = Grown(r[n], W)
  BY <1>0 DEF Reaching
<1> DEFINE G == {n \in Nat : n <= Cardinality(W) => r[n] \subseteq S}
<1>2. 0 \in G
  BY <1>1
<1>3. ASSUME NEW n \in Nat, n \in G PROVE n + 1 \in G
  <2> SUFFICES ASSUME n + 1 <= Cardinality(W) PROVE r[n + 1] \subseteq S
    OBVIOUS
  <2>1. r[n] \subseteq S /\ r[n + 1] = Grown(r[n], W)
    BY <1>1, <1>3
  <2> QED
    BY <2>1 DEF Grown, ClosedWithin
<1>4. \A n \in Nat : n \in G => n + 1 \in G
  BY <1>3
<1> HIDE DEF G
<1>5. Nat \subseteq G
  BY <1>2, <1>4, NumbersFromZero
<1> QED
  BY <1>1, <1>5 DEF G

\* It reaches cells of W and where it started.
LEMMA ComponentIsWithin ==
  ASSUME NEW c, NEW W, IsFiniteSet(W)
  PROVE  Component(c, W) \subseteq W \cup {c}
<1>1. ClosedWithin(W \cup {c}, W)
  BY DEF ClosedWithin
<1> QED
  BY <1>1, ComponentIsLeast

\* It goes on for long enough: what it reaches is closed, and holds its start.
LEMMA ComponentIsClosed ==
  ASSUME NEW c, NEW W, IsFiniteSet(W)
  PROVE  c \in Component(c, W) /\ ClosedWithin(Component(c, W), W)
<1> DEFINE N == Cardinality(W)
<1>0. PICK r : Reaching(r, c, W)
  BY ReachedExists
<1>1. /\ Component(c, W) = r[N] /\ N \in Nat /\ r[0] = {c}
      /\ \A n \in Nat : n + 1 <= N => r[n + 1] = Grown(r[n], W)
  BY <1>0 DEF Reaching
<1> HIDE DEF N
<1>2. /\ IsFiniteSet(W \cup {c}) /\ Cardinality(W \cup {c}) <= N + 1
      /\ IsFiniteSet({c}) /\ Cardinality({c}) = 1
  <2>1. IsFiniteSet(W \cup {c})
        /\ Cardinality(W \cup {c}) = IF c \in W THEN Cardinality(W) ELSE Cardinality(W) + 1
    BY FS_AddElement
  <2>2. IsFiniteSet({c}) /\ Cardinality({c}) = 1
    BY FS_Singleton
  <2>3. Cardinality(W \cup {c}) <= N + 1
    BY <1>1, <2>1 DEF N
  <2> QED
    BY <2>1, <2>2, <2>3
<1> DEFINE Good(n) == /\ r[n] \subseteq W \cup {c} /\ c \in r[n]
                      /\ ClosedWithin(r[n], W) \/ Cardinality(r[n]) >= n + 1
           G == {n \in Nat : n <= N => Good(n)}
<1>3. 0 \in G
  BY <1>1, <1>2
<1>4. ASSUME NEW n \in Nat, n \in G PROVE n + 1 \in G
  <2> SUFFICES ASSUME n + 1 <= N PROVE Good(n + 1)
    OBVIOUS
  <2>1. Good(n) /\ r[n + 1] = Grown(r[n], W)
    BY <1>1, <1>4
  <2>2. r[n + 1] \subseteq W \cup {c} /\ c \in r[n + 1] /\ r[n] \subseteq r[n + 1]
    BY <2>1 DEF Grown
  <2>3. CASE r[n + 1] = r[n]
    <3>1. ClosedWithin(r[n], W)
      BY <2>1, <2>3 DEF Grown, ClosedWithin
    <3> QED
      BY <2>2, <2>3, <3>1
  <2>4. CASE r[n + 1] # r[n]
    <3>1. ~ClosedWithin(r[n], W)
      BY <2>1, <2>4 DEF Grown, ClosedWithin
    <3>2. IsFiniteSet(r[n + 1]) /\ IsFiniteSet(r[n])
      BY <1>2, <2>1, <2>2, FS_Subset
    <3>3. /\ Cardinality(r[n]) \in Nat /\ Cardinality(r[n + 1]) \in Nat
          /\ Cardinality(r[n]) <= Cardinality(r[n + 1])
          /\ Cardinality(r[n]) # Cardinality(r[n + 1])
      BY <2>2, <2>4, <3>2, FS_Subset, FS_CardinalityType
    <3>4. Cardinality(r[n + 1]) >= (n + 1) + 1
      BY <2>1, <3>1, <3>3
    <3> QED
      BY <2>2, <3>4
  <2> QED
    BY <2>3, <2>4
<1>5. \A n \in Nat : n \in G => n + 1 \in G
  BY <1>4
<1> HIDE DEF G
<1>6. Nat \subseteq G
  BY <1>3, <1>5, NumbersFromZero
<1>7. Good(N)
  BY <1>1, <1>6 DEF G
<1>8. CASE Cardinality(r[N]) >= N + 1
  <2>1. r[N] \subseteq W \cup {c} /\ Cardinality(r[N]) \in Nat /\ Cardinality(W \cup {c}) \in Nat
        /\ Cardinality(r[N]) <= Cardinality(W \cup {c})
    BY <1>2, <1>7, FS_Subset, FS_CardinalityType
  <2>2. Cardinality(r[N]) = Cardinality(W \cup {c})
    BY <1>1, <1>2, <1>8, <2>1
  <2>3. r[N] = W \cup {c}
    BY <1>2, <2>1, <2>2, FS_Subset
  <2> QED
    BY <1>1, <2>3 DEF ClosedWithin
<1> QED
  BY <1>1, <1>7, <1>8

\* The grid is finite, and neighbours are so mutually.
LEMMA GridFacts ==
  /\ IsFiniteSet(Cell)
  /\ \A c \in Cell : c[1] \in 1 .. Width /\ c[2] \in 1 .. Height
  /\ \A c, d \in Cell : Close(c, d, 1) => Close(d, c, 1)
<1>1. Width \in Nat \ {0} /\ Height \in Nat \ {0}
  BY SizeAssumption
<1>2. IsFiniteSet(1 .. Width) /\ IsFiniteSet(1 .. Height)
  BY <1>1, FS_Interval
<1>3. IsFiniteSet(Cell)
  BY <1>2, FS_Product DEF Cell
<1>4. \A c \in Cell : c[1] \in 1 .. Width /\ c[2] \in 1 .. Height
  BY DEF Cell
<1>5. ASSUME NEW c \in Cell, NEW d \in Cell, Close(c, d, 1) PROVE Close(d, c, 1)
  <2>1. c[1] \in Int /\ c[2] \in Int /\ d[1] \in Int /\ d[2] \in Int
    BY <1>1, <1>4
  <2> QED
    BY <1>5, <2>1 DEF Close
<1> QED
  BY <1>3, <1>4, <1>5

\* Whatever is reached reaches as far.
LEMMA SameComponent ==
  ASSUME NEW W \in SUBSET Cell, NEW c \in W, NEW e \in Component(c, W)
  PROVE  e \in W /\ Component(e, W) = Component(c, W)
<1>1. IsFiniteSet(W)
  BY GridFacts, FS_Subset
<1>2. e \in W
  BY <1>1, ComponentIsWithin
<1>3. /\ e \in Component(e, W) /\ ClosedWithin(Component(e, W), W)
      /\ c \in Component(c, W) /\ ClosedWithin(Component(c, W), W)
  BY <1>1, ComponentIsClosed
<1>4. c \in Component(e, W)
  <2> SUFFICES ASSUME c \notin Component(e, W) PROVE FALSE
    OBVIOUS
  <2> DEFINE S == W \ Component(e, W)
  <2>1. ClosedWithin(S, W)
    <3> SUFFICES ASSUME NEW d \in W, NEW x \in S, Close(d, x, 1), d \in Component(e, W)
                 PROVE  FALSE
      BY DEF ClosedWithin
    <3>1. Close(x, d, 1) /\ x \in W
      BY GridFacts
    <3> QED
      BY <1>3, <3>1 DEF ClosedWithin
  <2>2. Component(c, W) \subseteq S
    <3>1. c \in S
      OBVIOUS
    <3> HIDE DEF S
    <3> QED
      BY <1>1, <2>1, <3>1, ComponentIsLeast
  <2> QED
    BY <1>3, <2>2
<1>5. Component(e, W) \subseteq Component(c, W)
  BY <1>1, <1>3, ComponentIsLeast
<1>6. Component(c, W) \subseteq Component(e, W)
  BY <1>1, <1>3, <1>4, ComponentIsLeast
<1> QED
  BY <1>2, <1>5, <1>6

\* A search within fewer cells reaches no more.
LEMMA SmallerSearch ==
  ASSUME NEW W \in SUBSET Cell, NEW V \in SUBSET W, NEW c \in V
  PROVE  Component(c, V) \subseteq Component(c, W)
<1>1. IsFiniteSet(W) /\ IsFiniteSet(V)
  BY GridFacts, FS_Subset
<1>2. c \in Component(c, W) /\ ClosedWithin(Component(c, W), W)
  BY <1>1, ComponentIsClosed
<1>3. ClosedWithin(Component(c, W), V)
  BY <1>2 DEF ClosedWithin
<1> QED
  BY <1>1, <1>2, <1>3, ComponentIsLeast

-----------------------------------------------------------------------------
(* The centre of a cluster. *)

\* f adds up the coordinates i of the cells of a set, one chosen cell after the
\* other.
Adds(f, K, i) ==
  /\ SumOf(K, i) = f[K] /\ f[{}] = 0
  /\ \A s \in SUBSET K : s # {} =>
       f[s] = (CHOOSE x \in s : TRUE)[i] + f[s \ {CHOOSE x \in s : TRUE}]

\* The recursive function of SumOf exists.
LEMMA SumExists ==
  ASSUME NEW K \in SUBSET Cell, NEW i \in {1, 2}
  PROVE  \E f : Adds(f, K, i)
<1> DEFINE Val(f, s) == IF s = {} THEN 0
                        ELSE (CHOOSE x \in s : TRUE)[i] + f[s \ {CHOOSE x \in s : TRUE}]
           H == [p \in [SUBSET K -> Int] \X SUBSET K |-> Val(p[1], p[2])]
<1>1. IsFiniteSet(K) /\ \A x \in K : x[i] \in Int
  <2>1. IsFiniteSet(K)
    BY GridFacts, FS_Subset
  <2>2. \A x \in K : x[1] \in Int /\ x[2] \in Int
    BY GridFacts, SizeAssumption
  <2> QED
    BY <2>1, <2>2
<1>2. ASSUME NEW s \in SUBSET K, s # {}
      PROVE  /\ (CHOOSE x \in s : TRUE) \in s
             /\ s \ {CHOOSE x \in s : TRUE} \in SUBSET s
             /\ s \ {CHOOSE x \in s : TRUE} # s
  BY <1>2
<1>3. ASSUME NEW f \in [SUBSET K -> Int], NEW s \in SUBSET K
      PROVE  Val(f, s) \in Int
  <2>1. CASE s = {}
    BY <2>1
  <2>2. CASE s # {}
    <3>1. (CHOOSE x \in s : TRUE)[i] \in Int /\ s \ {CHOOSE x \in s : TRUE} \in SUBSET K
      BY <1>1, <1>2, <2>2
    <3>2. f[s \ {CHOOSE x \in s : TRUE}] \in Int
      BY <3>1
    <3> QED
      BY <2>2, <3>1, <3>2
  <2> QED
    BY <2>1, <2>2
<1>4. ASSUME NEW f \in [SUBSET K -> Int], NEW g \in [SUBSET K -> Int], NEW s \in SUBSET K,
             \A t \in SUBSET s : t # s => f[t] = g[t]
      PROVE  Val(f, s) = Val(g, s)
  <2>1. CASE s = {}
    BY <2>1
  <2>2. CASE s # {}
    BY <1>2, <1>4, <2>2
  <2> QED
    BY <2>1, <2>2
<1> HIDE DEF Val
<1>5. SetRecursive(K, Int, H)
  <2>1. H \in [[SUBSET K -> Int] \X SUBSET K -> Int]
    BY <1>3
  <2>2. \A f \in [SUBSET K -> Int], s \in SUBSET K : H[<<f, s>>] = Val(f, s)
    OBVIOUS
  <2> HIDE DEF H
  <2>3. ASSUME NEW f \in [SUBSET K -> Int], NEW g \in [SUBSET K -> Int], NEW s \in SUBSET K,
               \A t \in SUBSET s : t # s => f[t] = g[t]
        PROVE  H[<<f, s>>] = H[<<g, s>>]
    <3>1. Val(f, s) = Val(g, s)
      BY <1>4, <2>3
    <3> QED
      BY <2>2, <3>1
  <2> QED
    BY <2>1, <2>3 DEF SetRecursive
<1>6. PICK f \in [SUBSET K -> Int] : f = [s \in SUBSET K |-> H[<<f, s>>]]
  <2> HIDE DEF H
  <2>1. HasFunction(SUBSET K, Int, H)
    BY <1>1, <1>5, SetFunctionExists
  <2> QED
    BY <2>1 DEF HasFunction
<1> DEFINE Fix(g) == g = [s \in SUBSET K |-> Val(g, s)]
           chosen == CHOOSE g : Fix(g)
<1>7. Fix(f)
  <2>1. [s \in SUBSET K |-> H[<<f, s>>]] = [s \in SUBSET K |-> Val(f, s)]
    OBVIOUS
  <2> QED
    BY <1>6, <2>1
<1>8. Fix(chosen)
  <2> HIDE DEF Fix
  <2> QED
    BY <1>7
<1>9. SumOf(K, i) = chosen[K]
  BY DEF SumOf, MapThenSumSet, MapThenFoldSet, Val
<1> HIDE DEF chosen
<1>10. \A s \in SUBSET K : chosen[s] = Val(chosen, s)
  BY <1>8
<1>11. Adds(chosen, K, i)
  BY <1>9, <1>10 DEF Adds, Val
<1> QED
  BY <1>11

\* A linear form has a bound on the cells of a cluster.
BoundedBy(K, p, q, b) == \A c \in K : p * c[1] + q * c[2] <= b

\* It has the multiple of that bound on their sums, strictly if it has on a cell.
LEMMA SumBound ==
  ASSUME NEW K \in SUBSET Cell, NEW p \in Int, NEW q \in Int, NEW b \in Int,
         BoundedBy(K, p, q, b)
  PROVE  /\ SumOf(K, 1) \in Int /\ SumOf(K, 2) \in Int
         /\ p * SumOf(K, 1) + q * SumOf(K, 2) <= Cardinality(K) * b
         /\ (\E c \in K : p * c[1] + q * c[2] < b)
              => p * SumOf(K, 1) + q * SumOf(K, 2) < Cardinality(K) * b
<1>1. PICK f : Adds(f, K, 1)
  BY SumExists
<1>2. PICK g : Adds(g, K, 2)
  BY SumExists
<1> DEFINE Good(s) == /\ f[s] \in Int /\ g[s] \in Int
                      /\ p * f[s] + q * g[s] <= Cardinality(s) * b
                      /\ (\E c \in s : p * c[1] + q * c[2] < b)
                           => p * f[s] + q * g[s] < Cardinality(s) * b
           F == {s \in SUBSET K : ~Good(s)}
<1>3. IsFiniteSet(K) /\ \A s \in SUBSET K : IsFiniteSet(s) /\ Cardinality(s) \in Nat
  BY GridFacts, FS_Subset, FS_CardinalityType
<1>4. ASSUME NEW s \in F, \A t \in F : t \subseteq s => t = s PROVE FALSE
  <2>1. s # {}
    <3>1. f[{}] = 0 /\ g[{}] = 0 /\ Cardinality({}) = 0
      BY <1>1, <1>2, FS_EmptySet DEF Adds
    <3>2. Good({})
      BY <3>1
    <3> QED
      BY <3>2
  <2> DEFINE x == CHOOSE x \in s : TRUE
             t == s \ {x}
  <2>2. x \in s /\ t \in SUBSET K /\ t \subseteq s /\ t # s
    BY <2>1
  <2>3. f[s] = x[1] + f[t] /\ g[s] = x[2] + g[t]
    BY <1>1, <1>2, <2>1 DEF Adds
  <2> HIDE DEF x, t
  <2>4. Good(t)
    BY <1>4, <2>2
  <2>5. Cardinality(s) = Cardinality(t) + 1 /\ Cardinality(t) \in Nat
    BY <1>3, <2>2, FS_RemoveElement DEF t
  <2>6. x[1] \in Int /\ x[2] \in Int /\ p * x[1] + q * x[2] <= b
    BY <2>2, GridFacts, SizeAssumption DEF BoundedBy
  <2>7. \A u, v, w \in Int : u * (v + w) = u * v + u * w
    OBVIOUS
  <2>8. p * f[s] = p * x[1] + p * f[t] /\ q * g[s] = q * x[2] + q * g[t]
    BY <2>3, <2>4, <2>6, <2>7
  <2>9. Cardinality(s) * b = Cardinality(t) * b + b
    BY <2>5, <2>7
  <2>10. /\ p * x[1] \in Int /\ p * f[t] \in Int /\ q * x[2] \in Int /\ q * g[t] \in Int
         /\ Cardinality(t) * b \in Int
    BY <2>4, <2>5, <2>6
  <2>11. p * f[s] + q * g[s] <= Cardinality(s) * b
    BY <2>4, <2>6, <2>8, <2>9, <2>10
  <2>12. ASSUME NEW c \in s, p * c[1] + q * c[2] < b
         PROVE  p * f[s] + q * g[s] < Cardinality(s) * b
    <3>1. c = x \/ c \in t
      BY DEF t
    <3>2. CASE c = x
      BY <2>4, <2>6, <2>8, <2>9, <2>10, <2>12, <3>2
    <3>3. CASE c \in t
      <4>1. p * f[t] + q * g[t] < Cardinality(t) * b
        BY <2>4, <2>12, <3>3
      <4> QED
        BY <2>6, <2>8, <2>9, <2>10, <4>1
    <3> QED
      BY <3>1, <3>2, <3>3
  <2>13. f[s] \in Int /\ g[s] \in Int
    BY <2>3, <2>4, <2>6
  <2>14. Good(s)
    BY <2>11, <2>12, <2>13
  <2> QED
    BY <2>14
<1>5. F = {}
  <2> HIDE DEF Good
  <2>1. F \in SUBSET SUBSET K
    OBVIOUS
  <2> HIDE DEF F
  <2> QED
    BY <1>3, <1>4, <2>1, MinimalMember
<1>6. Good(K)
  BY <1>5
<1> QED
  BY <1>1, <1>2, <1>6 DEF Adds

\* A mean, rounded, lies where what it is the mean of does.
LEMMA RoundedMean ==
  ASSUME NEW n \in Nat \ {0}, NEW m \in Nat, NEW s \in Int, n <= s, s <= n * m
  PROVE  (2 * s + n) \div (2 * n) \in 1 .. m
<1> DEFINE a == 2 * s + n
           b == 2 * n
           z == a \div b
<1>1. a \in Int /\ b \in Nat /\ b > 0
  OBVIOUS
<1> HIDE DEF a, b
<1>2. z \in Int /\ b * z <= a /\ a < b * z + b
  BY <1>1
<1> HIDE DEF z
<1>3. z >= 1
  <2> SUFFICES ASSUME z <= 0 PROVE FALSE
    BY <1>2
  <2>1. b * z <= 0
    BY <1>1, <1>2
  <2> QED
    BY <1>1, <1>2, <2>1 DEF a, b
<1>4. z <= m
  <2> SUFFICES ASSUME z >= m + 1 PROVE FALSE
    BY <1>2
  <2>1. b * z >= b * (m + 1)
    <3>1. z - (m + 1) \in Nat
      BY <1>2
    <3>2. b * (z - (m + 1)) \in Nat
      BY <1>1, <3>1
    <3>3. b * (z - (m + 1)) = b * z - b * (m + 1)
      BY <1>1, <1>2
    <3>4. b * z \in Int /\ b * (m + 1) \in Int
      BY <1>1, <1>2
    <3> QED
      BY <3>2, <3>3, <3>4
  <2>2. b * (m + 1) = 2 * (n * m) + 2 * n /\ n * m \in Int
    BY DEF b
  <2> QED
    BY <1>1, <1>2, <2>1, <2>2 DEF a, b
<1> QED
  BY <1>2, <1>3, <1>4 DEF z, a, b

\* The centre of a cluster is a cell of the grid.
LEMMA AverageIsCell ==
  ASSUME NEW K \in SUBSET Cell, K # {}
  PROVE  Average(K) \in Cell
<1>1. IsFiniteSet(K) /\ Cardinality(K) \in Nat \ {0}
  BY GridFacts, FS_Subset, FS_CardinalityType, FS_EmptySet
<1>2. \A c \in K : c[1] \in 1 .. Width /\ c[2] \in 1 .. Height
  BY GridFacts
<1>3. Width \in Nat /\ Height \in Nat
  BY SizeAssumption
<1> DEFINE n == Cardinality(K)
           s == SumOf(K, 1)
           t == SumOf(K, 2)
<1>4. s \in Int /\ t \in Int /\ 1 * s + 0 * t <= n * Width
  <2>1. BoundedBy(K, 1, 0, Width)
    BY <1>2, <1>3 DEF BoundedBy
  <2> QED
    BY <1>3, <2>1, SumBound
<1>5. 0 * s + 1 * t <= n * Height
  <2>1. BoundedBy(K, 0, 1, Height)
    BY <1>2, <1>3 DEF BoundedBy
  <2> QED
    BY <1>3, <2>1, SumBound
<1>6. (-1) * s + 0 * t <= n * (-1)
  <2>1. BoundedBy(K, -1, 0, -1)
    BY <1>2, <1>3 DEF BoundedBy
  <2> QED
    BY <2>1, SumBound
<1>7. 0 * s + (-1) * t <= n * (-1)
  <2>1. BoundedBy(K, 0, -1, -1)
    BY <1>2, <1>3 DEF BoundedBy
  <2> QED
    BY <2>1, SumBound
<1> HIDE DEF s, t
<1>8. /\ n <= s /\ s <= n * Width /\ n <= t /\ t <= n * Height
  BY <1>1, <1>3, <1>4, <1>5, <1>6, <1>7
<1> HIDE DEF n
<1>9. (2 * s + n) \div (2 * n) \in 1 .. Width /\ (2 * t + n) \div (2 * n) \in 1 .. Height
  BY <1>1, <1>3, <1>4, <1>8, RoundedMean DEF n
<1> QED
  BY <1>9 DEF Average, Cell, n, s, t

-----------------------------------------------------------------------------
(* Splitting. *)

\* Along an axis the offsets of the cells cancel out: unless all are on the
\* axis' normal, there are cells on either side of the centre.
LEMMA OffsetsCancel ==
  ASSUME NEW K \in SUBSET Cell, K # {}, NEW p \in Int, NEW q \in Int
  PROVE  /\ \E c \in K : Dot(Offset(c, K), <<p, q>>) >= 0
         /\ (\E c \in K : Dot(Offset(c, K), <<p, q>>) > 0)
              => \E c \in K : Dot(Offset(c, K), <<p, q>>) < 0
<1> DEFINE n == Cardinality(K)
           s == SumOf(K, 1)
           t == SumOf(K, 2)
           z == p * s + q * t
<1>1. n \in Nat \ {0}
  BY GridFacts, FS_Subset, FS_CardinalityType, FS_EmptySet
<1>2. s \in Int /\ t \in Int
  <2>1. BoundedBy(K, 0, 0, 0)
    BY GridFacts, SizeAssumption DEF BoundedBy
  <2> QED
    BY <2>1, SumBound
<1> HIDE DEF n, s, t
<1>3. z \in Int
  BY <1>2
<1>4. \A c \in K : c[1] \in Int /\ c[2] \in Int
  BY GridFacts, SizeAssumption
<1>5. /\ \A u, v, w \in Int : (u - v) * w = w * u - w * v
      /\ \A u, v, w \in Int : (u * v) * w = v * (u * w)
      /\ \A u, v, w \in Int : (u * v) * w = u * (v * w)
      /\ \A u, v, w \in Int : u * (v + w) = u * v + u * w
  OBVIOUS
<1>6. ASSUME NEW c \in K
      PROVE  /\ Dot(Offset(c, K), <<p, q>>) = (n * p) * c[1] + (n * q) * c[2] - z
             /\ (n * p) * c[1] \in Int /\ (n * q) * c[2] \in Int
  <2>1. Dot(Offset(c, K), <<p, q>>) = (n * c[1] - s) * p + (n * c[2] - t) * q
    BY DEF Dot, Offset, n, s, t
  <2>2. (n * c[1] - s) * p = p * (n * c[1]) - p * s
        /\ (n * c[2] - t) * q = q * (n * c[2]) - q * t
    BY <1>1, <1>2, <1>4, <1>5
  <2>3. (n * p) * c[1] = p * (n * c[1]) /\ (n * q) * c[2] = q * (n * c[2])
    BY <1>1, <1>4, <1>5
  <2>4. /\ p * (n * c[1]) \in Int /\ q * (n * c[2]) \in Int /\ p * s \in Int /\ q * t \in Int
    BY <1>1, <1>2, <1>4
  <2> QED
    BY <2>1, <2>2, <2>3, <2>4
<1>7. (n * p) * s + (n * q) * t = n * z
  <2>1. (n * p) * s = n * (p * s) /\ (n * q) * t = n * (q * t)
    BY <1>1, <1>2, <1>5
  <2> QED
    BY <1>1, <1>2, <1>5, <2>1
<1>8. \E c \in K : Dot(Offset(c, K), <<p, q>>) >= 0
  <2> SUFFICES ASSUME \A c \in K : ~(Dot(Offset(c, K), <<p, q>>) >= 0) PROVE FALSE
    OBVIOUS
  <2>1. \A c \in K : (n * p) * c[1] + (n * q) * c[2] < z
    BY <1>3, <1>6
  <2>2. BoundedBy(K, n * p, n * q, z)
    BY <1>3, <1>6, <2>1 DEF BoundedBy
  <2>3. n * p \in Int /\ n * q \in Int
    BY <1>1
  <2>4. (n * p) * s + (n * q) * t < n * z
    BY <1>3, <2>1, <2>2, <2>3, SumBound DEF n, s, t
  <2> QED
    BY <1>1, <1>3, <1>7, <2>4
<1>9. ASSUME NEW d \in K, Dot(Offset(d, K), <<p, q>>) > 0,
             \A c \in K : ~(Dot(Offset(c, K), <<p, q>>) < 0)
      PROVE  FALSE
  <2> DEFINE P == -(n * p)
             Q == -(n * q)
  <2>1. P \in Int /\ Q \in Int /\ n * p \in Int /\ n * q \in Int /\ -z \in Int
    BY <1>1, <1>3
  <2>2. \A u, v \in Int : (-u) * v = -(u * v) /\ u * (-v) = -(u * v)
    OBVIOUS
  <2>3. \A c \in K : P * c[1] = -((n * p) * c[1]) /\ Q * c[2] = -((n * q) * c[2])
    BY <1>4, <2>1, <2>2
  <2>4. P * s = -((n * p) * s) /\ Q * t = -((n * q) * t) /\ n * (-z) = -(n * z)
    BY <1>1, <1>2, <1>3, <2>1, <2>2
  <2> HIDE DEF P, Q
  <2>5. BoundedBy(K, P, Q, -z)
    BY <1>3, <1>6, <1>9, <2>3 DEF BoundedBy
  <2>6. P * d[1] + Q * d[2] < -z
    BY <1>3, <1>6, <1>9, <2>3
  <2>7. P * s + Q * t < n * (-z)
    BY <2>1, <2>5, <2>6, SumBound DEF n, s, t
  <2>8. (n * p) * s \in Int /\ (n * q) * t \in Int /\ n * z \in Int
    BY <1>1, <1>2, <1>3
  <2> QED
    BY <1>7, <2>4, <2>7, <2>8
<1> QED
  BY <1>8, <1>9

\* The parts of a cluster are smaller than it, so that splitting comes to an end.
LEMMA HalvesAreSmaller ==
  ASSUME NEW K \in SUBSET Cell, K # {}, NEW A \in Halves(K)
  PROVE  /\ A \in SUBSET K /\ A # K /\ A # {}
         /\ K \ A \in SUBSET K /\ K \ A # K /\ K \ A # {}
<1>1. PICK axis \in {<<1, 0>>, <<0, 1>>, <<1, 1>>, <<1, -1>>} :
        A = {c \in K : Dot(Offset(c, K), axis) >= 0}
  BY DEF Halves
<1>2. \E p, q \in Int : axis = <<p, q>>
  OBVIOUS
<1>3. A # {}
  BY <1>1, <1>2, OffsetsCancel
<1>4. A # K
  BY DEF Halves
<1> QED
  BY <1>1, <1>3, <1>4

\* And a cluster that is too large can be split.
LEMMA TooLargeHasHalves ==
  ASSUME NEW K \in SUBSET Cell, TooLarge(K)
  PROVE  K # {} /\ Halves(K) # {}
<1>1. PICK c \in K : Dot(Offset(c, K), Offset(c, K))
                       > ClusterSizeSquared * Cardinality(K) * Cardinality(K)
  BY DEF TooLarge
<1> DEFINE u == Offset(c, K)[1]
           v == Offset(c, K)[2]
<1>2. Cardinality(K) \in Nat \ {0}
  BY <1>1, GridFacts, FS_Subset, FS_CardinalityType, FS_EmptySet
<1>3. SumOf(K, 1) \in Int /\ SumOf(K, 2) \in Int
  <2>1. BoundedBy(K, 0, 0, 0)
    BY GridFacts, SizeAssumption DEF BoundedBy
  <2> QED
    BY <2>1, SumBound
<1>4. \A d \in K : Offset(d, K)[1] \in Int /\ Offset(d, K)[2] \in Int
  BY <1>2, <1>3, GridFacts, SizeAssumption DEF Offset
<1>5. u # 0 \/ v # 0
  <2> SUFFICES ASSUME u = 0, v = 0 PROVE FALSE
    OBVIOUS
  <2>1. Dot(Offset(c, K), Offset(c, K)) = 0
    BY DEF Dot
  <2>2. ClusterSizeSquared \in Nat
    BY FrontierAssumption
  <2>3. ClusterSizeSquared * Cardinality(K) \in Nat
    BY <1>2, <2>2
  <2>4. ClusterSizeSquared * Cardinality(K) * Cardinality(K) \in Nat
    BY <1>2, <2>3
  <2> QED
    BY <1>1, <2>1, <2>4
<1>6. ASSUME NEW p \in Int, NEW q \in Int,
             <<p, q>> \in {<<1, 0>>, <<0, 1>>, <<1, 1>>, <<1, -1>>},
             \A d \in K : Dot(Offset(d, K), <<p, q>>) \in Int,
             Dot(Offset(c, K), <<p, q>>) # 0
      PROVE  Halves(K) # {}
  <2> DEFINE A == {d \in K : Dot(Offset(d, K), <<p, q>>) >= 0}
  <2>1. A # K
    BY <1>6, OffsetsCancel
  <2>2. A \in Halves(K)
    BY <1>6, <2>1 DEF Halves
  <2> QED
    BY <2>2
<1>7. CASE u # 0
  <2>1. \A d \in K : Dot(Offset(d, K), <<1, 0>>) = Offset(d, K)[1]
    BY <1>4 DEF Dot
  <2> QED
    BY <1>1, <1>4, <1>6, <1>7, <2>1
<1>8. CASE v # 0
  <2>1. \A d \in K : Dot(Offset(d, K), <<0, 1>>) = Offset(d, K)[2]
    BY <1>4 DEF Dot
  <2> QED
    BY <1>1, <1>4, <1>6, <1>8, <2>1
<1> QED
  BY <1>1, <1>5, <1>7, <1>8

\* The ways to put one of V and one of W together.
Together(V, W) == {P \cup Q : P \in V, Q \in W}

\* A way is in there exactly if it is such a union.
LEMMA TogetherMember ==
  ASSUME NEW V, NEW W, NEW w
  PROVE  w \in Together(V, W) <=> \E P \in V, Q \in W : w = P \cup Q
  BY DEF Together

Ways == SUBSET SUBSET SUBSET Cell

\* Ways to cut clusters put together are such ways.
LEMMA TogetherType ==
  ASSUME NEW V \in Ways, NEW W \in Ways
  PROVE  Together(V, W) \in Ways
<1> SUFFICES ASSUME NEW P \in V, NEW Q \in W PROVE P \cup Q \in SUBSET SUBSET Cell
  BY DEF Together, Ways
<1>1. P \in SUBSET SUBSET Cell /\ Q \in SUBSET SUBSET Cell
  BY DEF Ways
<1> QED
  BY <1>1

\* The recursive function Splits exists: a cluster is cut in two, and its parts
\* in all their ways.
LEMMA SplitsUnfolds ==
  ASSUME NEW K \in SUBSET Cell
  PROVE  /\ TooLarge(K) =>
              Splits[K] = UNION {Together(Splits[A], Splits[K \ A]) : A \in Halves(K)}
         /\ ~TooLarge(K) => Splits[K] = {{K}}
<1> DEFINE Val(f, L) == IF TooLarge(L)
                        THEN UNION {Together(f[A], f[L \ A]) : A \in Halves(L)}
                        ELSE {{L}}
           H == [p \in [SUBSET Cell -> Ways] \X SUBSET Cell |-> Val(p[1], p[2])]
<1>1. IsFiniteSet(Cell) /\ Ways # {}
  BY GridFacts DEF Ways
<1>2. ASSUME NEW L \in SUBSET Cell, TooLarge(L), NEW A \in Halves(L)
      PROVE  /\ A \in SUBSET L /\ A # L /\ L \ A \in SUBSET L /\ L \ A # L
             /\ A \in SUBSET Cell /\ L \ A \in SUBSET Cell
  BY <1>2, TooLargeHasHalves, HalvesAreSmaller
<1>3. ASSUME NEW f \in [SUBSET Cell -> Ways], NEW L \in SUBSET Cell
      PROVE  Val(f, L) \in Ways
  <2>1. CASE TooLarge(L)
    <3>1. \A A \in Halves(L) : Together(f[A], f[L \ A]) \in Ways
      <4> SUFFICES ASSUME NEW A \in Halves(L) PROVE Together(f[A], f[L \ A]) \in Ways
        OBVIOUS
      <4>1. f[A] \in Ways /\ f[L \ A] \in Ways
        BY <1>2, <2>1
      <4> QED
        BY <4>1, TogetherType
    <3> DEFINE all == {Together(f[A], f[L \ A]) : A \in Halves(L)}
    <3>2. \A V \in all : V \in Ways
      BY <3>1
    <3> HIDE DEF all
    <3>3. UNION all \in Ways
      BY <3>2 DEF Ways
    <3> QED
      BY <2>1, <3>3 DEF all
  <2>2. CASE ~TooLarge(L)
    BY <2>2 DEF Ways
  <2> QED
    BY <2>1, <2>2
<1>4. ASSUME NEW f \in [SUBSET Cell -> Ways], NEW g \in [SUBSET Cell -> Ways],
             NEW L \in SUBSET Cell, \A M \in SUBSET L : M # L => f[M] = g[M]
      PROVE  Val(f, L) = Val(g, L)
  <2>1. CASE TooLarge(L)
    <3>1. \A A \in Halves(L) : Together(f[A], f[L \ A]) = Together(g[A], g[L \ A])
      <4> SUFFICES ASSUME NEW A \in Halves(L)
                   PROVE  Together(f[A], f[L \ A]) = Together(g[A], g[L \ A])
        OBVIOUS
      <4>1. f[A] = g[A] /\ f[L \ A] = g[L \ A]
        BY <1>2, <1>4, <2>1
      <4> QED
        BY <4>1
    <3>2. {Together(f[A], f[L \ A]) : A \in Halves(L)} = {Together(g[A], g[L \ A]) : A \in Halves(L)}
      BY <3>1
    <3> QED
      BY <2>1, <3>2
  <2>2. CASE ~TooLarge(L)
    BY <2>2
  <2> QED
    BY <2>1, <2>2
<1> DEFINE Fix(g) == g = [L \in SUBSET Cell |-> Val(g, L)]
           chosen == CHOOSE g : Fix(g)
<1>5. Splits = chosen
  BY DEF Splits, Together
<1> HIDE DEF Val
<1>6. SetRecursive(Cell, Ways, H)
  <2>1. H \in [[SUBSET Cell -> Ways] \X SUBSET Cell -> Ways]
    BY <1>3
  <2>2. \A f \in [SUBSET Cell -> Ways], L \in SUBSET Cell : H[<<f, L>>] = Val(f, L)
    OBVIOUS
  <2> HIDE DEF H
  <2>3. ASSUME NEW f \in [SUBSET Cell -> Ways], NEW g \in [SUBSET Cell -> Ways],
               NEW L \in SUBSET Cell, \A M \in SUBSET L : M # L => f[M] = g[M]
        PROVE  H[<<f, L>>] = H[<<g, L>>]
    <3>1. Val(f, L) = Val(g, L)
      BY <1>4, <2>3
    <3> QED
      BY <2>2, <3>1
  <2> QED
    BY <2>1, <2>3 DEF SetRecursive
<1>7. PICK f \in [SUBSET Cell -> Ways] : f = [L \in SUBSET Cell |-> H[<<f, L>>]]
  <2> HIDE DEF H
  <2>1. HasFunction(SUBSET Cell, Ways, H)
    BY <1>1, <1>6, SetFunctionExists
  <2> QED
    BY <2>1 DEF HasFunction
<1>8. Fix(f)
  <2>1. [L \in SUBSET Cell |-> H[<<f, L>>]] = [L \in SUBSET Cell |-> Val(f, L)]
    OBVIOUS
  <2> QED
    BY <1>7, <2>1
<1>9. Fix(chosen)
  <2> HIDE DEF Fix
  <2> QED
    BY <1>8
<1> HIDE DEF chosen
<1>10. Splits[K] = Val(Splits, K)
  BY <1>5, <1>9
<1> QED
  BY <1>10 DEF Val

\* The clusters of w share no cell, have all the cells of K, and none is empty.
IsPartition(w, K) ==
  /\ UNION w = K /\ {} \notin w
  /\ \A L, M \in w : L # M => L \cap M = {}

\* Partitions of disjoint sets make one of their union.
LEMMA PartitionsTogether ==
  ASSUME NEW A, NEW B, A \cap B = {}, NEW P, IsPartition(P, A), NEW Q, IsPartition(Q, B)
  PROVE  IsPartition(P \cup Q, A \cup B)
<1>1. UNION (P \cup Q) = A \cup B /\ {} \notin P \cup Q
  BY DEF IsPartition
<1>2. ASSUME NEW L \in P \cup Q, NEW M \in P \cup Q, L # M PROVE L \cap M = {}
  <2>1. \A N \in P : N \subseteq A
    BY DEF IsPartition
  <2>2. \A N \in Q : N \subseteq B
    BY DEF IsPartition
  <2> QED
    BY <1>2, <2>1, <2>2 DEF IsPartition
<1> QED
  BY <1>1, <1>2 DEF IsPartition

\* However splitHorizontally cuts a cluster, no cell is lost or doubled, no part
\* is empty, and no part is still too large; and it always comes to an end.
THEOREM SplittingIsSound ==
  ASSUME NEW K \in SUBSET Cell, K # {}
  PROVE  /\ Splits[K] # {}
         /\ \A w \in Splits[K] : IsPartition(w, K) /\ \A L \in w : ~TooLarge(L)
<1> DEFINE Good(L) == /\ Splits[L] # {}
                      /\ \A w \in Splits[L] : IsPartition(w, L) /\ \A M \in w : ~TooLarge(M)
           F == {L \in SUBSET Cell : L # {} /\ ~Good(L)}
<1>1. ASSUME NEW L \in F, \A M \in F : M \subseteq L => M = L PROVE FALSE
  <2>1. L \in SUBSET Cell /\ L # {}
    OBVIOUS
  <2>2. CASE ~TooLarge(L)
    <3>1. Splits[L] = {{L}}
      BY <2>1, <2>2, SplitsUnfolds
    <3>2. IsPartition({L}, L)
      BY <2>1 DEF IsPartition
    <3>3. Good(L)
      BY <2>2, <3>1, <3>2
    <3> QED
      BY <3>3
  <2>3. CASE TooLarge(L)
    <3>1. Splits[L] = UNION {Together(Splits[A], Splits[L \ A]) : A \in Halves(L)}
      BY <2>1, <2>3, SplitsUnfolds
    <3>2. ASSUME NEW A \in Halves(L)
          PROVE  Good(A) /\ Good(L \ A) /\ A \cup (L \ A) = L
      <4>1. /\ A \in SUBSET L /\ A # L /\ A # {}
            /\ L \ A \in SUBSET L /\ L \ A # L /\ L \ A # {}
        BY <2>1, HalvesAreSmaller
      <4> HIDE DEF Good
      <4> QED
        BY <1>1, <2>1, <4>1
    <3>3. Splits[L] # {}
      <4>1. PICK A \in Halves(L) : TRUE
        BY <2>1, <2>3, TooLargeHasHalves
      <4>2. PICK P \in Splits[A], Q \in Splits[L \ A] : TRUE
        BY <3>2
      <4>3. P \cup Q \in Together(Splits[A], Splits[L \ A])
        BY TogetherMember
      <4>4. P \cup Q \in Splits[L]
        BY <3>1, <4>1, <4>3
      <4> QED
        BY <4>4
    <3>4. ASSUME NEW w \in Splits[L]
          PROVE  IsPartition(w, L) /\ \A M \in w : ~TooLarge(M)
      <4>1. PICK A \in Halves(L) : w \in Together(Splits[A], Splits[L \ A])
        BY <3>1
      <4>2. PICK P \in Splits[A], Q \in Splits[L \ A] : w = P \cup Q
        BY <4>1, TogetherMember
      <4>3. IsPartition(P, A) /\ IsPartition(Q, L \ A) /\ A \cup (L \ A) = L
            /\ \A M \in P \cup Q : ~TooLarge(M)
        BY <3>2
      <4>4. IsPartition(P \cup Q, A \cup (L \ A))
        BY <4>3, PartitionsTogether
      <4> QED
        BY <4>2, <4>3, <4>4
    <3>5. Good(L)
      BY <3>3, <3>4
    <3> QED
      BY <3>5
  <2> QED
    BY <2>2, <2>3
<1>2. F = {}
  <2> HIDE DEF Good
  <2>1. F \in SUBSET SUBSET Cell
    OBVIOUS
  <2> HIDE DEF F
  <2> QED
    BY <1>1, <2>1, GridFacts, MinimalMember
<1>3. Good(K)
  BY <1>2
<1> QED
  BY <1>3

\* f goes through the ways of several clusters, one chosen cluster after the
\* other.
Combines(f, Ks) ==
  /\ SplitsOfAll(Ks) = f[Ks] /\ f[{}] = {{}}
  /\ \A S \in SUBSET Ks : S # {} =>
       f[S] = Together(Splits[CHOOSE K \in S : TRUE], f[S \ {CHOOSE K \in S : TRUE}])

\* The recursive function of SplitsOfAll exists.
LEMMA CombinesExists ==
  ASSUME NEW Ks \in SUBSET SUBSET Cell, {} \notin Ks
  PROVE  \E f : Combines(f, Ks)
<1> DEFINE D == SUBSET Ks
           Val(f, S) == IF S = {} THEN {{}}
                        ELSE Together(Splits[CHOOSE K \in S : TRUE],
                                      f[S \ {CHOOSE K \in S : TRUE}])
           H == [p \in [D -> Ways] \X D |-> Val(p[1], p[2])]
<1>1. IsFiniteSet(Ks) /\ Ways # {}
  BY GridFacts, FS_SUBSET, FS_Subset DEF Ways
<1>2. ASSUME NEW S \in D, S # {}
      PROVE  /\ (CHOOSE K \in S : TRUE) \in S
             /\ S \ {CHOOSE K \in S : TRUE} \in SUBSET S
             /\ S \ {CHOOSE K \in S : TRUE} # S
  BY <1>2
<1>3. ASSUME NEW K \in Ks PROVE Splits[K] \in Ways
  <2>1. K \in SUBSET Cell /\ K # {}
    OBVIOUS
  <2>2. \A w \in Splits[K] : UNION w = K
    BY <2>1, SplittingIsSound DEF IsPartition
  <2>3. \A w \in Splits[K] : w \in SUBSET SUBSET Cell
    BY <2>1, <2>2
  <2> QED
    BY <2>3 DEF Ways
<1>4. ASSUME NEW f \in [D -> Ways], NEW S \in D
      PROVE  Val(f, S) \in Ways
  <2>1. CASE S = {}
    <3>1. {{}} \in Ways
      BY DEF Ways
    <3> QED
      BY <2>1, <3>1
  <2>2. CASE S # {}
    <3>1. (CHOOSE K \in S : TRUE) \in Ks /\ S \ {CHOOSE K \in S : TRUE} \in D
      BY <1>2, <2>2
    <3>2. Splits[CHOOSE K \in S : TRUE] \in Ways /\ f[S \ {CHOOSE K \in S : TRUE}] \in Ways
      BY <1>3, <3>1
    <3> QED
      BY <2>2, <3>2, TogetherType
  <2> QED
    BY <2>1, <2>2
<1>5. ASSUME NEW f \in [D -> Ways], NEW g \in [D -> Ways], NEW S \in D,
             \A T \in SUBSET S : T # S => f[T] = g[T]
      PROVE  Val(f, S) = Val(g, S)
  <2>1. CASE S = {}
    BY <2>1
  <2>2. CASE S # {}
    BY <1>2, <1>5, <2>2
  <2> QED
    BY <2>1, <2>2
<1> DEFINE Fix(g) == g = [S \in D |-> Val(g, S)]
           chosen == CHOOSE g : Fix(g)
<1>6. SplitsOfAll(Ks) = chosen[Ks]
  BY DEF SplitsOfAll, FoldSet, MapThenFoldSet, Together
<1> HIDE DEF Val
<1>7. SetRecursive(Ks, Ways, H)
  <2>1. H \in [[SUBSET Ks -> Ways] \X SUBSET Ks -> Ways]
    BY <1>4
  <2>2. \A f \in [D -> Ways], S \in D : H[<<f, S>>] = Val(f, S)
    OBVIOUS
  <2> HIDE DEF H
  <2>3. ASSUME NEW f \in [D -> Ways], NEW g \in [D -> Ways], NEW S \in D,
               \A T \in SUBSET S : T # S => f[T] = g[T]
        PROVE  H[<<f, S>>] = H[<<g, S>>]
    <3>1. Val(f, S) = Val(g, S)
      BY <1>5, <2>3
    <3> QED
      BY <2>2, <3>1
  <2> QED
    BY <2>1, <2>3 DEF SetRecursive
<1>8. PICK f \in [D -> Ways] : f = [S \in D |-> H[<<f, S>>]]
  <2> HIDE DEF H
  <2>1. HasFunction(SUBSET Ks, Ways, H)
    BY <1>1, <1>7, SetFunctionExists
  <2> QED
    BY <2>1 DEF HasFunction
<1>9. Fix(f)
  <2>1. [S \in D |-> H[<<f, S>>]] = [S \in D |-> Val(f, S)]
    OBVIOUS
  <2> QED
    BY <1>8, <2>1
<1>10. Fix(chosen)
  <2> HIDE DEF Fix
  <2> QED
    BY <1>9
<1> HIDE DEF chosen
<1>11. \A S \in D : chosen[S] = Val(chosen, S)
  BY <1>10
<1>12. chosen[{}] = {{}}
  BY <1>11 DEF Val
<1>13. ASSUME NEW S \in SUBSET Ks, S # {}
       PROVE  chosen[S] = Together(Splits[CHOOSE K \in S : TRUE],
                                   chosen[S \ {CHOOSE K \in S : TRUE}])
  BY <1>11, <1>13 DEF Val
<1> HIDE DEF D
<1>14. Combines(chosen, Ks)
  BY <1>6, <1>12, <1>13 DEF Combines
<1> QED
  BY <1>14

\* Disjoint clusters can be split, and however each is, the parts together have
\* the cells of all of them, each in one part.
LEMMA SplitsOfAllAreSound ==
  ASSUME NEW Ks \in SUBSET SUBSET Cell, {} \notin Ks,
         \A K, L \in Ks : K # L => K \cap L = {}
  PROVE  /\ SplitsOfAll(Ks) # {}
         /\ \A w \in SplitsOfAll(Ks) : IsPartition(w, UNION Ks)
<1>1. PICK f : Combines(f, Ks)
  BY CombinesExists
<1> DEFINE Good(S) == f[S] # {} /\ \A w \in f[S] : IsPartition(w, UNION S)
           F == {S \in SUBSET Ks : ~Good(S)}
<1>2. ASSUME NEW S \in F, \A T \in F : T \subseteq S => T = S PROVE FALSE
  <2>1. S # {}
    <3>1. f[{}] = {{}}
      BY <1>1 DEF Combines
    <3>2. IsPartition({}, UNION {})
      BY DEF IsPartition
    <3>3. Good({})
      BY <3>1, <3>2
    <3> QED
      BY <3>3
  <2> DEFINE K == CHOOSE K \in S : TRUE
             T == S \ {K}
  <2>2. K \in S /\ T \in SUBSET Ks /\ T \subseteq S /\ T # S
    BY <2>1
  <2>3. f[S] = Together(Splits[K], f[T])
    BY <1>1, <2>1 DEF Combines
  <2> HIDE DEF K
  <2>4. K \in SUBSET Cell /\ K # {} /\ K \cap UNION T = {} /\ UNION S = K \cup UNION T
    BY <2>2
  <2> HIDE DEF T
  <2>5. Good(T)
    BY <1>2, <2>2
  <2>6. Splits[K] # {} /\ \A P \in Splits[K] : IsPartition(P, K)
    BY <2>4, SplittingIsSound
  <2>7. f[S] # {}
    <3>1. PICK P \in Splits[K], Q \in f[T] : TRUE
      BY <2>5, <2>6
    <3>2. P \cup Q \in f[S]
      BY <2>3, TogetherMember
    <3> QED
      BY <3>2
  <2>8. ASSUME NEW w \in f[S] PROVE IsPartition(w, UNION S)
    <3>1. PICK P \in Splits[K], Q \in f[T] : w = P \cup Q
      BY <2>3, TogetherMember
    <3>2. IsPartition(P, K) /\ IsPartition(Q, UNION T)
      BY <2>5, <2>6
    <3> QED
      BY <2>4, <3>1, <3>2, PartitionsTogether
  <2>9. Good(S)
    BY <2>7, <2>8
  <2> QED
    BY <2>9
<1>3. F = {}
  <2> HIDE DEF Good
  <2>1. F \in SUBSET SUBSET Ks /\ IsFiniteSet(Ks)
    BY GridFacts, FS_SUBSET, FS_Subset
  <2> HIDE DEF F
  <2> QED
    BY <1>2, <2>1, MinimalMember
<1>4. Good(Ks)
  BY <1>3
<1> QED
  BY <1>1, <1>4 DEF Combines
=============================================================================
