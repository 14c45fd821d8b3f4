----------------------------- MODULE FoldFacts ------------------------------
(***************************************************************************)
(* What two folds of the community modules compute.  SumFunctionOnSet is   *)
(* FoldFunctionOnSet(+, 0, ...): the used memory of the tuples cache is    *)
(* such a sum, and so are the count and the sum of a rollup.  FoldLeft is  *)
(* what the walkers of a SELECT make of one tuple after the other.         *)
(*                                                                         *)
(* Either is defined by a recursive function over the subsets of a finite  *)
(* set, from which one element after the other is taken.  That the         *)
(* function exists, and every fact about it, is shown by least             *)
(* counterexample: a set whose proper subsets have the fact while it has   *)
(* not.                                                                    *)
(***************************************************************************)
EXTENDS Integers, Functions, FiniteSetsExt, FiniteSetTheorems, TLAPS

-----------------------------------------------------------------------------
(* The element that the fold takes out of a set first, and a function g that *)
(* is the sum of f over every set of F, a family closed under taking it out. *)
Pick(s) == CHOOSE x \in s : TRUE
SumsUp(g, f, F) ==
  g = [s \in F |-> IF s = {} THEN 0 ELSE f[Pick(s)] + g[s \ {Pick(s)}]]

(* The library's definition, in these words.                                 *)
LEMMA SumDefinition ==
  ASSUME NEW f, NEW S
  PROVE  SumFunctionOnSet(f, S) = (CHOOSE g : SumsUp(g, f, SUBSET S))[S]
  BY Zenon DEF SumFunctionOnSet, FoldFunctionOnSet, MapThenFoldSet, SumsUp, Pick

(* The least number of a set of them.                                         *)
LEMMA LeastNumber ==
  ASSUME NEW T \in SUBSET Nat, T # {}
  PROVE  \E n \in T : \A m \in T : n <= m
  <1>1. PICK n \in T : \A m \in T : ~ (<<m, n>> \in OpToRel(<, Nat))
    BY NatLessThanWellFounded, WFMin, Zenon
  <1>2. \A m \in T : ~ (m < n)
    BY <1>1 DEF OpToRel
  <1> QED
    BY <1>2

(* The subsets of S with at most n elements.                                 *)
Below(S, n) == {s \in SUBSET S : Cardinality(s) <= n}

(* The function that sums f over the subsets of a finite set exists: when it *)
(* does for the sets below n, one more step defines it for those of size n.  *)
LEMMA SumExists ==
  ASSUME NEW f, NEW S, IsFiniteSet(S)
  PROVE  \E g : SumsUp(g, f, SUBSET S)
  <1> DEFINE Bad == {n \in Nat : ~ \E g : SumsUp(g, f, Below(S, n))}
  <1>1. \A s \in SUBSET S : IsFiniteSet(s) /\ Cardinality(s) \in Nat /\ Cardinality(s) <= Cardinality(S)
    BY FS_Subset, FS_CardinalityType
  <1>2. Bad = {}
    <2> SUFFICES ASSUME Bad # {} PROVE FALSE
      OBVIOUS
    <2>1. PICK n \in Bad : \A m \in Bad : n <= m
      BY LeastNumber
    <2>2. CASE n = 0
      <3> DEFINE g == [s \in Below(S, 0) |-> 0]
      <3>1. \A s \in Below(S, 0) : s = {}
        <4>1. \A s \in Below(S, 0) : IsFiniteSet(s) /\ Cardinality(s) = 0
          BY <1>1 DEF Below
        <4> QED
          BY <4>1, FS_EmptySet
      <3>2. SumsUp(g, f, Below(S, 0))
        BY <3>1 DEF SumsUp
      <3> QED
        BY <2>2, <3>2
    <2>3. CASE n > 0
      <3>1. n - 1 \in Nat /\ n - 1 \notin Bad
        BY <2>1, <2>3
      <3>2. PICK h : SumsUp(h, f, Below(S, n - 1))
        BY <3>1
      <3> DEFINE step(k, s) == IF s = {} THEN 0 ELSE f[Pick(s)] + k[s \ {Pick(s)}]
                 g == [s \in Below(S, n) |-> step(h, s)]
      <3>3. ASSUME NEW s \in Below(S, n), s # {}
            PROVE  s \ {Pick(s)} \in Below(S, n - 1)
        <4>1. Pick(s) \in s
          BY <3>3 DEF Pick
        <4>2. Cardinality(s \ {Pick(s)}) = Cardinality(s) - 1
          BY <1>1, <4>1, FS_RemoveElement DEF Below
        <4> QED
          BY <1>1, <3>1, <4>2 DEF Below
      <3>4. \A s \in Below(S, n - 1) : s \in Below(S, n) /\ h[s] = step(h, s)
        <4>1. \A s \in Below(S, n - 1) : s \in Below(S, n)
          BY <1>1, <2>1 DEF Below
        <4>2. \A s \in Below(S, n - 1) : h[s] = step(h, s)
          BY <3>2 DEF SumsUp
        <4> QED
          BY <4>1, <4>2
      <3>5. \A s \in Below(S, n - 1) : g[s] = h[s]
        BY <3>4
      <3>6. \A s \in Below(S, n) : g[s] = step(g, s)
        BY <3>3, <3>5
      <3>7. SumsUp(g, f, Below(S, n))
        <4>1. g = [s \in Below(S, n) |-> step(g, s)]
          BY <3>6
        <4> QED
          BY <4>1 DEF SumsUp
      <3> QED
        BY <3>7
    <2> QED
      BY <2>2, <2>3
  <1>3. Cardinality(S) \in Nat /\ Below(S, Cardinality(S)) = SUBSET S
    BY <1>1 DEF Below
  <1>4. \A n \in Nat : \E g : SumsUp(g, f, Below(S, n))
    BY <1>2
  <1>5. \E g : SumsUp(g, f, Below(S, Cardinality(S)))
    BY <1>3, <1>4
  <1> QED
    BY <1>3, <1>5

(* Induction over the subsets of a finite set: a family of them that is not  *)
(* empty has a member that leaves it when an element is taken out.           *)
LEMMA SmallestSet ==
  ASSUME NEW S, IsFiniteSet(S), NEW B \in SUBSET SUBSET S, B # {}
  PROVE  \E s \in B : \A x \in s : s \ {x} \notin B
  <1>1. \A s \in SUBSET S : IsFiniteSet(s) /\ Cardinality(s) \in Nat
    BY FS_Subset, FS_CardinalityType
  <1> DEFINE N == {Cardinality(s) : s \in B}
  <1>2. N \in SUBSET Nat /\ N # {}
    BY <1>1
  <1>3. PICK n \in N : \A m \in N : n <= m
    BY <1>2, LeastNumber
  <1>4. PICK s \in B : n = Cardinality(s)
    OBVIOUS
  <1>5. ASSUME NEW x \in s PROVE s \ {x} \notin B
    <2>1. Cardinality(s \ {x}) = n - 1
      BY <1>1, <1>4, FS_RemoveElement
    <2>2. n \in Nat
      BY <1>2
    <2> QED
      BY <1>3, <2>1, <2>2
  <1> QED
    BY <1>5

(* And there is one only: two such functions agree on the sets both know.    *)
LEMMA SumUnique ==
  ASSUME NEW f, NEW S, NEW T \in SUBSET S, NEW g, NEW h,
         IsFiniteSet(S), SumsUp(g, f, SUBSET S), SumsUp(h, f, SUBSET T)
  PROVE  g[T] = h[T]
  <1> DEFINE B == {s \in SUBSET T : g[s] # h[s]}
             step(k, s) == IF s = {} THEN 0 ELSE f[Pick(s)] + k[s \ {Pick(s)}]
  <1>1. ASSUME B # {} PROVE FALSE
    <2>1. B \in SUBSET SUBSET S
      OBVIOUS
    <2>2. PICK s \in B : \A x \in s : s \ {x} \notin B
      BY <1>1, <2>1, SmallestSet
    <2>3. g[s] = step(g, s)
      BY DEF SumsUp
    <2>4. h[s] = step(h, s)
      BY DEF SumsUp
    <2>5. s = {} \/ Pick(s) \in s
      BY DEF Pick
    <2>6. s = {} \/ g[s \ {Pick(s)}] = h[s \ {Pick(s)}]
      BY <2>2, <2>5
    <2> QED
      BY <2>3, <2>4, <2>6
  <1> QED
    BY <1>1

(* The sum is what the definition's function says of the set, and it is the  *)
(* same function for every set.                                              *)
LEMMA SumOfSubset ==
  ASSUME NEW f, NEW S, IsFiniteSet(S)
  PROVE  \E g : SumsUp(g, f, SUBSET S) /\ \A s \in SUBSET S : g[s] = SumFunctionOnSet(f, s)
  <1>1. PICK g : SumsUp(g, f, SUBSET S)
    BY SumExists
  <1>2. ASSUME NEW T \in SUBSET S PROVE g[T] = SumFunctionOnSet(f, T)
    <2>1. IsFiniteSet(T)
      BY FS_Subset
    <2>2. \E h : SumsUp(h, f, SUBSET T)
      BY <2>1, SumExists, Zenon
    <2>3. PICK h : SumsUp(h, f, SUBSET T) /\ SumFunctionOnSet(f, T) = h[T]
      BY <2>2, SumDefinition, Zenon
    <2>4. g[T] = h[T]
      BY <1>1, <2>3, SumUnique
    <2> QED
      BY <2>3, <2>4
  <1> QED
    BY <1>1, <1>2

(* Nothing sums up to zero.                                                  *)
THEOREM SumEmpty ==
  ASSUME NEW f
  PROVE  SumFunctionOnSet(f, {}) = 0
  <1>1. PICK g : SumsUp(g, f, SUBSET {}) /\ \A s \in SUBSET {} : g[s] = SumFunctionOnSet(f, s)
    BY SumOfSubset, FS_EmptySet
  <1> QED
    BY <1>1 DEF SumsUp

(* The fold's own first step.                                                *)
LEMMA SumPick ==
  ASSUME NEW f, NEW S, IsFiniteSet(S), S # {}
  PROVE  /\ Pick(S) \in S
         /\ SumFunctionOnSet(f, S) = f[Pick(S)] + SumFunctionOnSet(f, S \ {Pick(S)})
  <1>1. PICK g : SumsUp(g, f, SUBSET S) /\ \A s \in SUBSET S : g[s] = SumFunctionOnSet(f, s)
    BY SumOfSubset
  <1>2. g[S] = f[Pick(S)] + g[S \ {Pick(S)}]
    BY <1>1 DEF SumsUp
  <1> QED
    BY <1>1, <1>2 DEF Pick

(* Numbers sum up to a number, natural ones to a natural one.                *)
THEOREM SumType ==
  ASSUME NEW f, NEW S, IsFiniteSet(S), NEW N \in {Nat, Int}, \A x \in S : f[x] \in N
  PROVE  SumFunctionOnSet(f, S) \in N
  <1> DEFINE B == {s \in SUBSET S : SumFunctionOnSet(f, s) \notin N}
  <1>1. ASSUME B # {} PROVE FALSE
    <2>1. PICK s \in B : \A x \in s : s \ {x} \notin B
      BY <1>1, SmallestSet
    <2>2. s # {}
      BY SumEmpty
    <2>3. IsFiniteSet(s)
      BY FS_Subset
    <2>4. /\ Pick(s) \in s
          /\ SumFunctionOnSet(f, s) = f[Pick(s)] + SumFunctionOnSet(f, s \ {Pick(s)})
      BY <2>2, <2>3, SumPick
    <2>5. SumFunctionOnSet(f, s \ {Pick(s)}) \in N
      BY <2>1, <2>4
    <2> QED
      BY <2>4, <2>5
  <1> QED
    BY <1>1

(* Any element can be taken out first.                                       *)
THEOREM SumRemove ==
  ASSUME NEW f, NEW S, IsFiniteSet(S), \A x \in S : f[x] \in Int, NEW x \in S
  PROVE  SumFunctionOnSet(f, S) = f[x] + SumFunctionOnSet(f, S \ {x})
  <1> DEFINE sum(s) == SumFunctionOnSet(f, s)
             B == {s \in SUBSET S : \E y \in s : sum(s) # f[y] + sum(s \ {y})}
  <1>1. \A s \in SUBSET S : IsFiniteSet(s) /\ sum(s) \in Int
    BY FS_Subset, SumType
  <1>2. ASSUME B # {} PROVE FALSE
    <2>1. PICK s \in B : \A y \in s : s \ {y} \notin B
      BY <1>2, SmallestSet
    <2>2. PICK y \in s : sum(s) # f[y] + sum(s \ {y})
      OBVIOUS
    <2> DEFINE c == Pick(s)
    <2>3. c \in s /\ sum(s) = f[c] + sum(s \ {c})
      BY <1>1, <2>2, SumPick
    <2> HIDE DEF c
    <2>4. c # y
      BY <2>2, <2>3
    <2>5. sum(s \ {c}) = f[y] + sum((s \ {c}) \ {y})
      BY <2>1, <2>2, <2>3, <2>4
    <2>6. sum(s \ {y}) = f[c] + sum((s \ {y}) \ {c})
      BY <2>1, <2>2, <2>3, <2>4
    <2>7. sum((s \ {c}) \ {y}) = sum((s \ {y}) \ {c})
      <3>1. (s \ {c}) \ {y} = (s \ {y}) \ {c}
        OBVIOUS
      <3> QED
        BY <3>1, Zenon
    <2>8. /\ f[y] \in Int /\ f[c] \in Int
          /\ sum((s \ {y}) \ {c}) \in Int
      BY <1>1, <2>2, <2>3
    <2> QED
      BY <2>2, <2>3, <2>5, <2>6, <2>7, <2>8
  <1> QED
    BY <1>2

(* A sum depends on the values over the set only.                            *)
THEOREM SumAgree ==
  ASSUME NEW f, NEW g, NEW S, IsFiniteSet(S), \A x \in S : f[x] = g[x]
  PROVE  SumFunctionOnSet(f, S) = SumFunctionOnSet(g, S)
  <1> DEFINE B == {s \in SUBSET S : SumFunctionOnSet(f, s) # SumFunctionOnSet(g, s)}
  <1>1. ASSUME B # {} PROVE FALSE
    <2>1. PICK s \in B : \A x \in s : s \ {x} \notin B
      BY <1>1, SmallestSet
    <2>2. s # {}
      BY SumEmpty
    <2>3. IsFiniteSet(s)
      BY FS_Subset
    <2>4. /\ Pick(s) \in s
          /\ SumFunctionOnSet(f, s) = f[Pick(s)] + SumFunctionOnSet(f, s \ {Pick(s)})
          /\ SumFunctionOnSet(g, s) = g[Pick(s)] + SumFunctionOnSet(g, s \ {Pick(s)})
      BY <2>2, <2>3, SumPick
    <2>5. SumFunctionOnSet(f, s \ {Pick(s)}) = SumFunctionOnSet(g, s \ {Pick(s)})
      BY <2>1, <2>4
    <2> QED
      BY <2>4, <2>5
  <1> QED
    BY <1>1

(* A set and the rest.                                                       *)
THEOREM SumSplit ==
  ASSUME NEW f, NEW S, IsFiniteSet(S), \A x \in S : f[x] \in Int, NEW T \in SUBSET S
  PROVE  SumFunctionOnSet(f, S) = SumFunctionOnSet(f, T) + SumFunctionOnSet(f, S \ T)
  <1> DEFINE sum(s) == SumFunctionOnSet(f, s)
             B == {s \in SUBSET T : sum((S \ T) \cup s) # sum(s) + sum(S \ T)}
  <1>1. \A s \in SUBSET S : IsFiniteSet(s) /\ sum(s) \in Int
    BY FS_Subset, SumType
  <1>2. ASSUME B # {} PROVE FALSE
    <2>1. PICK s \in B : \A y \in s : s \ {y} \notin B
      <3>1. IsFiniteSet(T)
        BY <1>1
      <3> QED
        BY <1>2, <3>1, SmallestSet
    <2>2. s # {}
      <3> SUFFICES ASSUME s = {} PROVE FALSE
        OBVIOUS
      <3>1. (S \ T) \cup s = S \ T
        OBVIOUS
      <3>2. sum((S \ T) \cup s) = sum(S \ T)
        BY <3>1, Zenon
      <3>3. sum(s) = 0 /\ sum(S \ T) \in Int
        BY <1>1, SumEmpty
      <3> QED
        BY <3>2, <3>3
    <2>3. PICK y \in s : TRUE
      BY <2>2
    <2>4. sum(s) = f[y] + sum(s \ {y})
      BY <1>1, SumRemove
    <2>5. sum((S \ T) \cup s) = f[y] + sum(((S \ T) \cup s) \ {y})
      <3>1. (S \ T) \cup s \in SUBSET S
        OBVIOUS
      <3> QED
        BY <1>1, <3>1, SumRemove
    <2>6. sum(((S \ T) \cup s) \ {y}) = sum((S \ T) \cup (s \ {y}))
      <3>1. ((S \ T) \cup s) \ {y} = (S \ T) \cup (s \ {y})
        OBVIOUS
      <3> QED
        BY <3>1, Zenon
    <2>7. sum((S \ T) \cup (s \ {y})) = sum(s \ {y}) + sum(S \ T)
      BY <2>1
    <2>8. f[y] \in Int /\ sum(s \ {y}) \in Int /\ sum(S \ T) \in Int
      BY <1>1
    <2>9. sum((S \ T) \cup s) # sum(s) + sum(S \ T)
      OBVIOUS
    <2> QED
      BY <2>4, <2>5, <2>6, <2>7, <2>8, <2>9
  <1>3. (S \ T) \cup T = S /\ sum((S \ T) \cup T) = sum(T) + sum(S \ T)
    BY <1>2
  <1> QED
    BY <1>3

(* Two sets without a common element.                                        *)
THEOREM SumUnion ==
  ASSUME NEW f, NEW S, NEW T, IsFiniteSet(S), IsFiniteSet(T), S \cap T = {},
         \A x \in S \cup T : f[x] \in Int
  PROVE  /\ IsFiniteSet(S \cup T)
         /\ SumFunctionOnSet(f, S \cup T) = SumFunctionOnSet(f, S) + SumFunctionOnSet(f, T)
  <1>1. IsFiniteSet(S \cup T)
    BY FS_Union
  <1>2. S \in SUBSET (S \cup T) /\ (S \cup T) \ S = T
    OBVIOUS
  <1>3. SumFunctionOnSet(f, S \cup T)
          = SumFunctionOnSet(f, S) + SumFunctionOnSet(f, (S \cup T) \ S)
    BY <1>1, <1>2, SumSplit
  <1> QED
    BY <1>1, <1>2, <1>3, Zenon

(* A larger set does not have a smaller sum of natural numbers.              *)
THEOREM SumMonotone ==
  ASSUME NEW f, NEW S, IsFiniteSet(S), \A x \in S : f[x] \in Nat, NEW T \in SUBSET S
  PROVE  SumFunctionOnSet(f, T) <= SumFunctionOnSet(f, S)
  <1>1. IsFiniteSet(T) /\ IsFiniteSet(S \ T)
    BY FS_Subset, FS_Difference
  <1>2. SumFunctionOnSet(f, T) \in Nat /\ SumFunctionOnSet(f, S \ T) \in Nat
    BY <1>1, SumType
  <1>3. SumFunctionOnSet(f, S) = SumFunctionOnSet(f, T) + SumFunctionOnSet(f, S \ T)
    BY SumSplit
  <1> QED
    BY <1>2, <1>3

(* Only the empty sum of positive numbers is zero.                           *)
THEOREM SumPositive ==
  ASSUME NEW f, NEW S, IsFiniteSet(S), \A x \in S : f[x] \in Nat \ {0}
  PROVE  SumFunctionOnSet(f, S) = 0 <=> S = {}
  <1>1. ASSUME NEW x \in S PROVE SumFunctionOnSet(f, S) # 0
    <2>1. SumFunctionOnSet(f, S) = f[x] + SumFunctionOnSet(f, S \ {x})
      BY SumRemove
    <2>2. IsFiniteSet(S \ {x})
      BY FS_RemoveElement
    <2>3. SumFunctionOnSet(f, S \ {x}) \in Nat
      BY <2>2, SumType
    <2> QED
      BY <2>1, <2>3
  <1>2. S = {} => SumFunctionOnSet(f, S) = 0
    BY SumEmpty
  <1> QED
    BY <1>1, <1>2

(* A common factor.                                                          *)
THEOREM SumScale ==
  ASSUME NEW f, NEW g, NEW S, IsFiniteSet(S), NEW c \in Int,
         \A x \in S : f[x] \in Int /\ g[x] = c * f[x]
  PROVE  SumFunctionOnSet(g, S) = c * SumFunctionOnSet(f, S)
  <1> DEFINE B == {s \in SUBSET S : SumFunctionOnSet(g, s) # c * SumFunctionOnSet(f, s)}
  <1>1. ASSUME B # {} PROVE FALSE
    <2>1. PICK s \in B : \A x \in s : s \ {x} \notin B
      BY <1>1, SmallestSet
    <2>2. s # {}
      <3>1. s = {} => SumFunctionOnSet(g, s) = 0 /\ SumFunctionOnSet(f, s) = 0
        BY SumEmpty
      <3> QED
        BY <3>1
    <2>3. IsFiniteSet(s)
      BY FS_Subset
    <2>4. PICK x \in s :
            /\ SumFunctionOnSet(f, s) = f[x] + SumFunctionOnSet(f, s \ {x})
            /\ SumFunctionOnSet(g, s) = g[x] + SumFunctionOnSet(g, s \ {x})
      BY <2>2, <2>3, SumPick
    <2>5. SumFunctionOnSet(g, s \ {x}) = c * SumFunctionOnSet(f, s \ {x})
      BY <2>1, <2>4
    <2>6. IsFiniteSet(s \ {x}) /\ \A y \in s \ {x} : f[y] \in Int
      BY <2>3, FS_RemoveElement
    <2>7. SumFunctionOnSet(f, s \ {x}) \in Int /\ f[x] \in Int /\ g[x] = c * f[x]
      BY <2>6, SumType
    <2>8. \A a, b \in Int : c * (a + b) = c * a + c * b
      OBVIOUS
    <2>9. c * (f[x] + SumFunctionOnSet(f, s \ {x})) = c * f[x] + c * SumFunctionOnSet(f, s \ {x})
      BY <2>7, <2>8, Zenon
    <2> QED
      BY <2>4, <2>5, <2>7, <2>9
  <1> QED
    BY <1>1

(* The arguments in K where D has a value in U, and a function f that is, at *)
(* each value, the sum of w over the arguments that have it.                 *)
Fibre(K, D, U) == {k \in K : D[k] \in U}
FibreSums(f, U, w, K, D) == \A u \in U : f[u] = SumFunctionOnSet(w, Fibre(K, D, {u}))

(* Summing over the values, and for each over the arguments that have it, is *)
(* summing over the arguments.                                               *)
THEOREM SumFibres ==
  ASSUME NEW D, NEW K, IsFiniteSet(K), NEW w, \A k \in K : w[k] \in Int,
         NEW U, IsFiniteSet(U), NEW f, FibreSums(f, U, w, K, D)
  PROVE  SumFunctionOnSet(f, U) = SumFunctionOnSet(w, Fibre(K, D, U))
  <1> DEFINE B == {s \in SUBSET U : SumFunctionOnSet(f, s) # SumFunctionOnSet(w, Fibre(K, D, s))}
  <1>1. \A s : IsFiniteSet(Fibre(K, D, s)) /\ Fibre(K, D, s) \in SUBSET K
    BY FS_Subset DEF Fibre
  <1>2. ASSUME B # {} PROVE FALSE
    <2>1. PICK s \in B : \A x \in s : s \ {x} \notin B
      BY <1>2, SmallestSet
    <2>2. s # {}
      <3>1. Fibre(K, D, {}) = {}
        BY DEF Fibre
      <3>2. SumFunctionOnSet(f, {}) = 0 /\ SumFunctionOnSet(w, Fibre(K, D, {})) = 0
        BY <3>1, SumEmpty
      <3> QED
        BY <3>2
    <2>3. IsFiniteSet(s)
      BY FS_Subset
    <2>4. PICK u \in s : SumFunctionOnSet(f, s) = f[u] + SumFunctionOnSet(f, s \ {u})
      BY <2>2, <2>3, SumPick
    <2>5. SumFunctionOnSet(f, s \ {u}) = SumFunctionOnSet(w, Fibre(K, D, s \ {u}))
      BY <2>1
    <2> DEFINE one == Fibre(K, D, {u})
               rest == Fibre(K, D, s \ {u})
    <2>6. one \cap rest = {} /\ one \cup rest = Fibre(K, D, s)
      BY DEF Fibre
    <2>7. SumFunctionOnSet(w, one \cup rest) = SumFunctionOnSet(w, one) + SumFunctionOnSet(w, rest)
      BY <1>1, <2>6, SumUnion
    <2>8. SumFunctionOnSet(w, Fibre(K, D, s)) = SumFunctionOnSet(w, one) + SumFunctionOnSet(w, rest)
      BY <2>6, <2>7, Zenon
    <2>9. f[u] = SumFunctionOnSet(w, one)
      BY DEF FibreSums
    <2> QED
      BY <2>4, <2>5, <2>8, <2>9
  <1> QED
    BY <1>2

-----------------------------------------------------------------------------
(***************************************************************************)
(* FoldLeft.  Its operator cannot be a lemma's parameter, so these are     *)
(* about a function h instead: whoever folds an operator shows that h,     *)
(* which does what the operator does for values in W, has a walk, that     *)
(* this is a function of the kind FoldLeft chooses, and that the chosen    *)
(* one follows h (FollowingStays).                                         *)
(***************************************************************************)

(* A nonempty finite set of numbers has a greatest one, which Max names.     *)
LEMMA GreatestNumber ==
  ASSUME NEW S \in SUBSET Int, IsFiniteSet(S), S # {}
  PROVE  Max(S) \in S
  <1> DEFINE Bad == {s \in SUBSET S : s # {} /\ ~ \E x \in s : \A y \in s : x >= y}
  <1>1. ASSUME Bad # {} PROVE FALSE
    <2>1. PICK s \in Bad : \A x \in s : s \ {x} \notin Bad
      BY <1>1, SmallestSet
    <2>2. PICK x \in s : TRUE
      OBVIOUS
    <2>3. CASE s = {x}
      BY <2>3
    <2>4. CASE s \ {x} # {}
      <3>1. PICK y \in s \ {x} : \A z \in s \ {x} : y >= z
        BY <2>1, <2>4
      <3>2. \A z \in s : z \in Int
        OBVIOUS
      <3>3. (\A z \in s : y >= z) \/ (\A z \in s : x >= z)
        BY <3>1, <3>2
      <3> QED
        BY <3>3
    <2> QED
      BY <2>3, <2>4
  <1>2. \E x \in S : \A y \in S : x >= y
    BY <1>1
  <1> QED
    BY <1>2 DEF Max

(* The function g that starts from base and takes one step h for the element *)
(* that FoldLeft takes out of a set of places, the last one.                 *)
Walks(g, h, base, F) ==
  g = [s \in F |-> IF s = {} THEN base ELSE h[<<g[s \ {Max(s)}], Max(s)>>]]

(* It exists, as the sum does.                                               *)
LEMMA WalkExists ==
  ASSUME NEW h, NEW base, NEW S \in SUBSET Int, IsFiniteSet(S)
  PROVE  \E g : Walks(g, h, base, SUBSET S)
  <1> DEFINE Bad == {n \in Nat : ~ \E g : Walks(g, h, base, Below(S, n))}
  <1>1. \A s \in SUBSET S : IsFiniteSet(s) /\ Cardinality(s) \in Nat /\ Cardinality(s) <= Cardinality(S)
    BY FS_Subset, FS_CardinalityType
  <1>2. Bad = {}
    <2> SUFFICES ASSUME Bad # {} PROVE FALSE
      OBVIOUS
    <2>1. PICK n \in Bad : \A m \in Bad : n <= m
      BY LeastNumber
    <2>2. CASE n = 0
      <3> DEFINE g == [s \in Below(S, 0) |-> base]
      <3>1. \A s \in Below(S, 0) : s = {}
        <4>1. \A s \in Below(S, 0) : IsFiniteSet(s) /\ Cardinality(s) = 0
          BY <1>1 DEF Below
        <4> QED
          BY <4>1, FS_EmptySet
      <3>2. Walks(g, h, base, Below(S, 0))
        BY <3>1 DEF Walks
      <3> QED
        BY <2>2, <3>2
    <2>3. CASE n > 0
      <3>1. n - 1 \in Nat /\ n - 1 \notin Bad
        BY <2>1, <2>3
      <3>2. PICK k : Walks(k, h, base, Below(S, n - 1))
        BY <3>1
      <3> DEFINE step(f, s) == IF s = {} THEN base ELSE h[<<f[s \ {Max(s)}], Max(s)>>]
                 g == [s \in Below(S, n) |-> step(k, s)]
      <3>3. ASSUME NEW s \in Below(S, n), s # {}
            PROVE  s \ {Max(s)} \in Below(S, n - 1)
        <4>1. Max(s) \in s
          BY <1>1, <3>3, GreatestNumber DEF Below
        <4>2. Cardinality(s \ {Max(s)}) = Cardinality(s) - 1
          BY <1>1, <4>1, FS_RemoveElement DEF Below
        <4>3. s \in SUBSET S /\ s \ {Max(s)} \in SUBSET S /\ Cardinality(s) <= n
          BY DEF Below
        <4>4. Cardinality(s \ {Max(s)}) <= n - 1
          BY <1>1, <3>1, <4>2, <4>3
        <4> QED
          BY <4>3, <4>4 DEF Below
      <3>4. \A s \in Below(S, n - 1) : s \in Below(S, n) /\ k[s] = step(k, s)
        <4>1. \A s \in Below(S, n - 1) : s \in Below(S, n)
          BY <1>1, <2>1 DEF Below
        <4>2. \A s \in Below(S, n - 1) : k[s] = step(k, s)
          BY <3>2 DEF Walks
        <4> QED
          BY <4>1, <4>2
      <3>5. \A s \in Below(S, n - 1) : g[s] = k[s]
        BY <3>4
      <3>6. \A s \in Below(S, n) : g[s] = step(g, s)
        BY <3>3, <3>5
      <3>7. Walks(g, h, base, Below(S, n))
        <4>1. g = [s \in Below(S, n) |-> step(g, s)]
          BY <3>6
        <4> QED
          BY <4>1 DEF Walks
      <3> QED
        BY <3>7
    <2> QED
      BY <2>2, <2>3
  <1>3. Cardinality(S) \in Nat /\ Below(S, Cardinality(S)) = SUBSET S
    BY <1>1 DEF Below
  <1>4. \A n \in Nat : \E g : Walks(g, h, base, Below(S, n))
    BY <1>2
  <1>5. \E g : Walks(g, h, base, Below(S, Cardinality(S)))
    BY <1>3, <1>4
  <1> QED
    BY <1>3, <1>5

(* One step keeps the values of c in W.                                      *)
StaysIn(W, c, S) ==
  \A s \in SUBSET S : s # {} /\ c[s \ {Max(s)}] \in W => c[s] \in W

(* Induction over the steps of a walk.                                       *)
LEMMA WalkStays ==
  ASSUME NEW W, NEW S \in SUBSET Int, IsFiniteSet(S), NEW c, c[{}] \in W, StaysIn(W, c, S)
  PROVE  \A s \in SUBSET S : c[s] \in W
  <1> DEFINE Bad == {s \in SUBSET S : c[s] \notin W}
  <1>1. ASSUME Bad # {} PROVE FALSE
    <2>1. PICK s \in Bad : \A x \in s : s \ {x} \notin Bad
      BY <1>1, SmallestSet
    <2>2. s # {} /\ IsFiniteSet(s) /\ s \in SUBSET Int
      BY FS_Subset
    <2>3. Max(s) \in s
      BY <2>2, GreatestNumber
    <2>4. c[s \ {Max(s)}] \in W
      BY <2>1, <2>3
    <2> QED
      BY <2>2, <2>4 DEF StaysIn
  <1> QED
    BY <1>1

(* h takes a step from any value in W, for any place in S, and stays in W.   *)
StepsIn(h, W, S) == h \in [W \X S -> W]

(* What g takes a step from, and the place, are arguments of such an h.      *)
Inside(g, W, S) == \A s \in SUBSET S : s # {} => g[s \ {Max(s)}] \in W /\ Max(s) \in S

(* A walk whose steps stay in W exists.                                      *)
LEMMA WalkWithin ==
  ASSUME NEW W, NEW S, S \in SUBSET Int, IsFiniteSet(S), NEW base, base \in W,
         NEW h, StepsIn(h, W, S)
  PROVE  \E g : Walks(g, h, base, SUBSET S) /\ Inside(g, W, S)
  <1>1. PICK g : Walks(g, h, base, SUBSET S)
    BY WalkExists
  <1>2. \A s \in SUBSET S : s # {} => Max(s) \in s
    BY FS_Subset, GreatestNumber
  <1>3. g[{}] = base
    BY <1>1 DEF Walks
  <1>4. StaysIn(W, g, S)
    <2> SUFFICES ASSUME NEW s \in SUBSET S, s # {}, g[s \ {Max(s)}] \in W
                 PROVE  g[s] \in W
      BY DEF StaysIn
    <2>1. g[s] = h[<<g[s \ {Max(s)}], Max(s)>>]
      BY <1>1 DEF Walks
    <2>2. Max(s) \in S
      BY <1>2
    <2> QED
      BY <2>1, <2>2 DEF StepsIn
  <1>5. \A s \in SUBSET S : g[s] \in W
    BY <1>3, <1>4, WalkStays
  <1> QED
    BY <1>1, <1>2, <1>5 DEF Inside

(* c starts from base and takes h's steps, as far as they stay in W.         *)
Follows(c, h, base, W, S) ==
  /\ c[{}] = base
  /\ \A s \in SUBSET S :
       s # {} /\ Max(s) \in S /\ c[s \ {Max(s)}] \in W => c[s] = h[<<c[s \ {Max(s)}], Max(s)>>]

(* Then it stays in W to the end.                                            *)
LEMMA FollowingStays ==
  ASSUME NEW W, NEW S, S \in SUBSET Int, IsFiniteSet(S), NEW base, base \in W,
         NEW h, StepsIn(h, W, S), NEW c, Follows(c, h, base, W, S)
  PROVE  c[S] \in W
  <1>1. StaysIn(W, c, S)
    <2> SUFFICES ASSUME NEW s \in SUBSET S, s # {}, c[s \ {Max(s)}] \in W
                 PROVE  c[s] \in W
      BY DEF StaysIn
    <2>1. Max(s) \in S
      BY FS_Subset, GreatestNumber
    <2>2. c[s] = h[<<c[s \ {Max(s)}], Max(s)>>]
      BY <2>1 DEF Follows
    <2> QED
      BY <2>1, <2>2 DEF StepsIn
  <1>2. c[{}] \in W
    BY DEF Follows
  <1> QED
    BY <1>1, <1>2, WalkStays
=============================================================================
