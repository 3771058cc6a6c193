-------------------------------- MODULE Sums --------------------------------
(***************************************************************************)
(* What sums of a function over a finite set are: facts about the library's *)
(* SumFunctionOnSet that the proofs of several modules rest on.             *)
(***************************************************************************)
EXTENDS Integers, FiniteSets, Functions, FiniteSetTheorems, WellFoundedInduction, TLAPS

(* What the library's sums over finite sets are.  Its induction theorem takes
   an operator; these descend to a set of the fewest members instead. *)

(* Of two numbers that are not in order the second is the least. *)
LEMMA NotLess == \A m, n \in Nat : ~(m < n) => n <= m
OBVIOUS

(* The same, of the order as a relation. *)
LEMMA LessIn ==
  ASSUME NEW m \in Nat, NEW n \in Nat, ~(<<m, n>> \in OpToRel(<, Nat))
  PROVE  n <= m
<1>1. <<m, n>> \in Nat \X Nat /\ <<m, n>>[1] = m /\ <<m, n>>[2] = n
  OBVIOUS
<1>2. ~(m < n)
  BY <1>1 DEF OpToRel
<1> QED
  BY <1>2, NotLess, Zenon

(* Among finite sets there is one of the fewest members: the induction over sets. *)
LEMMA LeastSet ==
  ASSUME NEW Sets, Sets # {}, \A T \in Sets : IsFiniteSet(T)
  PROVE  \E T \in Sets : \A U \in Sets : Cardinality(T) <= Cardinality(U)
<1> DEFINE Sizes == {Cardinality(T) : T \in Sets}
<1>1. Sizes \subseteq Nat /\ Sizes # {}
  BY FS_CardinalityType
<1>2. PICK n \in Sizes : \A m \in Sizes : ~(<<m, n>> \in OpToRel(<, Nat))
  BY <1>1, WFMin, NatLessThanWellFounded
<1>3. \A m \in Sizes : n <= m
  BY <1>1, <1>2, LessIn
<1> QED
  BY <1>3

One(T) == CHOOSE x \in T : TRUE
\* g sums f over each of the sets of D.
SumsUp(g, f, D) == g = [T \in D |-> IF T = {} THEN 0 ELSE f[One(T)] + g[T \ {One(T)}]]

(* What One takes is in the set. *)
LEMMA OneOfIt ==
  ASSUME NEW T, T # {}
  PROVE  One(T) \in T
BY DEF One

(* A sum is what the function that the library chooses by recursion says of the set. *)
LEMMA SumIsChosen ==
  ASSUME NEW f, NEW S
  PROVE  SumFunctionOnSet(f, S) = (CHOOSE g : SumsUp(g, f, SUBSET S))[S]
BY DEF SumFunctionOnSet, FoldFunctionOnSet, MapThenFoldSet, SumsUp, One

(* There is such a function for the subsets of every finite set. *)
LEMMA SumsExist ==
  ASSUME NEW f, NEW S, IsFiniteSet(S)
  PROVE  \E g : SumsUp(g, f, SUBSET S)
<1> DEFINE Layer(n) == {T \in SUBSET S : Cardinality(T) <= n}
           Bad == {n \in Nat : ~ \E g : SumsUp(g, f, Layer(n))}
<1>0. \A T \in SUBSET S : IsFiniteSet(T) /\ Cardinality(T) \in Nat
  BY FS_Subset, FS_CardinalityType
<1>1. Bad = {}
  <2> SUFFICES ASSUME Bad # {} PROVE FALSE
    OBVIOUS
  <2>1. PICK n \in Bad : \A m \in Bad : ~(<<m, n>> \in OpToRel(<, Nat))
    BY WFMin, NatLessThanWellFounded
  <2>2. n \in Nat /\ \A m \in Bad : n <= m
    BY <2>1, LessIn
  <2>3. CASE n = 0
    <3> DEFINE g == [T \in Layer(0) |-> 0]
    <3>1. \A T \in Layer(0) : T = {}
      BY <1>0, FS_EmptySet
    <3>2. g = [T \in Layer(0) |-> IF T = {} THEN 0 ELSE f[One(T)] + g[T \ {One(T)}]]
      BY <3>1
    <3>3. SumsUp(g, f, Layer(0))
      BY <3>2 DEF SumsUp
    <3> QED
      BY <3>3, <2>3
  <2>4. CASE n # 0
    <3>a. n - 1 \in Nat /\ ~(n <= n - 1)
      BY <2>2, <2>4
    <3>0. n - 1 \in Nat /\ n - 1 \notin Bad
      BY <2>2, <3>a, Zenon
    <3>1. PICK g : SumsUp(g, f, Layer(n - 1))
      BY <3>0
    <3> DEFINE h == [T \in Layer(n) |-> IF T = {} THEN 0 ELSE f[One(T)] + g[T \ {One(T)}]]
    <3>2. ASSUME NEW T \in Layer(n), T # {}
          PROVE  h[T \ {One(T)}] = g[T \ {One(T)}]
      <4> DEFINE U == T \ {One(T)}
      <4>1. Cardinality(U) = Cardinality(T) - 1
        BY <1>0, <3>2, OneOfIt, FS_RemoveElement
      <4>2. U \in Layer(n - 1) /\ U \in Layer(n)
        BY <1>0, <4>1, <2>2
      <4>3. g[U] = IF U = {} THEN 0 ELSE f[One(U)] + g[U \ {One(U)}]
        BY <4>2, <3>1 DEF SumsUp
      <4>4. h[U] = IF U = {} THEN 0 ELSE f[One(U)] + g[U \ {One(U)}]
        BY <4>2
      <4> QED
        BY <4>3, <4>4
    <3>3. \A T \in Layer(n) : (IF T = {} THEN 0 ELSE f[One(T)] + g[T \ {One(T)}])
                            = (IF T = {} THEN 0 ELSE f[One(T)] + h[T \ {One(T)}])
      BY <3>2
    <3> HIDE DEF Layer
    <3>4. h = [T \in Layer(n) |-> IF T = {} THEN 0 ELSE f[One(T)] + h[T \ {One(T)}]]
      BY <3>3
    <3>5. SumsUp(h, f, Layer(n))
      BY <3>4 DEF SumsUp
    <3> QED
      BY <3>5
  <2> QED
    BY <2>3, <2>4
<1>2. Layer(Cardinality(S)) = SUBSET S
  BY FS_Subset
<1> QED
  BY <1>0, <1>1, <1>2

(* Two such functions agree where what they add up agrees. *)
LEMMA SumsAgree ==
  ASSUME NEW f, NEW g, NEW S, NEW R, NEW a, NEW b, IsFiniteSet(S),
         SumsUp(a, f, SUBSET S), SumsUp(b, g, SUBSET R),
         NEW T \in SUBSET S, T \subseteq R, \A x \in T : f[x] = g[x]
  PROVE  a[T] = b[T]
<1> DEFINE Bad == {U \in SUBSET T : a[U] # b[U]}
<1> SUFFICES ASSUME Bad # {} PROVE FALSE
  OBVIOUS
<1>1. \A U \in Bad : IsFiniteSet(U) /\ Cardinality(U) \in Nat
  BY FS_Subset, FS_CardinalityType
<1>2. PICK U \in Bad : \A V \in Bad : Cardinality(U) <= Cardinality(V)
  BY <1>1, LeastSet
<1>3. /\ a[U] = IF U = {} THEN 0 ELSE f[One(U)] + a[U \ {One(U)}]
      /\ b[U] = IF U = {} THEN 0 ELSE g[One(U)] + b[U \ {One(U)}]
  BY DEF SumsUp
<1>4. U # {}
  BY <1>3
<1> DEFINE V == U \ {One(U)}
<1>5. Cardinality(V) = Cardinality(U) - 1 /\ f[One(U)] = g[One(U)]
  BY <1>1, <1>4, OneOfIt, FS_RemoveElement
<1>6. V \in SUBSET T /\ V \notin Bad
  BY <1>1, <1>2, <1>5
<1> QED
  BY <1>3, <1>5, <1>6

\* What SumFunctionOnSet is, over no set and over one.
(* Nothing adds up to 0. *)
LEMMA SumOfNone ==
  ASSUME NEW f
  PROVE  SumFunctionOnSet(f, {}) = 0
<1> DEFINE c == CHOOSE g : SumsUp(g, f, SUBSET {})
<1>1. SumsUp(c, f, SUBSET {})
  BY SumsExist, FS_EmptySet
<1> HIDE DEF c
<1>2. c[{}] = 0
  BY <1>1 DEF SumsUp
<1> QED
  BY <1>2, SumIsChosen DEF c

(* A sum is one term and the sum of the others. *)
LEMMA SumStep ==
  ASSUME NEW f, NEW S, IsFiniteSet(S), S # {}
  PROVE  SumFunctionOnSet(f, S) = f[One(S)] + SumFunctionOnSet(f, S \ {One(S)})
<1> DEFINE R == S \ {One(S)}
           c == CHOOSE g : SumsUp(g, f, SUBSET S)
           d == CHOOSE g : SumsUp(g, f, SUBSET R)
<1>0. IsFiniteSet(R)
  BY FS_Subset
<1>1. SumsUp(c, f, SUBSET S) /\ SumsUp(d, f, SUBSET R)
  BY <1>0, SumsExist
<1>3. SumFunctionOnSet(f, S) = c[S] /\ SumFunctionOnSet(f, R) = d[R]
  BY SumIsChosen
<1> HIDE DEF c, d
<1>4. c[S] = f[One(S)] + c[R]
  BY <1>1 DEF SumsUp
<1>5. R \in SUBSET S
  OBVIOUS
<1> HIDE DEF R
<1>2. c[R] = d[R]
  BY <1>0, <1>1, <1>5, SumsAgree
<1> QED
  BY <1>2, <1>3, <1>4 DEF R

(* A sum depends on its terms only. *)
LEMMA SumAgree ==
  ASSUME NEW f, NEW g, NEW S, IsFiniteSet(S), \A x \in S : f[x] = g[x]
  PROVE  SumFunctionOnSet(f, S) = SumFunctionOnSet(g, S)
<1> DEFINE c == CHOOSE h : SumsUp(h, f, SUBSET S)
           d == CHOOSE h : SumsUp(h, g, SUBSET S)
<1>1. SumsUp(c, f, SUBSET S) /\ SumsUp(d, g, SUBSET S)
  BY SumsExist
<1>2. SumFunctionOnSet(f, S) = c[S] /\ SumFunctionOnSet(g, S) = d[S]
  BY SumIsChosen
<1> HIDE DEF c, d
<1> QED
  BY <1>1, <1>2, SumsAgree

(* Natural terms have a natural sum. *)
LEMMA SumIsNat ==
  ASSUME NEW f, NEW S, IsFiniteSet(S), \A x \in S : f[x] \in Nat
  PROVE  SumFunctionOnSet(f, S) \in Nat
<1> DEFINE Bad == {U \in SUBSET S : SumFunctionOnSet(f, U) \notin Nat}
<1> SUFFICES ASSUME Bad # {} PROVE FALSE
  OBVIOUS
<1>1. \A U \in SUBSET S : IsFiniteSet(U) /\ Cardinality(U) \in Nat
  BY FS_Subset, FS_CardinalityType
<1>2. PICK U \in Bad : \A V \in Bad : Cardinality(U) <= Cardinality(V)
  <2> HIDE DEF Bad
  <2>1. \A V \in Bad : IsFiniteSet(V)
    BY <1>1 DEF Bad
  <2> QED
    BY <2>1, LeastSet
<1>3. U # {}
  BY SumOfNone
<1>4. Cardinality(U \ {One(U)}) = Cardinality(U) - 1 /\ One(U) \in S
  BY <1>1, <1>3, OneOfIt, FS_RemoveElement
<1>5. SumFunctionOnSet(f, U \ {One(U)}) \in Nat
  BY <1>1, <1>2, <1>4
<1> QED
  BY <1>1, <1>3, <1>4, <1>5, SumStep

\* Any element can be taken out first.
(* Any term may be taken first. *)
LEMMA SumTake ==
  ASSUME NEW f, NEW S, IsFiniteSet(S), \A x \in S : f[x] \in Nat, NEW y \in S
  PROVE  SumFunctionOnSet(f, S) = f[y] + SumFunctionOnSet(f, S \ {y})
<1> DEFINE Bad == {U \in SUBSET S : \E z \in U : SumFunctionOnSet(f, U) # f[z] + SumFunctionOnSet(f, U \ {z})}
<1> SUFFICES ASSUME Bad # {} PROVE FALSE
  OBVIOUS
<1>1. \A U \in SUBSET S : IsFiniteSet(U) /\ Cardinality(U) \in Nat /\ SumFunctionOnSet(f, U) \in Nat
  BY FS_Subset, FS_CardinalityType, SumIsNat
<1>2. PICK U \in Bad : \A V \in Bad : Cardinality(U) <= Cardinality(V)
  <2> HIDE DEF Bad
  <2>1. \A V \in Bad : IsFiniteSet(V)
    BY <1>1 DEF Bad
  <2> QED
    BY <2>1, LeastSet
<1>3. PICK z \in U : SumFunctionOnSet(f, U) # f[z] + SumFunctionOnSet(f, U \ {z})
  OBVIOUS
<1> DEFINE x == One(U)
<1>4. x \in U
  BY OneOfIt
<1>5. SumFunctionOnSet(f, U) = f[x] + SumFunctionOnSet(f, U \ {x})
  BY <1>1, SumStep
<1> HIDE DEF x
<1>6. x # z
  BY <1>3, <1>5
<1>7. /\ U \ {x} \in SUBSET S /\ Cardinality(U \ {x}) = Cardinality(U) - 1
      /\ U \ {z} \in SUBSET S /\ Cardinality(U \ {z}) = Cardinality(U) - 1
  BY <1>1, <1>4, FS_RemoveElement
<1>8. U \ {x} \notin Bad /\ U \ {z} \notin Bad
  BY <1>1, <1>2, <1>7
<1>9. /\ SumFunctionOnSet(f, U \ {x}) = f[z] + SumFunctionOnSet(f, (U \ {x}) \ {z})
      /\ SumFunctionOnSet(f, U \ {z}) = f[x] + SumFunctionOnSet(f, (U \ {z}) \ {x})
  BY <1>4, <1>6, <1>7, <1>8
<1>10. (U \ {x}) \ {z} = (U \ {z}) \ {x}
  OBVIOUS
<1>11. f[x] \in Nat /\ f[z] \in Nat /\ SumFunctionOnSet(f, (U \ {z}) \ {x}) \in Nat
  BY <1>1, <1>4
<1> QED
  BY <1>3, <1>5, <1>9, <1>10, <1>11
(* Zeros add up to 0. *)
LEMMA SumOfZeros ==
  ASSUME NEW f, NEW S, IsFiniteSet(S), \A x \in S : f[x] = 0
  PROVE  SumFunctionOnSet(f, S) = 0
<1> DEFINE Bad == {U \in SUBSET S : SumFunctionOnSet(f, U) # 0}
<1> SUFFICES ASSUME Bad # {} PROVE FALSE
  OBVIOUS
<1>1. \A U \in SUBSET S : IsFiniteSet(U) /\ Cardinality(U) \in Nat
  BY FS_Subset, FS_CardinalityType
<1>2. PICK U \in Bad : \A V \in Bad : Cardinality(U) <= Cardinality(V)
  <2> HIDE DEF Bad
  <2>1. \A V \in Bad : IsFiniteSet(V)
    BY <1>1 DEF Bad
  <2> QED
    BY <2>1, LeastSet
<1>3. U # {}
  BY SumOfNone
<1>4. Cardinality(U \ {One(U)}) = Cardinality(U) - 1 /\ One(U) \in S
  BY <1>1, <1>3, OneOfIt, FS_RemoveElement
<1>5. SumFunctionOnSet(f, U \ {One(U)}) = 0
  BY <1>1, <1>2, <1>4
<1> QED
  BY <1>1, <1>3, <1>4, <1>5, SumStep

(* Greater terms have a greater sum. *)
LEMMA SumMonotonic ==
  ASSUME NEW f, NEW g, NEW S, IsFiniteSet(S),
         \A x \in S : f[x] \in Nat /\ g[x] \in Nat /\ f[x] <= g[x]
  PROVE  SumFunctionOnSet(f, S) <= SumFunctionOnSet(g, S)
<1> DEFINE Bad == {U \in SUBSET S : ~(SumFunctionOnSet(f, U) <= SumFunctionOnSet(g, U))}
<1> SUFFICES ASSUME Bad # {} PROVE FALSE
  OBVIOUS
<1>1. \A U \in SUBSET S : /\ IsFiniteSet(U) /\ Cardinality(U) \in Nat
                         /\ SumFunctionOnSet(f, U) \in Nat /\ SumFunctionOnSet(g, U) \in Nat
  BY FS_Subset, FS_CardinalityType, SumIsNat
<1>2. PICK U \in Bad : \A V \in Bad : Cardinality(U) <= Cardinality(V)
  <2> HIDE DEF Bad
  <2>1. \A V \in Bad : IsFiniteSet(V)
    BY <1>1 DEF Bad
  <2> QED
    BY <2>1, LeastSet
<1>3. U # {}
  BY SumOfNone
<1>4. Cardinality(U \ {One(U)}) = Cardinality(U) - 1 /\ One(U) \in S /\ U \ {One(U)} \in SUBSET S
  BY <1>1, <1>3, OneOfIt, FS_RemoveElement
<1>5. SumFunctionOnSet(f, U \ {One(U)}) <= SumFunctionOnSet(g, U \ {One(U)})
  BY <1>1, <1>2, <1>4
<1>6. /\ SumFunctionOnSet(f, U) = f[One(U)] + SumFunctionOnSet(f, U \ {One(U)})
      /\ SumFunctionOnSet(g, U) = g[One(U)] + SumFunctionOnSet(g, U \ {One(U)})
  BY <1>1, <1>3, SumStep
<1>7. /\ SumFunctionOnSet(f, U \ {One(U)}) \in Nat /\ SumFunctionOnSet(g, U \ {One(U)}) \in Nat
      /\ f[One(U)] \in Nat /\ g[One(U)] \in Nat /\ f[One(U)] <= g[One(U)]
  BY <1>1, <1>4
<1>8. ~(SumFunctionOnSet(f, U) <= SumFunctionOnSet(g, U))
  OBVIOUS
<1> QED
  BY <1>5, <1>6, <1>7, <1>8

\* A sum over a part of a set is one over the set, with 0 for the rest.
(* A sum over a part is the sum of the terms that are 0 elsewhere. *)
LEMMA SumInside ==
  ASSUME NEW f, NEW S, IsFiniteSet(S), NEW T \in SUBSET S, \A x \in T : f[x] \in Nat
  PROVE  SumFunctionOnSet(f, T) = SumFunctionOnSet([x \in S |-> IF x \in T THEN f[x] ELSE 0], S)
<1> DEFINE g == [x \in S |-> IF x \in T THEN f[x] ELSE 0]
           Bad == {U \in SUBSET S : SumFunctionOnSet(f, T \cap U) # SumFunctionOnSet(g, U)}
<1>0. T \cap S = T
  OBVIOUS
<1> SUFFICES ASSUME Bad # {} PROVE FALSE
  BY <1>0
<1>1. \A U \in SUBSET S : IsFiniteSet(U) /\ Cardinality(U) \in Nat /\ IsFiniteSet(T \cap U)
  BY FS_Subset, FS_CardinalityType
<1>2. PICK U \in Bad : \A V \in Bad : Cardinality(U) <= Cardinality(V)
  <2> HIDE DEF Bad
  <2>1. \A V \in Bad : IsFiniteSet(V)
    BY <1>1 DEF Bad
  <2> QED
    BY <2>1, LeastSet
<1>3. U # {}
  <2>1. T \cap {} = {}
    OBVIOUS
  <2> QED
    BY <2>1, SumOfNone
<1> DEFINE x == One(U)
           V == U \ {x}
<1>4. x \in U /\ x \in S
  BY <1>3, OneOfIt
<1>5. Cardinality(V) = Cardinality(U) - 1
  BY <1>1, <1>4, FS_RemoveElement
<1>6. SumFunctionOnSet(g, U) = g[x] + SumFunctionOnSet(g, V)
  BY <1>1, <1>3, SumStep
<1> HIDE DEF x
<1>7. V \in SUBSET S /\ V \notin Bad
  BY <1>1, <1>2, <1>5
<1>8. SumFunctionOnSet(f, T \cap V) = SumFunctionOnSet(g, V)
  BY <1>7
<1>12. SumFunctionOnSet(f, T \cap U) # SumFunctionOnSet(g, U)
  OBVIOUS
<1>9. CASE x \in T
  <2>1. SumFunctionOnSet(f, T \cap U) = f[x] + SumFunctionOnSet(f, (T \cap U) \ {x})
    BY <1>1, <1>4, <1>9, SumTake
  <2>2. (T \cap U) \ {x} = T \cap V /\ g[x] = f[x]
    BY <1>4, <1>9
  <2> HIDE DEF Bad, g, V
  <2> QED
    BY <1>6, <1>8, <1>12, <2>1, <2>2
<1>10. CASE x \notin T
  <2>1. T \cap U = T \cap V /\ g[x] = 0
    BY <1>4, <1>10
  <2>2. SumFunctionOnSet(g, V) \in Nat
    BY <1>1, <1>7, SumIsNat
  <2> HIDE DEF Bad, g, V
  <2> QED
    BY <1>6, <1>8, <1>12, <2>1, <2>2
<1> QED
  BY <1>9, <1>10

\* A sum when one of its terms changes.
(* When one term changes, the sum changes by as much. *)
LEMMA SumChange ==
  ASSUME NEW f, NEW g, NEW S, IsFiniteSet(S), NEW x \in S, g[x] \in Nat,
         \A y \in S : f[y] \in Nat, \A y \in S \ {x} : g[y] = f[y]
  PROVE  /\ SumFunctionOnSet(f, S) \in Nat /\ SumFunctionOnSet(g, S) \in Nat
         /\ SumFunctionOnSet(g, S) = SumFunctionOnSet(f, S) - f[x] + g[x]
         /\ f[x] <= SumFunctionOnSet(f, S)
<1>1. IsFiniteSet(S \ {x}) /\ \A y \in S : g[y] \in Nat
  BY FS_Subset
<1>2. /\ SumFunctionOnSet(f, S) = f[x] + SumFunctionOnSet(f, S \ {x})
      /\ SumFunctionOnSet(g, S) = g[x] + SumFunctionOnSet(g, S \ {x})
  BY <1>1, SumTake
<1>3. SumFunctionOnSet(g, S \ {x}) = SumFunctionOnSet(f, S \ {x})
  BY <1>1, SumAgree
<1>4. SumFunctionOnSet(f, S \ {x}) \in Nat
  BY <1>1, SumIsNat
<1> QED
  BY <1>2, <1>3, <1>4
=============================================================================
