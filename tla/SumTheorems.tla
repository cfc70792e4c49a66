---------------------------- MODULE SumTheorems ----------------------------
(***************************************************************************)
(* Lemmas about sums over finite sets (SumFunctionOnSet of Functions) and  *)
(* the two induction principles they rest on.  What is proved by induction *)
(* is given as the set of the instances for which it holds, so that the    *)
(* principles need no operator as a parameter.                             *)
(***************************************************************************)
EXTENDS Integers, FiniteSets, Functions, FiniteSetTheorems, WellFoundedInduction, TLAPS

(* The order of the natural numbers, for which every set has a least        *)
(* element.                                                                 *)
Less == {pair \in Nat \X Nat : pair[1] < pair[2]}

LEMMA LeastNumber ==
  ASSUME NEW T, T \subseteq Nat, T # {}
  PROVE  \E x \in T : \A y \in T : x <= y
<1>1. IsWellFoundedOn(Less, Nat)
  BY NatLessThanWellFounded, Zenon DEF OpToRel, Less
<1>2. PICK x \in T : \A y \in T : ~ (<<y, x>> \in Less)
  BY <1>1, WFMin, Zenon
<1>3. \A a, b \in Nat : a < b => <<a, b>> \in Less
  BY DEF Less
<1>4. \A y \in T : x <= y
  <2>1. SUFFICES ASSUME NEW y \in T, ~(x <= y) PROVE FALSE
    OBVIOUS
  <2>2. y < x /\ x \in Nat /\ y \in Nat
    BY <2>1
  <2>3. <<y, x>> \in Less
    BY <1>3, <2>2
  <2> QED
    BY <1>2, <2>3
<1> QED
  BY <1>4

(* Induction over the natural numbers.                                      *)
LEMMA NumberInduction ==
  ASSUME NEW P, 0 \in P, \A n \in Nat : n \in P => n + 1 \in P
  PROVE  Nat \subseteq P
<1>1. SUFFICES ASSUME Nat \ P # {} PROVE FALSE
  OBVIOUS
<1>2. PICK n \in Nat \ P : \A m \in Nat \ P : n <= m
  BY <1>1, LeastNumber
<1>3. n # 0 /\ n - 1 \in Nat /\ ~(n <= n - 1)
  BY <1>2
<1>4. n - 1 \in P
  BY <1>2, <1>3
<1>5. (n - 1) + 1 = n
  BY <1>2
<1> QED
  BY <1>2, <1>3, <1>4, <1>5

(* Induction over the subsets of a finite set.                              *)
LEMMA SubsetInduction ==
  ASSUME NEW S, IsFiniteSet(S), NEW P, {} \in P,
         \A s \in SUBSET S : (s # {} /\ \A x \in s : s \ {x} \in P) => s \in P
  PROVE  SUBSET S \subseteq P
<1> DEFINE Fails == {s \in SUBSET S : s \notin P}
           Sizes == {Cardinality(s) : s \in Fails}
<1>1. \A s \in SUBSET S : IsFiniteSet(s) /\ Cardinality(s) \in Nat
  BY FS_Subset, FS_CardinalityType
<1>2. SUFFICES ASSUME Fails # {} PROVE FALSE
  OBVIOUS
<1>3. PICK n \in Sizes : \A m \in Sizes : n <= m
  <2>1. Sizes \subseteq Nat /\ Sizes # {}
    BY <1>1, <1>2
  <2> QED
    BY <2>1, LeastNumber
<1>4. PICK s \in Fails : n = Cardinality(s)
  BY <1>3
<1>5. PICK x \in s : s \ {x} \notin P
  BY <1>4
<1>6. s \ {x} \in Fails /\ Cardinality(s \ {x}) = n - 1 /\ n \in Nat
  BY <1>1, <1>4, <1>5, FS_RemoveElement
<1>7. n - 1 \in Sizes
  BY <1>6
<1> HIDE DEF Sizes
<1> QED
  BY <1>3, <1>6, <1>7

-----------------------------------------------------------------------------
(***************************************************************************)
(* SumFunctionOnSet(f, S) is the value at S of a function on the subsets   *)
(* of S that is defined by recursion: such a function exists, and the      *)
(* equations of the sum follow.                                            *)
(***************************************************************************)

Some(s) == CHOOSE x \in s : TRUE

Sums(f, S, g) ==
  g = [s \in SUBSET S |-> IF s = {} THEN 0 ELSE f[Some(s)] + g[s \ {Some(s)}]]

LEMMA SumIs ==
  ASSUME NEW f, NEW S
  PROVE  SumFunctionOnSet(f, S) = (CHOOSE g : Sums(f, S, g))[S]
BY DEF SumFunctionOnSet, FoldFunctionOnSet, MapThenFoldSet, Sums, Some

LEMMA SomeOf == ASSUME NEW s, s # {} PROVE Some(s) \in s
BY DEF Some

(* Two such functions agree where both are defined.                         *)
LEMMA SumsAgree ==
  ASSUME NEW f, NEW S, NEW T, IsFiniteSet(S), NEW g, NEW h, Sums(f, S, g), Sums(f, T, h),
         NEW U \in SUBSET (S \cap T)
  PROVE  g[U] = h[U]
<1> DEFINE Agree == {u \in SUBSET (S \cap T) : g[u] = h[u]}
<1>1. {} \in Agree
  BY DEF Sums
<1>2. ASSUME NEW u \in SUBSET (S \cap T), u # {}, \A x \in u : u \ {x} \in Agree
      PROVE  u \in Agree
  <2>1. Some(u) \in u
    BY <1>2, SomeOf
  <2>2. g[u \ {Some(u)}] = h[u \ {Some(u)}]
    BY <1>2, <2>1
  <2>3. /\ g[u] = f[Some(u)] + g[u \ {Some(u)}]
        /\ h[u] = f[Some(u)] + h[u \ {Some(u)}]
    BY <1>2 DEF Sums
  <2> QED
    BY <2>2, <2>3
<1>3. IsFiniteSet(S \cap T)
  BY FS_Subset
<1>4. SUBSET (S \cap T) \subseteq Agree
  <2> HIDE DEF Agree
  <2> QED
    BY <1>1, <1>2, <1>3, SubsetInduction
<1> QED
  BY <1>4

(* One exists on every finite set: for a set that lacks one while its        *)
(* smaller subsets have theirs, these can be put together.                   *)
LEMMA SumsExist ==
  ASSUME NEW f, NEW S, IsFiniteSet(S)
  PROVE  \E g : Sums(f, S, g)
<1> DEFINE None == {s \in SUBSET S : ~ \E g : Sums(f, s, g)}
           Sizes == {Cardinality(s) : s \in None}
<1>1. \A s \in SUBSET S : IsFiniteSet(s) /\ Cardinality(s) \in Nat
  BY FS_Subset, FS_CardinalityType
<1>2. SUFFICES ASSUME None # {} PROVE FALSE
  OBVIOUS
<1>3. PICK n \in Sizes : \A m \in Sizes : n <= m
  <2>1. Sizes \subseteq Nat /\ Sizes # {}
    BY <1>1, <1>2
  <2> QED
    BY <2>1, LeastNumber
<1>4. PICK s \in None : n = Cardinality(s)
  BY <1>3
<1> DEFINE G(u) == CHOOSE g : Sums(f, u, g)
<1>5. \A u \in SUBSET s : u # s => Sums(f, u, G(u))
  <2>1. SUFFICES ASSUME NEW u \in SUBSET s, u # s PROVE \E g : Sums(f, u, g)
    OBVIOUS
  <2>2. Cardinality(u) < n
    BY <1>1, <1>4, <2>1, FS_Subset
  <2>3. SUFFICES ASSUME u \in None PROVE FALSE
    BY <2>1
  <2>4. Cardinality(u) \in Sizes
    BY <2>3
  <2> QED
    BY <1>1, <1>3, <1>4, <2>2, <2>4
<1> DEFINE value == [u \in (SUBSET s) \ {s} |-> G(u)[u]]
           whole == IF s = {} THEN 0 ELSE f[Some(s)] + value[s \ {Some(s)}]
           h == [u \in SUBSET s |-> IF u = s THEN whole ELSE value[u]]
<1>6. \A u \in SUBSET s : u # {} => u \ {Some(u)} \in (SUBSET s) \ {s}
  BY SomeOf
<1>7. \A u \in (SUBSET s) \ {s} : u # {} => value[u] = f[Some(u)] + value[u \ {Some(u)}]
  <2>1. SUFFICES ASSUME NEW u \in SUBSET s, u # s, u # {}
                 PROVE  value[u] = f[Some(u)] + value[u \ {Some(u)}]
    OBVIOUS
  <2> DEFINE v == u \ {Some(u)}
  <2>2. Sums(f, u, G(u)) /\ Sums(f, v, G(v))
    BY <1>5, <1>6, <2>1
  <2>3. v \in SUBSET (u \cap v) /\ v \in SUBSET u /\ v \in (SUBSET s) \ {s}
    BY <1>6, <2>1
  <2>4. G(u)[v] = G(v)[v]
    <3>1. IsFiniteSet(u)
      BY <1>1, <2>1
    <3> HIDE DEF G, v
    <3> QED
      BY <2>2, <2>3, <3>1, SumsAgree
  <2>5. G(u)[u] = f[Some(u)] + G(u)[v]
    <3> HIDE DEF G
    <3> QED
      BY <2>1, <2>2 DEF Sums
  <2>6. value[u] = G(u)[u] /\ value[v] = G(v)[v]
    BY <2>1, <2>3
  <2> QED
    BY <2>4, <2>5, <2>6
<1>8. s # {} => value[{}] = 0
  <2>1. SUFFICES ASSUME s # {} PROVE value[{}] = 0
    OBVIOUS
  <2>2. Sums(f, {}, G({}))
    BY <1>5, <2>1
  <2>3. G({})[{}] = 0
    <3> HIDE DEF G
    <3> QED
      BY <2>2 DEF Sums
  <2> QED
    BY <2>1, <2>3
<1>9. h = [u \in SUBSET s |-> IF u = {} THEN 0 ELSE f[Some(u)] + h[u \ {Some(u)}]]
  <2> HIDE DEF value
  <2>1. SUFFICES ASSUME NEW u \in SUBSET s
                 PROVE  h[u] = IF u = {} THEN 0 ELSE f[Some(u)] + h[u \ {Some(u)}]
    OBVIOUS
  <2>2. CASE u = {}
    BY <1>8, <2>2
  <2>3. CASE u # {}
    <3>1. u \ {Some(u)} \in SUBSET s /\ u \ {Some(u)} # s
      BY <1>6, <2>1, <2>3
    <3>2. h[u \ {Some(u)}] = value[u \ {Some(u)}]
      BY <3>1
    <3>3. CASE u = s
      BY <2>3, <3>2, <3>3
    <3>4. CASE u # s
      BY <1>7, <2>3, <3>2, <3>4
    <3> QED
      BY <3>3, <3>4
  <2> QED
    BY <2>2, <2>3
<1>10. Sums(f, s, h)
  <2> HIDE DEF h
  <2> QED
    BY <1>9 DEF Sums
<1> QED
  BY <1>4, <1>10

LEMMA SumsChosen ==
  ASSUME NEW f, NEW S, IsFiniteSet(S)
  PROVE  Sums(f, S, CHOOSE g : Sums(f, S, g))
BY SumsExist

LEMMA SumEmpty == ASSUME NEW f PROVE SumFunctionOnSet(f, {}) = 0
<1> DEFINE g == CHOOSE h : Sums(f, {}, h)
<1>1. Sums(f, {}, g)
  BY SumsChosen, FS_EmptySet
<1>2. SumFunctionOnSet(f, {}) = g[{}]
  BY SumIs
<1> HIDE DEF g
<1> QED
  BY <1>1, <1>2 DEF Sums

LEMMA SumSome ==
  ASSUME NEW f, NEW S, IsFiniteSet(S), S # {}
  PROVE  SumFunctionOnSet(f, S)
           = f[Some(S)] + SumFunctionOnSet(f, S \ {Some(S)})
<1> DEFINE T == S \ {Some(S)}
           g == CHOOSE k : Sums(f, S, k)
           h == CHOOSE k : Sums(f, T, k)
<1>1. T \in SUBSET S /\ T \in SUBSET (S \cap T) /\ IsFiniteSet(T)
  BY FS_Subset
<1>2. Sums(f, S, g) /\ Sums(f, T, h)
  BY <1>1, SumsChosen
<1>3. SumFunctionOnSet(f, S) = g[S] /\ SumFunctionOnSet(f, T) = h[T]
  BY SumIs
<1> HIDE DEF g, h, T
<1>4. g[T] = h[T]
  BY <1>1, <1>2, SumsAgree
<1>5. g[S] = f[Some(S)] + g[T]
  BY <1>2 DEF Sums, T
<1> QED
  BY <1>3, <1>4, <1>5 DEF T

(* What holds of the empty sum, and of a set when it holds of the set        *)
(* without one chosen element, holds of every subset.                        *)
LEMMA SumInduction ==
  ASSUME NEW S, IsFiniteSet(S), NEW P, {} \in P,
         \A s \in SUBSET S : (s # {} /\ s \ {Some(s)} \in P) => s \in P
  PROVE  S \in P
<1>1. \A s \in SUBSET S : (s # {} /\ \A x \in s : s \ {x} \in P) => s \in P
  BY SomeOf
<1> QED
  BY <1>1, SubsetInduction

(* A sum of integers is an integer, of natural numbers a natural number.    *)
LEMMA SumType ==
  ASSUME NEW f, NEW S, IsFiniteSet(S), \A x \in S : f[x] \in Int
  PROVE  /\ SumFunctionOnSet(f, S) \in Int
         /\ (\A x \in S : f[x] >= 0) => SumFunctionOnSet(f, S) >= 0
<1> DEFINE P == {s \in SUBSET S :
                   /\ SumFunctionOnSet(f, s) \in Int
                   /\ (\A x \in s : f[x] >= 0) => SumFunctionOnSet(f, s) >= 0}
<1>1. {} \in P
  BY SumEmpty
<1>2. ASSUME NEW s \in SUBSET S, s # {}, s \ {Some(s)} \in P PROVE s \in P
  <2>1. Some(s) \in s /\ f[Some(s)] \in Int
    BY <1>2, SomeOf
  <2>2. IsFiniteSet(s)
    BY FS_Subset
  <2>3. SumFunctionOnSet(f, s) = f[Some(s)] + SumFunctionOnSet(f, s \ {Some(s)})
    BY <1>2, <2>2, SumSome
  <2> QED
    BY <1>2, <2>1, <2>3
<1> HIDE DEF P
<1>3. S \in P
  BY <1>1, <1>2, SumInduction
<1> QED
  BY <1>3 DEF P

(* Whatever element is taken out, the sum is its value and the rest.        *)
LEMMA SumTake ==
  ASSUME NEW f, NEW S, IsFiniteSet(S), \A x \in S : f[x] \in Int, NEW x \in S
  PROVE  SumFunctionOnSet(f, S) = f[x] + SumFunctionOnSet(f, S \ {x})
<1> DEFINE P == {s \in SUBSET S : \A y \in s :
                   SumFunctionOnSet(f, s) = f[y] + SumFunctionOnSet(f, s \ {y})}
<1>1. {} \in P
  OBVIOUS
<1>2. ASSUME NEW s \in SUBSET S, s # {}, \A y \in s : s \ {y} \in P PROVE s \in P
  <2> SUFFICES ASSUME NEW y \in s
               PROVE  SumFunctionOnSet(f, s) = f[y] + SumFunctionOnSet(f, s \ {y})
    OBVIOUS
  <2> DEFINE z == Some(s)
             v == s \ {y, z}
  <2>1. z \in s /\ IsFiniteSet(s) /\ IsFiniteSet(v) /\ v \in SUBSET S
    BY <1>2, SomeOf, FS_Subset
  <2>2. SumFunctionOnSet(f, s) = f[z] + SumFunctionOnSet(f, s \ {z})
    BY <1>2, <2>1, SumSome
  <2>3. CASE y # z
    <3>1. s \ {z} \in P /\ s \ {y} \in P
      BY <1>2, <2>1
    <3>2. y \in s \ {z} /\ z \in s \ {y} /\ (s \ {z}) \ {y} = v /\ (s \ {y}) \ {z} = v
      BY <2>1, <2>3
    <3>3. /\ SumFunctionOnSet(f, s \ {z}) = f[y] + SumFunctionOnSet(f, v)
          /\ SumFunctionOnSet(f, s \ {y}) = f[z] + SumFunctionOnSet(f, v)
      <4> HIDE DEF v, z
      <4> QED
        BY <3>1, <3>2
    <3>4. SumFunctionOnSet(f, v) \in Int /\ f[y] \in Int /\ f[z] \in Int
      <4> HIDE DEF v
      <4> QED
        BY <2>1, SumType
    <3> QED
      BY <2>2, <3>3, <3>4
  <2> QED
    BY <2>2, <2>3
<1> HIDE DEF P
<1>3. SUBSET S \subseteq P
  BY <1>1, <1>2, SubsetInduction
<1> QED
  BY <1>3 DEF P

(* A sum depends on the values of the set's elements alone.                 *)
LEMMA SumSame ==
  ASSUME NEW f, NEW g, NEW S, IsFiniteSet(S), \A x \in S : f[x] = g[x]
  PROVE  SumFunctionOnSet(f, S) = SumFunctionOnSet(g, S)
<1> DEFINE P == {s \in SUBSET S : SumFunctionOnSet(f, s) = SumFunctionOnSet(g, s)}
<1>1. {} \in P
  BY SumEmpty
<1>2. ASSUME NEW s \in SUBSET S, s # {}, s \ {Some(s)} \in P PROVE s \in P
  <2>1. Some(s) \in s /\ IsFiniteSet(s)
    BY <1>2, SomeOf, FS_Subset
  <2>2. /\ SumFunctionOnSet(f, s) = f[Some(s)] + SumFunctionOnSet(f, s \ {Some(s)})
        /\ SumFunctionOnSet(g, s) = g[Some(s)] + SumFunctionOnSet(g, s \ {Some(s)})
    BY <1>2, <2>1, SumSome
  <2> QED
    BY <1>2, <2>1, <2>2
<1> HIDE DEF P
<1>3. S \in P
  BY <1>1, <1>2, SumInduction
<1> QED
  BY <1>3 DEF P

(* Larger values have a larger sum.                                         *)
LEMMA SumAtMost ==
  ASSUME NEW f, NEW g, NEW S, IsFiniteSet(S),
         \A x \in S : f[x] \in Int /\ g[x] \in Int /\ f[x] <= g[x]
  PROVE  SumFunctionOnSet(f, S) <= SumFunctionOnSet(g, S)
<1> DEFINE P == {s \in SUBSET S : SumFunctionOnSet(f, s) <= SumFunctionOnSet(g, s)}
<1>1. {} \in P
  BY SumEmpty
<1>2. ASSUME NEW s \in SUBSET S, s # {}, s \ {Some(s)} \in P PROVE s \in P
  <2> DEFINE t == s \ {Some(s)}
  <2>1. Some(s) \in s /\ IsFiniteSet(s) /\ t \in SUBSET S /\ IsFiniteSet(t)
    BY <1>2, SomeOf, FS_Subset
  <2>2. /\ SumFunctionOnSet(f, s) = f[Some(s)] + SumFunctionOnSet(f, t)
        /\ SumFunctionOnSet(g, s) = g[Some(s)] + SumFunctionOnSet(g, t)
    BY <1>2, <2>1, SumSome
  <2>3. SumFunctionOnSet(f, t) \in Int /\ SumFunctionOnSet(g, t) \in Int
    <3> HIDE DEF t
    <3> QED
      BY <2>1, SumType
  <2>4. SumFunctionOnSet(f, t) <= SumFunctionOnSet(g, t)
    BY <1>2
  <2> HIDE DEF t
  <2>5. f[Some(s)] \in Int /\ g[Some(s)] \in Int /\ f[Some(s)] <= g[Some(s)]
    BY <2>1
  <2> QED
    BY <2>2, <2>3, <2>4, <2>5
<1> HIDE DEF P
<1>3. S \in P
  BY <1>1, <1>2, SumInduction
<1> QED
  BY <1>3 DEF P

(* Two sums that differ in one value differ by as much.                     *)
LEMMA SumChange ==
  ASSUME NEW f, NEW g, NEW S, IsFiniteSet(S), NEW x \in S, g[x] \in Int,
         \A y \in S : f[y] \in Int, \A y \in S \ {x} : g[y] = f[y]
  PROVE  SumFunctionOnSet(g, S) = SumFunctionOnSet(f, S) - f[x] + g[x]
<1>1. \A y \in S : g[y] \in Int
  OBVIOUS
<1>2. IsFiniteSet(S \ {x})
  BY FS_Subset
<1>3. /\ SumFunctionOnSet(f, S) = f[x] + SumFunctionOnSet(f, S \ {x})
      /\ SumFunctionOnSet(g, S) = g[x] + SumFunctionOnSet(g, S \ {x})
  BY <1>1, SumTake
<1>4. SumFunctionOnSet(g, S \ {x}) = SumFunctionOnSet(f, S \ {x})
  BY <1>2, SumSame
<1>5. SumFunctionOnSet(f, S \ {x}) \in Int
  BY <1>2, SumType
<1> QED
  BY <1>3, <1>4, <1>5

(* A sum of zeros is zero.                                                  *)
LEMMA SumZero ==
  ASSUME NEW f, NEW S, IsFiniteSet(S), \A x \in S : f[x] = 0
  PROVE  SumFunctionOnSet(f, S) = 0
<1> DEFINE P == {s \in SUBSET S : SumFunctionOnSet(f, s) = 0}
<1>1. {} \in P
  BY SumEmpty
<1>2. ASSUME NEW s \in SUBSET S, s # {}, s \ {Some(s)} \in P PROVE s \in P
  <2>1. Some(s) \in s /\ IsFiniteSet(s)
    BY <1>2, SomeOf, FS_Subset
  <2>2. SumFunctionOnSet(f, s) = f[Some(s)] + SumFunctionOnSet(f, s \ {Some(s)})
    BY <1>2, <2>1, SumSome
  <2> QED
    BY <1>2, <2>1, <2>2
<1> HIDE DEF P
<1>3. S \in P
  BY <1>1, <1>2, SumInduction
<1> QED
  BY <1>3 DEF P

(* A sum is that over a part of the set and that over the others.           *)
LEMMA SumSplit ==
  ASSUME NEW T, IsFiniteSet(T), NEW U \in SUBSET T, NEW g, \A k \in T : g[k] \in Int
  PROVE  SumFunctionOnSet(g, T) = SumFunctionOnSet(g, U) + SumFunctionOnSet(g, T \ U)
<1> DEFINE In(s) == SumFunctionOnSet(g, s \cap U)
           Out(s) == SumFunctionOnSet(g, s \ U)
           P == {s \in SUBSET T : SumFunctionOnSet(g, s) = In(s) + Out(s)}
<1>1. {} \in P
  <2>1. {} \cap U = {} /\ {} \ U = {}
    OBVIOUS
  <2> QED
    BY <2>1, SumEmpty
<1>2. ASSUME NEW s \in SUBSET T, s # {}, s \ {Some(s)} \in P PROVE s \in P
  <2> DEFINE z == Some(s)
             t == s \ {z}
  <2>1. z \in s /\ IsFiniteSet(s) /\ IsFiniteSet(t) /\ g[z] \in Int
    BY <1>2, SomeOf, FS_Subset
  <2>2. SumFunctionOnSet(g, s) = g[z] + SumFunctionOnSet(g, t)
    BY <1>2, <2>1, SumSome
  <2>3. /\ IsFiniteSet(s \cap U) /\ IsFiniteSet(t \cap U)
        /\ IsFiniteSet(s \ U) /\ IsFiniteSet(t \ U)
    BY <2>1, FS_Subset
  <2>4. In(t) \in Int /\ Out(t) \in Int
    <3>1. (\A x \in t \cap U : g[x] \in Int) /\ (\A x \in t \ U : g[x] \in Int)
      OBVIOUS
    <3> HIDE DEF t
    <3> QED
      BY <2>3, <3>1, SumType
  <2>5. CASE z \in U
    <3>1. (s \cap U) \ {z} = t \cap U /\ z \in s \cap U /\ s \ U = t \ U
      BY <2>1, <2>5
    <3> HIDE DEF t, z
    <3>2. \A x \in s \cap U : g[x] \in Int
      OBVIOUS
    <3>3. In(s) = g[z] + In(t)
      BY <2>3, <3>1, <3>2, SumTake
    <3>4. Out(s) = Out(t)
      BY <3>1
    <3>5. SumFunctionOnSet(g, t) = In(t) + Out(t)
      BY <1>2 DEF t, z
    <3> HIDE DEF In, Out
    <3>6. SumFunctionOnSet(g, s) = In(s) + Out(s)
      BY <2>1, <2>2, <2>4, <3>3, <3>4, <3>5
    <3> QED
      BY <3>6
  <2>6. CASE z \notin U
    <3>1. (s \ U) \ {z} = t \ U /\ z \in s \ U /\ s \cap U = t \cap U
      BY <2>1, <2>6
    <3> HIDE DEF t, z
    <3>2. \A x \in s \ U : g[x] \in Int
      OBVIOUS
    <3>3. Out(s) = g[z] + Out(t)
      BY <2>3, <3>1, <3>2, SumTake
    <3>4. In(s) = In(t)
      BY <3>1
    <3>5. SumFunctionOnSet(g, t) = In(t) + Out(t)
      BY <1>2 DEF t, z
    <3> HIDE DEF In, Out
    <3>6. SumFunctionOnSet(g, s) = In(s) + Out(s)
      BY <2>1, <2>2, <2>4, <3>3, <3>4, <3>5
    <3> QED
      BY <3>6
  <2> QED
    BY <2>5, <2>6
<1>3. T \in P
  <2> HIDE DEF P
  <2> QED
    BY <1>1, <1>2, SumInduction
<1>4. T \cap U = U
  OBVIOUS
<1> QED
  BY <1>3, <1>4

(* The sum over a part of the set is at most the sum over the set.          *)
LEMMA SumPart ==
  ASSUME NEW T, IsFiniteSet(T), NEW U \in SUBSET T, NEW g,
         \A k \in T : g[k] \in Int /\ g[k] >= 0
  PROVE  SumFunctionOnSet(g, U) <= SumFunctionOnSet(g, T)
<1>1. IsFiniteSet(U) /\ IsFiniteSet(T \ U)
  BY FS_Subset
<1>2. (\A k \in T \ U : g[k] \in Int /\ g[k] >= 0) /\ (\A k \in U : g[k] \in Int)
  OBVIOUS
<1>3. /\ SumFunctionOnSet(g, U) \in Int
      /\ SumFunctionOnSet(g, T \ U) \in Int /\ SumFunctionOnSet(g, T \ U) >= 0
  BY <1>1, <1>2, SumType
<1>4. SumFunctionOnSet(g, T) = SumFunctionOnSet(g, U) + SumFunctionOnSet(g, T \ U)
  BY SumSplit
<1> QED
  BY <1>3, <1>4

(* Two sets, one renaming the other: if r sends the elements of S to         *)
(* different elements of T and every value of S is found again there, the    *)
(* sum over S is at most that over T.                                        *)
LEMMA SumInjects ==
  ASSUME NEW S, NEW T, IsFiniteSet(S), IsFiniteSet(T), NEW r \in [S -> T],
         \A x, y \in S : r[x] = r[y] => x = y,
         NEW f, NEW g, \A x \in S : f[x] \in Int /\ f[x] <= g[r[x]],
         \A k \in T : g[k] \in Int /\ g[k] >= 0
  PROVE  SumFunctionOnSet(f, S) <= SumFunctionOnSet(g, T)
<1> DEFINE P == {s \in SUBSET S :
                   SumFunctionOnSet(f, s) <= SumFunctionOnSet(g, {r[x] : x \in s})}
<1>1. {} \in P
  <2>1. {r[x] : x \in {}} = {}
    OBVIOUS
  <2> QED
    BY <2>1, SumEmpty
<1>2. ASSUME NEW s \in SUBSET S, s # {}, s \ {Some(s)} \in P PROVE s \in P
  <2> DEFINE t == s \ {Some(s)}
             R(u) == {r[x] : x \in u}
  <2>1. Some(s) \in s /\ IsFiniteSet(s) /\ t \in SUBSET S /\ IsFiniteSet(t)
    BY <1>2, SomeOf, FS_Subset
  <2>2. SumFunctionOnSet(f, s) = f[Some(s)] + SumFunctionOnSet(f, t)
    BY <1>2, <2>1, SumSome
  <2>3. R(s) \subseteq T /\ r[Some(s)] \in R(s) /\ R(s) \ {r[Some(s)]} = R(t)
    BY <2>1
  <2>4. IsFiniteSet(R(s)) /\ IsFiniteSet(R(t)) /\ R(t) \subseteq T
    BY <2>3, FS_Subset
  <2>5. SumFunctionOnSet(g, R(s)) = g[r[Some(s)]] + SumFunctionOnSet(g, R(t))
    <3>1. SumFunctionOnSet(g, R(s)) = g[r[Some(s)]] + SumFunctionOnSet(g, R(s) \ {r[Some(s)]})
      <4> HIDE DEF R
      <4> QED
        BY <2>3, <2>4, SumTake
    <3> HIDE DEF R
    <3> QED
      BY <2>3, <3>1
  <2>6. SumFunctionOnSet(f, t) <= SumFunctionOnSet(g, R(t))
    BY <1>2
  <2>7. SumFunctionOnSet(f, t) \in Int /\ SumFunctionOnSet(g, R(t)) \in Int
    <3> HIDE DEF t, R
    <3> QED
      BY <2>1, <2>4, SumType
  <2>8. f[Some(s)] \in Int /\ f[Some(s)] <= g[r[Some(s)]] /\ g[r[Some(s)]] \in Int
    BY <2>1
  <2>9. SumFunctionOnSet(f, s) <= SumFunctionOnSet(g, R(s))
    <3> HIDE DEF t, R
    <3> QED
      BY <2>2, <2>5, <2>6, <2>7, <2>8
  <2> QED
    BY <2>9
<1>3. S \in P
  <2> HIDE DEF P
  <2> QED
    BY <1>1, <1>2, SumInduction
<1> DEFINE U == {r[x] : x \in S}
<1>4. SumFunctionOnSet(f, S) <= SumFunctionOnSet(g, U) /\ U \subseteq T
  BY <1>3
<1> HIDE DEF U
<1>5. SumFunctionOnSet(g, U) <= SumFunctionOnSet(g, T)
  BY <1>4, SumPart
<1>6. /\ SumFunctionOnSet(f, S) \in Int
      /\ SumFunctionOnSet(g, U) \in Int
      /\ SumFunctionOnSet(g, T) \in Int
  <2>1. IsFiniteSet(U)
    BY <1>4, FS_Subset
  <2> QED
    BY <1>4, <2>1, SumType
<1> QED
  BY <1>4, <1>5, <1>6

=============================================================================
