----------------------------- MODULE SumLemmas -----------------------------
(***************************************************************************)
(* Induction, and sums over finite sets: SumFunctionOnSet of the community *)
(* modules, which adds in an order of CHOOSE's own, adds in any order.     *)
(*                                                                         *)
(* Induction (CountingUp) is on sets of natural numbers: that the order of *)
(* the naturals is well-founded is a theorem of the library, and so is     *)
(* that a set of them then has a minimal element.                          *)
(***************************************************************************)
EXTENDS Integers, FiniteSets, FiniteSetsExt, Functions, FiniteSetTheorems, TLAPS

NatLess == OpToRel(<, Nat)

(* Some natural numbers have a least one among them.                        *)
LEMMA LeastOf ==
    ASSUME NEW T \in SUBSET Nat, T # {}
    PROVE  \E x \in T : \A y \in T : x <= y
<1>1. IsWellFoundedOn(NatLess, Nat)
  BY NatLessThanWellFounded DEF NatLess
<1>2. PICK x \in T : \A y \in T : ~(<<y, x>> \in NatLess)
  BY <1>1, WFMin
<1>3. \A m, n \in Nat : m < n => <<m, n>> \in NatLess
  BY DEF NatLess, OpToRel
<1>4. ASSUME NEW y \in T
      PROVE  x <= y
  <2>1. x \in Nat /\ y \in Nat /\ ~(y < x)
    BY <1>2, <1>3
  <2>q. QED
    BY <2>1
<1>q. QED
  BY <1>4

(* Min, and Max of a finite set, are in the set.                            *)
LEMMA MinIn ==
    ASSUME NEW T \in SUBSET Nat, T # {}
    PROVE  Min(T) \in T /\ \A y \in T : Min(T) <= y
BY LeastOf DEF Min

(* A set that contains 0, and n + 1 with n, contains every natural number.  *)
LEMMA CountingUp ==
    ASSUME NEW T, 0 \in T, \A n \in Nat : n \in T => n + 1 \in T
    PROVE  \A n \in Nat : n \in T
<1> SUFFICES ASSUME Nat \ T # {}
             PROVE  FALSE
  OBVIOUS
<1>1. PICK x \in Nat \ T : \A y \in Nat \ T : x <= y
  BY LeastOf
<1>2. x # 0 /\ x - 1 \in Nat /\ (x - 1) + 1 = x
  BY <1>1
<1>3. x - 1 \notin T
  BY <1>2
<1>q. QED
  BY <1>1, <1>2, <1>3

(* The subsets of at most n elements: induction on finite sets counts n up. *)
Smaller(S, n) == {s \in SUBSET S : Cardinality(s) <= n}

(* A nonempty finite set of natural numbers has a greatest element, by      *)
(* counting up its subsets, and Max is it.                                  *)
LEMMA MaxIn ==
    ASSUME NEW S \in SUBSET Nat, S # {}, IsFiniteSet(S)
    PROVE  Max(S) \in S /\ \A y \in S : Max(S) >= y
<1> DEFINE T == {n \in Nat : \A s \in Smaller(S, n) :
                    s # {} => \E x \in s : \A y \in s : x >= y}
<1>0. \A s \in SUBSET S : IsFiniteSet(s) /\ Cardinality(s) \in Nat
  BY FS_Subset, FS_CardinalityType
<1>1. 0 \in T
  <2>1. \A s \in Smaller(S, 0) : s = {}
    BY <1>0, FS_EmptySet DEF Smaller
  <2>q. QED
    BY <2>1
<1>2. ASSUME NEW n \in Nat, n \in T
      PROVE  n + 1 \in T
  <2>1. ASSUME NEW s \in Smaller(S, n + 1), NEW x \in s
        PROVE  \E z \in s : \A y \in s : z >= y
    <3>1. s \in SUBSET S
      BY DEF Smaller
    <3>2. s \ {x} \in Smaller(S, n)
      BY <1>0, <3>1, FS_RemoveElement DEF Smaller
    <3>3. CASE s \ {x} = {}
      BY <3>1, <3>3
    <3>4. CASE s \ {x} # {}
      <4>1. PICK z \in s \ {x} : \A y \in s \ {x} : z >= y
        BY <1>2, <3>2, <3>4
      <4>2. x \in Nat /\ z \in Nat /\ \A y \in s : y \in Nat
        BY <3>1
      <4>3. CASE z >= x
        BY <4>1, <4>3
      <4>4. CASE x >= z
        BY <4>1, <4>2, <4>4
      <4>q. QED
        BY <4>2, <4>3, <4>4
    <3>q. QED
      BY <3>3, <3>4
  <2>q. QED
    BY <2>1
<1> HIDE DEF T
<1>3. Cardinality(S) \in T /\ S \in Smaller(S, Cardinality(S))
  BY <1>0, <1>1, <1>2, CountingUp DEF Smaller
<1>4. \E x \in S : \A y \in S : x >= y
  BY <1>3 DEF T
<1>q. QED
  BY <1>4 DEF Max

-----------------------------------------------------------------------------
(* g sums f over the subsets of S, as the fold does.                        *)
Pick(s) == CHOOSE x \in s : TRUE
SumOf(f, g, s) == IF s = {} THEN 0 ELSE f[Pick(s)] + g[s \ {Pick(s)}]
SumsUp(f, S, g) == g = [s \in SUBSET S |-> SumOf(f, g, s)]
(* The same on the small subsets only.                                      *)
SumsUpTo(f, S, n, g) == g = [s \in Smaller(S, n) |-> SumOf(f, g, s)]

(* What is picked is in the set, and the rest is smaller.                   *)
LEMMA PickOne ==
    ASSUME NEW s, IsFiniteSet(s), s # {}
    PROVE  /\ Pick(s) \in s
           /\ IsFiniteSet(s \ {Pick(s)})
           /\ Cardinality(s) \in Nat /\ Cardinality(s) > 0
           /\ Cardinality(s \ {Pick(s)}) = Cardinality(s) - 1
<1>1. Pick(s) \in s
  BY DEF Pick
<1>2. Cardinality(s) \in Nat /\ Cardinality(s) # 0
  BY FS_CardinalityType, FS_EmptySet
<1>q. QED
  BY <1>1, <1>2, FS_RemoveElement

(* Such a function exists.                                                  *)
LEMMA SumsExist ==
    ASSUME NEW S, IsFiniteSet(S), NEW f
    PROVE  \E g : SumsUp(f, S, g)
<1> DEFINE T == {n \in Nat : \E g : SumsUpTo(f, S, n, g)}
<1>1. 0 \in T
  <2> DEFINE g == [s \in Smaller(S, 0) |-> 0]
  <2>1. \A s \in Smaller(S, 0) : s = {}
    BY FS_Subset, FS_EmptySet, FS_CardinalityType DEF Smaller
  <2>2. SumsUpTo(f, S, 0, g)
    BY <2>1 DEF SumsUpTo, SumOf
  <2>q. QED
    BY <2>2
<1>2. ASSUME NEW n \in Nat, n \in T
      PROVE  n + 1 \in T
  <2>1. PICK g : SumsUpTo(f, S, n, g)
    BY <1>2
  <2> DEFINE h == [s \in Smaller(S, n + 1) |-> SumOf(f, g, s)]
  <2>2. ASSUME NEW s \in Smaller(S, n)
        PROVE  s \in Smaller(S, n + 1) /\ h[s] = g[s]
    <3>1. s \in Smaller(S, n + 1)
      BY FS_Subset, FS_CardinalityType DEF Smaller
    <3>2. g[s] = SumOf(f, g, s)
      BY <2>1 DEF SumsUpTo
    <3>q. QED
      BY <3>1, <3>2
  <2>3. ASSUME NEW s \in Smaller(S, n + 1), s # {}
        PROVE  s \ {Pick(s)} \in Smaller(S, n)
    BY <2>3, PickOne, FS_Subset DEF Smaller
  <2>4. \A s \in Smaller(S, n + 1) : SumOf(f, h, s) = SumOf(f, g, s)
    <3> HIDE DEF h
    <3>q. QED
      BY <2>2, <2>3 DEF SumOf
  <2>5. SumsUpTo(f, S, n + 1, h)
    BY <2>4 DEF SumsUpTo
  <2> HIDE DEF h
  <2>q. QED
    BY <2>5
<1>3. Cardinality(S) \in Nat
  BY FS_CardinalityType
<1> HIDE DEF T
<1>4. Cardinality(S) \in T
  BY <1>1, <1>2, <1>3, CountingUp
<1>5. Smaller(S, Cardinality(S)) = SUBSET S
  BY FS_Subset DEF Smaller
<1>q. QED
  BY <1>4, <1>5 DEF T, SumsUpTo, SumsUp

(* And the fold is its value.                                               *)
LEMMA SumUnfolds ==
    ASSUME NEW S, IsFiniteSet(S), NEW f
    PROVE  \E g : SumsUp(f, S, g) /\ SumFunctionOnSet(f, S) = g[S]
<1> DEFINE g == CHOOSE g : g = [s \in SUBSET S |->
                    IF s = {} THEN 0
                    ELSE f[CHOOSE x \in s : TRUE]
                            + g[s \ {CHOOSE x \in s : TRUE}]]
<1>1. PICK h : SumsUp(f, S, h)
  BY SumsExist
<1>2. g = [s \in SUBSET S |->
                    IF s = {} THEN 0
                    ELSE f[CHOOSE x \in s : TRUE]
                            + g[s \ {CHOOSE x \in s : TRUE}]]
  <2> DEFINE Is(k) == k = [s \in SUBSET S |->
                    IF s = {} THEN 0
                    ELSE f[CHOOSE x \in s : TRUE]
                            + k[s \ {CHOOSE x \in s : TRUE}]]
  <2>1. Is(h)
    BY <1>1 DEF SumsUp, SumOf, Pick
  <2>2. g = CHOOSE k : Is(k)
    OBVIOUS
  <2>3. Is(CHOOSE k : Is(k))
    <3> HIDE DEF Is
    <3>q. QED
      BY <2>1
  <2>q. QED
    BY <2>2, <2>3
<1>3. SumFunctionOnSet(f, S) = g[S]
  BY DEF SumFunctionOnSet, FoldFunctionOnSet, MapThenFoldSet
<1> HIDE DEF g
<1>q. QED
  BY <1>2, <1>3 DEF SumsUp, SumOf, Pick

(* Sums of what agrees on a set agree there, whatever they sum beyond it.   *)
LEMMA SumsAgree ==
    ASSUME NEW S, IsFiniteSet(S), NEW T \in SUBSET S,
           NEW f, NEW h, \A x \in T : f[x] = h[x],
           NEW g, SumsUp(f, S, g), NEW k, SumsUp(h, T, k)
    PROVE  \A s \in SUBSET T : g[s] = k[s]
<1> DEFINE U == {n \in Nat : \A s \in Smaller(T, n) : g[s] = k[s]}
<1>0. \A s \in SUBSET T : /\ IsFiniteSet(s) /\ Cardinality(s) \in Nat
                          /\ g[s] = SumOf(f, g, s) /\ k[s] = SumOf(h, k, s)
  BY FS_Subset, FS_CardinalityType DEF SumsUp
<1>1. 0 \in U
  <2>1. \A s \in Smaller(T, 0) : s = {}
    BY <1>0, FS_EmptySet DEF Smaller
  <2>q. QED
    BY <1>0, <2>1 DEF SumOf
<1>2. ASSUME NEW n \in Nat, n \in U
      PROVE  n + 1 \in U
  <2>1. ASSUME NEW s \in Smaller(T, n + 1)
        PROVE  g[s] = k[s]
    <3>1. s \in SUBSET T
      BY DEF Smaller
    <3>2. CASE s = {}
      BY <1>0, <3>1, <3>2 DEF SumOf
    <3>3. CASE s # {}
      <4>1. Pick(s) \in T /\ s \ {Pick(s)} \in Smaller(T, n)
        BY <1>0, <3>1, <3>3, PickOne DEF Smaller
      <4>2. g[s \ {Pick(s)}] = k[s \ {Pick(s)}] /\ f[Pick(s)] = h[Pick(s)]
        BY <1>2, <4>1
      <4>q. QED
        BY <1>0, <3>1, <3>3, <4>2 DEF SumOf
    <3>q. QED
      BY <3>2, <3>3
  <2>q. QED
    BY <2>1
<1> HIDE DEF U
<1>3. \A n \in Nat : n \in U
  BY <1>1, <1>2, CountingUp
<1>q. QED
  BY <1>0, <1>3 DEF U, Smaller

(* The sums of natural numbers are natural numbers.                         *)
LEMMA SumsAreNat ==
    ASSUME NEW S, IsFiniteSet(S), NEW f, \A x \in S : f[x] \in Nat,
           NEW g, SumsUp(f, S, g)
    PROVE  \A s \in SUBSET S : g[s] \in Nat
<1> DEFINE U == {n \in Nat : \A s \in Smaller(S, n) : g[s] \in Nat}
<1>0. \A s \in SUBSET S : IsFiniteSet(s) /\ Cardinality(s) \in Nat
  BY FS_Subset, FS_CardinalityType
<1>s. \A s \in SUBSET S : g[s] = SumOf(f, g, s)
  BY DEF SumsUp
<1>1. 0 \in U
  <2>1. \A s \in Smaller(S, 0) : s = {}
    BY <1>0, FS_EmptySet DEF Smaller
  <2>2. g[{}] = 0
    BY <1>s DEF SumOf
  <2>3. ASSUME NEW s \in Smaller(S, 0)
        PROVE  g[s] \in Nat
    <3>1. s = {}
      BY <2>1
    <3>q. QED
      BY <2>2, <3>1
  <2>q. QED
    BY <2>3
<1>2. ASSUME NEW n \in Nat, n \in U
      PROVE  n + 1 \in U
  <2>1. ASSUME NEW s \in Smaller(S, n + 1)
        PROVE  g[s] \in Nat
    <3>1. s \in SUBSET S
      BY DEF Smaller
    <3>2. CASE s = {}
      BY <1>s, <3>1, <3>2 DEF SumOf
    <3>3. CASE s # {}
      <4>1. Pick(s) \in S /\ s \ {Pick(s)} \in Smaller(S, n)
        BY <1>0, <3>1, <3>3, PickOne DEF Smaller
      <4>2. g[s \ {Pick(s)}] \in Nat /\ f[Pick(s)] \in Nat
        BY <1>2, <4>1
      <4>3. g[s] = f[Pick(s)] + g[s \ {Pick(s)}]
        BY <1>s, <3>1, <3>3 DEF SumOf
      <4>q. QED
        BY <4>2, <4>3
    <3>q. QED
      BY <3>2, <3>3
  <2>q. QED
    BY <2>1
<1> HIDE DEF U
<1>3. \A n \in Nat : n \in U
  BY <1>1, <1>2, CountingUp
<1>q. QED
  <2> SUFFICES ASSUME NEW s \in SUBSET S
               PROVE  g[s] \in Nat
    OBVIOUS
  <2>1. Cardinality(s) \in U /\ s \in Smaller(S, Cardinality(s))
    BY <1>0, <1>3 DEF Smaller
  <2>q. QED
    BY <2>1 DEF U

(* Any element may be added last.                                           *)
LEMMA AnyLast ==
    ASSUME NEW S, IsFiniteSet(S), NEW f, \A x \in S : f[x] \in Nat,
           NEW g, SumsUp(f, S, g)
    PROVE  \A s \in SUBSET S : \A x \in s : g[s] = f[x] + g[s \ {x}]
<1> DEFINE U == {n \in Nat : \A s \in Smaller(S, n) : \A x \in s :
                                g[s] = f[x] + g[s \ {x}]}
<1>0. \A s \in SUBSET S : /\ IsFiniteSet(s) /\ Cardinality(s) \in Nat
                          /\ g[s] = SumOf(f, g, s) /\ g[s] \in Nat
  BY FS_Subset, FS_CardinalityType, SumsAreNat DEF SumsUp
<1>1. 0 \in U
  BY <1>0, FS_EmptySet DEF Smaller
<1>2. ASSUME NEW n \in Nat, n \in U
      PROVE  n + 1 \in U
  <2>1. ASSUME NEW s \in Smaller(S, n + 1), NEW x \in s
        PROVE  g[s] = f[x] + g[s \ {x}]
    <3>1. s \in SUBSET S /\ s # {} /\ Cardinality(s) <= n + 1
      BY DEF Smaller
    <3> DEFINE y == Pick(s)
    <3>2. y \in s /\ g[s] = f[y] + g[s \ {y}]
      BY <1>0, <3>1, PickOne DEF SumOf
    <3> HIDE DEF y
    <3>3. \A z \in s : /\ s \ {z} \in Smaller(S, n)
                       /\ f[z] \in Nat
      BY <1>0, <3>1, FS_RemoveElement DEF Smaller
    <3>4. CASE x # y
      <4>1. g[s \ {y}] = f[x] + g[(s \ {y}) \ {x}]
        BY <1>2, <3>2, <3>3, <3>4
      <4>2. g[s \ {x}] = f[y] + g[(s \ {x}) \ {y}]
        BY <1>2, <3>2, <3>3, <3>4
      <4>3. (s \ {y}) \ {x} = (s \ {x}) \ {y} /\ (s \ {x}) \ {y} \in SUBSET S
        BY <3>1
      <4>4. f[x] \in Nat /\ f[y] \in Nat /\ g[(s \ {x}) \ {y}] \in Nat
        BY <1>0, <3>2, <3>3, <4>3
      <4>q. QED
        BY <3>2, <4>1, <4>2, <4>3, <4>4
    <3>q. QED
      BY <3>2, <3>4
  <2>q. QED
    BY <2>1
<1> HIDE DEF U
<1>3. \A n \in Nat : n \in U
  BY <1>1, <1>2, CountingUp
<1>q. QED
  <2> SUFFICES ASSUME NEW s \in SUBSET S, NEW x \in s
               PROVE  g[s] = f[x] + g[s \ {x}]
    OBVIOUS
  <2>1. Cardinality(s) \in U /\ s \in Smaller(S, Cardinality(s))
    BY <1>0, <1>3 DEF Smaller
  <2>q. QED
    BY <2>1 DEF U

-----------------------------------------------------------------------------
(* Nothing sums to 0.                                                       *)
LEMMA SumOfNone ==
    ASSUME NEW f
    PROVE  SumFunctionOnSet(f, {}) = 0
<1>1. IsFiniteSet({})
  BY FS_EmptySet
<1>2. PICK g : SumsUp(f, {}, g) /\ SumFunctionOnSet(f, {}) = g[{}]
  BY <1>1, SumUnfolds
<1>q. QED
  BY <1>2 DEF SumsUp, SumOf

(* Natural numbers sum to one.                                              *)
LEMMA SumIsNat ==
    ASSUME NEW S, IsFiniteSet(S), NEW f, \A x \in S : f[x] \in Nat
    PROVE  SumFunctionOnSet(f, S) \in Nat
<1>1. PICK g : SumsUp(f, S, g) /\ SumFunctionOnSet(f, S) = g[S]
  BY SumUnfolds
<1>q. QED
  BY <1>1, SumsAreNat

(* Only the values on the set count.                                        *)
LEMMA SumOfSame ==
    ASSUME NEW S, IsFiniteSet(S), NEW f, NEW h, \A x \in S : f[x] = h[x]
    PROVE  SumFunctionOnSet(f, S) = SumFunctionOnSet(h, S)
<1>1. PICK g : SumsUp(f, S, g) /\ SumFunctionOnSet(f, S) = g[S]
  BY SumUnfolds
<1>2. PICK k : SumsUp(h, S, k) /\ SumFunctionOnSet(h, S) = k[S]
  BY SumUnfolds
<1>3. \A s \in SUBSET S : g[s] = k[s]
  BY <1>1, <1>2, SumsAgree
<1>q. QED
  BY <1>1, <1>2, <1>3

(* One element of the sum, and the others.                                  *)
LEMMA SumWithout ==
    ASSUME NEW S, IsFiniteSet(S), NEW f, \A x \in S : f[x] \in Nat, NEW x \in S
    PROVE  SumFunctionOnSet(f, S) = f[x] + SumFunctionOnSet(f, S \ {x})
<1> DEFINE T == S \ {x}
<1>1. IsFiniteSet(T) /\ T \in SUBSET S
  BY FS_RemoveElement
<1>2. PICK g : SumsUp(f, S, g) /\ SumFunctionOnSet(f, S) = g[S]
  BY SumUnfolds
<1>3. PICK k : SumsUp(f, T, k) /\ SumFunctionOnSet(f, T) = k[T]
  BY <1>1, SumUnfolds
<1>4. \A s \in SUBSET T : g[s] = k[s]
  <2> HIDE DEF T
  <2>q. QED
    BY <1>1, <1>2, <1>3, SumsAgree
<1>5. g[S] = f[x] + g[T]
  BY <1>2, AnyLast
<1>q. QED
  BY <1>2, <1>3, <1>4, <1>5

(* A part of the elements sums to no more than all.                         *)
LEMMA SumOfPart ==
    ASSUME NEW S, IsFiniteSet(S), NEW f, \A x \in S : f[x] \in Nat,
           NEW T \in SUBSET S
    PROVE  SumFunctionOnSet(f, T) <= SumFunctionOnSet(f, S)
<1> DEFINE U == {n \in Nat : \A R \in SUBSET S :
                    Cardinality(R) <= n /\ T \subseteq R =>
                        SumFunctionOnSet(f, T) <= SumFunctionOnSet(f, R)}
<1>0. \A R \in SUBSET S : /\ IsFiniteSet(R) /\ Cardinality(R) \in Nat
                          /\ SumFunctionOnSet(f, R) \in Nat
  BY FS_Subset, FS_CardinalityType, SumIsNat
<1>1. 0 \in U
  <2>1. \A R \in SUBSET S : Cardinality(R) <= 0 /\ T \subseteq R => R = T
    BY <1>0, FS_EmptySet
  <2>q. QED
    BY <1>0, <2>1
<1>2. ASSUME NEW n \in Nat, n \in U
      PROVE  n + 1 \in U
  <2>1. ASSUME NEW R \in SUBSET S, Cardinality(R) <= n + 1, T \subseteq R, R # T
        PROVE  SumFunctionOnSet(f, T) <= SumFunctionOnSet(f, R)
    <3>1. PICK x \in R : x \notin T
      BY <2>1
    <3>2. SumFunctionOnSet(f, R) = f[x] + SumFunctionOnSet(f, R \ {x})
      BY <1>0, SumWithout
    <3>3. R \ {x} \in SUBSET S /\ T \subseteq R \ {x} /\ Cardinality(R \ {x}) <= n
      BY <1>0, <2>1, <3>1, FS_RemoveElement
    <3>4. SumFunctionOnSet(f, T) <= SumFunctionOnSet(f, R \ {x})
      BY <1>2, <3>3
    <3>q. QED
      BY <1>0, <3>2, <3>3, <3>4
  <2>q. QED
    BY <1>0, <2>1
<1> HIDE DEF U
<1>3. \A n \in Nat : n \in U
  BY <1>1, <1>2, CountingUp
<1>q. QED
  BY <1>0, <1>3 DEF U

(* A sum of zeros.                                                          *)
LEMMA SumOfZeros ==
    ASSUME NEW S, IsFiniteSet(S), NEW f, \A x \in S : f[x] = 0
    PROVE  SumFunctionOnSet(f, S) = 0
<1>1. PICK g : SumsUp(f, S, g) /\ SumFunctionOnSet(f, S) = g[S]
  BY SumUnfolds
<1> DEFINE U == {n \in Nat : \A s \in Smaller(S, n) : g[s] = 0}
<1>0. \A s \in SUBSET S : IsFiniteSet(s) /\ Cardinality(s) \in Nat
  BY FS_Subset, FS_CardinalityType
<1>2. \A s \in SUBSET S : g[s] = SumOf(f, g, s)
  BY <1>1 DEF SumsUp
<1>3. 0 \in U
  <2>1. ASSUME NEW s \in Smaller(S, 0)
        PROVE  g[s] = 0
    <3>1. s = {} /\ s \in SUBSET S
      BY <1>0, FS_EmptySet DEF Smaller
    <3>q. QED
      BY <1>2, <3>1 DEF SumOf
  <2>q. QED
    BY <2>1
<1>4. ASSUME NEW n \in Nat, n \in U
      PROVE  n + 1 \in U
  <2>1. ASSUME NEW s \in Smaller(S, n + 1), s # {}
        PROVE  g[s] = 0
    <3>1. s \in SUBSET S /\ g[s] = f[Pick(s)] + g[s \ {Pick(s)}]
      BY <1>2, <2>1 DEF Smaller, SumOf
    <3>2. Pick(s) \in S /\ s \ {Pick(s)} \in Smaller(S, n)
      BY <1>0, <2>1, <3>1, PickOne DEF Smaller
    <3>3. f[Pick(s)] = 0 /\ g[s \ {Pick(s)}] = 0
      BY <1>4, <3>2
    <3>q. QED
      BY <3>1, <3>3
  <2>2. ASSUME NEW s \in Smaller(S, n + 1), s = {}
        PROVE  g[s] = 0
    BY <1>2, <2>2 DEF SumOf
  <2>3. \A s \in Smaller(S, n + 1) : g[s] = 0
    BY <2>1, <2>2
  <2>q. QED
    BY <2>3
<1> HIDE DEF U
<1>5. Cardinality(S) \in U /\ S \in Smaller(S, Cardinality(S))
  BY <1>0, <1>3, <1>4, CountingUp DEF Smaller
<1>q. QED
  BY <1>1, <1>5 DEF U
=============================================================================
