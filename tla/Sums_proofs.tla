----------------------------- MODULE Sums_proofs -----------------------------
(***************************************************************************)
(* SumFunctionOnSet over finite sets: what the books of Billing and        *)
(* PaymentDomain add up.  A sum does not depend on the order in which the  *)
(* recursive definition takes the elements; from that follow the sums of   *)
(* one element more or less and of functions that differ at one element.   *)
(*                                                                         *)
(* Inductions over finite sets are by a smallest counterexample, which     *)
(* the well-foundedness of strict inclusion provides.                      *)
(***************************************************************************)
EXTENDS Integers, Functions, FiniteSetTheorems, TLAPS

(* g gives the sum of f over every subset of S, whichever element is taken *)
(* out first.                                                              *)
Sums(g, f, S) ==
    /\ g \in [SUBSET S -> Int]
    /\ g[{}] = 0
    /\ \A s \in SUBSET S : \A x \in s : g[s] = f[x] + g[s \ {x}]

(* A nonempty set of subsets of a finite set has one that contains no      *)
(* other of them.                                                          *)
LEMMA SmallestSubset ==
    ASSUME NEW S, IsFiniteSet(S), NEW T \in SUBSET SUBSET S, T # {}
    PROVE  \E s \in T : \A t \in SUBSET s : t # s => t \notin T
<1>1. SUBSET S = FiniteSubsetsOf(S)
  BY FS_FiniteSubsetsOfFinite
<1>2. IsWellFoundedOn(StrictSubsetOrdering(S), SUBSET S)
  BY <1>1, FS_StrictSubsetOrderingWellFounded
<1>3. PICK s \in T : \A t \in T : ~ (<<t, s>> \in StrictSubsetOrdering(S))
  BY <1>2, WFMin
<1>4. \A t \in SUBSET s : t # s /\ t \in T => <<t, s>> \in StrictSubsetOrdering(S)
  BY DEF StrictSubsetOrdering
<1>5. \A t \in SUBSET s : t # s => t \notin T
  BY <1>3, <1>4
<1>6. QED
  BY <1>5

(* Sums over s without x extend to sums over s: f[x] is added where x is.  *)
LEMMA SumsExtended ==
    ASSUME NEW s, NEW x \in s, NEW f, \A y \in s : f[y] \in Int,
           NEW h, Sums(h, f, s \ {x})
    PROVE  \E g : Sums(g, f, s)
<1> DEFINE g == [t \in SUBSET s |-> IF x \in t THEN f[x] + h[t \ {x}] ELSE h[t]]
<1>1. \A t \in SUBSET s : t \ {x} \in SUBSET (s \ {x}) /\ (x \notin t => t \in SUBSET (s \ {x}))
  OBVIOUS
<1>2. g \in [SUBSET s -> Int] /\ g[{}] = 0
  BY <1>1 DEF Sums
<1>3. ASSUME NEW t \in SUBSET s, NEW y \in t
      PROVE  g[t] = f[y] + g[t \ {y}]
  <2>1. CASE y = x
    BY <2>1
  <2>2. CASE y # x /\ x \notin t
    BY <2>2, <1>1 DEF Sums
  <2>3. CASE y # x /\ x \in t
    <3>1. (t \ {x}) \ {y} = (t \ {y}) \ {x} /\ y \in t \ {x}
      BY <2>3
    <3>2. h[t \ {x}] = f[y] + h[(t \ {y}) \ {x}]
      BY <3>1, <1>1 DEF Sums
    <3>3. g[t] = f[x] + (f[y] + h[(t \ {y}) \ {x}])
      BY <2>3, <3>2
    <3>4. g[t \ {y}] = f[x] + h[(t \ {y}) \ {x}]
      BY <2>3
    <3>5. h[(t \ {y}) \ {x}] \in Int /\ h[t \ {x}] \in Int
      BY <1>1 DEF Sums
    <3>6. f[y] \in Int
      OBVIOUS
    <3>7. QED
      BY <3>3, <3>4, <3>5, <3>6
  <2>4. QED
    BY <2>1, <2>2, <2>3
<1>4. Sums(g, f, s)
  BY <1>2, <1>3 DEF Sums
<1>5. QED
  BY <1>4

(* Integers can be summed over every finite set: a smallest subset over    *)
(* which they cannot would extend a smaller one over which they can.       *)
LEMMA SumsExist ==
    ASSUME NEW S, IsFiniteSet(S), NEW f, \A x \in S : f[x] \in Int
    PROVE  \E g : Sums(g, f, S)
<1> DEFINE Without == {s \in SUBSET S : ~ \E g : Sums(g, f, s)}
<1>1. SUFFICES ASSUME Without # {} PROVE FALSE
  OBVIOUS
<1>2. PICK s \in Without : \A t \in SUBSET s : t # s => t \notin Without
  <2>1. Without \in SUBSET SUBSET S
    OBVIOUS
  <2> HIDE DEF Without
  <2>2. QED
    BY <1>1, <2>1, SmallestSubset
<1>3. CASE s = {}
  <2>1. Sums([t \in SUBSET {} |-> 0], f, {})
    BY DEF Sums
  <2>2. QED
    BY <2>1, <1>2, <1>3
<1>4. ASSUME NEW x \in s PROVE FALSE
  <2>1. s \in SUBSET S /\ s \ {x} \in SUBSET S /\ s \ {x} \in SUBSET s /\ s \ {x} # s
    BY <1>2, <1>4
  <2>2. s \ {x} \notin Without
    BY <1>2, <2>1
  <2>3. PICK h : Sums(h, f, s \ {x})
    BY <2>1, <2>2
  <2>4. \E g : Sums(g, f, s)
    BY <2>1, <2>3, SumsExtended
  <2>5. QED
    BY <1>2, <2>4
<1>5. QED
  BY <1>3, <1>4

(* The recursive definition behind SumFunctionOnSet.                       *)
Unfolds(h, f, S) ==
    h = [s \in SUBSET S |-> IF s = {} THEN 0
                            ELSE f[CHOOSE x \in s : TRUE] + h[s \ {CHOOSE x \in s : TRUE}]]

(* SumFunctionOnSet is the value of its recursive definition.              *)
LEMMA SumIsUnfolded ==
    ASSUME NEW f, NEW S
    PROVE  SumFunctionOnSet(f, S) = (CHOOSE h : Unfolds(h, f, S))[S]
BY DEF SumFunctionOnSet, FoldFunctionOnSet, MapThenFoldSet, Unfolds

(* Sums that hold whichever element is taken first hold for the chosen one.*)
LEMMA SumsUnfold ==
    ASSUME NEW S, NEW f, NEW g, Sums(g, f, S)
    PROVE  Unfolds(g, f, S)
<1> DEFINE first(s) == CHOOSE x \in s : TRUE
<1>1. \A s \in SUBSET S : s # {} => first(s) \in s
  OBVIOUS
<1> HIDE DEF first
<1>2. \A s \in SUBSET S : g[s] = IF s = {} THEN 0 ELSE f[first(s)] + g[s \ {first(s)}]
  BY <1>1 DEF Sums
<1>3. g = [s \in SUBSET S |-> IF s = {} THEN 0 ELSE f[first(s)] + g[s \ {first(s)}]]
  BY <1>2 DEF Sums
<1>4. QED
  BY <1>3 DEF Unfolds, first

(* The recursive definition has only one value, which is the sum.          *)
LEMMA UnfoldsOneWay ==
    ASSUME NEW S, IsFiniteSet(S), NEW f, NEW g, Sums(g, f, S), NEW h, Unfolds(h, f, S)
    PROVE  h[S] = g[S]
<1> DEFINE Differ == {s \in SUBSET S : h[s] # g[s]}
           first(s) == CHOOSE x \in s : TRUE
<1>1. SUFFICES ASSUME Differ # {} PROVE FALSE
  OBVIOUS
<1>2. PICK s \in Differ : \A t \in SUBSET s : t # s => t \notin Differ
  <2>1. Differ \in SUBSET SUBSET S
    OBVIOUS
  <2> HIDE DEF Differ
  <2>2. QED
    BY <1>1, <2>1, SmallestSubset
<1>3. /\ h[s] = IF s = {} THEN 0 ELSE f[first(s)] + h[s \ {first(s)}]
      /\ g[s] = IF s = {} THEN 0 ELSE f[first(s)] + g[s \ {first(s)}]
  <2>1. Unfolds(g, f, S)
    BY SumsUnfold
  <2>2. QED
    BY <2>1 DEF Unfolds
<1>4. s # {} => first(s) \in s
  OBVIOUS
<1> HIDE DEF first
<1>5. CASE s = {}
  BY <1>2, <1>3, <1>5
<1>6. CASE s # {}
  <2>1. s \ {first(s)} \in SUBSET s /\ s \ {first(s)} # s /\ s \ {first(s)} \in SUBSET S
    BY <1>4, <1>6, <1>2
  <2>2. h[s \ {first(s)}] = g[s \ {first(s)}]
    BY <2>1, <1>2
  <2>3. QED
    BY <2>2, <1>2, <1>3, <1>6
<1>7. QED
  BY <1>5, <1>6

(* SumFunctionOnSet is the sum, in whatever order the elements are taken.  *)
LEMMA SumOfSums ==
    ASSUME NEW S, IsFiniteSet(S), NEW f, NEW g, Sums(g, f, S)
    PROVE  SumFunctionOnSet(f, S) = g[S]
<1>1. Unfolds(g, f, S)
  BY SumsUnfold
<1>2. Unfolds(CHOOSE h : Unfolds(h, f, S), f, S)
  BY <1>1
<1>3. QED
  BY <1>2, UnfoldsOneWay, SumIsUnfolded

(* The sums over S give SumFunctionOnSet of every subset of S.             *)
LEMMA SumOfSubset ==
    ASSUME NEW S, IsFiniteSet(S), NEW f, NEW g, Sums(g, f, S), NEW T \in SUBSET S
    PROVE  SumFunctionOnSet(f, T) = g[T]
<1> DEFINE below == [s \in SUBSET T |-> g[s]]
<1>1. Sums(below, f, T)
  BY DEF Sums
<1>2. IsFiniteSet(T) /\ T \in SUBSET T
  BY FS_Subset
<1>3. below[T] = g[T]
  BY <1>2
<1> HIDE DEF below
<1>4. QED
  BY <1>1, <1>2, <1>3, SumOfSums

-----------------------------------------------------------------------------
(* What is used of sums                                                    *)

(* The empty sum.                                                          *)
LEMMA SumOfNone == \A f : SumFunctionOnSet(f, {}) = 0
<1>1. ASSUME NEW f PROVE SumFunctionOnSet(f, {}) = 0
  <2>1. IsFiniteSet({}) /\ \A x \in {} : f[x] \in Int
    BY FS_EmptySet
  <2>2. PICK g : Sums(g, f, {})
    BY <2>1, SumsExist
  <2>3. SumFunctionOnSet(f, {}) = g[{}]
    BY <2>1, <2>2, SumOfSums
  <2>4. QED
    BY <2>2, <2>3 DEF Sums
<1>2. QED
  BY <1>1

(* A sum of integers is an integer.                                        *)
LEMMA SumIsInt ==
    ASSUME NEW S, IsFiniteSet(S), NEW f, \A x \in S : f[x] \in Int
    PROVE  SumFunctionOnSet(f, S) \in Int
<1>1. PICK g : Sums(g, f, S)
  BY SumsExist
<1>2. g[S] \in Int
  <2>1. S \in SUBSET S
    OBVIOUS
  <2>2. QED
    BY <1>1, <2>1 DEF Sums
<1>3. QED
  BY <1>1, <1>2, SumOfSums

(* One element less.                                                       *)
LEMMA SumWithout ==
    ASSUME NEW S, IsFiniteSet(S), NEW f, \A y \in S : f[y] \in Int, NEW x \in S
    PROVE  /\ SumFunctionOnSet(f, S) = f[x] + SumFunctionOnSet(f, S \ {x})
           /\ SumFunctionOnSet(f, S \ {x}) \in Int
<1>1. PICK g : Sums(g, f, S)
  BY SumsExist
<1>2. S \in SUBSET S /\ S \ {x} \in SUBSET S
  OBVIOUS
<1>3. SumFunctionOnSet(f, S) = g[S] /\ SumFunctionOnSet(f, S \ {x}) = g[S \ {x}]
  BY <1>1, <1>2, SumOfSubset
<1>4. QED
  BY <1>1, <1>2, <1>3 DEF Sums

(* One element more.                                                       *)
LEMMA SumWith ==
    ASSUME NEW S, IsFiniteSet(S), NEW f, \A y \in S : f[y] \in Int,
           NEW x, x \notin S, f[x] \in Int
    PROVE  SumFunctionOnSet(f, S \cup {x}) = SumFunctionOnSet(f, S) + f[x]
<1>1. IsFiniteSet(S \cup {x}) /\ x \in S \cup {x} /\ (S \cup {x}) \ {x} = S
  BY FS_AddElement
<1>2. \A y \in S \cup {x} : f[y] \in Int
  OBVIOUS
<1>3. /\ SumFunctionOnSet(f, S \cup {x})
            = f[x] + SumFunctionOnSet(f, (S \cup {x}) \ {x})
      /\ SumFunctionOnSet(f, (S \cup {x}) \ {x}) \in Int
  <2> DEFINE U == S \cup {x}
  <2>1. IsFiniteSet(U) /\ x \in U /\ \A y \in U : f[y] \in Int
    BY <1>1, <1>2
  <2> HIDE DEF U
  <2>2. /\ SumFunctionOnSet(f, U) = f[x] + SumFunctionOnSet(f, U \ {x})
        /\ SumFunctionOnSet(f, U \ {x}) \in Int
    BY <2>1, SumWithout
  <2>3. QED
    BY <2>2 DEF U
<1>4. SumFunctionOnSet(f, (S \cup {x}) \ {x}) = SumFunctionOnSet(f, S)
  BY <1>1
<1>5. QED
  BY <1>3, <1>4

(* Functions that agree on S have one sum.                                 *)
LEMMA SumSame ==
    ASSUME NEW S, IsFiniteSet(S), NEW f, \A x \in S : f[x] \in Int,
           NEW h, \A x \in S : h[x] = f[x]
    PROVE  SumFunctionOnSet(h, S) = SumFunctionOnSet(f, S)
<1>1. PICK g : Sums(g, f, S)
  BY SumsExist
<1>2. Sums(g, h, S)
  BY <1>1 DEF Sums
<1>3. QED
  BY <1>1, <1>2, SumOfSums

(* Functions that differ at one element.                                   *)
LEMMA SumChanged ==
    ASSUME NEW S, IsFiniteSet(S), NEW f, \A y \in S : f[y] \in Int, NEW x \in S,
           NEW h, \A y \in S \ {x} : h[y] = f[y], h[x] \in Int
    PROVE  SumFunctionOnSet(h, S) = SumFunctionOnSet(f, S) + (h[x] - f[x])
<1>1. IsFiniteSet(S \ {x}) /\ \A y \in S : h[y] \in Int
  BY FS_RemoveElement
<1>2. SumFunctionOnSet(h, S \ {x}) = SumFunctionOnSet(f, S \ {x})
  BY <1>1, SumSame
<1>3. /\ SumFunctionOnSet(f, S) = f[x] + SumFunctionOnSet(f, S \ {x})
      /\ SumFunctionOnSet(f, S \ {x}) \in Int
  BY SumWithout
<1>4. SumFunctionOnSet(h, S) = h[x] + SumFunctionOnSet(h, S \ {x})
  BY <1>1, SumWithout
<1>5. QED
  BY <1>2, <1>3, <1>4

(* A sum of zeros.                                                         *)
LEMMA SumOfZeros ==
    ASSUME NEW S, IsFiniteSet(S), NEW f, \A x \in S : f[x] = 0
    PROVE  SumFunctionOnSet(f, S) = 0
<1> DEFINE zero == [s \in SUBSET S |-> 0]
<1>1. Sums(zero, f, S)
  BY DEF Sums
<1>2. zero[S] = 0
  OBVIOUS
<1> HIDE DEF zero
<1>3. QED
  BY <1>1, <1>2, SumOfSums

(* A sum of natural numbers is a natural number.                           *)
LEMMA SumIsNat ==
    ASSUME NEW S, IsFiniteSet(S), NEW f, \A x \in S : f[x] \in Nat
    PROVE  SumFunctionOnSet(f, S) \in Nat
<1>1. PICK g : Sums(g, f, S)
  BY SumsExist
<1> DEFINE Negative == {s \in SUBSET S : g[s] \notin Nat}
<1>2. ASSUME Negative # {} PROVE FALSE
  <2>1. PICK s \in Negative : \A t \in SUBSET s : t # s => t \notin Negative
    <3>1. Negative \in SUBSET SUBSET S
      OBVIOUS
    <3> HIDE DEF Negative
    <3>2. QED
      BY <1>2, <3>1, SmallestSubset
  <2>2. s # {}
    <3>1. g[{}] = 0 /\ g[s] \notin Nat
      BY <1>1, <2>1 DEF Sums
    <3>2. QED
      BY <3>1
  <2>3. PICK x \in s : TRUE
    BY <2>2
  <2>4. s \ {x} \in SUBSET s /\ s \ {x} # s /\ s \ {x} \in SUBSET S
    BY <2>3
  <2>5. g[s \ {x}] \in Nat
    BY <2>1, <2>4
  <2>6. g[s] = f[x] + g[s \ {x}]
    BY <1>1, <2>3 DEF Sums
  <2>7. QED
    BY <2>1, <2>3, <2>5, <2>6
<1>3. g[S] \in Nat
  BY <1>2
<1>4. QED
  BY <1>1, <1>3, SumOfSums
=============================================================================
