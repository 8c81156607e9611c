----------------------------- MODULE ScoreProofs -----------------------------
(***************************************************************************)
(* From the tests to the scores, for all values of the constants: the      *)
(* results of a test over its attempts, clears and copies, and the harness *)
(* that runs the tests and takes the mean of their scores.                 *)
(*                                                                         *)
(* Sums over finite sets and sorting are defined by recursion and by       *)
(* choice.  The first part finds what they compute from the fact that      *)
(* among the subsets of a finite set one is smallest; the second and the   *)
(* third are about the results and about the harness.                      *)
(***************************************************************************)
EXTENDS Harness, Results, FiniteSetTheorems, TLAPS

-----------------------------------------------------------------------------
(* Finite sets. *)

(* Among subsets of a finite set one contains no other of them.            *)
LEMMA SmallestSet ==
  ASSUME NEW S, IsFiniteSet(S), NEW B, B \subseteq SUBSET S, B # {}
  PROVE  \E s \in B : \A t \in B : t \subseteq s => t = s
<1>1. IsWellFoundedOn(StrictSubsetOrdering(S), FiniteSubsetsOf(S))
  BY FS_StrictSubsetOrderingWellFounded
<1>2. B \subseteq FiniteSubsetsOf(S)
  BY FS_FiniteSubsetsOfFinite
<1>3. PICK s \in B : \A t \in B : ~ (<< t, s >> \in StrictSubsetOrdering(S))
  BY <1>1, <1>2, WFMin
<1> QED
  BY <1>3 DEF StrictSubsetOrdering

(* A set of natural numbers has a least element.                           *)
LEMMA Least ==
  ASSUME NEW T, T \subseteq Nat, T # {}
  PROVE  \E n \in T : \A m \in T : n <= m
<1> PICK k \in T : TRUE
  OBVIOUS
<1> DEFINE B == {1 .. n : n \in T \cap 0 .. k}
<1>1. IsFiniteSet(1 .. k)
  BY FS_Interval
<1>2. B \subseteq SUBSET (1 .. k) /\ B # {}
  OBVIOUS
<1>3. PICK s \in B : \A t \in B : t \subseteq s => t = s
  <2> DEFINE S == 1 .. k
  <2> HIDE DEF B, S
  <2>1. IsFiniteSet(S) /\ B \subseteq SUBSET S /\ B # {}
    BY <1>1, <1>2 DEF S
  <2> QED
    BY <2>1, SmallestSet
<1>4. PICK n \in T \cap 0 .. k : s = 1 .. n
  OBVIOUS
<1>5. ASSUME NEW m \in T, m < n
      PROVE  FALSE
  <2>1. 1 .. m \subseteq s /\ n \in s /\ n \notin 1 .. m /\ m \in T \cap 0 .. k
    BY <1>4, <1>5
  <2> QED
    BY <1>3, <2>1
<1> QED
  BY <1>5

(* A property of the numbers up to n that is not lost from one to the next *)
(* holds of n.                                                             *)
LEMMA Induction ==
  ASSUME NEW n \in Nat, NEW P, P \subseteq 0 .. n, 0 \in P,
         \A k \in 0 .. n : k + 1 <= n /\ k \in P => k + 1 \in P
  PROVE  P = 0 .. n
<1> DEFINE T == (0 .. n) \ P
<1> SUFFICES ASSUME T # {}
             PROVE  FALSE
  OBVIOUS
<1>1. PICK k \in T : \A m \in T : k <= m
  <2>1. T \subseteq Nat
    OBVIOUS
  <2> HIDE DEF T
  <2> QED
    BY <2>1, Least
<1>2. k # 0 /\ k - 1 \in 0 .. n /\ k - 1 \in P
  BY <1>1
<1> QED
  BY <1>1, <1>2

(* The same for the subsets of a finite set.                               *)
LEMMA SetInduction ==
  ASSUME NEW S, IsFiniteSet(S), NEW P, {} \in P,
         \A s \in SUBSET S, x \in S : s \in P /\ x \notin s => s \cup {x} \in P
  PROVE  SUBSET S \subseteq P
<1> DEFINE B == (SUBSET S) \ P
<1> SUFFICES ASSUME B # {}
             PROVE  FALSE
  OBVIOUS
<1>1. PICK s \in B : \A t \in B : t \subseteq s => t = s
  <2>1. B \subseteq SUBSET S
    OBVIOUS
  <2> HIDE DEF B
  <2> QED
    BY <2>1, SmallestSet
<1>2. PICK x \in s : TRUE
  BY <1>1
<1>3. s \ {x} \in P /\ (s \ {x}) \cup {x} = s /\ x \notin s \ {x}
  BY <1>1, <1>2
<1> QED
  BY <1>1, <1>3

(* A finite set of natural numbers has a greatest element. *)
LEMMA Extremes ==
  ASSUME NEW S, IsFiniteSet(S), S \subseteq Nat, S # {}
  PROVE  /\ Max(S) \in S /\ \A x \in S : x <= Max(S)
         /\ Min(S) \in S /\ \A x \in S : Min(S) <= x
<1> DEFINE P == {s \in SUBSET S : s # {} => \E m \in s : \A x \in s : x <= m}
<1>1. {} \in P
  OBVIOUS
<1>2. ASSUME NEW s \in SUBSET S, NEW x \in S, s \in P, x \notin s
      PROVE  s \cup {x} \in P
  <2>1. CASE s = {}
    BY <2>1
  <2>2. CASE s # {}
    <3>1. PICK m \in s : \A y \in s : y <= m
      BY <1>2, <2>2
    <3>2. CASE x <= m
      BY <3>1, <3>2
    <3>3. CASE ~(x <= m)
      <4>1. \A y \in s \cup {x} : y <= x
        BY <3>1, <3>3
      <4> QED
        BY <4>1
    <3> QED
      BY <3>2, <3>3
  <2> QED
    BY <2>1, <2>2
<1>3. \E m \in S : \A x \in S : x <= m
  <2>1. SUBSET S \subseteq P
    <3> HIDE DEF P
    <3> QED
      BY <1>1, <1>2, SetInduction
  <2> QED
    BY <2>1
<1>4. \E m \in S : \A x \in S : m <= x
  BY Least
<1> QED
  BY <1>3, <1>4 DEF Max, Min

-----------------------------------------------------------------------------
(* Sums over finite sets. *)

(* The element that the recursion takes first. *)
First(s) == CHOOSE x \in s : TRUE

(* G is the recursive function behind the sum of f over S. *)
IsSum(G, f, S) ==
  \A s \in SUBSET S : G[s] = IF s = {} THEN 0 ELSE f[First(s)] + G[s \ {First(s)}]

(* Such a function exists: partial ones exist for every cardinality, and   *)
(* they agree.                                                             *)
LEMMA SumFunctionExists ==
  ASSUME NEW S, IsFiniteSet(S), NEW f
  PROVE  \E G : G = [s \in SUBSET S |-> G[s]] /\ IsSum(G, f, S)
<1> DEFINE Rhs(G, s) == IF s = {} THEN 0 ELSE f[First(s)] + G[s \ {First(s)}]
           N == Cardinality(S)
           P == {k \in 0 .. N : \E G : \A s \in SUBSET S : Cardinality(s) <= k => G[s] = Rhs(G, s)}
<1>1. N \in Nat /\ \A s \in SUBSET S : IsFiniteSet(s) /\ Cardinality(s) \in 0 .. N
  BY FS_Subset, FS_CardinalityType
<1>2. \A s \in SUBSET S : s # {} =>
        /\ First(s) \in s /\ s \ {First(s)} \in SUBSET S
        /\ Cardinality(s \ {First(s)}) = Cardinality(s) - 1
  BY <1>1, FS_RemoveElement DEF First
<1>3. 0 \in P
  <2> DEFINE G == [s \in SUBSET S |-> 0]
  <2>1. \A s \in SUBSET S : Cardinality(s) <= 0 => s = {}
    BY <1>1, FS_EmptySet
  <2>2. \A s \in SUBSET S : Cardinality(s) <= 0 => G[s] = Rhs(G, s)
    BY <2>1
  <2> HIDE DEF G
  <2>3. \E G1 : \A s \in SUBSET S : Cardinality(s) <= 0 => G1[s] = Rhs(G1, s)
    BY <2>2
  <2>4. 0 \in 0 .. N
    BY <1>1
  <2> QED
    BY <2>3, <2>4
<1>4. ASSUME NEW k \in 0 .. N, k + 1 <= N, k \in P
      PROVE  k + 1 \in P
  <2>1. PICK G : \A s \in SUBSET S : Cardinality(s) <= k => G[s] = Rhs(G, s)
    BY <1>4
  <2> DEFINE H == [s \in SUBSET S |-> Rhs(G, s)]
  <2>2. ASSUME NEW s \in SUBSET S, Cardinality(s) <= k + 1
        PROVE  H[s] = Rhs(H, s)
    <3>1. CASE s = {}
      BY <3>1
    <3>2. CASE s # {}
      <4> DEFINE t == s \ {First(s)}
      <4>1. t \in SUBSET S /\ Cardinality(t) <= k
        BY <1>1, <1>2, <2>2, <3>2
      <4>2. G[t] = Rhs(G, t)
        BY <2>1, <4>1
      <4>3. H[t] = Rhs(G, t)
        BY <4>1
      <4> QED
        BY <3>2, <4>2, <4>3
    <3> QED
      BY <3>1, <3>2
  <2> HIDE DEF H
  <2>3. \E G1 : \A s \in SUBSET S : Cardinality(s) <= k + 1 => G1[s] = Rhs(G1, s)
    BY <2>2
  <2>4. k + 1 \in 0 .. N
    BY <1>1, <1>4
  <2> QED
    BY <2>3, <2>4
<1>5. P = 0 .. N
  <2>1. P \subseteq 0 .. N
    OBVIOUS
  <2> HIDE DEF P, N
  <2> QED
    BY <1>1, <1>3, <1>4, <2>1, Induction
<1>6. N \in P
  BY <1>1, <1>5
<1>7. PICK G : \A s \in SUBSET S : Cardinality(s) <= N => G[s] = Rhs(G, s)
  BY <1>6
<1> DEFINE H == [s \in SUBSET S |-> G[s]]
<1>8. ASSUME NEW s \in SUBSET S
      PROVE  H[s] = Rhs(H, s)
  <2>1. H[s] = G[s] /\ Cardinality(s) <= N
    BY <1>1
  <2>2. G[s] = Rhs(G, s)
    BY <1>7, <2>1
  <2>3. CASE s = {}
    BY <2>1, <2>2, <2>3
  <2>4. CASE s # {}
    <3>1. H[s \ {First(s)}] = G[s \ {First(s)}]
      BY <1>2, <2>4
    <3> QED
      BY <2>1, <2>2, <2>4, <3>1
  <2> QED
    BY <2>3, <2>4
<1>9. H = [s \in SUBSET S |-> H[s]]
  OBVIOUS
<1>10. IsSum(H, f, S)
  BY <1>8 DEF IsSum
<1> HIDE DEF H
<1> QED
  BY <1>9, <1>10

(* SumFunctionOnSet is the value of such a function. *)
LEMMA SumUnfolds ==
  ASSUME NEW S, IsFiniteSet(S), NEW f
  PROVE  \E G : IsSum(G, f, S) /\ SumFunctionOnSet(f, S) = G[S]
<1>1. PICK F : F = [s \in SUBSET S |-> F[s]] /\ IsSum(F, f, S)
  BY SumFunctionExists
<1>2. F = [s \in SUBSET S |-> IF s = {} THEN 0 ELSE f[First(s)] + F[s \ {First(s)}]]
  BY <1>1 DEF IsSum
<1>3. \E G : /\ G = [s \in SUBSET S |-> IF s = {} THEN 0 ELSE f[First(s)] + G[s \ {First(s)}]]
             /\ SumFunctionOnSet(f, S) = G[S]
  BY <1>2 DEF SumFunctionOnSet, FoldFunctionOnSet, MapThenFoldSet, First
<1>4. PICK G : /\ G = [s \in SUBSET S |-> IF s = {} THEN 0 ELSE f[First(s)] + G[s \ {First(s)}]]
               /\ SumFunctionOnSet(f, S) = G[S]
  BY <1>3
<1> QED
  BY <1>4 DEF IsSum

(* A sum is that of one element and of the rest, whichever it is. *)
Adds(G, f, s) == G[s] \in Int /\ \A x \in s : G[s] = f[x] + G[s \ {x}]

(* A sum is the same whichever element is taken first. *)
LEMMA AnyOrder ==
  ASSUME NEW S, IsFiniteSet(S), NEW f, \A x \in S : f[x] \in Int,
         NEW G, IsSum(G, f, S)
  PROVE  \A s \in SUBSET S : Adds(G, f, s)
<1> DEFINE Good(s) == Adds(G, f, s)
           B == {s \in SUBSET S : ~Good(s)}
<1> SUFFICES ASSUME B # {}
             PROVE  FALSE
  OBVIOUS
<1>1. PICK s \in B : \A t \in B : t \subseteq s => t = s
  <2>1. B \subseteq SUBSET S
    OBVIOUS
  <2> HIDE DEF B
  <2> QED
    BY <2>1, SmallestSet
<1>2. s \in SUBSET S /\ ~Good(s)
  OBVIOUS
<1>3. ASSUME NEW t \in SUBSET s, t # s
      PROVE  Good(t)
  BY <1>1, <1>3
<1>4. s # {}
  <2> SUFFICES ASSUME s = {}
               PROVE  Good(s)
    BY <1>2
  <2>1. G[s] = 0
    BY <1>2 DEF IsSum
  <2> QED
    BY <2>1 DEF Adds
<1> DEFINE c == First(s)
<1>5. c \in s /\ G[s] = f[c] + G[s \ {c}] /\ Good(s \ {c})
  <2>1. c \in s
    BY <1>4 DEF First
  <2>2. G[s] = f[c] + G[s \ {c}]
    BY <1>2, <1>4 DEF IsSum
  <2> QED
    BY <1>3, <2>1, <2>2
<1>6. G[s] \in Int
  BY <1>2, <1>5 DEF Adds
<1>7. ASSUME NEW x \in s
      PROVE  G[s] = f[x] + G[s \ {x}]
  <2>1. CASE x = c
    BY <1>5, <2>1
  <2>2. CASE x # c
    <3>1. G[s \ {c}] = f[x] + G[(s \ {c}) \ {x}] /\ x \in s \ {c} /\ c \in s \ {x}
      BY <1>5, <2>2 DEF Adds
    <3>2. G[s \ {x}] = f[c] + G[(s \ {x}) \ {c}] /\ Good(s \ {x})
      BY <1>3, <1>5, <2>2 DEF Adds
    <3>3. (s \ {c}) \ {x} = (s \ {x}) \ {c}
      OBVIOUS
    <3>4. f[x] \in Int /\ f[c] \in Int
      BY <1>2, <1>5
    <3>5. G[(s \ {x}) \ {c}] \in Int
      BY <1>3, <1>5 DEF Adds
    <3> DEFINE w == G[(s \ {x}) \ {c}]
               fx == f[x]
               fc == f[c]
    <3>6. G[s] = fc + (fx + w) /\ G[s \ {x}] = fc + w
      BY <1>5, <3>1, <3>2, <3>3
    <3>7. w \in Int /\ fx \in Int /\ fc \in Int
      BY <3>4, <3>5
    <3>8. G[s] = fx + G[s \ {x}]
      <4> HIDE DEF w, fx, fc
      <4> QED
        BY <3>6, <3>7
    <3> QED
      BY <3>8
  <2> QED
    BY <2>1, <2>2
<1> QED
  BY <1>2, <1>6, <1>7 DEF Adds

(* The sum over a set, one element at a time.                              *)
LEMMA SumOf ==
  ASSUME NEW S, IsFiniteSet(S), NEW f, \A x \in S : f[x] \in Int
  PROVE  /\ SumFunctionOnSet(f, S) \in Int
         /\ S = {} => SumFunctionOnSet(f, S) = 0
         /\ \A x \in S : SumFunctionOnSet(f, S) = f[x] + SumFunctionOnSet(f, S \ {x})
<1>1. PICK G : IsSum(G, f, S) /\ SumFunctionOnSet(f, S) = G[S]
  BY SumUnfolds
<1>2. Adds(G, f, S)
  BY <1>1, AnyOrder
<1>3. S = {} => G[S] = 0
  BY <1>1 DEF IsSum
<1>4. ASSUME NEW x \in S
      PROVE  SumFunctionOnSet(f, S) = f[x] + SumFunctionOnSet(f, S \ {x})
  <2> DEFINE T == S \ {x}
  <2>1. IsFiniteSet(T) /\ T \subseteq S
    BY FS_RemoveElement
  <2> HIDE DEF T
  <2>2. PICK H : IsSum(H, f, T) /\ SumFunctionOnSet(f, T) = H[T]
    BY <2>1, SumUnfolds
  <2>3. \A s \in SUBSET T : H[s] = G[s]
    <3> DEFINE B == {s \in SUBSET T : H[s] # G[s]}
    <3> SUFFICES ASSUME B # {}
                 PROVE  FALSE
      OBVIOUS
    <3>1. PICK s \in B : \A t \in B : t \subseteq s => t = s
      <4>1. B \subseteq SUBSET T
        OBVIOUS
      <4> HIDE DEF B
      <4> QED
        BY <2>1, <4>1, SmallestSet
    <3>2. s # {}
      BY <1>1, <2>2 DEF IsSum
    <3>3. First(s) \in s
      BY <3>2 DEF First
    <3>4. H[s \ {First(s)}] = G[s \ {First(s)}]
      BY <3>1, <3>3
    <3> QED
      BY <1>1, <2>1, <2>2, <3>2, <3>4 DEF IsSum
  <2>4. SumFunctionOnSet(f, T) = G[T]
    BY <2>2, <2>3
  <2> QED
    BY <1>1, <1>2, <2>4 DEF Adds, T
<1> QED
  BY <1>1, <1>2, <1>3, <1>4 DEF Adds

(* Bounds on a sum.                                                        *)
LEMMA SumAtLeast ==
  ASSUME NEW S, IsFiniteSet(S), NEW f, \A x \in S : f[x] \in Nat,
         NEW c \in Nat, NEW C, C \subseteq S, \A x \in C : c <= f[x]
  PROVE  Cardinality(C) * c <= SumFunctionOnSet(f, S)
<1> DEFINE P == {s \in SUBSET S : Cardinality(s \cap C) * c <= SumFunctionOnSet(f, s)}
<1>1. \A s \in SUBSET S : IsFiniteSet(s) /\ IsFiniteSet(s \cap C) /\ Cardinality(s \cap C) \in Nat
  BY FS_Subset, FS_CardinalityType
<1>2. {} \in P
  <2>1. SumFunctionOnSet(f, {}) = 0
    BY SumOf, FS_EmptySet
  <2>2. {} \cap C = {} /\ Cardinality({}) = 0
    BY FS_EmptySet
  <2> QED
    BY <2>1, <2>2
<1>3. ASSUME NEW s \in SUBSET S, NEW x \in S, s \in P, x \notin s
      PROVE  s \cup {x} \in P
  <2> DEFINE t == s \cup {x}
  <2>1. t \in SUBSET S /\ t \ {x} = s /\ x \in t
    BY <1>3
  <2> HIDE DEF t
  <2>2. /\ SumFunctionOnSet(f, t) = f[x] + SumFunctionOnSet(f, s)
        /\ SumFunctionOnSet(f, s) \in Int
    <3>1. /\ IsFiniteSet(s) /\ IsFiniteSet(t)
          /\ \A y \in s : f[y] \in Int
          /\ \A y \in t : f[y] \in Int
      <4>1. \A y \in S : f[y] \in Int
        OBVIOUS
      <4>2. s \subseteq S /\ t \subseteq S
        BY <2>1
      <4>3. IsFiniteSet(s) /\ IsFiniteSet(t)
        BY <1>1, <2>1
      <4> QED
        BY <4>1, <4>2, <4>3
    <3>2. SumFunctionOnSet(f, t) = f[x] + SumFunctionOnSet(f, t \ {x})
      BY <2>1, <3>1, SumOf
    <3>3. SumFunctionOnSet(f, s) \in Int
      BY <3>1, SumOf
    <3> QED
      BY <2>1, <3>2, <3>3
  <2>3. Cardinality(t \cap C) = IF x \in C THEN Cardinality(s \cap C) + 1 ELSE Cardinality(s \cap C)
    <3>1. CASE x \in C
      <4>1. t \cap C = (s \cap C) \cup {x} /\ x \notin s \cap C
        BY <1>3, <3>1 DEF t
      <4> QED
        BY <1>1, <3>1, <4>1, FS_AddElement
    <3>2. CASE x \notin C
      <4>1. t \cap C = s \cap C
        BY <3>2 DEF t
      <4> QED
        BY <3>2, <4>1
    <3> QED
      BY <3>1, <3>2
  <2> DEFINE n == Cardinality(s \cap C)
             u == SumFunctionOnSet(f, s)
  <2>4. n \in Nat /\ u \in Int /\ n * c <= u /\ f[x] \in Nat /\ (x \in C => c <= f[x])
    BY <1>1, <1>3, <2>2
  <2> HIDE DEF n, u
  <2>5. (n + 1) * c = n * c + c
    BY <2>4
  <2>6. Cardinality(t \cap C) * c <= f[x] + u
    BY <2>3, <2>4, <2>5 DEF n
  <2> QED
    BY <2>1, <2>2, <2>6 DEF t, u
<1>4. S \in P
  <2> HIDE DEF P
  <2> QED
    BY <1>2, <1>3, SetInduction
<1>5. S \cap C = C
  OBVIOUS
<1> QED
  BY <1>4, <1>5

(* A sum is at most as many times a bound as there are elements. *)
LEMMA SumAtMost ==
  ASSUME NEW S, IsFiniteSet(S), NEW f, NEW c \in Nat, \A x \in S : f[x] \in Nat /\ f[x] <= c
  PROVE  SumFunctionOnSet(f, S) <= Cardinality(S) * c
<1> DEFINE P == {s \in SUBSET S : SumFunctionOnSet(f, s) <= Cardinality(s) * c}
<1>1. \A s \in SUBSET S : IsFiniteSet(s) /\ Cardinality(s) \in Nat
  BY FS_Subset, FS_CardinalityType
<1>2. {} \in P
  <2>1. SumFunctionOnSet(f, {}) = 0
    BY SumOf, FS_EmptySet
  <2>2. Cardinality({}) = 0
    BY FS_EmptySet
  <2> QED
    BY <2>1, <2>2
<1>3. ASSUME NEW s \in SUBSET S, NEW x \in S, s \in P, x \notin s
      PROVE  s \cup {x} \in P
  <2> DEFINE t == s \cup {x}
  <2>1. t \in SUBSET S /\ t \ {x} = s /\ x \in t
    BY <1>3
  <2>2. Cardinality(t) = Cardinality(s) + 1
    BY <1>1, <1>3, FS_AddElement
  <2> HIDE DEF t
  <2>3. /\ SumFunctionOnSet(f, t) = f[x] + SumFunctionOnSet(f, s)
        /\ SumFunctionOnSet(f, s) \in Int
    <3>1. /\ IsFiniteSet(s) /\ IsFiniteSet(t)
          /\ \A y \in s : f[y] \in Int
          /\ \A y \in t : f[y] \in Int
      <4>1. \A y \in S : f[y] \in Int
        OBVIOUS
      <4>2. s \subseteq S /\ t \subseteq S
        BY <2>1
      <4>3. IsFiniteSet(s) /\ IsFiniteSet(t)
        BY <1>1, <2>1
      <4> QED
        BY <4>1, <4>2, <4>3
    <3>2. SumFunctionOnSet(f, t) = f[x] + SumFunctionOnSet(f, t \ {x})
      BY <2>1, <3>1, SumOf
    <3>3. SumFunctionOnSet(f, s) \in Int
      BY <3>1, SumOf
    <3> QED
      BY <2>1, <3>2, <3>3
  <2> DEFINE n == Cardinality(s)
             u == SumFunctionOnSet(f, s)
  <2>4. n \in Nat /\ u \in Int /\ u <= n * c /\ f[x] \in Nat /\ f[x] <= c
    BY <1>1, <1>3, <2>3
  <2> HIDE DEF n, u
  <2>5. (n + 1) * c = n * c + c
    BY <2>4
  <2>6. f[x] + u <= Cardinality(t) * c
    BY <2>2, <2>4, <2>5 DEF n
  <2> QED
    BY <2>1, <2>3, <2>6 DEF t, u
<1>4. S \in P
  <2> HIDE DEF P
  <2> QED
    BY <1>2, <1>3, SetInduction
<1> QED
  BY <1>4

-----------------------------------------------------------------------------
(* Sorting, and quotients without their fraction. *)

(* The values of a function on a finite set are at most as many as its     *)
(* elements.                                                               *)
LEMMA ImageFinite ==
  ASSUME NEW S, IsFiniteSet(S), NEW f
  PROVE  /\ IsFiniteSet({f[i] : i \in S})
         /\ Cardinality({f[i] : i \in S}) <= Cardinality(S)
<1> DEFINE T == {f[i] : i \in S}
           g == [i \in S |-> f[i]]
<1>1. g \in Surjection(S, T)
  BY DEF Surjection
<1> HIDE DEF g, T
<1>2. IsFiniteSet(T) /\ Cardinality(T) <= Cardinality(S)
  BY <1>1, FS_Surjection
<1> QED
  BY <1>2 DEF T

(* A sequence of numbers has a greatest element. *)
LEMMA Greatest ==
  ASSUME NEW n \in Nat \ {0}, NEW f, \A i \in 1 .. n : f[i] \in Nat
  PROVE  \E m \in 1 .. n : \A i \in 1 .. n : f[i] <= f[m]
<1> DEFINE T == {f[i] : i \in 1 .. n}
<1>1. IsFiniteSet(T) /\ T \subseteq Nat /\ T # {}
  <2> DEFINE S == 1 .. n
  <2>1. IsFiniteSet(S)
    BY FS_Interval
  <2> HIDE DEF S
  <2>2. IsFiniteSet({f[i] : i \in S})
    BY <2>1, ImageFinite
  <2>3. IsFiniteSet(T)
    BY <2>2 DEF S
  <2> QED
    BY <2>3
<1>2. Max(T) \in T /\ \A x \in T : x <= Max(T)
  <2> HIDE DEF T
  <2> QED
    BY <1>1, Extremes
<1> QED
  BY <1>2

(* The permutation p of the first n elements of f sorts them. *)
Sorts(p, f, n) == \A i, j \in 1 .. n : i < j => p[i] # p[j] /\ f[p[i]] <= f[p[j]]

(* Every sequence of numbers can be sorted: its greatest element is put    *)
(* last.                                                                   *)
LEMMA SortingExists ==
  ASSUME NEW n \in Nat, NEW f \in [1 .. n -> Nat]
  PROVE  \E p \in [1 .. n -> 1 .. n] : Sorts(p, f, n)
<1> DEFINE P == {k \in 0 .. n : \A g \in [1 .. n -> Nat] :
                   \E p \in [1 .. k -> 1 .. k] : Sorts(p, g, k)}
<1>1. 0 \in P
  <2> SUFFICES ASSUME NEW g \in [1 .. n -> Nat]
               PROVE  \E p \in [1 .. 0 -> 1 .. 0] : Sorts(p, g, 0)
    OBVIOUS
  <2> DEFINE p == [i \in 1 .. 0 |-> i]
  <2>1. p \in [1 .. 0 -> 1 .. 0]
    OBVIOUS
  <2>2. Sorts(p, g, 0)
    BY DEF Sorts
  <2> QED
    BY <2>1, <2>2
<1>2. ASSUME NEW k \in 0 .. n, k + 1 <= n, k \in P
      PROVE  k + 1 \in P
  <2> SUFFICES ASSUME NEW g \in [1 .. n -> Nat]
               PROVE  \E p \in [1 .. k + 1 -> 1 .. k + 1] : Sorts(p, g, k + 1)
    <3>1. k + 1 \in 0 .. n
      BY <1>2
    <3> QED
      BY <3>1
  <2>1. k + 1 \in Nat \ {0} /\ (\A i \in 1 .. k + 1 : g[i] \in Nat) /\ k + 1 \in 1 .. n
    BY <1>2
  <2>2. PICK m \in 1 .. k + 1 : \A i \in 1 .. k + 1 : g[i] <= g[m]
    <3> DEFINE l == k + 1
    <3> HIDE DEF l
    <3>1. \E m \in 1 .. l : \A i \in 1 .. l : g[i] <= g[m]
      BY <2>1, Greatest DEF l
    <3> QED
      BY <3>1 DEF l
  <2> DEFINE h == [g EXCEPT ![m] = g[k + 1]]
  <2>3. h \in [1 .. n -> Nat]
    BY <2>1
  <2>4. PICK q \in [1 .. k -> 1 .. k] : Sorts(q, h, k)
    BY <1>2, <2>3
  <2> DEFINE at(i) == IF i = m THEN k + 1 ELSE i
             p == [i \in 1 .. k + 1 |-> IF i = k + 1 THEN m ELSE at(q[i])]
  <2>5. \A i \in 1 .. k : q[i] \in 1 .. k /\ at(q[i]) \in 1 .. k + 1 /\ at(q[i]) # m
    <3>1. \A i \in 1 .. k : q[i] \in 1 .. k
      BY <2>4
    <3>2. \A j \in 1 .. k : at(j) \in 1 .. k + 1 /\ at(j) # m
      BY <2>1, <2>2
    <3> HIDE DEF at
    <3> QED
      BY <3>1, <3>2
  <2>6. p \in [1 .. k + 1 -> 1 .. k + 1]
    <3>1. ASSUME NEW i \in 1 .. k + 1
          PROVE  (IF i = k + 1 THEN m ELSE at(q[i])) \in 1 .. k + 1
      <4>1. CASE i = k + 1
        BY <2>2, <4>1
      <4>2. CASE i # k + 1
        <5>1. i \in 1 .. k
          BY <4>2
        <5> QED
          BY <2>5, <4>2, <5>1
      <4> QED
        BY <4>1, <4>2
    <3> HIDE DEF at
    <3> QED
      BY <3>1
  <2>7. \A i \in 1 .. k : g[at(q[i])] = h[q[i]]
    BY <2>1, <2>2, <2>5
  <2>8. ASSUME NEW i \in 1 .. k + 1, NEW j \in 1 .. k + 1, i < j
        PROVE  p[i] # p[j] /\ g[p[i]] <= g[p[j]]
    <3>1. i \in 1 .. k /\ p[i] = at(q[i])
      BY <2>8
    <3>2. CASE j = k + 1
      BY <2>2, <2>5, <3>1, <3>2
    <3>3. CASE j # k + 1
      <4>1. j \in 1 .. k /\ p[j] = at(q[j])
        BY <3>3
      <4>2. q[i] # q[j] /\ h[q[i]] <= h[q[j]]
        BY <2>4, <2>8, <3>1, <4>1 DEF Sorts
      <4>3. at(q[i]) # at(q[j])
        <5>1. q[i] \in 1 .. k /\ q[j] \in 1 .. k
          BY <2>4, <3>1, <4>1
        <5>2. \A x \in 1 .. k : x # k + 1
          OBVIOUS
        <5>3. q[i] # k + 1 /\ q[j] # k + 1
          BY <5>1, <5>2
        <5> QED
          BY <4>2, <5>3
      <4>4. g[at(q[i])] <= g[at(q[j])]
        BY <2>7, <3>1, <4>1, <4>2
      <4> QED
        BY <3>1, <4>1, <4>3, <4>4
    <3> QED
      BY <3>2, <3>3
  <2>9. Sorts(p, g, k + 1)
    BY <2>8 DEF Sorts
  <2> QED
    BY <2>6, <2>9
<1>3. P = 0 .. n
  <2>1. P \subseteq 0 .. n
    OBVIOUS
  <2> HIDE DEF P
  <2> QED
    BY <1>1, <1>2, <2>1, Induction
<1>4. n \in P
  <2>1. n \in 0 .. n
    OBVIOUS
  <2> QED
    BY <1>3, <2>1
<1> QED
  BY <1>4

(* What dropping the fraction of a quotient means. *)
LEMMA Quotient ==
  ASSUME NEW a \in Int, NEW b \in Nat \ {0}
  PROVE  a \div b \in Int /\ b * (a \div b) <= a /\ a < b * (a \div b) + b
OBVIOUS

(* Bounds on a quotient whose fraction is dropped. *)
LEMMA QuotientBounds ==
  ASSUME NEW a \in Int, NEW b \in Nat \ {0}, NEW c \in Int
  PROVE  /\ b * c <= a => c <= a \div b
         /\ a <= b * c => a \div b <= c
         /\ a < b * c => a \div b < c
<1> DEFINE q == a \div b
<1>1. q \in Int /\ b * q <= a /\ a < b * q + b
  BY Quotient
<1> HIDE DEF q
<1>2. ASSUME q < c PROVE b * q + b <= b * c
  BY <1>1, <1>2
<1>3. ASSUME c < q PROVE b * c + b <= b * q
  BY <1>1, <1>3
<1>4. ASSUME c <= q PROVE b * c <= b * q
  BY <1>1, <1>4
<1>5. b * c \in Int /\ b * q \in Int
  BY <1>1
<1> QED
  BY <1>1, <1>2, <1>3, <1>4, <1>5 DEF q

-----------------------------------------------------------------------------
(* Results: the median and the mean. *)

(* What sorting does. *)
LEMMA SortedBy ==
  ASSUME NEW n \in Nat, NEW f \in [1 .. n -> Nat]
  PROVE  \E p \in [1 .. n -> 1 .. n] : Sorts(p, f, n) /\ Sorted(f, n) = [i \in 1 .. n |-> f[p[i]]]
<1>1. \E p \in [1 .. n -> 1 .. n] : Sorts(p, f, n)
  BY SortingExists
<1> QED
  BY <1>1 DEF Sorted, Sorts

(* A permutation reaches every place. *)
LEMMA Permutes ==
  ASSUME NEW n \in Nat, NEW f, NEW p \in [1 .. n -> 1 .. n], Sorts(p, f, n)
  PROVE  \A k \in 1 .. n : \E i \in 1 .. n : p[i] = k
<1> DEFINE S == 1 .. n
<1>1. IsFiniteSet(S)
  BY FS_Interval
<1>2. p \in Injection(S, S)
  <2>1. \A i, j \in S : i < j \/ i = j \/ j < i
    OBVIOUS
  <2> QED
    BY <2>1 DEF Injection, IsInjective, Sorts
<1> HIDE DEF S
<1>3. p \in Surjection(S, S)
  BY <1>1, <1>2, FS_Injection
<1> QED
  BY <1>3 DEF Surjection, S

(* The elements that sorting puts before place k are at most k - 1. *)
LEMMA Few ==
  ASSUME NEW a \in Nat, NEW b \in Nat, a <= b + 1, NEW p, NEW C, C \subseteq {p[i] : i \in a .. b}
  PROVE  Cardinality(C) \in Nat /\ Cardinality(C) <= b - a + 1
<1> DEFINE S == a .. b
<1>1. IsFiniteSet(S) /\ Cardinality(S) = b - a + 1
  BY FS_Interval
<1> HIDE DEF S
<1> DEFINE T == {p[i] : i \in S}
<1>2. IsFiniteSet(T) /\ Cardinality(T) <= Cardinality(S)
  BY <1>1, ImageFinite
<1>3. C \subseteq T
  BY DEF S
<1> HIDE DEF T
<1> QED
  BY <1>1, <1>2, <1>3, FS_Subset, FS_CardinalityType

(* Half of n bounds what is at most another number it bounds. *)
LEMMA Halved ==
  ASSUME NEW x \in Int, NEW y \in Int, NEW n \in Int, x <= y, 2 * y <= n
  PROVE  2 * x <= n
OBVIOUS

(* The median that a full result gets is one of its times. *)
MedianOf(m, f, n) ==
  /\ 2 * Cardinality({i \in 1 .. n : 2 * f[i] < m}) <= n
  /\ 2 * Cardinality({i \in 1 .. n : 2 * f[i] > m}) <= n

(* A number between the elements that sorting puts in two middle places is *)
(* a median.                                                               *)
LEMMA Middle ==
  ASSUME NEW n \in Nat \ {0}, NEW f \in [1 .. n -> Nat], NEW p \in [1 .. n -> 1 .. n],
         Sorts(p, f, n), NEW a \in 1 .. n, NEW b \in 1 .. n, NEW m \in Nat,
         2 * (a - 1) <= n, 2 * (n - b) <= n,
         2 * f[p[b]] <= m, m <= 2 * f[p[a]]
  PROVE  MedianOf(m, f, n)
<1>0. \A k \in 1 .. n : \E i \in 1 .. n : p[i] = k
  <2> DEFINE S == 1 .. n
  <2>1. p \in [S -> S] /\ \A q \in [S -> S] :
          Sorts(q, f, n) => \A k \in S : \E i \in S : q[i] = k
    BY Permutes
  <2> HIDE DEF S
  <2>2. \A k \in S : \E i \in S : p[i] = k
    BY <2>1
  <2> QED
    BY <2>2 DEF S
<1> DEFINE L == {i \in 1 .. n : 2 * f[i] < m}
           G == {i \in 1 .. n : 2 * f[i] > m}
<1>1. \A i \in 1 .. n : p[i] \in 1 .. n /\ f[p[i]] \in Nat
  OBVIOUS
<1>2. L \subseteq {p[i] : i \in 1 .. a - 1}
  <2> SUFFICES ASSUME NEW k \in 1 .. n, 2 * f[k] < m
               PROVE  \E i \in 1 .. a - 1 : p[i] = k
    OBVIOUS
  <2>1. PICK i \in 1 .. n : p[i] = k
    BY <1>0
  <2> DEFINE x == f[p[i]]
             y == f[p[a]]
  <2>2. x \in Nat /\ y \in Nat /\ 2 * x < m /\ m <= 2 * y
    BY <1>1, <2>1
  <2>3. a < i => y <= x
    BY DEF Sorts
  <2>4. a = i => y = x
    OBVIOUS
  <2> HIDE DEF x, y
  <2>5. ~(a <= i)
    BY <2>2, <2>3, <2>4
  <2> QED
    BY <2>1, <2>5
<1>3. G \subseteq {p[i] : i \in b + 1 .. n}
  <2> SUFFICES ASSUME NEW k \in 1 .. n, 2 * f[k] > m
               PROVE  \E i \in b + 1 .. n : p[i] = k
    OBVIOUS
  <2>1. PICK i \in 1 .. n : p[i] = k
    BY <1>0
  <2> DEFINE x == f[p[i]]
             y == f[p[b]]
  <2>2. x \in Nat /\ y \in Nat /\ m < 2 * x /\ 2 * y <= m
    BY <1>1, <2>1
  <2>3. i < b => x <= y
    BY DEF Sorts
  <2>4. i = b => y = x
    OBVIOUS
  <2> HIDE DEF x, y
  <2>5. ~(i <= b)
    <3>1. i = b => FALSE
      BY <2>2, <2>4
    <3>2. i < b => FALSE
      BY <2>2, <2>3
    <3> QED
      BY <3>1, <3>2
  <2> QED
    BY <2>1, <2>5
<1> DEFINE l == Cardinality(L)
           g == Cardinality(G)
<1>4. l \in Nat /\ l <= a - 1
  <2>1. 1 \in Nat /\ a - 1 \in Nat /\ 1 <= (a - 1) + 1
    OBVIOUS
  <2> HIDE DEF L
  <2>2. Cardinality(L) \in Nat /\ Cardinality(L) <= (a - 1) - 1 + 1
    BY <1>2, <2>1, Few
  <2> QED
    BY <2>2
<1>5. g \in Nat /\ g <= n - b
  <2>1. b + 1 \in Nat /\ n \in Nat /\ b + 1 <= n + 1
    OBVIOUS
  <2> HIDE DEF G
  <2>2. Cardinality(G) \in Nat /\ Cardinality(G) <= n - (b + 1) + 1
    BY <1>3, <2>1, Few
  <2> QED
    BY <2>2
<1>6. 2 * l <= n /\ 2 * g <= n
  <2> HIDE DEF l, g
  <2>1. a - 1 \in Int /\ n - b \in Int /\ n \in Int
    OBVIOUS
  <2> QED
    <3>1. 2 * l <= n
      BY <1>4, <2>1, Halved
    <3>2. 2 * g <= n
      BY <1>5, <2>1, Halved
    <3> QED
      BY <3>1, <3>2
<1> QED
  BY <1>6 DEF MedianOf

(* The median of a full result is one in either port, up to the half that  *)
(* the C port drops.                                                       *)
LEMMA MedianFound ==
  ASSUME NEW n \in Nat \ {0}, NEW f \in [1 .. n -> Nat \ {0}]
  PROVE  /\ GetMedian(f, n) \in Nat \ {0}
         /\ MedianOf(GetMedian(f, n), f, n) \/ (InC /\ MedianOf(GetMedian(f, n) + 1, f, n))
<1>1. PICK p \in [1 .. n -> 1 .. n] : Sorts(p, f, n) /\ Sorted(f, n) = [i \in 1 .. n |-> f[p[i]]]
  <2>1. n \in Nat /\ f \in [1 .. n -> Nat]
    OBVIOUS
  <2> QED
    BY <2>1, SortedBy
<1> DEFINE h == n \div 2
           s == Sorted(f, n)
<1>2. h \in Nat /\ (n % 2 = 1 => n = 2 * h + 1) /\ (n % 2 # 1 => n = 2 * h)
  OBVIOUS
<1>3. \A i \in 1 .. n : p[i] \in 1 .. n /\ s[i] = f[p[i]] /\ f[p[i]] \in Nat \ {0}
  BY <1>1
<1>4. CASE n % 2 = 1
  <2>1. h + 1 \in 1 .. n /\ GetMedian(f, n) = 2 * f[p[h + 1]]
    BY <1>2, <1>3, <1>4 DEF GetMedian
  <2>2. 2 * f[p[h + 1]] \in Nat \ {0}
    BY <1>3, <2>1
  <2>3. MedianOf(2 * f[p[h + 1]], f, n)
    <3> DEFINE c == h + 1
               m == 2 * f[p[h + 1]]
    <3>1. c \in 1 .. n /\ m \in Nat /\ f \in [1 .. n -> Nat] /\ m = 2 * f[p[c]]
      BY <2>1, <2>2
    <3>2. 2 * (c - 1) <= n /\ 2 * (n - c) <= n
      BY <1>2, <1>4
    <3>3. 2 * f[p[c]] <= m /\ m <= 2 * f[p[c]]
      BY <3>1
    <3> HIDE DEF c, m, h
    <3>4. MedianOf(m, f, n)
      BY <1>1, <3>1, <3>2, <3>3, Middle
    <3> QED
      BY <3>4 DEF m
  <2> QED
    BY <2>1, <2>2, <2>3
<1>5. CASE n % 2 # 1
  <2> DEFINE a == f[p[h]]
             b == f[p[h + 1]]
  <2>1. h \in 1 .. n /\ h + 1 \in 1 .. n
    BY <1>2, <1>5
  <2>2. GetMedian(f, n) = IF InC THEN 2 * ((a + b) \div 2) ELSE a + b
    BY <1>3, <1>5, <2>1 DEF GetMedian
  <2>3. a \in Nat \ {0} /\ b \in Nat \ {0} /\ a <= b
    BY <1>1, <1>2, <1>3, <2>1 DEF Sorts
  <2>4. MedianOf(a + b, f, n)
    <3> DEFINE m == a + b
               c == h + 1
    <3>1. m \in Nat /\ 2 * a <= m /\ m <= 2 * b
      <4> HIDE DEF a, b
      <4> QED
        BY <2>3
    <3>2. 2 * (c - 1) <= n /\ 2 * (n - h) <= n /\ c \in 1 .. n /\ f \in [1 .. n -> Nat]
      BY <1>2, <1>5, <2>1
    <3>3. m \in Nat /\ 2 * f[p[h]] <= m /\ m <= 2 * f[p[c]]
      BY <3>1
    <3> HIDE DEF c, m, h
    <3>4. MedianOf(m, f, n)
      BY <1>1, <2>1, <3>2, <3>3, Middle
    <3> QED
      BY <3>4 DEF m
  <2> HIDE DEF a, b
  <2>5. /\ 2 * ((a + b) \div 2) \in Nat \ {0}
        /\ a + b \in {2 * ((a + b) \div 2), 2 * ((a + b) \div 2) + 1}
    BY <2>3
  <2>6. CASE InC
    BY <2>2, <2>4, <2>5, <2>6
  <2>7. CASE ~InC
    BY <2>2, <2>3, <2>4, <2>7
  <2> QED
    BY <2>6, <2>7
<1> QED
  BY <1>4, <1>5

(* The mean lies between bounds of the times. *)
LEMMA MeanBounded ==
  ASSUME NEW n \in Nat \ {0}, NEW f, NEW lo \in Nat, NEW hi \in Nat,
         \A i \in 1 .. n : f[i] \in Nat /\ lo <= f[i] /\ f[i] <= hi
  PROVE  /\ ComputeMean(f, n) \in Int
         /\ lo <= ComputeMean(f, n) /\ ComputeMean(f, n) <= hi
<1> DEFINE S == 1 .. n
           sum == SumFunctionOnSet(f, S)
<1>1. IsFiniteSet(S) /\ Cardinality(S) = n
  BY FS_Interval
<1>2. /\ \A i \in S : f[i] \in Nat
      /\ \A i \in S : f[i] \in Int
      /\ \A i \in S : lo <= f[i]
      /\ \A i \in S : f[i] \in Nat /\ f[i] <= hi
  OBVIOUS
<1> HIDE DEF S
<1>3. sum \in Int
  BY <1>1, <1>2, SumOf
<1>4. n * lo <= sum
  BY <1>1, <1>2, SumAtLeast
<1>5. sum <= n * hi
  BY <1>1, <1>2, SumAtMost
<1>6. ComputeMean(f, n) = sum \div n
  BY DEF ComputeMean, Sum, S
<1> HIDE DEF sum
<1>7. sum \div n \in Int /\ lo <= sum \div n /\ sum \div n <= hi
  BY <1>3, <1>4, <1>5, Quotient, QuotientBounds
<1> QED
  BY <1>6, <1>7

-----------------------------------------------------------------------------
(* Results: the consistency score of one time. *)

(* What a time contributes to the consistency score. *)
LEMMA Below ==
  ASSUME NEW v \in Nat \ {0}, NEW m \in Nat \ {0}, v < m
  PROVE  /\ BelowMedian(v, 2 * m) \in Nat
         /\ \A r \in 0 .. 100 : m * (100 - r) <= 200 * v => 100 - r <= BelowMedian(v, 2 * m)
<1> DEFINE a == 400 * v + 10 * (2 * m)
           b == 10 * (2 * m)
           q == a \div b
<1>1. a \in Int /\ b \in Nat \ {0} /\ 0 <= a
  OBVIOUS
<1>2. q \in Int /\ b * q <= a /\ a < b * q + b
  <2> HIDE DEF a, b
  <2> QED
    BY <1>1, Quotient
<1>3. 0 <= q
  <2>1. b * 0 <= a
    BY <1>1
  <2> HIDE DEF a, b
  <2> QED
    BY <1>1, <2>1, QuotientBounds
<1>4. ASSUME NEW r \in 0 .. 100, m * (100 - r) <= 200 * v
      PROVE  100 - r <= 10 * q
  <2> SUFFICES ASSUME 10 * q < 100 - r
               PROVE  FALSE
    BY <1>2
  <2>1. 400 * v < (20 * m) * q
    <3>1. a = 400 * v + 20 * m /\ b = 20 * m
      OBVIOUS
    <3> HIDE DEF a, b, q
    <3> QED
      BY <1>2, <3>1
  <2> HIDE DEF q
  <2>2. (20 * m) * q = (2 * m) * (10 * q)
    BY <1>2
  <2>3. (2 * m) * (10 * q) <= (2 * m) * (100 - r)
    BY <1>2
  <2>4. (2 * m) * (100 - r) = 2 * (m * (100 - r))
    OBVIOUS
  <2>5. m * (100 - r) \in Int
    OBVIOUS
  <2> QED
    BY <1>2, <1>4, <2>1, <2>2, <2>3, <2>4, <2>5
<1>5. BelowMedian(v, 2 * m) = 10 * q
  BY DEF BelowMedian
<1> HIDE DEF q
<1> QED
  BY <1>2, <1>3, <1>4, <1>5

(* The same for a time above the median. *)
LEMMA Above ==
  ASSUME NEW v \in Nat \ {0}, NEW m \in Nat \ {0}, m <= 2 * v, v < m
  PROVE  /\ AboveMedian(v, 2 * m) \in Nat
         /\ \A r \in 0 .. 100 : 200 * v <= m * (100 + r) => 100 - r <= AboveMedian(v, 2 * m)
<1> DEFINE a == 400 * v - 100 * (2 * m)
           b == 10 * (2 * m)
           q == a \div b
<1>1. a \in Int /\ b \in Nat \ {0} /\ 0 <= a /\ a < b * 10
  OBVIOUS
<1>2. q \in Int /\ b * q <= a /\ q < 10
  <2> HIDE DEF a, b
  <2> QED
    BY <1>1, Quotient, QuotientBounds
<1>3. ASSUME NEW r \in 0 .. 100, 200 * v <= m * (100 + r)
      PROVE  10 * q <= r
  <2> SUFFICES ASSUME r < 10 * q
               PROVE  FALSE
    BY <1>2
  <2>1. (20 * m) * q <= 400 * v - 200 * m
    <3>1. a = 400 * v - 200 * m /\ b = 20 * m
      OBVIOUS
    <3> HIDE DEF a, b, q
    <3> QED
      BY <1>2, <3>1
  <2> HIDE DEF q
  <2>2. (20 * m) * q = (2 * m) * (10 * q)
    BY <1>2
  <2>3. (2 * m) * r < (2 * m) * (10 * q)
    BY <1>2
  <2>4. m * (100 + r) = 100 * m + m * r /\ m * r \in Int
    OBVIOUS
  <2>5. (2 * m) * r = 2 * (m * r)
    OBVIOUS
  <2> QED
    BY <1>2, <1>3, <2>1, <2>2, <2>3, <2>4, <2>5
<1>4. AboveMedian(v, 2 * m) = 100 - 10 * q
  BY DEF AboveMedian
<1> HIDE DEF q
<1> QED
  BY <1>2, <1>3, <1>4

(* Every contribution is a natural number, whatever the median.            *)
LEMMA ContributionType ==
  ASSUME NEW v \in Nat, NEW m \in Nat
  PROVE  GetContribution(v, m) \in Nat
<1>1. CASE 4 * v = m
  BY <1>1 DEF GetContribution
<1>2. CASE 4 * v # m /\ v = 0
  BY <1>2 DEF GetContribution
<1>3. CASE 4 * v # m /\ v # 0 /\ 4 * v >= 2 * m
  BY <1>3 DEF GetContribution
<1>4. CASE v # 0 /\ 4 * v < m
  <2>1. GetContribution(v, m) = BelowMedian(v, m)
    BY <1>4 DEF GetContribution
  <2> DEFINE a == 400 * v + 10 * m
             b == 10 * m
  <2>2. a \in Int /\ b \in Nat \ {0} /\ b * 0 <= a
    BY <1>4
  <2> HIDE DEF a, b
  <2>3. a \div b \in Int /\ 0 <= a \div b
    BY <2>2, Quotient, QuotientBounds
  <2>4. BelowMedian(v, m) = 10 * (a \div b)
    BY DEF BelowMedian, a, b
  <2> QED
    BY <2>1, <2>3, <2>4
<1>5. CASE m < 4 * v /\ 4 * v < 2 * m
  <2>1. GetContribution(v, m) = AboveMedian(v, m)
    BY <1>5 DEF GetContribution
  <2> DEFINE a == 400 * v - 100 * m
             b == 10 * m
  <2>2. a \in Int /\ b \in Nat \ {0} /\ a <= b * 10
    BY <1>5
  <2> HIDE DEF a, b
  <2>3. a \div b \in Int /\ a \div b <= 10
    BY <2>2, Quotient, QuotientBounds
  <2>4. AboveMedian(v, m) = 100 - 10 * (a \div b)
    BY DEF AboveMedian, a, b
  <2> QED
    BY <2>1, <2>3, <2>4
<1> QED
  BY <1>1, <1>2, <1>3, <1>4, <1>5

(* A time within the range around the median contributes at least what is  *)
(* left of 100 after the range.                                            *)
LEMMA Contribution ==
  ASSUME NEW v \in Nat \ {0}, NEW m \in Nat \ {0}
  PROVE  /\ GetContribution(v, 2 * m) \in Nat
         /\ \A r \in 0 .. 100 :
              m * (100 - r) <= 200 * v /\ 200 * v <= m * (100 + r)
                => 100 - r <= GetContribution(v, 2 * m)
<1>1. CASE 4 * v = 2 * m
  <2>1. GetContribution(v, 2 * m) = 100
    BY <1>1 DEF GetContribution
  <2> QED
    BY <2>1
<1>2. CASE 4 * v # 2 * m /\ m <= v
  <2>1. GetContribution(v, 2 * m) = 0
    BY <1>2 DEF GetContribution
  <2>2. ASSUME NEW r \in 0 .. 100, 200 * v <= m * (100 + r)
        PROVE  100 - r <= 0
    <3> SUFFICES ASSUME r < 100
                 PROVE  FALSE
      OBVIOUS
    <3>1. m * (100 + r) < m * 200
      OBVIOUS
    <3>2. m * (100 + r) \in Int
      OBVIOUS
    <3> QED
      BY <1>2, <2>2, <3>1, <3>2
  <2> QED
    BY <2>1, <2>2
<1>3. CASE 4 * v < 2 * m
  <2>1. GetContribution(v, 2 * m) = BelowMedian(v, 2 * m)
    BY <1>3 DEF GetContribution
  <2>2. v < m
    BY <1>3
  <2> QED
    BY <2>1, <2>2, Below
<1>4. CASE 2 * m < 4 * v /\ v < m
  <2>1. GetContribution(v, 2 * m) = AboveMedian(v, 2 * m)
    BY <1>4 DEF GetContribution
  <2>2. m <= 2 * v
    BY <1>4
  <2> QED
    BY <1>4, <2>1, <2>2, Above
<1> QED
  BY <1>1, <1>2, <1>3, <1>4

-----------------------------------------------------------------------------
(* Results: one time more, a copy and a cleared result. *)

(* The results, with arrays of a given size. *)
Result(size) ==
  [values : {1, 2}, entries : 0 .. size, min : Nat, max : Nat, updated : BOOLEAN,
   median : Nat, mean : Nat]

(* The types of the parts that the proofs use. *)
LEMMA Setup ==
  ASSUME ResultsTypeOK
  PROVE  /\ setup.size \in Nat \ {0} /\ setup.range \in 0 .. 100 /\ setup.accept \in 0 .. 100
         /\ setup.port \in {"c", "cpp"} /\ setup.kind \in Kinds
         /\ Times \subseteq Nat \ {0}
         /\ Measured \subseteq {1, 2}
         /\ \A i \in {1, 2} : obj[i] \in Result(setup.size) /\ heap[i] \in [1 .. setup.size -> Nat]
BY ResultsAssumption DEF ResultsAssumption, ResultsTypeOK, Setups, Measured, Result

(* Whether the statistics describe an array depends on the setup alone. *)
LEMMA DescribesLater ==
  ASSUME setup' = setup, NEW r, NEW f, Describes(r, f)
  PROVE  Describes(r, f)'
BY DEF Describes, Full, GetMedian, InC

(* A full array has a median and a mean. *)
LEMMA Statistics ==
  ASSUME ResultsTypeOK, NEW f \in [1 .. setup.size -> Nat],
         \A n \in 1 .. setup.size : f[n] \in Times
  PROVE  /\ GetMedian(f, setup.size) \in Nat \ {0} /\ ComputeMean(f, setup.size) \in Nat
<1> DEFINE n == setup.size
<1>1. n \in Nat \ {0} /\ f \in [1 .. n -> Nat \ {0}] /\ \A i \in 1 .. n : f[i] \in Nat
  BY Setup
<1> HIDE DEF n
<1>2. GetMedian(f, n) \in Nat \ {0}
  BY <1>1, MedianFound
<1>3. PICK m \in 1 .. n : \A i \in 1 .. n : f[i] <= f[m]
  BY <1>1, Greatest
<1>4. f[m] \in Nat /\ 0 \in Nat /\ \A i \in 1 .. n : f[i] \in Nat /\ 0 <= f[i] /\ f[i] <= f[m]
  BY <1>1, <1>3
<1>5. ComputeMean(f, n) \in Int /\ 0 <= ComputeMean(f, n)
  BY <1>1, <1>4, MeanBounded
<1> QED
  BY <1>2, <1>5 DEF n

(* The extremes after one more time. *)
LEMMA ExtremesStep ==
  ASSUME ResultsTypeOK, NEW r \in Result(setup.size), NEW f \in [1 .. setup.size -> Nat],
         Describes(r, f), r.entries < setup.size, NEW t \in Times,
         NEW n, n = r.entries + 1
  PROVE  /\ NewMin(r, t) \in Nat /\ NewMax(r, t) \in Nat
         /\ NewMin(r, t) <= t /\ t <= NewMax(r, t)
         /\ r.entries > 0 => NewMin(r, t) <= r.min /\ r.max <= NewMax(r, t)
         /\ NewMin(r, t) \in {t} \cup (IF r.entries > 0 THEN {r.min} ELSE {})
         /\ NewMax(r, t) \in {t} \cup (IF r.entries > 0 THEN {r.max} ELSE {})
<1>1. /\ r.min \in Nat /\ r.max \in Nat /\ r.entries \in Nat /\ r.updated \in BOOLEAN
      /\ t \in Nat \ {0} /\ setup.port \in {"c", "cpp"}
  BY Setup DEF Result
<1>2. InC \in BOOLEAN /\ (~InC => (r.updated <=> r.entries > 0) /\ (r.entries = 0 => r.max = 0))
  BY DEF Describes, InC
<1>3. NewMin(r, t) = IF r.entries = 0 \/ t < r.min THEN t ELSE r.min
  BY <1>1, <1>2 DEF NewMin
<1>4. NewMax(r, t) = IF r.entries = 0 \/ t > r.max THEN t ELSE r.max
  BY <1>1, <1>2 DEF NewMax
<1> QED
  BY <1>1, <1>3, <1>4

(* With one more time the statistics still describe the array. *)
LEMMA AddDescribes ==
  ASSUME ResultsTypeOK, OwnArrays, NEW i \in {1, 2}, NEW t \in Times, AddEntry(i, t)
  PROVE  /\ obj'[i] \in Result(setup.size) /\ heap'[i] \in [1 .. setup.size -> Nat]
         /\ obj'[i].values = i /\ Describes(obj'[i], heap'[i])
         /\ \A j \in {1, 2} \ {i} : obj'[j] = obj[j] /\ heap'[j] = heap[j]
<1> DEFINE r == obj[i]
           g == heap[i]
           n == r.entries + 1
           f == [g EXCEPT ![n] = t]
           full == n = setup.size
           s == [r EXCEPT !.entries = n, !.min = NewMin(r, t), !.max = NewMax(r, t),
                          !.updated = TRUE,
                          !.median = IF full THEN GetMedian(f, n) ELSE r.median,
                          !.mean = IF full THEN ComputeMean(f, n) ELSE r.mean]
<1>1. r.values = i /\ Describes(r, g) /\ r \in Result(setup.size) /\ g \in [1 .. setup.size -> Nat]
  BY Setup DEF OwnArrays
<1>2. r.entries < setup.size /\ obj' = [obj EXCEPT ![i] = s] /\ heap' = [heap EXCEPT ![i] = f]
  BY <1>1 DEF AddEntry
<1>3. obj'[i] = s /\ heap'[i] = f /\ \A j \in {1, 2} \ {i} : obj'[j] = obj[j] /\ heap'[j] = heap[j]
  BY <1>2 DEF ResultsTypeOK
<1>4. /\ n \in 1 .. setup.size /\ setup.size \in Nat \ {0}
      /\ r.entries \in 0 .. setup.size /\ t \in Nat \ {0}
  <2>1. r.entries \in 0 .. setup.size
    BY <1>1 DEF Result
  <2>2. setup.size \in Nat \ {0} /\ t \in Nat \ {0}
    BY Setup
  <2> HIDE DEF r
  <2> QED
    BY <1>2, <2>1, <2>2
<1>5. f \in [1 .. setup.size -> Nat] /\ f[n] = t /\ \A k \in 1 .. r.entries : f[k] = g[k]
  BY <1>1, <1>4
<1> DEFINE lo == NewMin(r, t)
           hi == NewMax(r, t)
<1>6. /\ lo \in Nat /\ hi \in Nat
      /\ lo <= t /\ t <= hi
      /\ r.entries > 0 => lo <= r.min /\ r.max <= hi
      /\ lo \in {t} \cup (IF r.entries > 0 THEN {r.min} ELSE {})
      /\ hi \in {t} \cup (IF r.entries > 0 THEN {r.max} ELSE {})
  BY <1>1, <1>2, ExtremesStep
<1>7. \A k \in 1 .. n : f[k] \in Times /\ lo <= f[k] /\ f[k] <= hi
  <2> SUFFICES ASSUME NEW k \in 1 .. n
               PROVE  f[k] \in Times /\ lo <= f[k] /\ f[k] <= hi
    OBVIOUS
  <2>1. CASE k = n
    BY <1>5, <1>6, <2>1
  <2>2. CASE k # n
    <3>1. k \in 1 .. r.entries /\ r.entries > 0 /\ f[k] = g[k]
      BY <1>4, <1>5, <2>2
    <3>2. g[k] \in Times /\ r.min <= g[k] /\ g[k] <= r.max
      BY <1>1, <3>1 DEF Describes
    <3>3. r.min \in Nat /\ r.max \in Nat /\ g[k] \in Nat
      BY <1>1, <3>2, Setup DEF Result
    <3> HIDE DEF lo, hi, g, f, r
    <3> QED
      BY <1>6, <3>1, <3>2, <3>3
  <2> QED
    BY <2>1, <2>2
<1>8. (\E k \in 1 .. n : f[k] = lo) /\ (\E k \in 1 .. n : f[k] = hi)
  <2>1. r.entries > 0 => /\ \E k \in 1 .. r.entries : f[k] = r.min
                         /\ \E k \in 1 .. r.entries : f[k] = r.max
    BY <1>1, <1>5 DEF Describes
  <2>2. n \in 1 .. n /\ 1 .. r.entries \subseteq 1 .. n
    BY <1>4
  <2> HIDE DEF lo, hi, f
  <2> QED
    BY <1>5, <1>6, <2>1, <2>2
<1>9. full => GetMedian(f, n) \in Nat /\ ComputeMean(f, n) \in Nat
  BY <1>4, <1>5, <1>7, Statistics
<1> DEFINE med == GetMedian(f, n)
           mean == ComputeMean(f, n)
<1>10. /\ s \in Result(setup.size) /\ s.values = i
       /\ s.entries = n /\ s.min = lo /\ s.max = hi /\ s.updated = TRUE
       /\ full => s.median = med /\ s.mean = mean
  <2> DEFINE m1 == IF full THEN GetMedian(f, n) ELSE r.median
             m2 == IF full THEN ComputeMean(f, n) ELSE r.mean
  <2>1. r.median \in Nat /\ r.mean \in Nat /\ n \in 0 .. setup.size
    BY <1>1, <1>4 DEF Result
  <2>2. m1 \in Nat /\ m2 \in Nat
    BY <1>9, <2>1
  <2>3. full => m1 = med /\ m2 = mean
    OBVIOUS
  <2>4. s = [r EXCEPT !.entries = n, !.min = lo, !.max = hi, !.updated = TRUE,
                      !.median = m1, !.mean = m2]
    OBVIOUS
  <2> HIDE DEF m1, m2, s, lo, hi, f, med, mean, full, r, n
  <2> QED
    BY <1>1, <1>6, <2>1, <2>2, <2>3, <2>4 DEF Result
<1>11. Describes(s, f)
  <2> HIDE DEF s, lo, hi, f, r
  <2> QED
    BY <1>4, <1>7, <1>8, <1>10 DEF Describes, Full
<1> QED
  BY <1>3, <1>5, <1>10, <1>11

(* The sum of the two results. *)
LEMMA SumTwo ==
  ASSUME NEW f, f[1] \in Int, f[2] \in Int
  PROVE  Sum(f, 2) = f[1] + f[2]
<1>1. 1 .. 2 = {1, 2} /\ {1, 2} \ {1} = {2} /\ {2} \ {2} = {}
  OBVIOUS
<1> DEFINE S == {1, 2}
           T == {2}
<1>2. IsFiniteSet(S) /\ IsFiniteSet(T) /\ IsFiniteSet({})
  <2>1. IsFiniteSet(T)
    BY FS_Singleton
  <2>2. IsFiniteSet(T \cup {1})
    <3> HIDE DEF T
    <3> QED
      BY <2>1, FS_AddElement
  <2>3. T \cup {1} = S
    OBVIOUS
  <2> QED
    BY <2>1, <2>2, <2>3, FS_EmptySet
<1>3. 1 \in S /\ 2 \in T /\ (\A x \in S : f[x] \in Int) /\ \A x \in T : f[x] \in Int
  OBVIOUS
<1>4. SumFunctionOnSet(f, {}) = 0
  BY <1>2, SumOf
<1>5. SumFunctionOnSet(f, T) = f[2] + SumFunctionOnSet(f, T \ {2})
  <2> HIDE DEF S, T
  <2> QED
    BY <1>2, <1>3, SumOf
<1>6. SumFunctionOnSet(f, S) = f[1] + SumFunctionOnSet(f, S \ {1})
  <2> HIDE DEF S, T
  <2> QED
    BY <1>2, <1>3, SumOf
<1>7. Sum(f, 2) = SumFunctionOnSet(f, S)
  BY <1>1 DEF Sum
<1>8. S \ {1} = T /\ T \ {2} = {}
  OBVIOUS
<1> HIDE DEF S, T
<1>9. SumFunctionOnSet(f, T) = f[2]
  <2>1. SumFunctionOnSet(f, T \ {2}) = 0
    BY <1>4, <1>8
  <2>2. f[2] + 0 = f[2]
    OBVIOUS
  <2> QED
    BY <1>5, <2>1, <2>2
<1> QED
  BY <1>6, <1>7, <1>8, <1>9

(* A result that is left alone passes as it did. *)
LEMMA SameVerdict ==
  ASSUME setup' = setup, NEW i \in {1, 2}, OwnArrays, obj'[i] = obj[i], heap'[i] = heap[i]
  PROVE  Passes(obj[i])' <=> Passes(obj[i])
<1>1. obj[i].values = i
  BY DEF OwnArrays
<1>2. Conforming(obj[i])' = Conforming(obj[i])
  BY <1>1 DEF Conforming
<1>3. MinAcceptable(obj[i])' = MinAcceptable(obj[i])
  BY DEF MinAcceptable
<1> QED
  BY <1>2, <1>3 DEF Passes

(* The copy has its own array with the same times, and passes when the     *)
(* original does.                                                          *)
LEMMA Cloned ==
  ASSUME ResultsTypeOK, OwnArrays, setup' = setup, Full(obj[1]), CloneResults(2, 1)
  PROVE  /\ obj'[1] = obj[1] /\ heap'[1] = heap[1]
         /\ obj'[2] \in Result(setup.size) /\ heap'[2] \in [1 .. setup.size -> Nat]
         /\ obj' = [obj EXCEPT ![2] = obj'[2]] /\ heap' = [heap EXCEPT ![2] = heap'[2]]
         /\ obj'[2].values = 2 /\ Describes(obj'[2], heap'[2])
         /\ Full(obj[2])' /\ (Passes(obj[1]) => Passes(obj[2])')
<1> DEFINE r == obj[1]
           s == [r EXCEPT !.values = 2]
           f == heap[1]
<1>1. /\ r \in Result(setup.size) /\ f \in [1 .. setup.size -> Nat]
      /\ r.values = 1 /\ obj[2].values = 2 /\ r.entries = setup.size /\ Describes(r, f)
  BY Setup DEF OwnArrays, Full
<1>2. /\ obj' = [obj EXCEPT ![2] = s]
      /\ heap' = [heap EXCEPT ![2] = [n \in 1 .. setup.size |->
                    IF n <= r.entries THEN heap[1][n] ELSE heap[2][n]]]
  BY <1>1 DEF CloneResults
<1>3. [n \in 1 .. setup.size |-> IF n <= r.entries THEN heap[1][n] ELSE heap[2][n]] = f
  <2>1. \A n \in 1 .. setup.size : n <= r.entries
    BY <1>1, Setup
  <2> QED
    BY <1>1, <2>1
<1>4. obj'[2] = s /\ heap'[2] = f /\ obj'[1] = obj[1] /\ heap'[1] = heap[1]
  BY <1>2, <1>3 DEF ResultsTypeOK
<1>5. s \in Result(setup.size) /\ s.values = 2 /\ s.entries = r.entries /\ s.median = r.median
  BY <1>1 DEF Result
<1>6. Describes(s, f)
  BY <1>1 DEF Describes, Full, Result
<1>7. Full(obj[2])'
  BY <1>1, <1>4, <1>5 DEF Full
<1>8. ASSUME Passes(r) PROVE Passes(obj[2])'
  <2>1. Conforming(obj[2])' = Conforming(r)
    BY <1>1, <1>4, <1>5 DEF Conforming
  <2>2. MinAcceptable(obj[2])' = MinAcceptable(r)
    BY <1>4, <1>5 DEF MinAcceptable
  <2> QED
    BY <1>8, <2>1, <2>2 DEF Passes
<1> QED
  BY <1>1, <1>2, <1>3, <1>4, <1>5, <1>6, <1>7, <1>8

(* The statistics of a cleared result describe an empty one, also in the C *)
(* port, which forgets the entries only.                                   *)
LEMMA ClearedDescribes ==
  ASSUME ResultsTypeOK, NEW r \in Result(setup.size), NEW f, Describes(r, f)
  PROVE  /\ Cleared(r) \in Result(setup.size) /\ Cleared(r).values = r.values
         /\ Describes(Cleared(r), f)
<1>1. /\ Cleared(r) \in Result(setup.size) /\ Cleared(r).values = r.values
      /\ Cleared(r).entries = 0 /\ (~InC => Cleared(r).updated = FALSE /\ Cleared(r).max = 0)
  <2>1. CASE InC
    <3>1. Cleared(r) = [r EXCEPT !.entries = 0]
      BY <2>1 DEF Cleared
    <3>2. 0 \in 0 .. setup.size
      BY Setup
    <3> QED
      BY <2>1, <3>1, <3>2 DEF Result
  <2>2. CASE ~InC
    <3>1. Cleared(r) = [r EXCEPT !.entries = 0, !.min = 0, !.max = 0, !.updated = FALSE,
                                 !.median = 0, !.mean = 0]
      BY <2>2 DEF Cleared
    <3>2. 0 \in 0 .. setup.size
      BY Setup
    <3>3. Cleared(r) = [values |-> r.values, entries |-> 0, min |-> 0, max |-> 0,
                        updated |-> FALSE, median |-> 0, mean |-> 0]
      BY <3>1 DEF Result
    <3>4. r.values \in {1, 2}
      BY DEF Result
    <3> QED
      BY <3>2, <3>3, <3>4 DEF Result
  <2> QED
    BY <2>1, <2>2
<1> DEFINE s == Cleared(r)
<1> HIDE DEF s
<1>2. 0 # setup.size
  BY Setup
<1>3. Describes(s, f)
  BY <1>1, <1>2 DEF Describes, Full, s
<1> QED
  BY <1>1, <1>3 DEF s

-----------------------------------------------------------------------------
(* Results: the combined score. *)

(* The times of some of the results. *)
TimesOf(objects, results) ==
  UNION {{heap[objects[i].values][n] : n \in 1 .. objects[i].entries} : i \in results}

(* They are finitely many. *)
LEMMA TimesFinite ==
  ASSUME NEW objects, NEW results, results \in {{1}, {2}, {1, 2}},
         \A i \in results : objects[i].entries \in Int
  PROVE  IsFiniteSet(TimesOf(objects, results))
<1> DEFINE A(i) == {heap[objects[i].values][n] : n \in 1 .. objects[i].entries}
           B == {A(i) : i \in results}
<1>1. ASSUME NEW i \in results PROVE IsFiniteSet(A(i))
  <2> DEFINE k == objects[i].entries
             g == heap[objects[i].values]
             S == 1 .. k
  <2>1. k \in Int => IsFiniteSet(1 .. k)
    <3> HIDE DEF k
    <3> QED
      BY FS_Interval
  <2>2. IsFiniteSet(S)
    BY <2>1
  <2> HIDE DEF S, g
  <2>3. IsFiniteSet({g[n] : n \in S})
    BY <2>2, ImageFinite
  <2> QED
    BY <2>3 DEF g, S
<1>2. IsFiniteSet(results)
  <2>1. IsFiniteSet({1}) /\ IsFiniteSet({2})
    BY FS_Singleton
  <2>2. IsFiniteSet({1} \cup {2})
    BY <2>1, FS_Union
  <2>3. {1} \cup {2} = {1, 2}
    OBVIOUS
  <2> QED
    BY <2>1, <2>2, <2>3
<1> DEFINE h == [i \in results |-> A(i)]
<1>3. IsFiniteSet({h[i] : i \in results})
  <2> HIDE DEF h
  <2> QED
    BY <1>2, ImageFinite
<1>4. {h[i] : i \in results} = B
  OBVIOUS
<1>5. \A T \in B : IsFiniteSet(T)
  BY <1>1
<1> HIDE DEF B
<1>6. IsFiniteSet(UNION B)
  BY <1>3, <1>4, <1>5, FS_UNION
<1> QED
  BY <1>6 DEF B, TimesOf

(* A sum of natural numbers is one. *)
LEMMA SumNat ==
  ASSUME NEW k \in Nat, NEW f, \A n \in 1 .. k : f[n] \in Nat
  PROVE  Sum(f, k) \in Nat
<1> DEFINE S == 1 .. k
<1>1. IsFiniteSet(S)
  BY FS_Interval
<1>2. \A n \in S : f[n] \in Nat /\ f[n] \in Int
  OBVIOUS
<1> HIDE DEF S
<1>3. SumFunctionOnSet(f, S) \in Int
  BY <1>1, <1>2, SumOf
<1>4. Cardinality({}) * 0 <= SumFunctionOnSet(f, S)
  <2>1. {} \subseteq S /\ \A n \in {} : 0 <= f[n]
    OBVIOUS
  <2> DEFINE C == {}
             c == 0
  <2>2. c \in Nat /\ C \subseteq S /\ \A n \in C : c <= f[n]
    OBVIOUS
  <2> HIDE DEF C, c
  <2>3. Cardinality(C) * c <= SumFunctionOnSet(f, S)
    BY <1>1, <1>2, <2>2, SumAtLeast
  <2> QED
    BY <2>3 DEF C, c
<1>5. Cardinality({}) = 0
  BY FS_EmptySet
<1> QED
  BY <1>3, <1>4, <1>5 DEF Sum, S

(* The score of any published results has its type, also when a failed     *)
(* multi_thread test publishes results that are cleared.                   *)
LEMMA ScoreType ==
  ASSUME NEW size \in Nat \ {0}, heap \in [{1, 2} -> [1 .. size -> Nat]],
         NEW objects, \A i \in {1, 2} : objects[i] \in Result(size),
         NEW results, results \in {{1}, {2}, {1, 2}}
  PROVE  GenerateCombinedScore(objects, results) \in Scores
<1> DEFINE sc == GenerateCombinedScore(objects, results)
           Value(i, n) == heap[objects[i].values][n]
           Entries(i) == 1 .. objects[i].entries
           med == objects[Min(results)].median + objects[Max(results)].median
           all == UNION {{Value(i, n) : n \in Entries(i)} : i \in Counted(results)}
           times == {Value(Seed(results), 1)} \cup all
           share(i) == [n \in Entries(i) |-> GetContribution(Value(i, n), med)]
           e == [i \in {1, 2} |-> IF i \in Counted(results) THEN objects[i].entries ELSE 0]
           c == [i \in {1, 2} |-> IF i \in Counted(results) THEN Sum(share(i), objects[i].entries)
                                  ELSE 0]
<1>1. sc = [count |-> Sum(e, 2), consistency |-> Sum(c, 2), slowest |-> Max(times),
            fastest |-> Min(times)]
  BY DEF GenerateCombinedScore
<1>2. \A i \in {1, 2} : /\ objects[i].values \in {1, 2} /\ objects[i].entries \in 0 .. size
                        /\ objects[i].median \in Nat
  BY DEF Result
<1>3. Min(results) \in {1, 2} /\ Max(results) \in {1, 2}
  BY DEF Min, Max
<1>4. Counted(results) \in {{1}, {2}, {1, 2}} /\ Seed(results) \in {1, 2}
  BY <1>3 DEF Counted, Seed
<1>5. med \in Nat
  BY <1>2, <1>3
<1>6. \A i \in {1, 2} : \A n \in 1 .. size : Value(i, n) \in Nat
  BY <1>2
<1>7. \A i \in {1, 2} : Entries(i) \subseteq 1 .. size /\ objects[i].entries \in Nat
  BY <1>2
<1>8. \A i \in {1, 2} : Sum(share(i), objects[i].entries) \in Nat
  <2> SUFFICES ASSUME NEW i \in {1, 2}
               PROVE  Sum(share(i), objects[i].entries) \in Nat
    OBVIOUS
  <2> DEFINE k == objects[i].entries
             s == share(i)
  <2>1. \A n \in 1 .. k : s[n] \in Nat
    <3> SUFFICES ASSUME NEW n \in 1 .. k
                 PROVE  GetContribution(Value(i, n), med) \in Nat
      OBVIOUS
    <3>1. Value(i, n) \in Nat
      BY <1>6, <1>7
    <3> HIDE DEF Value, med
    <3> QED
      BY <1>5, <3>1, ContributionType
  <2>2. k \in Nat
    BY <1>7
  <2> HIDE DEF k, s
  <2>3. Sum(s, k) \in Nat
    BY <2>1, <2>2, SumNat
  <2> QED
    BY <2>3 DEF s, k
<1>9. Sum(e, 2) \in Nat /\ Sum(c, 2) \in Nat
  <2>1. \A n \in 1 .. 2 : e[n] \in Nat
    BY <1>7
  <2>2. \A n \in 1 .. 2 : c[n] \in Nat
    <3> HIDE DEF share
    <3> QED
      BY <1>8
  <2> HIDE DEF e, c
  <2> QED
    BY <2>1, <2>2, SumNat
<1>10. IsFiniteSet(times) /\ times \subseteq Nat /\ times # {}
  <2>1. IsFiniteSet(all)
    <3>1. \A i \in Counted(results) : objects[i].entries \in Int
      BY <1>4, <1>7
    <3> DEFINE C == Counted(results)
    <3> HIDE DEF C
    <3>2. C \in {{1}, {2}, {1, 2}} /\ \A i \in C : objects[i].entries \in Int
      BY <1>4, <3>1 DEF C
    <3>3. IsFiniteSet(TimesOf(objects, C))
      BY <3>2, TimesFinite
    <3>4. TimesOf(objects, Counted(results)) = all
      BY DEF TimesOf
    <3> QED
      BY <3>3, <3>4 DEF C
  <2>2. all \subseteq Nat
    <3> SUFFICES ASSUME NEW i \in Counted(results), NEW n \in Entries(i)
                 PROVE  Value(i, n) \in Nat
      OBVIOUS
    <3> QED
      BY <1>4, <1>6, <1>7
  <2>3. Value(Seed(results), 1) \in Nat
    <3>1. Seed(results) \in {1, 2} /\ 1 \in 1 .. size
      BY <1>4
    <3> HIDE DEF Value
    <3> QED
      BY <1>6, <3>1
  <2>4. IsFiniteSet(all \cup {Value(Seed(results), 1)})
    <3> HIDE DEF all
    <3> QED
      BY <2>1, FS_AddElement
  <2>5. all \cup {Value(Seed(results), 1)} = times
    <3> HIDE DEF all
    <3> QED
      OBVIOUS
  <2> HIDE DEF all
  <2> QED
    BY <2>2, <2>3, <2>4, <2>5
<1>11. Max(times) \in Nat /\ Min(times) \in Nat
  <2> HIDE DEF times
  <2> QED
    BY <1>10, Extremes
<1> HIDE DEF e, c, times
<1> QED
  BY <1>1, <1>9, <1>11 DEF Scores

(* The extremes of the score are among the times it is made of, and the    *)
(* number of times is that of the results that count.                      *)
LEMMA ScoreExtremes ==
  ASSUME ResultsTypeOK, OwnArrays, NEW results, results \in {{1}, {2}, {1, 2}},
         Counted(results) = results, \A i \in results : Full(obj[i])
  PROVE  LET sc == GenerateCombinedScore(obj, results)
         IN  /\ sc.count = Sum([i \in {1, 2} |-> IF i \in results THEN obj[i].entries ELSE 0], 2)
             /\ sc.count > 0
             /\ {sc.slowest, sc.fastest} \subseteq UNION {Values(obj[i]) : i \in results}
<1> DEFINE sc == GenerateCombinedScore(obj, results)
           e == [i \in {1, 2} |-> IF i \in results THEN obj[i].entries ELSE 0]
           Value(i, n) == heap[obj[i].values][n]
           Entries(i) == 1 .. obj[i].entries
           all == UNION {{Value(i, n) : n \in Entries(i)} : i \in results}
           times == {Value(Seed(results), 1)} \cup all
<1>1. sc.count = Sum(e, 2) /\ sc.slowest = Max(times) /\ sc.fastest = Min(times)
  BY DEF GenerateCombinedScore
<1>2. \A i \in results : /\ obj[i].entries = setup.size /\ setup.size \in Nat \ {0}
                         /\ i \in {1, 2} /\ obj[i].values = i
  BY Setup DEF Full, OwnArrays
<1>3. sc.count > 0
  <2>1. e[1] \in Nat /\ e[2] \in Nat /\ (e[1] > 0 \/ e[2] > 0)
    BY <1>2
  <2> HIDE DEF e, sc
  <2>2. Sum(e, 2) = e[1] + e[2]
    BY <2>1, SumTwo
  <2> QED
    BY <1>1, <2>1, <2>2
<1>4. Seed(results) \in results
  BY DEF Seed, Max, Min
<1>5. times = all
  BY <1>2, <1>4
<1>6. IsFiniteSet(all)
  <2>1. IsFiniteSet(TimesOf(obj, results))
    BY <1>2, TimesFinite
  <2> QED
    BY <2>1 DEF TimesOf
<1>7. all \subseteq Nat /\ all # {}
  <2>1. \A i \in results : heap[i] \in [1 .. setup.size -> Nat]
    BY <1>2, Setup
  <2>2. all \subseteq Nat
    BY <1>2, <2>1
  <2>3. Value(Seed(results), 1) \in all
    BY <1>5
  <2> QED
    BY <2>2, <2>3
<1>8. Max(all) \in all /\ Min(all) \in all
  <2> HIDE DEF all
  <2> QED
    BY <1>6, <1>7, Extremes
<1>9. all = UNION {Values(obj[i]) : i \in results}
  BY DEF Values
<1> QED
  BY <1>1, <1>3, <1>5, <1>8, <1>9

(* The percentages and the size are numbers. *)
LEMMA Percentages ==
  ASSUME ResultsTypeOK
  PROVE  /\ setup.range \in Int /\ setup.accept \in Int
         /\ 100 - setup.range \in Nat /\ setup.size \in Int
<1>1. setup.range \in 0 .. 100 /\ setup.accept \in 0 .. 100 /\ setup.size \in Nat
  BY Setup
<1> DEFINE a == setup.range
           b == setup.accept
<1> HIDE DEF a, b
<1>2. a \in 0 .. 100 /\ b \in 0 .. 100
  BY <1>1 DEF a, b
<1>3. a \in Int /\ b \in Int /\ 100 - a \in Nat
  BY <1>2
<1> QED
  BY <1>1, <1>3 DEF a, b

(* The consistency score of one result that passes. *)
LEMMA ScoreConsistent ==
  ASSUME ResultsTypeOK, OwnArrays, NEW i \in {1, 2}, Full(obj[i]), Passes(obj[i])
  PROVE  LET sc == GenerateCombinedScore(obj, {i})
         IN  sc.consistency >= ((sc.count * setup.accept) \div 100) * (100 - setup.range)
<1> DEFINE sc == GenerateCombinedScore(obj, {i})
           r == obj[i]
           n == setup.size
           f == heap[i]
           med == r.median + r.median
           share == [k \in 1 .. n |-> GetContribution(f[k], med)]
           e == [j \in {1, 2} |-> IF j \in {i} THEN obj[j].entries ELSE 0]
           c == [j \in {1, 2} |-> IF j \in {i} THEN Sum([k \in 1 .. obj[j].entries |->
                    GetContribution(heap[obj[j].values][k], med)], obj[j].entries) ELSE 0]
<1>1. r.values = i /\ r.entries = n /\ n \in Nat \ {0} /\ f \in [1 .. n -> Nat] /\ Describes(r, f)
  BY Setup DEF Full, OwnArrays
<1>2. Min({i}) = i /\ Max({i}) = i
  BY DEF Min, Max
<1>3. Counted({i}) = {i}
  BY <1>2 DEF Counted
<1>4. sc.count = Sum(e, 2) /\ sc.consistency = Sum(c, 2)
  BY <1>2, <1>3 DEF GenerateCombinedScore
<1>5. r.median \in Nat \ {0} /\ med = 2 * r.median /\ \A k \in 1 .. n : f[k] \in Nat \ {0}
  <2>1. \A k \in 1 .. n : f[k] \in Times /\ f[k] \in Nat \ {0}
    BY <1>1, Setup DEF Describes
  <2>2. r.median = GetMedian(f, n)
    BY <1>1 DEF Describes, Full
  <2>3. r.median \in Nat \ {0}
    BY <1>1, <2>1, <2>2, Statistics
  <2> QED
    BY <2>1, <2>3
<1>6. \A k \in 1 .. n : share[k] \in Nat
  <2> SUFFICES ASSUME NEW k \in 1 .. n
               PROVE  GetContribution(f[k], med) \in Nat
    OBVIOUS
  <2> HIDE DEF med, f, r
  <2> QED
    BY <1>5, Contribution
<1> DEFINE C == Conforming(r)
<1>7. C \subseteq 1 .. n /\ \A k \in C : 100 - setup.range <= share[k]
  <2>1. C = {k \in 1 .. n : 200 * f[k] <= r.median * (100 + setup.range)
                             /\ 200 * f[k] >= r.median * (100 - setup.range)}
    BY <1>1 DEF Conforming
  <2> SUFFICES ASSUME NEW k \in C
               PROVE  100 - setup.range <= GetContribution(f[k], med)
    BY <2>1
  <2> DEFINE v == f[k]
             m == r.median
  <2>2. /\ v \in Nat \ {0} /\ m \in Nat \ {0}
        /\ 200 * v <= m * (100 + setup.range) /\ m * (100 - setup.range) <= 200 * v
    <3>1. v \in Nat \ {0} /\ m \in Nat \ {0}
      BY <1>5, <2>1
    <3>2. 200 * v <= m * (100 + setup.range) /\ 200 * v >= m * (100 - setup.range)
      BY <2>1
    <3>3. m * (100 - setup.range) \in Int /\ 200 * v \in Int
      <4>1. setup.range \in Int
        BY Percentages
      <4> DEFINE w == setup.range
      <4> HIDE DEF v, m, w
      <4>2. m * (100 - w) \in Int /\ 200 * v \in Int
        BY <3>1, <4>1 DEF w
      <4> QED
        BY <4>2 DEF w
    <3> HIDE DEF v, m
    <3> QED
      BY <3>1, <3>2, <3>3
  <2>3. med = 2 * m
    BY <1>5
  <2> HIDE DEF v, m, med
  <2>4. 100 - setup.range <= GetContribution(v, 2 * m)
    BY <2>2, Contribution, Setup
  <2> QED
    BY <2>3, <2>4 DEF v
<1>8. IsFiniteSet(1 .. n) /\ IsFiniteSet(C) /\ Cardinality(C) \in Nat
  <2>1. IsFiniteSet(1 .. n)
    BY <1>1, FS_Interval
  <2> QED
    BY <1>7, <2>1, FS_Subset, FS_CardinalityType
<1>9. Cardinality(C) * (100 - setup.range) <= Sum(share, n) /\ Sum(share, n) \in Int
  <2> DEFINE S == 1 .. n
             d == 100 - setup.range
  <2>1. IsFiniteSet(S) /\ d \in Nat
    BY <1>8, Percentages
  <2>4. C \subseteq S /\ \A k \in C : d <= share[k]
    <3> HIDE DEF share, C
    <3> QED
      BY <1>7
  <2>5. (\A k \in S : share[k] \in Nat) /\ \A k \in S : share[k] \in Int
    <3> HIDE DEF share
    <3> QED
      BY <1>6
  <2> HIDE DEF S, d, C, share
  <2>2. Cardinality(C) * d <= SumFunctionOnSet(share, S)
    BY <2>1, <2>4, <2>5, SumAtLeast
  <2>3. SumFunctionOnSet(share, S) \in Int
    BY <2>1, <2>5, SumOf
  <2> QED
    BY <2>2, <2>3 DEF Sum, S, d
<1>10. c[i] = Sum(share, n)
  BY <1>1
<1>11. sc.count = n /\ sc.consistency = Sum(share, n)
  <2>1. e[i] = n /\ \A j \in {1, 2} \ {i} : e[j] = 0 /\ c[j] = 0
    BY <1>1
  <2>2. e[1] \in Int /\ e[2] \in Int /\ e[1] + e[2] = n
    BY <1>1, <2>1
  <2>3. c[1] \in Int /\ c[2] \in Int /\ c[1] + c[2] = Sum(share, n)
    <3> DEFINE x == c[1]
               y == c[2]
               total == Sum(share, n)
    <3>1. total \in Int
      BY <1>9
    <3>2. (i = 1 => x = total /\ y = 0) /\ (i = 2 => x = 0 /\ y = total)
      <4>1. i = 1 => 2 \in {1, 2} \ {i}
        OBVIOUS
      <4>2. i = 2 => 1 \in {1, 2} \ {i}
        OBVIOUS
      <4> HIDE DEF c, share, total
      <4>3. c[i] = total
        BY <1>10 DEF total
      <4>4. i = 1 => c[1] = total /\ c[2] = 0
        BY <2>1, <4>1, <4>3
      <4>5. i = 2 => c[2] = total /\ c[1] = 0
        BY <2>1, <4>2, <4>3
      <4> QED
        BY <4>4, <4>5
    <3> HIDE DEF x, y, total
    <3>3. x \in Int /\ y \in Int /\ x + y = total
      BY <3>1, <3>2
    <3> QED
      BY <3>3 DEF x, y, total
  <2> HIDE DEF e, c, sc
  <2> QED
    BY <1>4, <2>2, <2>3, SumTwo
<1>12. Cardinality(C) >= (n * setup.accept) \div 100
  BY <1>1 DEF Passes, MinAcceptable
<1>13. (n * setup.accept) \div 100 \in Int /\ 100 - setup.range \in Nat
  <2> DEFINE w == setup.accept
             z == n * w
  <2>1. w \in Int /\ n \in Int /\ 100 - setup.range \in Nat
    BY Percentages
  <2>2. z \in Int
    <3> HIDE DEF n, w
    <3> QED
      BY <2>1
  <2>3. z \div 100 \in Int
    <3> HIDE DEF z
    <3> QED
      BY <2>2, Quotient
  <2> QED
    BY <2>1, <2>3
<1> DEFINE a == (n * setup.accept) \div 100
           b == Cardinality(C)
           d == 100 - setup.range
<1>14. a * d <= b * d
  <2>1. a \in Int /\ b \in Nat /\ d \in Nat /\ a <= b
    BY <1>8, <1>12, <1>13
  <2> HIDE DEF a, b, d
  <2> QED
    BY <2>1
<1>15. a * d <= Sum(share, n)
  <2>1. a * d \in Int /\ b * d \in Int
    <3>1. a \in Int /\ b \in Nat /\ d \in Nat
      BY <1>8, <1>13
    <3> HIDE DEF a, b, d
    <3> QED
      BY <3>1
  <2> HIDE DEF share
  <2> QED
    BY <1>9, <1>14, <2>1
<1>16. a * d \in Int /\ Sum(share, n) \in Int
  BY <1>9, <1>13
<1> HIDE DEF share, sc
<1> QED
  BY <1>11, <1>15, <1>16 DEF sc

-----------------------------------------------------------------------------
(* Results: the inductive invariant, step by step. *)

(* The parts of the type invariant that most operations leave alone. *)
LEMMA TypeLater ==
  ASSUME ResultsTypeOK, setup' = setup, stage' \in Stages, tries' \in Nat,
         kept' \in BOOLEAN, verdict' \in BOOLEAN, published' \subseteq {1, 2},
         freed' \subseteq {1, 2}, score' \in Scores,
         obj' = [i \in {1, 2} |-> obj'[i]], heap' = [i \in {1, 2} |-> heap'[i]],
         \A i \in {1, 2} : obj'[i] \in Result(setup.size) /\ heap'[i] \in [1 .. setup.size -> Nat]
  PROVE  ResultsTypeOK'
<1> DEFINE R == Result(setup.size)
           H == [1 .. setup.size -> Nat]
<1>1. obj' \in [{1, 2} -> R] /\ heap' \in [{1, 2} -> H]
  <2>1. \A i \in {1, 2} : obj'[i] \in R /\ heap'[i] \in H
    OBVIOUS
  <2> HIDE DEF R, H
  <2> QED
    BY <2>1
<1>2. setup' \in Setups'
  BY DEF ResultsTypeOK, Setups
<1> QED
  BY <1>1, <1>2 DEF ResultsTypeOK, Result, Stages, Scores

(* When each result has its own array and describes it, the part of the    *)
(* invariant on arrays holds.                                              *)
LEMMA OwnLater ==
  ASSUME setup' = setup,
         \A i \in {1, 2} : obj'[i].values = i /\ Describes(obj'[i], heap'[i])
  PROVE  OwnArrays'
BY DEF OwnArrays, Describes, Full, GetMedian, InC

(* The results start in the inductive invariant. *)
LEMMA ResultsInitIInv == ResultsInit => ResultsIInv
<1> SUFFICES ASSUME ResultsInit
             PROVE  ResultsIInv
  OBVIOUS
<1>1. setup \in Setups /\ setup.size \in Nat \ {0}
  BY ResultsAssumption DEF ResultsAssumption, ResultsInit, Setups
<1>2. \A i \in {1, 2} : Created(i) \in Result(setup.size)
  <2>1. 0 \in 0 .. setup.size
    BY <1>1
  <2> QED
    BY <2>1 DEF Created, Result
<1>3. heap \in [{1, 2} -> [1 .. setup.size -> Nat]]
  BY DEF ResultsInit
<1>4. ResultsTypeOK
  <2>1. obj \in [{1, 2} -> Result(setup.size)]
    BY <1>2 DEF ResultsInit
  <2> QED
    BY <1>1, <1>3, <2>1 DEF ResultsTypeOK, ResultsInit, Result, Stages, Scores, NoScore
<1>5. \A i \in {1, 2} : obj[i].values = i /\ Describes(obj[i], heap[i])
  <2>1. 0 # setup.size /\ 1 .. 0 = {}
    BY <1>1
  <2> QED
    BY <2>1 DEF ResultsInit, Created, Describes, Full
<1> QED
  BY <1>4, <1>5 DEF ResultsIInv, OwnArrays, VerdictInv, PassedWhatIsPublished, PassMeansConsistent,
     ScoreOfPublished, ResultsInit

(* Before the results are published only the first three parts say anything. *)
LEMMA Unpublished ==
  ASSUME ResultsTypeOK', OwnArrays', VerdictInv', stage' # "published"
  PROVE  ResultsIInv'
BY DEF ResultsIInv, PassedWhatIsPublished, PassMeansConsistent, ScoreOfPublished

(* The copy of the search is never measured into. *)
LEMMA CopyKept ==
  ASSUME ResultsTypeOK, OwnArrays, VerdictInv, setup' = setup, kept' = kept, kept,
         obj'[2] = obj[2], heap'[2] = heap[2]
  PROVE  setup'.kind = "search" /\ Full(obj[2])' /\ Passes(obj[2])'
<1>1. setup.kind = "search" /\ Full(obj[2]) /\ Passes(obj[2])
  BY DEF VerdictInv
<1>2. Full(obj[2])'
  BY <1>1 DEF Full
<1>3. 2 \in {1, 2}
  OBVIOUS
<1>4. Passes(obj[2])'
  BY <1>1, <1>3, SameVerdict
<1> QED
  BY <1>1, <1>2, <1>4

(* Adding a time keeps the inductive invariant. *)
LEMMA AddEntryStep ==
  ASSUME ResultsIInv, NEW i \in Measured, NEW t \in Times, AddEntry(i, t)
  PROVE  ResultsIInv'
<1>1. ResultsTypeOK /\ OwnArrays /\ VerdictInv /\ i \in {1, 2}
  BY Setup DEF ResultsIInv
<1>2. /\ stage = "fill"
      /\ UNCHANGED << setup, freed, stage, kept, tries, verdict, published, score >>
  BY DEF AddEntry
<1>3. /\ obj'[i] \in Result(setup.size) /\ heap'[i] \in [1 .. setup.size -> Nat]
      /\ obj'[i].values = i /\ Describes(obj'[i], heap'[i])
      /\ \A j \in {1, 2} \ {i} : obj'[j] = obj[j] /\ heap'[j] = heap[j]
  BY <1>1, AddDescribes
<1>4. obj' = [j \in {1, 2} |-> obj'[j]] /\ heap' = [j \in {1, 2} |-> heap'[j]]
  BY <1>1 DEF AddEntry, ResultsTypeOK, OwnArrays
<1>5. \A j \in {1, 2} : obj'[j] \in Result(setup.size) /\ heap'[j] \in [1 .. setup.size -> Nat]
  BY <1>1, <1>3, Setup
<1>6. ResultsTypeOK'
  <2>1. /\ stage' \in Stages /\ tries' \in Nat /\ kept' \in BOOLEAN /\ verdict' \in BOOLEAN
        /\ published' \subseteq {1, 2} /\ freed' \subseteq {1, 2} /\ score' \in Scores
    BY <1>1, <1>2 DEF ResultsTypeOK
  <2> QED
    BY <1>1, <1>2, <1>4, <1>5, <2>1, TypeLater
<1>7. OwnArrays'
  <2>1. \A j \in {1, 2} : obj'[j].values = j /\ Describes(obj'[j], heap'[j])
    BY <1>1, <1>3 DEF OwnArrays
  <2> QED
    BY <1>2, <2>1, OwnLater
<1>8. VerdictInv'
  <2>1. ASSUME kept' PROVE setup'.kind = "search" /\ Full(obj[2])' /\ Passes(obj[2])'
    <3>1. setup.kind = "search" /\ i = 1
      BY <1>1, <1>2, <2>1 DEF VerdictInv, Measured
    <3>2. obj'[2] = obj[2] /\ heap'[2] = heap[2]
      BY <1>3, <3>1
    <3> QED
      BY <1>1, <1>2, <2>1, <3>2, CopyKept
  <2> QED
    BY <1>1, <1>2, <2>1 DEF VerdictInv
<1> QED
  BY <1>2, <1>6, <1>7, <1>8, Unpublished

(* Judging an attempt keeps the inductive invariant: the copy is made of   *)
(* an attempt that has passed.                                             *)
LEMMA CheckStep ==
  ASSUME ResultsIInv, CheckPassCriteria
  PROVE  ResultsIInv'
<1>1. ResultsTypeOK /\ OwnArrays /\ VerdictInv
  BY DEF ResultsIInv
<1>2. /\ stage = "fill" /\ \A i \in Measured : Full(obj[i])
      /\ stage' = "judged" /\ tries' = tries + 1
      /\ verdict' = \A i \in Measured : Passes(obj[i])
      /\ UNCHANGED << setup, freed, published, score >>
  BY DEF CheckPassCriteria
<1>3. freed' = {} /\ Measured' = Measured
  BY <1>1, <1>2 DEF VerdictInv, Measured
<1>4. ASSUME kept' \in BOOLEAN,
             obj' = [i \in {1, 2} |-> obj'[i]], heap' = [i \in {1, 2} |-> heap'[i]],
             \A i \in {1, 2} : obj'[i] \in Result(setup.size) /\ heap'[i] \in [1 .. setup.size -> Nat]
      PROVE  ResultsTypeOK'
  <2>1. /\ stage' \in Stages /\ tries' \in Nat /\ verdict' \in BOOLEAN
        /\ published' \subseteq {1, 2} /\ freed' \subseteq {1, 2} /\ score' \in Scores
    BY <1>1, <1>2 DEF ResultsTypeOK, Stages
  <2> QED
    BY <1>1, <1>2, <1>4, <2>1, TypeLater
<1>5. CASE setup.kind = "search" /\ verdict'
  <2>1. CloneResults(2, 1) /\ kept' = TRUE /\ Measured = {1} /\ Full(obj[1]) /\ Passes(obj[1])
    BY <1>2, <1>5 DEF CheckPassCriteria, Measured
  <2>2. /\ obj'[1] = obj[1] /\ heap'[1] = heap[1]
        /\ obj'[2] \in Result(setup.size) /\ heap'[2] \in [1 .. setup.size -> Nat]
        /\ obj' = [obj EXCEPT ![2] = obj'[2]] /\ heap' = [heap EXCEPT ![2] = heap'[2]]
        /\ obj'[2].values = 2 /\ Describes(obj'[2], heap'[2])
        /\ Full(obj[2])' /\ Passes(obj[2])'
    BY <1>1, <1>2, <2>1, Cloned
  <2>3. obj' = [i \in {1, 2} |-> obj'[i]] /\ heap' = [i \in {1, 2} |-> heap'[i]]
    BY <1>1, <2>2 DEF ResultsTypeOK
  <2>4. \A i \in {1, 2} : obj'[i] \in Result(setup.size) /\ heap'[i] \in [1 .. setup.size -> Nat]
    BY <1>1, <2>2, Setup
  <2>5. ResultsTypeOK'
    BY <1>4, <2>1, <2>3, <2>4
  <2>6. OwnArrays'
    <3>1. \A i \in {1, 2} : obj'[i].values = i /\ Describes(obj'[i], heap'[i])
      BY <1>1, <2>2 DEF OwnArrays
    <3> QED
      BY <1>2, <3>1, OwnLater
  <2>7. Full(obj[1])' /\ Passes(obj[1])'
    <3>1. Full(obj[1])'
      BY <1>2, <2>1, <2>2 DEF Full
    <3>2. 1 \in {1, 2}
      OBVIOUS
    <3> QED
      BY <1>1, <1>2, <2>1, <2>2, <3>1, <3>2, SameVerdict
  <2>8. VerdictInv'
    BY <1>2, <1>3, <1>5, <2>1, <2>2, <2>7 DEF VerdictInv
  <2> QED
    BY <1>2, <2>5, <2>6, <2>8, Unpublished
<1>6. CASE ~ (setup.kind = "search" /\ verdict')
  <2>1. UNCHANGED << obj, heap, kept >>
    BY <1>6 DEF CheckPassCriteria
  <2>2. ResultsTypeOK'
    BY <1>1, <1>2, <2>1 DEF ResultsTypeOK, Setups, Stages
  <2>3. OwnArrays'
    BY <1>1, <1>2, <2>1, OwnLater DEF OwnArrays
  <2>4. \A i \in {1, 2} : Passes(obj[i])' <=> Passes(obj[i])
    BY <1>1, <1>2, <2>1, SameVerdict
  <2>5. \A i \in {1, 2} : Full(obj[i])' <=> Full(obj[i])
    BY <1>2, <2>1 DEF Full
  <2>6. Measured \subseteq {1, 2}
    BY <1>1, Setup
  <2>7. VerdictInv'
    <3>1. \A i \in Measured' : Full(obj[i])'
      BY <1>2, <1>3, <2>5, <2>6
    <3>2. verdict' => (setup'.kind = "search" => kept') /\ \A i \in Measured' : Passes(obj[i])'
      BY <1>2, <1>3, <1>6, <2>4, <2>6
    <3>3. kept' => setup'.kind = "search" /\ Full(obj[2])' /\ Passes(obj[2])'
      BY <1>1, <1>2, <2>1, CopyKept
    <3> QED
      BY <1>3, <3>1, <3>2, <3>3 DEF VerdictInv
  <2> QED
    BY <1>2, <2>2, <2>3, <2>7, Unpublished
<1> QED
  BY <1>5, <1>6

(* A step that leaves the results alone and publishes nothing. *)
LEMMA AbortStep ==
  ASSUME ResultsIInv, AssertionFails
  PROVE  ResultsIInv'
<1>1. ResultsTypeOK /\ OwnArrays /\ VerdictInv
  BY DEF ResultsIInv
<1>2. /\ stage = "fill" /\ stage' = "abort"
      /\ UNCHANGED << setup, obj, heap, freed, kept, tries, verdict, published, score >>
  BY DEF AssertionFails
<1>3. ResultsTypeOK'
  BY <1>1, <1>2 DEF ResultsTypeOK, Setups, Stages, Scores
<1>4. OwnArrays'
  BY <1>1, <1>2, OwnLater DEF OwnArrays
<1>5. kept' => setup'.kind = "search" /\ Full(obj[2])' /\ Passes(obj[2])'
  BY <1>1, <1>2, CopyKept
<1>6. VerdictInv'
  BY <1>1, <1>2, <1>5 DEF VerdictInv
<1> QED
  BY <1>2, <1>3, <1>4, <1>6, Unpublished

(* Both results after ClearAll. *)
LEMMA AllCleared ==
  ASSUME ResultsTypeOK, OwnArrays, setup' = setup, heap' = heap, obj' = ClearAll
  PROVE  /\ obj' = [i \in {1, 2} |-> obj'[i]] /\ heap' = [i \in {1, 2} |-> heap'[i]]
         /\ \A i \in {1, 2} : obj'[i] \in Result(setup.size) /\ heap'[i] \in [1 .. setup.size -> Nat]
         /\ OwnArrays'
<1>1. \A i \in {1, 2} : /\ obj[i] \in Result(setup.size) /\ heap[i] \in [1 .. setup.size -> Nat]
                        /\ obj[i].values = i /\ Describes(obj[i], heap[i])
  BY Setup DEF OwnArrays
<1>2. \A i \in {1, 2} : /\ Cleared(obj[i]) \in Result(setup.size) /\ Cleared(obj[i]).values = i
                        /\ Describes(Cleared(obj[i]), heap[i])
  BY <1>1, ClearedDescribes
<1>3. \A i \in {1, 2} : obj'[i] = (IF i \in Measured THEN Cleared(obj[i]) ELSE obj[i])
  BY DEF ClearAll
<1>4. \A i \in {1, 2} : /\ obj'[i] \in Result(setup.size) /\ obj'[i].values = i
                        /\ Describes(obj'[i], heap'[i])
  BY <1>1, <1>2, <1>3
<1>5. OwnArrays'
  BY <1>4, OwnLater
<1>6. obj' = [i \in {1, 2} |-> obj'[i]] /\ heap' = [i \in {1, 2} |-> heap'[i]]
  BY DEF ClearAll, ResultsTypeOK
<1> QED
  BY <1>1, <1>4, <1>5, <1>6

(* Clearing the results for another attempt keeps the inductive invariant: *)
(* the copy is not cleared.                                                *)
LEMMA RetryStep ==
  ASSUME ResultsIInv, Retry
  PROVE  ResultsIInv'
<1>1. ResultsTypeOK /\ OwnArrays /\ VerdictInv
  BY DEF ResultsIInv
<1>2. /\ stage = "judged" /\ obj' = ClearAll /\ stage' = "fill"
      /\ UNCHANGED << setup, heap, freed, kept, tries, verdict, published, score >>
  BY DEF Retry
<1>3. /\ obj' = [i \in {1, 2} |-> obj'[i]] /\ heap' = [i \in {1, 2} |-> heap'[i]]
      /\ \A i \in {1, 2} : obj'[i] \in Result(setup.size) /\ heap'[i] \in [1 .. setup.size -> Nat]
      /\ OwnArrays'
  BY <1>1, <1>2, AllCleared
<1>4. ResultsTypeOK'
  <2>1. /\ stage' \in Stages /\ tries' \in Nat /\ kept' \in BOOLEAN /\ verdict' \in BOOLEAN
        /\ published' \subseteq {1, 2} /\ freed' \subseteq {1, 2} /\ score' \in Scores
    BY <1>1, <1>2 DEF ResultsTypeOK, Stages
  <2> QED
    BY <1>1, <1>2, <1>3, <2>1, TypeLater
<1>5. VerdictInv'
  <2>1. ASSUME kept' PROVE setup'.kind = "search" /\ Full(obj[2])' /\ Passes(obj[2])'
    <3>1. Measured = {1}
      BY <1>1, <1>2, <2>1 DEF VerdictInv, Measured
    <3>2. obj'[2] = obj[2] /\ heap'[2] = heap[2]
      BY <1>2, <3>1 DEF ClearAll
    <3> QED
      BY <1>1, <1>2, <2>1, <3>2, CopyKept
  <2> QED
    BY <1>1, <1>2, <2>1 DEF VerdictInv
<1> QED
  BY <1>2, <1>3, <1>4, <1>5, Unpublished

(* The verdict and the score of one published result. *)
LEMMA OneScore ==
  ASSUME ResultsTypeOK, OwnArrays, NEW i \in {1, 2}, Full(obj[i])
  PROVE  LET sc == GenerateCombinedScore(obj, {i})
         IN  /\ sc.count = Sum([j \in {1, 2} |-> IF j \in {i} THEN obj[j].entries ELSE 0], 2)
             /\ sc.count > 0
             /\ {sc.slowest, sc.fastest} \subseteq UNION {Values(obj[j]) : j \in {i}}
             /\ Passes(obj[i]) =>
                  sc.consistency >= ((sc.count * setup.accept) \div 100) * (100 - setup.range)
<1> DEFINE I == {i}
<1>1. I \in {{1}, {2}, {1, 2}}
  OBVIOUS
<1>2. Counted(I) = I
  BY DEF Counted, Min
<1>3. \A j \in I : Full(obj[j])
  OBVIOUS
<1> HIDE DEF I
<1>4. LET sc == GenerateCombinedScore(obj, I)
      IN  /\ sc.count = Sum([j \in {1, 2} |-> IF j \in I THEN obj[j].entries ELSE 0], 2)
          /\ sc.count > 0
          /\ {sc.slowest, sc.fastest} \subseteq UNION {Values(obj[j]) : j \in I}
  BY <1>1, <1>2, <1>3, ScoreExtremes
<1>5. ASSUME Passes(obj[i])
      PROVE  LET sc == GenerateCombinedScore(obj, {i})
             IN  sc.consistency >= ((sc.count * setup.accept) \div 100) * (100 - setup.range)
  BY <1>5, ScoreConsistent
<1> QED
  BY <1>4, <1>5 DEF I

(* What a published result says of the state it is published in says it of *)
(* the next one, which has the same results.                               *)
LEMMA PublishOne ==
  ASSUME ResultsIInv, stage = "judged", NEW i \in {1, 2}, Full(obj[i]),
         kept \/ verdict => Passes(obj[i]),
         setup.kind # "multi", Add({i}, obj), freed' \subseteq {1, 2} \ {i}
  PROVE  ResultsIInv'
<1>1. ResultsTypeOK /\ OwnArrays /\ VerdictInv
  BY DEF ResultsIInv
<1>2. /\ obj' = obj /\ published' = {i} /\ score' = GenerateCombinedScore(obj, {i})
      /\ stage' = "published" /\ UNCHANGED << setup, heap, kept, tries, verdict >>
  BY DEF Add
<1>3. ResultsTypeOK'
  <2>1. score' \in Scores
    <3>1. {i} \in {{1}, {2}, {1, 2}}
      OBVIOUS
    <3> DEFINE I == {i}
    <3> HIDE DEF I
    <3>2. GenerateCombinedScore(obj, I) \in Scores
      BY <1>1, <3>1, Setup, ScoreType DEF I, ResultsTypeOK
    <3> QED
      BY <1>2, <3>2 DEF I
  <2> QED
    BY <1>1, <1>2, <2>1 DEF ResultsTypeOK, Setups, Stages, Scores
<1>4. OwnArrays'
  BY <1>1, <1>2, OwnLater DEF OwnArrays
<1>5. \A j \in {1, 2} : (Passes(obj[j])' <=> Passes(obj[j])) /\ (Full(obj[j])' <=> Full(obj[j]))
  <2>1. \A j \in {1, 2} : Passes(obj[j])' <=> Passes(obj[j])
    BY <1>1, <1>2, SameVerdict
  <2> QED
    BY <1>2, <2>1 DEF Full
<1>6. VerdictInv'
  BY <1>1, <1>2, <1>5 DEF VerdictInv
<1>7. PassedWhatIsPublished'
  <2>1. obj'[i].values \notin freed'
    BY <1>4 DEF OwnArrays
  <2> QED
    BY <1>2, <1>5, <2>1 DEF PassedWhatIsPublished
<1>8. /\ score'.count = Sum([j \in {1, 2} |-> IF j \in {i} THEN obj[j].entries ELSE 0], 2)
      /\ score'.count > 0
      /\ {score'.slowest, score'.fastest} \subseteq UNION {Values(obj[j]) : j \in {i}}
      /\ Passes(obj[i]) =>
           score'.consistency >= ((score'.count * setup.accept) \div 100) * (100 - setup.range)
  BY <1>1, <1>2, OneScore
<1>9. PassMeansConsistent'
  BY <1>2, <1>8 DEF PassMeansConsistent
<1>10. ScoreOfPublished'
  <2>1. \A j \in {1, 2} : Values(obj[j])' = Values(obj[j])
    BY <1>2 DEF Values
  <2> QED
    BY <1>2, <1>8, <2>1 DEF ScoreOfPublished
<1> QED
  BY <1>3, <1>4, <1>6, <1>7, <1>9, <1>10 DEF ResultsIInv

(* Publishing one result keeps the inductive invariant. *)
LEMMA PublishSingleStep ==
  ASSUME ResultsIInv, AddResultToResultTable
  PROVE  ResultsIInv'
<1>1. ResultsTypeOK /\ VerdictInv
  BY DEF ResultsIInv
<1>2. stage = "judged" /\ setup.kind = "single" /\ Add({1}, obj) /\ freed' = {}
  BY <1>1 DEF AddResultToResultTable, VerdictInv
<1>3. Measured = {1} /\ Full(obj[1]) /\ (kept \/ verdict => Passes(obj[1]))
  BY <1>1, <1>2 DEF Measured, VerdictInv
<1>4. 1 \in {1, 2} /\ setup.kind # "multi" /\ freed' \subseteq {1, 2} \ {1}
  BY <1>2
<1> QED
  BY <1>2, <1>3, <1>4, PublishOne

(* Publishing the copy, or the last attempt when none has passed, keeps    *)
(* the inductive invariant.                                                *)
LEMMA PublishSearchStep ==
  ASSUME ResultsIInv, PublishSearch
  PROVE  ResultsIInv'
<1>1. ResultsTypeOK /\ OwnArrays /\ VerdictInv
  BY DEF ResultsIInv
<1>2. stage = "judged" /\ setup.kind = "search" /\ Measured = {1} /\ Full(obj[1])
  BY <1>1 DEF PublishSearch, VerdictInv, Measured
<1>3. setup.kind # "multi"
  BY <1>2
<1>4. CASE kept
  <2>1. Add({2}, obj) /\ freed' = {1}
    BY <1>1, <1>4 DEF PublishSearch, OwnArrays
  <2>2. Full(obj[2]) /\ Passes(obj[2])
    BY <1>1, <1>4 DEF VerdictInv
  <2>3. 2 \in {1, 2} /\ freed' \subseteq {1, 2} \ {2}
    BY <2>1
  <2> QED
    BY <1>2, <1>3, <2>1, <2>2, <2>3, PublishOne
<1>5. CASE ~kept
  <2>1. Add({1}, obj) /\ freed' = {}
    BY <1>1, <1>2, <1>5 DEF PublishSearch, VerdictInv
  <2>2. kept \/ verdict => Passes(obj[1])
    BY <1>1, <1>2, <1>5 DEF VerdictInv
  <2>3. 1 \in {1, 2} /\ freed' \subseteq {1, 2} \ {1}
    BY <2>1
  <2> QED
    BY <1>2, <1>3, <2>1, <2>2, <2>3, PublishOne
<1> QED
  BY <1>4, <1>5

(* Publishing the results of all threads keeps the inductive invariant. *)
LEMMA PublishMultiStep ==
  ASSUME ResultsIInv, PublishMulti
  PROVE  ResultsIInv'
<1>1. ResultsTypeOK /\ OwnArrays /\ VerdictInv
  BY DEF ResultsIInv
<1> DEFINE both == {1, 2}
           objects == IF InC /\ ~verdict THEN ClearAll ELSE obj
<1>2. /\ stage = "judged" /\ setup.kind = "multi" /\ freed' = {} /\ Measured = both
      /\ obj' = objects /\ published' = both /\ score' = GenerateCombinedScore(objects, both)
      /\ stage' = "published" /\ UNCHANGED << setup, heap, kept, tries, verdict >>
  BY <1>1 DEF PublishMulti, Add, Measured, VerdictInv
<1>3. ~kept /\ \A i \in both : Full(obj[i])
  BY <1>1, <1>2 DEF VerdictInv
<1>4. obj' = [i \in {1, 2} |-> obj'[i]] /\ heap' = [i \in {1, 2} |-> heap'[i]] /\ OwnArrays'
      /\ \A i \in {1, 2} : obj'[i] \in Result(setup.size) /\ heap'[i] \in [1 .. setup.size -> Nat]
  <2>1. CASE InC /\ ~verdict
    BY <1>1, <1>2, <2>1, AllCleared
  <2>2. CASE ~ (InC /\ ~verdict)
    <3>1. obj' = obj
      BY <1>2, <2>2
    <3>2. OwnArrays'
      BY <1>1, <1>2, <3>1, OwnLater DEF OwnArrays
    <3>3. obj' = [i \in {1, 2} |-> obj'[i]] /\ heap' = [i \in {1, 2} |-> heap'[i]]
      BY <1>1, <1>2, <3>1 DEF ResultsTypeOK
    <3> QED
      BY <1>1, <1>2, <3>1, <3>2, <3>3, Setup
  <2> QED
    BY <2>1, <2>2
<1>5. ResultsTypeOK'
  <2>1. score' \in Scores
    <3>1. heap \in [{1, 2} -> [1 .. setup.size -> Nat]] /\ setup.size \in Nat \ {0}
      BY <1>1, Setup DEF ResultsTypeOK
    <3>2. \A i \in {1, 2} : objects[i] \in Result(setup.size)
      BY <1>2, <1>4
    <3>3. both \in {{1}, {2}, {1, 2}}
      OBVIOUS
    <3> HIDE DEF both, objects
    <3>4. GenerateCombinedScore(objects, both) \in Scores
      BY <3>1, <3>2, <3>3, ScoreType
    <3> QED
      BY <1>2, <3>4
  <2>2. /\ stage' \in Stages /\ tries' \in Nat /\ kept' \in BOOLEAN /\ verdict' \in BOOLEAN
        /\ published' \subseteq {1, 2} /\ freed' \subseteq {1, 2} /\ score' \in Scores
    BY <1>1, <1>2, <2>1 DEF ResultsTypeOK, Stages
  <2> QED
    BY <1>1, <1>2, <1>4, <2>2, TypeLater
<1>6. VerdictInv'
  BY <1>2, <1>3 DEF VerdictInv
<1>7. PassedWhatIsPublished'
  <2> SUFFICES ASSUME verdict, NEW i \in both
               PROVE  Passes(obj[i])' /\ obj'[i].values \notin freed'
    BY <1>2, <1>3 DEF PassedWhatIsPublished
  <2>1. obj' = obj /\ heap' = heap /\ setup' = setup
    BY <1>2
  <2>2. Passes(obj[i])
    BY <1>1, <1>2 DEF VerdictInv
  <2>3. Passes(obj[i])'
    BY <1>1, <2>1, <2>2, SameVerdict
  <2> QED
    BY <1>2, <2>3
<1>8. PassMeansConsistent'
  BY <1>2 DEF PassMeansConsistent
<1>9. ScoreOfPublished'
  <2> SUFFICES ASSUME ~InC
               PROVE  /\ score'.count = Sum([i \in {1, 2} |-> IF i \in published THEN obj[i].entries ELSE 0], 2)'
                      /\ score'.count > 0
                      /\ {score'.slowest, score'.fastest} \subseteq UNION {Values(obj[i]) : i \in published}'
    BY <1>2 DEF ScoreOfPublished, InC
  <2>1. obj' = obj /\ Counted(both) = both
    BY <1>2 DEF Counted
  <2>2. both \in {{1}, {2}, {1, 2}}
    OBVIOUS
  <2>3. \A i \in {1, 2} : Values(obj[i])' = Values(obj[i])
    BY <1>2, <2>1 DEF Values
  <2>4. score' = GenerateCombinedScore(obj, both)
    BY <1>2, <2>1
  <2>5. /\ score'.count = Sum([i \in {1, 2} |-> IF i \in both THEN obj[i].entries ELSE 0], 2)
        /\ score'.count > 0
        /\ {score'.slowest, score'.fastest} \subseteq UNION {Values(obj[i]) : i \in both}
    <3> HIDE DEF both
    <3> QED
      BY <1>1, <1>3, <2>1, <2>2, <2>4, ScoreExtremes
  <2> QED
    BY <1>2, <2>1, <2>3, <2>5
<1> QED
  BY <1>4, <1>5, <1>6, <1>7, <1>8, <1>9 DEF ResultsIInv

(* A step that changes nothing keeps the inductive invariant. *)
LEMMA ResultsStutter ==
  ASSUME ResultsIInv, UNCHANGED resultVars
  PROVE  ResultsIInv'
<1>1. ResultsTypeOK'
  BY DEF ResultsIInv, resultVars, ResultsTypeOK, Setups, Stages, Scores
<1>2. OwnArrays'
  BY OwnLater DEF ResultsIInv, OwnArrays, resultVars
<1>3. VerdictInv'
  BY DEF ResultsIInv, resultVars, VerdictInv, Measured, Full, Passes, Conforming, MinAcceptable
<1>4. PassedWhatIsPublished'
  BY DEF ResultsIInv, resultVars, PassedWhatIsPublished, Passes, Conforming, MinAcceptable
<1>5. PassMeansConsistent'
  BY DEF ResultsIInv, resultVars, PassMeansConsistent
<1>6. ScoreOfPublished'
  BY DEF ResultsIInv, resultVars, ScoreOfPublished, InC, Values
<1> QED
  BY <1>1, <1>2, <1>3, <1>4, <1>5, <1>6 DEF ResultsIInv

(* Every step keeps the inductive invariant. *)
LEMMA ResultsNextIInv == ResultsIInv /\ [ResultsNext]_resultVars => ResultsIInv'
<1> SUFFICES ASSUME ResultsIInv, [ResultsNext]_resultVars
             PROVE  ResultsIInv'
  OBVIOUS
<1>1. ASSUME NEW i \in Measured, NEW t \in Times, AddEntry(i, t) PROVE ResultsIInv'
  BY <1>1, AddEntryStep
<1>2. ASSUME CheckPassCriteria PROVE ResultsIInv'
  BY <1>2, CheckStep
<1>3. ASSUME AssertionFails PROVE ResultsIInv'
  BY <1>3, AbortStep
<1>4. ASSUME Retry PROVE ResultsIInv'
  BY <1>4, RetryStep
<1>5. ASSUME AddResultToResultTable PROVE ResultsIInv'
  BY <1>5, PublishSingleStep
<1>6. ASSUME PublishSearch PROVE ResultsIInv'
  BY <1>6, PublishSearchStep
<1>7. ASSUME PublishMulti PROVE ResultsIInv'
  BY <1>7, PublishMultiStep
<1>8. ASSUME UNCHANGED resultVars PROVE ResultsIInv'
  BY <1>8, ResultsStutter
<1> QED
  BY <1>1, <1>2, <1>3, <1>4, <1>5, <1>6, <1>7, <1>8 DEF ResultsNext

(* The inductive invariant of the results holds in every reachable state,  *)
(* for all sets of times, sizes and percentages and any number of          *)
(* attempts, in both ports.                                                *)
THEOREM ResultsInvariance == ResultsSpec => []ResultsIInv
BY ResultsInitIInv, ResultsNextIInv, PTL DEF ResultsSpec

(* Statistics that describe an array are its extremes, a mean between them *)
(* and a median.                                                           *)
LEMMA StatsFollow == ResultsIInv => StatsDescribeValues
<1> SUFFICES ASSUME ResultsIInv, NEW i \in {1, 2}, Full(obj[i])
             PROVE  LET r == obj[i]
                    IN  /\ r.min = Min(Values(r)) /\ r.max = Max(Values(r))
                        /\ r.min <= r.mean /\ r.mean <= r.max
                        /\ IsMedian(r)
  BY DEF StatsDescribeValues
<1> DEFINE r == obj[i]
           n == setup.size
           f == heap[i]
           V == Values(r)
<1>1. ResultsTypeOK /\ r.values = i /\ Describes(r, f) /\ r.entries = n
  BY DEF ResultsIInv, OwnArrays, Full
<1>2. n \in Nat \ {0} /\ r \in Result(n) /\ f \in [1 .. n -> Nat] /\ Times \subseteq Nat \ {0}
  BY <1>1, Setup
<1>3. r.min \in Nat /\ r.max \in Nat
  BY <1>2 DEF Result
<1>4. \A k \in 1 .. n : f[k] \in Nat \ {0} /\ r.min <= f[k] /\ f[k] <= r.max
  <2>1. \A k \in 1 .. n : f[k] \in Times /\ r.min <= f[k] /\ f[k] <= r.max
    BY <1>1 DEF Describes
  <2> HIDE DEF r, n, f
  <2> QED
    BY <1>2, <2>1
<1>5. (\E k \in 1 .. n : f[k] = r.min) /\ (\E k \in 1 .. n : f[k] = r.max)
  <2>1. r.entries > 0
    BY <1>1, <1>2
  <2> QED
    BY <1>1, <2>1 DEF Describes
<1>6. r.median = GetMedian(f, n) /\ r.mean = ComputeMean(f, n)
  BY <1>1 DEF Describes, Full
<1>7. V = {f[k] : k \in 1 .. n}
  BY <1>1 DEF Values
<1>8. r.min = Min(V) /\ r.max = Max(V)
  <2>1. r.min \in V /\ r.max \in V /\ (\A v \in V : v \in Nat /\ r.min <= v /\ v <= r.max)
    <3> HIDE DEF f, n, r, V
    <3> QED
      BY <1>2, <1>4, <1>5, <1>7
  <2> DEFINE lo == r.min
             hi == r.max
  <2> HIDE DEF V, lo, hi
  <2>2. lo \in V /\ hi \in V /\ (\A v \in V : v \in Nat /\ lo <= v /\ v <= hi)
    BY <2>1 DEF lo, hi
  <2>3. \A x \in V : (\A y \in V : x <= y) => x = lo
    BY <2>2
  <2>4. \A x \in V : (\A y \in V : x >= y) => x = hi
    BY <2>2
  <2>5. Min(V) = lo
    BY <2>2, <2>3 DEF Min
  <2>6. Max(V) = hi
    BY <2>2, <2>4 DEF Max
  <2> QED
    BY <2>5, <2>6 DEF lo, hi
<1>9. r.min <= r.mean /\ r.mean <= r.max
  <2> DEFINE lo == r.min
             hi == r.max
  <2> HIDE DEF n, f, lo, hi
  <2>1. /\ n \in Nat \ {0} /\ lo \in Nat /\ hi \in Nat
        /\ \A k \in 1 .. n : f[k] \in Nat /\ lo <= f[k] /\ f[k] <= hi
    BY <1>2, <1>3, <1>4 DEF lo, hi
  <2>2. lo <= ComputeMean(f, n) /\ ComputeMean(f, n) <= hi
    BY <2>1, MeanBounded
  <2> QED
    BY <1>6, <2>2 DEF lo, hi
<1>10. MedianOf(r.median, f, n) \/ (InC /\ MedianOf(r.median + 1, f, n))
  <2>1. f \in [1 .. n -> Nat \ {0}]
    BY <1>2, <1>4
  <2> HIDE DEF n, f
  <2> QED
    BY <1>2, <1>6, <2>1, MedianFound
<1>11. IsMedian(r)
  BY <1>1, <1>10 DEF IsMedian, MedianOf
<1> QED
  BY <1>8, <1>9, <1>11

(* Type correctness of the results. *)
THEOREM ResultsTypeCorrect == ResultsSpec => []ResultsTypeOK
<1>1. ResultsIInv => ResultsTypeOK
  BY DEF ResultsIInv
<1> QED
  BY <1>1, ResultsInvariance, PTL

(* What is reported of a result describes the times in it, after any       *)
(* number of attempts, clears and copies (add_entry, free_chain,           *)
(* clone_results and their C++ counterparts).                              *)
THEOREM StatsOfValues == ResultsSpec => []StatsDescribeValues
BY StatsFollow, ResultsInvariance, PTL

(* A test that is reported as passed publishes times that met the          *)
(* criteria, in memory that was not freed.                                 *)
THEOREM PassedIsPublished == ResultsSpec => []PassedWhatIsPublished
<1>1. ResultsIInv => PassedWhatIsPublished
  BY DEF ResultsIInv
<1> QED
  BY <1>1, ResultsInvariance, PTL

(* A test of one result that passes has the consistency score that its     *)
(* percentages promise.                                                    *)
THEOREM PassIsConsistent == ResultsSpec => []PassMeansConsistent
<1>1. ResultsIInv => PassMeansConsistent
  BY DEF ResultsIInv
<1> QED
  BY <1>1, ResultsInvariance, PTL

(* The score is made of the times of the published results that the port   *)
(* counts.                                                                 *)
THEOREM ScoreIsOfPublished == ResultsSpec => []ScoreOfPublished
<1>1. ResultsIInv => ScoreOfPublished
  BY DEF ResultsIInv
<1> QED
  BY <1>1, ResultsInvariance, PTL

-----------------------------------------------------------------------------
(* Harness: selections and occurrences. *)

(* The places of a set of positions, in order. *)
LEMMA Enumerates ==
  ASSUME NEW L \in Nat, NEW at, at \subseteq 1 .. L
  PROVE  LET k == Cardinality(at)
             e == [n \in 1 .. k |-> CHOOSE i \in at : Cardinality({j \in at : j <= i}) = n]
         IN  /\ k \in Nat /\ e \in [1 .. k -> at]
             /\ \A n, m \in 1 .. k : n < m => e[n] < e[m]
             /\ \A i \in at : \E n \in 1 .. k : e[n] = i
<1> DEFINE k == Cardinality(at)
           upto(i) == {j \in at : j <= i}
           c == [i \in 0 .. L |-> Cardinality(upto(i))]
<1>0. L \in Int /\ \A i \in at : i \in 1 .. L /\ i \in 0 .. L /\ i \in Int /\ 0 < i /\ i <= L
  OBVIOUS
<1>1. IsFiniteSet(at) /\ k \in Nat
  <2> DEFINE S == 1 .. L
  <2>1. IsFiniteSet(S)
    BY FS_Interval
  <2> HIDE DEF S
  <2>2. at \in SUBSET S
    BY DEF S
  <2> QED
    BY <2>1, <2>2, FS_Subset, FS_CardinalityType
<1>2. \A i \in 0 .. L : IsFiniteSet(upto(i)) /\ c[i] \in Nat /\ c[i] <= k
  <2> SUFFICES ASSUME NEW i \in 0 .. L
               PROVE  /\ IsFiniteSet(upto(i)) /\ Cardinality(upto(i)) \in Nat
                      /\ Cardinality(upto(i)) <= k
    OBVIOUS
  <2> DEFINE U == upto(i)
  <2>1. U \in SUBSET at
    OBVIOUS
  <2> HIDE DEF U
  <2>2. IsFiniteSet(U) /\ Cardinality(U) \in Nat /\ Cardinality(U) <= Cardinality(at)
    BY <1>1, <2>1, FS_Subset, FS_CardinalityType
  <2> QED
    BY <2>2 DEF U
<1>3. c[0] = 0 /\ c[L] = k
  <2>1. upto(0) = {} /\ upto(L) = at
    <3>1. \A i \in at : ~ (i <= 0) /\ i <= L
      BY <1>0
    <3> QED
      BY <3>1
  <2>2. Cardinality({}) = 0
    BY FS_EmptySet
  <2> QED
    BY <2>1, <2>2
<1>4. \A i \in 1 .. L : c[i] = IF i \in at THEN c[i - 1] + 1 ELSE c[i - 1]
  <2> SUFFICES ASSUME NEW i \in 1 .. L
               PROVE  c[i] = IF i \in at THEN c[i - 1] + 1 ELSE c[i - 1]
    OBVIOUS
  <2> DEFINE U == upto(i)
             V == upto(i - 1)
  <2>1. i - 1 \in 0 .. L /\ i \in 0 .. L
    OBVIOUS
  <2>2. c[i] = Cardinality(U) /\ c[i - 1] = Cardinality(V) /\ IsFiniteSet(V)
    BY <1>2, <2>1
  <2>3. i \notin V /\ (i \in at => U = V \cup {i}) /\ (i \notin at => U = V)
    <3>1. i \in Int /\ ~ (i <= i - 1)
      OBVIOUS
    <3>2. \A j \in at : j <= i <=> j <= i - 1 \/ j = i
      BY <1>0, <3>1
    <3> QED
      BY <3>1, <3>2
  <2> HIDE DEF U, V, c
  <2>4. CASE i \in at
    <3>1. Cardinality(V \cup {i}) = Cardinality(V) + 1
      BY <2>2, <2>3, FS_AddElement
    <3> QED
      BY <2>2, <2>3, <2>4, <3>1
  <2>5. CASE i \notin at
    BY <2>2, <2>3, <2>5
  <2> QED
    BY <2>4, <2>5
<1>5. \A i, j \in 0 .. L : i <= j => c[i] <= c[j]
  <2> SUFFICES ASSUME NEW i \in 0 .. L, NEW j \in 0 .. L, i <= j
               PROVE  c[i] <= c[j]
    OBVIOUS
  <2> DEFINE U == upto(i)
             V == upto(j)
  <2>1. U \in SUBSET V
    <3>1. \A m \in at : m <= i => m <= j
      BY <1>0
    <3> QED
      BY <3>1
  <2>2. c[i] = Cardinality(U) /\ c[j] = Cardinality(V) /\ IsFiniteSet(V)
    BY <1>2
  <2> HIDE DEF U, V, c
  <2> QED
    BY <2>1, <2>2, FS_Subset
<1>6. \A i \in at : i \in 1 .. L
  OBVIOUS
<1> DEFINE e == [n \in 1 .. k |-> CHOOSE i \in at : Cardinality(upto(i)) = n]
<1>7. e = [n \in 1 .. k |-> CHOOSE i \in at : c[i] = n]
  <2>1. \A i \in at : c[i] = Cardinality(upto(i))
    BY <1>6
  <2> HIDE DEF c
  <2> DEFINE A(n) == CHOOSE i \in at : Cardinality(upto(i)) = n
             B(n) == CHOOSE i \in at : c[i] = n
  <2>2. \A n \in 1 .. k : A(n) = B(n)
    BY <2>1
  <2> HIDE DEF k, A, B
  <2>3. [n \in 1 .. k |-> A(n)] = [n \in 1 .. k |-> B(n)]
    BY <2>2
  <2> QED
    BY <2>3 DEF A, B
<1> HIDE DEF c, e, k
<1>8. \A i, j \in at : i < j => c[i] < c[j]
  <2> SUFFICES ASSUME NEW i \in at, NEW j \in at, i < j
               PROVE  c[i] < c[j]
    OBVIOUS
  <2>1. i \in 1 .. L /\ j \in 1 .. L
    BY <1>6
  <2>2. j - 1 \in 0 .. L /\ i \in 0 .. L /\ i <= j - 1
    BY <2>1
  <2>3. c[i] <= c[j - 1] /\ c[j] = c[j - 1] + 1 /\ c[j - 1] \in Nat /\ c[i] \in Nat
    BY <1>2, <1>4, <1>5, <2>1, <2>2
  <2> QED
    BY <2>3
<1>9. \A n \in 1 .. k : \E i \in at : c[i] = n
  <2> SUFFICES ASSUME NEW n \in 1 .. k
               PROVE  \E i \in at : c[i] = n
    OBVIOUS
  <2> DEFINE T == {i \in 0 .. L : n <= c[i]}
  <2>1. T \subseteq Nat /\ L \in T
    BY <1>1, <1>3
  <2>2. PICK i \in T : \A m \in T : i <= m
    BY <2>1, Least
  <2>3. i \in 0 .. L /\ n <= c[i] /\ c[i] \in Nat
    BY <1>2, <2>2
  <2>4. i # 0
    BY <1>1, <1>3, <2>3
  <2>5. i - 1 \in 0 .. L /\ i \in 1 .. L
    BY <2>3, <2>4
  <2>6. i - 1 \notin T
    BY <2>2, <2>5
  <2>7. c[i - 1] < n /\ c[i - 1] \in Nat
    <3>1. c[i - 1] \in Nat /\ ~ (n <= c[i - 1])
      BY <1>2, <2>5, <2>6
    <3>2. n \in Int
      OBVIOUS
    <3> QED
      BY <3>1, <3>2
  <2>8. c[i] = IF i \in at THEN c[i - 1] + 1 ELSE c[i - 1]
    BY <1>4, <2>5
  <2> QED
    BY <1>1, <2>3, <2>7, <2>8
<1>10. \A n \in 1 .. k : e[n] \in at /\ c[e[n]] = n
  BY <1>7, <1>9
<1>11. e \in [1 .. k -> at]
  BY <1>7, <1>10
<1>12. \A n, m \in 1 .. k : n < m => e[n] < e[m]
  <2> SUFFICES ASSUME NEW n \in 1 .. k, NEW m \in 1 .. k, n < m
               PROVE  e[n] < e[m]
    OBVIOUS
  <2>1. e[n] \in 0 .. L /\ e[m] \in 0 .. L /\ c[e[n]] = n /\ c[e[m]] = m
    BY <1>0, <1>10
  <2>2. e[m] <= e[n] => m <= n
    BY <1>5, <2>1
  <2> QED
    BY <1>1, <2>1, <2>2
<1>13. \A i \in at : \E n \in 1 .. k : e[n] = i
  <2> SUFFICES ASSUME NEW i \in at
               PROVE  \E n \in 1 .. k : e[n] = i
    OBVIOUS
  <2>1. i \in 1 .. L /\ c[i] \in Nat /\ c[i] <= k
    BY <1>0, <1>2
  <2>2. i - 1 \in 0 .. L /\ c[i - 1] \in Nat /\ c[i] = c[i - 1] + 1
    <3>1. i - 1 \in 0 .. L
      BY <1>0
    <3> QED
      BY <1>2, <1>4, <2>1, <3>1
  <2>3. c[i] \in 1 .. k
    BY <1>1, <2>1, <2>2
  <2>4. e[c[i]] \in at /\ c[e[c[i]]] = c[i]
    BY <1>10, <2>3
  <2>5. e[c[i]] = i
    <3> DEFINE x == e[c[i]]
    <3>1. x \in at /\ c[x] = c[i] /\ x \in 1 .. L
      BY <1>6, <2>4
    <3> HIDE DEF x
    <3>2. ~ (x < i) /\ ~ (i < x)
      BY <1>8, <2>1, <3>1
    <3>3. x = i
      BY <2>1, <3>1, <3>2
    <3> QED
      BY <3>3 DEF x
  <2> QED
    BY <2>3, <2>5
<1> QED
  BY <1>1, <1>11, <1>12, <1>13 DEF e, k

(* o is what is left of s: e gives the place of each of its elements.      *)
Selects(e, s, o, set) ==
  /\ e \in [1 .. Len(o) -> 1 .. Len(s)]
  /\ \A n, m \in 1 .. Len(o) : n < m => e[n] < e[m]
  /\ \A n \in 1 .. Len(o) : o[n] = s[e[n]] /\ o[n] \in set
  /\ \A i \in 1 .. Len(s) : s[i] \in set => \E n \in 1 .. Len(o) : e[n] = i

(* Only selects the elements of a set in the order of the list. *)
LEMMA OnlySelects ==
  ASSUME NEW T, NEW s \in Seq(T), NEW set
  PROVE  Only(s, set) \in Seq(T) /\ \E e : Selects(e, s, Only(s, set), set)
<1> DEFINE L == Len(s)
           at == {i \in DOMAIN s : s[i] \in set}
           k == Cardinality(at)
           e == [n \in 1 .. k |-> CHOOSE i \in at : Cardinality({j \in at : j <= i}) = n]
           o == Only(s, set)
<1>1. L \in Nat /\ at \subseteq 1 .. L /\ DOMAIN s = 1 .. L
  OBVIOUS
<1>2. /\ k \in Nat /\ e \in [1 .. k -> at]
      /\ \A n, m \in 1 .. k : n < m => e[n] < e[m]
      /\ \A i \in at : \E n \in 1 .. k : e[n] = i
  <2> HIDE DEF at, L
  <2> QED
    BY <1>1, Enumerates
<1>3. o = [n \in 1 .. k |-> s[e[n]]]
  BY DEF Only
<1>4. \A n \in 1 .. k : e[n] \in 1 .. L /\ s[e[n]] \in T /\ s[e[n]] \in set
  <2> HIDE DEF e, k
  <2>1. \A n \in 1 .. k : e[n] \in at
    BY <1>2
  <2> QED
    BY <2>1
<1> HIDE DEF o, e
<1>5. o \in Seq(T) /\ Len(o) = k
  <2> HIDE DEF at, k
  <2> QED
    BY <1>2, <1>3, <1>4
<1>6. e \in [1 .. k -> 1 .. L]
  BY <1>2, <1>4
<1>7. \A i \in 1 .. L : s[i] \in set => i \in at
  OBVIOUS
<1>8. Selects(e, s, o, set)
  <2> HIDE DEF at, k
  <2> QED
    BY <1>2, <1>3, <1>4, <1>5, <1>6, <1>7 DEF Selects
<1> QED
  BY <1>5, <1>8 DEF o

(* A function that is one to one and onto joins sets of the same           *)
(* cardinality.                                                            *)
LEMMA SameNumber ==
  ASSUME NEW S, IsFiniteSet(S), NEW T, NEW f \in [S -> T],
         \A x, y \in S : f[x] = f[y] => x = y, \A z \in T : \E x \in S : f[x] = z
  PROVE  Cardinality(T) = Cardinality(S)
<1>1. f \in Bijection(S, T)
  BY DEF Bijection, Injection, Surjection, IsInjective
<1> QED
  BY <1>1, FS_Bijection DEF ExistsBijection

(* Where a list has a name. *)
Places(t, s) == {i \in DOMAIN s : s[i] = t}

(* These places are finitely many. *)
LEMMA PlacesFinite ==
  ASSUME NEW T, NEW s \in Seq(T), NEW t
  PROVE  /\ IsFiniteSet(Places(t, s)) /\ Occurrences(t, s) = Cardinality(Places(t, s))
         /\ Occurrences(t, s) \in Nat
<1> DEFINE S == DOMAIN s
           P == Places(t, s)
<1>1. IsFiniteSet(S)
  <2> DEFINE n == Len(s)
  <2>1. S = 1 .. n /\ n \in Int /\ 1 \in Int
    OBVIOUS
  <2> HIDE DEF S, n
  <2> QED
    BY <2>1, FS_Interval
<1>2. P \in SUBSET S
  BY DEF Places
<1>3. IsFiniteSet(P) /\ Cardinality(P) \in Nat
  <2> HIDE DEF P, S
  <2> QED
    BY <1>1, <1>2, FS_Subset, FS_CardinalityType
<1> QED
  BY <1>3 DEF Occurrences, Places

(* A selection has a selected name as often as the list. *)
LEMMA OccurrencesOnly ==
  ASSUME NEW T, NEW s \in Seq(T), NEW set, NEW t \in set
  PROVE  Occurrences(t, Only(s, set)) = Occurrences(t, s)
<1> DEFINE o == Only(s, set)
<1>1. o \in Seq(T) /\ \E e : Selects(e, s, o, set)
  BY OnlySelects
<1> HIDE DEF o
<1>2. PICK e : Selects(e, s, o, set)
  BY <1>1
<1> DEFINE S == Places(t, o)
           P == Places(t, s)
           f == [n \in S |-> e[n]]
<1>3. \A n \in S : n \in 1 .. Len(o) /\ e[n] \in 1 .. Len(s) /\ s[e[n]] = t
  BY <1>1, <1>2 DEF Places, Selects
<1>4. f \in [S -> P]
  BY <1>3 DEF Places
<1>5. \A n, m \in S : f[n] = f[m] => n = m
  <2> SUFFICES ASSUME NEW n \in S, NEW m \in S, e[n] = e[m]
               PROVE  n = m
    OBVIOUS
  <2>1. n \in 1 .. Len(o) /\ m \in 1 .. Len(o) /\ Len(o) \in Nat /\ e[n] \in Int
    BY <1>1, <1>3
  <2>2. ~ (n < m) /\ ~ (m < n)
    BY <1>2, <2>1 DEF Selects
  <2> QED
    BY <2>1, <2>2
<1>6. \A i \in P : \E n \in S : f[n] = i
  <2> SUFFICES ASSUME NEW i \in P
               PROVE  \E n \in S : e[n] = i
    OBVIOUS
  <2>1. i \in 1 .. Len(s) /\ s[i] = t
    BY DEF Places
  <2>2. PICK n \in 1 .. Len(o) : e[n] = i
    BY <1>2, <2>1 DEF Selects
  <2>3. o[n] = t
    BY <1>2, <2>1, <2>2 DEF Selects
  <2> QED
    BY <1>1, <2>2, <2>3 DEF Places
<1>7. IsFiniteSet(S) /\ Occurrences(t, o) = Cardinality(S) /\ Occurrences(t, s) = Cardinality(P)
  BY <1>1, PlacesFinite
<1>8. Cardinality(P) = Cardinality(S)
  <2> HIDE DEF S, P, f
  <2> QED
    BY <1>4, <1>5, <1>6, <1>7, SameNumber
<1> QED
  BY <1>7, <1>8 DEF o

(* The reverse of a list has each name as often as the list. *)
LEMMA OccurrencesReverse ==
  ASSUME NEW T, NEW s \in Seq(T), NEW t
  PROVE  /\ Reverse(s) \in Seq(T) /\ Len(Reverse(s)) = Len(s)
         /\ Occurrences(t, Reverse(s)) = Occurrences(t, s)
<1> DEFINE o == Reverse(s)
           L == Len(s)
<1>1. o \in Seq(T) /\ Len(o) = L /\ \A i \in 1 .. L : o[i] = s[(L - i) + 1]
  <2>1. o = [i \in 1 .. L |-> s[(L - i) + 1]]
    BY DEF Reverse
  <2>2. L \in Nat /\ \A i \in 1 .. L : (L - i) + 1 \in 1 .. L
    OBVIOUS
  <2>3. \A i \in 1 .. L : s[(L - i) + 1] \in T
    BY <2>2
  <2> HIDE DEF o, L
  <2> QED
    BY <2>1, <2>2, <2>3
<1> HIDE DEF o
<1> DEFINE S == Places(t, s)
           P == Places(t, o)
           f == [i \in S |-> (L - i) + 1]
<1>2. \A i \in 1 .. L : (L - i) + 1 \in 1 .. L /\ (L - ((L - i) + 1)) + 1 = i
  OBVIOUS
<1>3. \A i \in S : i \in 1 .. L /\ s[i] = t
  BY DEF Places
<1>4. f \in [S -> P]
  <2> SUFFICES ASSUME NEW i \in S
               PROVE  (L - i) + 1 \in P
    OBVIOUS
  <2>1. (L - i) + 1 \in 1 .. L /\ (L - ((L - i) + 1)) + 1 = i
    BY <1>2, <1>3
  <2>2. o[(L - i) + 1] = t
    BY <1>1, <1>3, <2>1
  <2> QED
    BY <1>1, <2>1, <2>2 DEF Places
<1>5. \A i, j \in S : f[i] = f[j] => i = j
  <2> SUFFICES ASSUME NEW i \in S, NEW j \in S, (L - i) + 1 = (L - j) + 1
               PROVE  i = j
    OBVIOUS
  <2>1. i \in Int /\ j \in Int /\ L \in Int
    BY <1>3
  <2> HIDE DEF L
  <2> QED
    BY <2>1
<1>6. \A n \in P : \E i \in S : f[i] = n
  <2> SUFFICES ASSUME NEW n \in P
               PROVE  \E i \in S : (L - i) + 1 = n
    OBVIOUS
  <2>1. n \in 1 .. L /\ o[n] = t
    BY <1>1 DEF Places
  <2>2. (L - n) + 1 \in 1 .. L /\ (L - ((L - n) + 1)) + 1 = n /\ s[(L - n) + 1] = t
    BY <1>1, <1>2, <2>1
  <2> QED
    BY <2>2 DEF Places
<1>7. IsFiniteSet(S) /\ Occurrences(t, o) = Cardinality(P) /\ Occurrences(t, s) = Cardinality(S)
  BY <1>1, PlacesFinite
<1>8. Cardinality(P) = Cardinality(S)
  <2> HIDE DEF S, P, f
  <2> QED
    BY <1>4, <1>5, <1>6, <1>7, SameNumber
<1> QED
  BY <1>1, <1>7, <1>8 DEF o

(* A name that is nowhere in a list does not occur in it. *)
LEMMA OccurrencesNone ==
  ASSUME NEW s, NEW t, \A i \in DOMAIN s : s[i] # t
  PROVE  Occurrences(t, s) = 0
<1>1. {i \in DOMAIN s : s[i] = t} = {}
  OBVIOUS
<1> QED
  BY <1>1, FS_EmptySet DEF Occurrences

(* A name in a list without repetitions occurs once. *)
LEMMA OccurrencesOnce ==
  ASSUME NEW s, NEW t, NEW i \in DOMAIN s, s[i] = t, IsInjective(s)
  PROVE  Occurrences(t, s) = 1
<1>1. {j \in DOMAIN s : s[j] = t} = {i}
  BY DEF IsInjective
<1> QED
  BY <1>1, FS_Singleton DEF Occurrences

(* One more element is one more occurrence of its name. *)
LEMMA OccurrencesAppend ==
  ASSUME NEW T, NEW s \in Seq(T), NEW x \in T, NEW t
  PROVE  Occurrences(t, Append(s, x)) = Occurrences(t, s) + (IF x = t THEN 1 ELSE 0)
<1> DEFINE o == Append(s, x)
           n == Len(s) + 1
           S == Places(t, s)
           P == Places(t, o)
<1>1. /\ o \in Seq(T) /\ DOMAIN o = 1 .. n /\ DOMAIN s = 1 .. Len(s) /\ Len(s) \in Nat
      /\ o[n] = x /\ \A i \in 1 .. Len(s) : o[i] = s[i]
  OBVIOUS
<1>2. n \notin DOMAIN s /\ DOMAIN o = DOMAIN s \cup {n}
  BY <1>1
<1> HIDE DEF n, o
<1>3. n \notin S /\ P = IF x = t THEN S \cup {n} ELSE S
  BY <1>1, <1>2 DEF Places
<1>4. /\ IsFiniteSet(S) /\ Occurrences(t, s) = Cardinality(S) /\ Occurrences(t, o) = Cardinality(P)
      /\ Occurrences(t, s) \in Nat
  BY <1>1, PlacesFinite
<1> HIDE DEF S, P
<1>5. Cardinality(S \cup {n}) = Cardinality(S) + 1
  BY <1>3, <1>4, FS_AddElement
<1> QED
  BY <1>3, <1>4, <1>5 DEF o

(* The names of a list are its first one and those of the rest. *)
LEMMA OccurrencesTail ==
  ASSUME NEW T, NEW s \in Seq(T), s # << >>, NEW t
  PROVE  Occurrences(t, s) = (IF Head(s) = t THEN 1 ELSE 0) + Occurrences(t, Tail(s))
<1> DEFINE o == Tail(s)
           L == Len(s)
           S == Places(t, s)
           R == S \ {1}
           P == Places(t, o)
           f == [i \in P |-> i + 1]
<1>1. L \in Nat \ {0} /\ DOMAIN s = 1 .. L /\ Head(s) = s[1]
  OBVIOUS
<1>2. /\ o \in Seq(T) /\ Len(o) = L - 1 /\ DOMAIN o = 1 .. L - 1
      /\ \A i \in 1 .. L - 1 : o[i] = s[i + 1]
  OBVIOUS
<1>3. \A i \in 1 .. L - 1 : i + 1 \in 1 .. L /\ i + 1 # 1 /\ i \in Int
  BY <1>1
<1>4. \A i \in 1 .. L : i # 1 => i - 1 \in 1 .. L - 1 /\ (i - 1) + 1 = i
  BY <1>1
<1> HIDE DEF o, L
<1>5. f \in [P -> R]
  BY <1>1, <1>2, <1>3 DEF Places
<1>6. \A i, j \in P : f[i] = f[j] => i = j
  BY <1>2, <1>3 DEF Places
<1>7. \A k \in R : \E i \in P : f[i] = k
  BY <1>1, <1>2, <1>4 DEF Places
<1>8. /\ IsFiniteSet(S) /\ Occurrences(t, s) = Cardinality(S) /\ Occurrences(t, s) \in Nat
      /\ IsFiniteSet(P) /\ Occurrences(t, o) = Cardinality(P) /\ Occurrences(t, o) \in Nat
  BY <1>2, PlacesFinite
<1>9. 1 \in S <=> Head(s) = t
  BY <1>1 DEF Places
<1> HIDE DEF S, P, f
<1>10. Cardinality(R) = Cardinality(P)
  <2> HIDE DEF R
  <2> QED
    BY <1>5, <1>6, <1>7, <1>8, SameNumber
<1>11. Cardinality(R) = IF 1 \in S THEN Cardinality(S) - 1 ELSE Cardinality(S)
  BY <1>8, FS_RemoveElement
<1> QED
  BY <1>8, <1>9, <1>10, <1>11 DEF o

-----------------------------------------------------------------------------
(* An element is in a list. *)
Has(s, t) == \E i \in DOMAIN s : s[i] = t

(* The two orders of a list. *)
LEMMA ReadLists ==
  ASSUME NEW T, NEW s \in Seq(T), NEW t
  PROVE  /\ AsRead(s) \in Seq(T) /\ Occurrences(t, AsRead(s)) = Occurrences(t, s)
         /\ Has(AsRead(s), t) <=> Has(s, t)
         /\ AsRead(s) = << >> <=> s = << >>
<1>1. CASE env.port # "c"
  BY <1>1 DEF AsRead
<1>2. CASE env.port = "c"
  <2> DEFINE o == Reverse(s)
  <2>1. o \in Seq(T) /\ Len(o) = Len(s) /\ Occurrences(t, o) = Occurrences(t, s)
    BY OccurrencesReverse
  <2>2. o = AsRead(s)
    BY <1>2 DEF AsRead
  <2>3. Has(o, t) <=> Has(s, t)
    <3>1. \A i \in 1 .. Len(s) : /\ (Len(s) - i) + 1 \in 1 .. Len(s)
                                 /\ (Len(s) - ((Len(s) - i) + 1)) + 1 = i
      OBVIOUS
    <3>2. \A i \in 1 .. Len(s) : o[i] = s[(Len(s) - i) + 1]
      BY DEF Reverse
    <3>3. DOMAIN o = 1 .. Len(s) /\ DOMAIN s = 1 .. Len(s)
      BY <2>1
    <3> HIDE DEF o
    <3>4. \A i \in 1 .. Len(s) : o[(Len(s) - i) + 1] = s[i]
      BY <3>1, <3>2
    <3> QED
      BY <3>1, <3>2, <3>3, <3>4 DEF Has
  <2>4. o = << >> <=> s = << >>
    <3> HIDE DEF o
    <3> QED
      BY <2>1
  <2> QED
    BY <2>1, <2>2, <2>3, <2>4
<1> QED
  BY <1>1, <1>2

(* What a selection keeps. *)
LEMMA OnlyHas ==
  ASSUME NEW T, NEW s \in Seq(T), NEW set
  PROVE  /\ Only(s, set) \in Seq(T)
         /\ \A n \in DOMAIN Only(s, set) : /\ Only(s, set)[n] \in set
                                           /\ \E i \in DOMAIN s : s[i] = Only(s, set)[n]
         /\ \A i \in DOMAIN s : s[i] \in set =>
              \E n \in DOMAIN Only(s, set) : Only(s, set)[n] = s[i]
<1> DEFINE o == Only(s, set)
<1>1. o \in Seq(T) /\ \E e : Selects(e, s, o, set)
  BY OnlySelects
<1> HIDE DEF o
<1>2. PICK e : Selects(e, s, o, set)
  BY <1>1
<1>3. DOMAIN o = 1 .. Len(o) /\ DOMAIN s = 1 .. Len(s)
  BY <1>1
<1>4. \A n \in 1 .. Len(o) : o[n] \in set /\ e[n] \in 1 .. Len(s) /\ s[e[n]] = o[n]
  BY <1>2 DEF Selects
<1>5. \A i \in 1 .. Len(s) : s[i] \in set => \E n \in 1 .. Len(o) : e[n] = i /\ o[n] = s[i]
  BY <1>2 DEF Selects
<1> QED
  BY <1>1, <1>3, <1>4, <1>5 DEF o

(* A selection of elements of another set. *)
LEMMA SeqWithin ==
  ASSUME NEW T, NEW U, NEW s \in Seq(T), \A i \in DOMAIN s : s[i] \in U
  PROVE  s \in Seq(U)
OBVIOUS

(* The requested list of the C and C++ ports, and of the Java port when no *)
(* config test is named.                                                   *)
LEMMA PrefixIsAll ==
  ASSUME NEW s, \A i \in DOMAIN s : ~IsConfig(s[i])
  PROVE  UpToConfig(s) = s
<1>1. {i \in DOMAIN s : IsConfig(s[i])} = {}
  OBVIOUS
<1> QED
  BY <1>1 DEF UpToConfig

(* The part of a list before the first config test is a list of the same   *)
(* kind.                                                                   *)
LEMMA PrefixType ==
  ASSUME NEW T, NEW s \in Seq(T)
  PROVE  UpToConfig(s) \in Seq(T)
<1> DEFINE at == {i \in DOMAIN s : IsConfig(s[i])}
<1>1. CASE at = {}
  BY <1>1 DEF UpToConfig
<1>2. CASE at # {}
  <2>1. UpToConfig(s) = SubSeq(s, 1, Min(at) - 1)
    BY <1>2 DEF UpToConfig
  <2>2. at \in SUBSET (DOMAIN s) /\ at \subseteq Nat /\ DOMAIN s = 1 .. Len(s) /\ Len(s) \in Nat
    OBVIOUS
  <2>3. IsFiniteSet(at)
    <3> DEFINE n == Len(s)
               S == 1 .. n
    <3>1. n \in Int /\ 1 \in Int
      OBVIOUS
    <3> HIDE DEF n
    <3>2. IsFiniteSet(S)
      BY <3>1, FS_Interval
    <3>3. at \in SUBSET S
      BY <2>2 DEF n
    <3> HIDE DEF S, at
    <3> QED
      BY <3>2, <3>3, FS_Subset
  <2>4. Min(at) \in 1 .. Len(s)
    <3> HIDE DEF at
    <3>1. Min(at) \in at
      BY <1>2, <2>2, <2>3, Extremes
    <3> QED
      BY <2>2, <3>1
  <2> DEFINE m == Min(at) - 1
  <2>5. m \in 0 .. Len(s)
    <3> DEFINE b == Min(at)
    <3>1. b \in 1 .. Len(s)
      BY <2>4
    <3> HIDE DEF b
    <3>2. b - 1 \in 0 .. Len(s)
      BY <3>1
    <3> QED
      BY <3>2 DEF b
  <2> HIDE DEF m, at
  <2>6. SubSeq(s, 1, m) \in Seq(T)
    BY <2>5
  <2> QED
    BY <2>1, <2>6 DEF m
<1> QED
  BY <1>1, <1>2

-----------------------------------------------------------------------------
(* Harness: the parameters and the lists of tests. *)

(* What is known of the parameters. *)
LEMMA Parameters ==
  ASSUME env \in Envs
  PROVE  /\ env.port \in {"c", "cpp", "java"}
         /\ env.uniprocessor \in BOOLEAN /\ env.quick \in BOOLEAN
         /\ env.file \in Seq(Tests) /\ IsInjective(env.file)
         /\ env.given \in Seq(Tests \cup {"unknown"})
         /\ \A t : InFile(t) <=> \E i \in DOMAIN env.file : env.file[i] = t
         /\ Iterations \in Nat /\ Promise \in Nat /\ RealTimeMultipliers \subseteq Nat
<1>1. env.port \in {"c", "cpp", "java"} /\ env.file \in Files /\ env.given \in NameLists
      /\ env.uniprocessor \in BOOLEAN /\ env.quick \in BOOLEAN
  BY DEF Envs
<1>2. env.file \in Seq(Tests) /\ IsInjective(env.file) /\ env.given \in Seq(Tests \cup {"unknown"})
  BY <1>1, HarnessAssumption DEF HarnessAssumption
<1>3. Iterations \in Nat /\ (\A m \in Modes : Multiplier[m] \in Nat) /\ env.mode \in Modes
  BY HarnessAssumption DEF HarnessAssumption, Envs
<1>4. Promise \in Nat
  <2>1. Multiplier[env.mode] \in Nat
    BY <1>3
  <2> QED
    BY <1>3, <2>1 DEF Promise
<1>5. RealTimeMultipliers \subseteq Nat
  <2>1. Strays \subseteq Nat
    BY HarnessAssumption DEF HarnessAssumption
  <2>2. "hard" \in Modes /\ "guaranteed" \in Modes
    BY DEF Modes
  <2> QED
    BY <1>3, <2>1, <2>2 DEF RealTimeMultipliers
<1>6. \A t : InFile(t) <=> \E i \in DOMAIN env.file : env.file[i] = t
  <2>1. DOMAIN env.file = 1 .. Len(env.file)
    BY <1>2
  <2> QED
    BY <2>1 DEF InFile, Contains
<1> QED
  BY <1>1, <1>2, <1>3, <1>4, <1>5, <1>6

(* The names that are in the file are tests that were named. *)
LEMMA KnownNames ==
  ASSUME TypeOK
  PROVE  LET known == Only(names, ToSet(env.file))
         IN  /\ known \in Seq(Tests)
             /\ \A i \in DOMAIN known : \E j \in DOMAIN names : names[j] = known[i]
<1> DEFINE known == Only(names, ToSet(env.file))
           All == Tests \cup {"unknown"}
<1>1. names \in Seq(All) /\ env.file \in Seq(Tests)
  BY Parameters DEF TypeOK
<1>2. /\ known \in Seq(All)
      /\ \A i \in DOMAIN known : /\ known[i] \in ToSet(env.file)
                                 /\ \E j \in DOMAIN names : names[j] = known[i]
  <2> HIDE DEF All
  <2> QED
    BY <1>1, OnlyHas
<1>3. ToSet(env.file) \subseteq Tests
  BY <1>1 DEF ToSet
<1> HIDE DEF known, All
<1>4. known \in Seq(Tests)
  BY <1>2, <1>3, SeqWithin
<1> QED
  BY <1>2, <1>4 DEF known

(* What is requested are tests, in the C++ port no config tests. *)
LEMMA RequestedType ==
  ASSUME TypeOK
  PROVE  /\ Requested \in Seq(Tests)
         /\ env.port = "cpp" => \A k \in DOMAIN Requested : ~IsConfig(Requested[k])
<1> DEFINE known == Only(names, ToSet(env.file))
           Others == Tests \ ConfigTests
<1>1. known \in Seq(Tests)
  BY KnownNames
<1>2. tests \in Seq(Tests)
  BY DEF TypeOK
<1>3. \A o \in Others : ~IsConfig(o)
  BY DEF IsConfig
<1> HIDE DEF Others
<1>4. /\ Only(tests, Others) \in Seq(Tests)
      /\ \A k \in DOMAIN Only(tests, Others) : Only(tests, Others)[k] \in Others
  BY <1>2, OnlyHas
<1>5. CASE names = << >>
  <2>1. Requested = Only(tests, Others)
    BY <1>5 DEF Requested, Others
  <2> QED
    BY <1>3, <1>4, <2>1
<1>6. CASE names # << >>
  <2>1. Requested = CASE env.port = "c"    -> known
                      [] env.port = "cpp"  -> Only(known, Others)
                      [] env.port = "java" -> UpToConfig(known)
    BY <1>6 DEF Requested, Others
  <2> HIDE DEF known
  <2>2. /\ Only(known, Others) \in Seq(Tests)
        /\ \A k \in DOMAIN Only(known, Others) : Only(known, Others)[k] \in Others
    BY <1>1, OnlyHas
  <2>3. UpToConfig(known) \in Seq(Tests)
    BY <1>1, PrefixType
  <2>4. env.port \in {"c", "cpp", "java"}
    BY Parameters DEF TypeOK
  <2>5. CASE env.port = "c"
    BY <1>1, <2>1, <2>5
  <2>6. CASE env.port = "cpp"
    <3>1. Requested = Only(known, Others)
      BY <2>1, <2>6
    <3> QED
      BY <1>3, <2>2, <3>1
  <2>7. CASE env.port = "java"
    BY <2>1, <2>3, <2>7
  <2> QED
    BY <2>4, <2>5, <2>6, <2>7
<1> QED
  BY <1>5, <1>6

(* Every benchmark is requested as often as it is asked for. *)
LEMMA RequestedCount ==
  ASSUME TypeOK, tests = AsRead(env.file), names = AsRead(env.given),
         NEW t \in Tests \ ConfigTests, InFile(t), ~(env.port = "java" /\ NamesConfig)
  PROVE  Occurrences(t, Requested) = Asked(t)
<1> DEFINE known == Only(names, ToSet(env.file))
           Others == Tests \ ConfigTests
           All == Tests \cup {"unknown"}
<1>1. /\ env.file \in Seq(Tests) /\ IsInjective(env.file) /\ env.given \in Seq(All)
      /\ env.port \in {"c", "cpp", "java"} /\ tests \in Seq(Tests) /\ names \in Seq(All)
      /\ \E i \in DOMAIN env.file : env.file[i] = t
  BY Parameters DEF TypeOK
<1>2. known \in Seq(Tests) /\ \A i \in DOMAIN known : \E j \in DOMAIN names : names[j] = known[i]
  BY KnownNames
<1>3. Occurrences(t, names) = Occurrences(t, env.given) /\ (names = << >> <=> env.given = << >>)
  <2> HIDE DEF All
  <2> QED
    BY <1>1, ReadLists
<1>4. Occurrences(t, tests) = 1
  <2>1. Occurrences(t, tests) = Occurrences(t, env.file)
    BY <1>1, ReadLists
  <2> QED
    BY <1>1, <2>1, OccurrencesOnce
<1>5. t \in Others /\ t \in ToSet(env.file)
  BY <1>1 DEF ToSet
<1>6. Occurrences(t, known) = Occurrences(t, env.given)
  <2> HIDE DEF All
  <2> QED
    BY <1>1, <1>3, <1>5, OccurrencesOnly
<1> HIDE DEF Others
<1>7. Occurrences(t, Only(tests, Others)) = 1
  BY <1>1, <1>4, <1>5, OccurrencesOnly
<1>8. CASE names = << >>
  BY <1>3, <1>7, <1>8 DEF Requested, Asked, Others
<1>9. CASE names # << >>
  <2>1. Requested = CASE env.port = "c"    -> known
                      [] env.port = "cpp"  -> Only(known, Others)
                      [] env.port = "java" -> UpToConfig(known)
    BY <1>9 DEF Requested, Others
  <2>2. Asked(t) = Occurrences(t, env.given)
    BY <1>3, <1>9 DEF Asked
  <2> HIDE DEF known
  <2>3. Occurrences(t, Only(known, Others)) = Occurrences(t, known)
    BY <1>2, <1>5, OccurrencesOnly
  <2>4. ASSUME env.port = "java" PROVE UpToConfig(known) = known
    <3>1. names = env.given
      BY <2>4 DEF AsRead
    <3>2. \A j \in DOMAIN names : ~IsConfig(names[j])
      BY <2>4, <3>1 DEF NamesConfig
    <3>3. \A i \in DOMAIN known : ~IsConfig(known[i])
      BY <1>2, <3>2
    <3> QED
      BY <3>3, PrefixIsAll
  <2>5. CASE env.port = "c"
    BY <1>6, <2>1, <2>2, <2>5
  <2>6. CASE env.port = "cpp"
    <3>1. Requested = Only(known, Others)
      BY <2>1, <2>6
    <3> QED
      BY <1>6, <2>2, <2>3, <3>1
  <2>7. CASE env.port = "java"
    <3>1. Requested = known
      BY <2>1, <2>4, <2>7
    <3> QED
      BY <1>6, <2>2, <3>1
  <2> QED
    BY <1>1, <2>5, <2>6, <2>7
<1> QED
  BY <1>8, <1>9

(* An element of a list is in it in either order. *)
LEMMA ReadHas ==
  ASSUME NEW s \in Seq(Tests)
  PROVE  \A c : (\E i \in DOMAIN s : s[i] = c) => \E i \in DOMAIN AsRead(s) : AsRead(s)[i] = c
<1>1. \A c : Has(AsRead(s), c) <=> Has(s, c)
  BY ReadLists
<1> QED
  BY <1>1 DEF Has

(* The config tests that the lists have are in the plan. *)
LEMMA PlanOfFile ==
  ASSUME NEW s \in Seq(Tests)
  PROVE  /\ ConfigPlan(AsRead(s)) \in Seq(Tests)
         /\ \A k \in DOMAIN ConfigPlan(AsRead(s)) : IsConfig(ConfigPlan(AsRead(s))[k])
         /\ \A c \in ConfigTests : (\E i \in DOMAIN s : s[i] = c)
              => \E k \in DOMAIN ConfigPlan(AsRead(s)) : ConfigPlan(AsRead(s))[k] = c
<1> DEFINE l == AsRead(s)
           o == Only(l, ConfigTests)
<1>1. l \in Seq(Tests) /\ \A c : (\E i \in DOMAIN s : s[i] = c) => \E i \in DOMAIN l : l[i] = c
  <2>1. AsRead(s) \in Seq(Tests)
    BY ReadLists
  <2>2. \A c : (\E i \in DOMAIN s : s[i] = c) => \E i \in DOMAIN AsRead(s) : AsRead(s)[i] = c
    BY ReadHas
  <2> QED
    BY <2>1, <2>2
<1> HIDE DEF l
<1>2. /\ o \in Seq(Tests)
      /\ \A k \in DOMAIN o : o[k] \in ConfigTests
      /\ \A i \in DOMAIN l : l[i] \in ConfigTests => \E k \in DOMAIN o : o[k] = l[i]
  BY <1>1, OnlyHas
<1> HIDE DEF o
<1>3. \A c \in ConfigTests : (\E i \in DOMAIN s : s[i] = c) => \E k \in DOMAIN o : o[k] = c
  <2> SUFFICES ASSUME NEW c \in ConfigTests, \E i \in DOMAIN s : s[i] = c
               PROVE  \E k \in DOMAIN o : o[k] = c
    OBVIOUS
  <2>1. PICK i \in DOMAIN l : l[i] = c
    BY <1>1
  <2> QED
    BY <1>2, <2>1
<1>4. o = ConfigPlan(AsRead(s))
  BY DEF ConfigPlan, o, l
<1> QED
  BY <1>2, <1>3, <1>4 DEF IsConfig

(* In the plan of the C port clock comes before timer. *)
LEMMA ClockBeforeTimer ==
  ASSUME env \in Envs, env.port = "c", ClockAfterTimer,
         NEW k \in DOMAIN ConfigPlan(AsRead(env.file)), ConfigPlan(AsRead(env.file))[k] = "timer"
  PROVE  \E j \in 1 .. k - 1 : ConfigPlan(AsRead(env.file))[j] = "clock"
<1> DEFINE f == env.file
           L == Len(f)
           r == Reverse(f)
           o == Only(r, ConfigTests)
<1>1. f \in Seq(Tests) /\ IsInjective(f)
  BY Parameters
<1>2. L \in Nat /\ DOMAIN f = 1 .. L
  BY <1>1
<1>3. o = ConfigPlan(AsRead(f))
  BY DEF ConfigPlan, AsRead
<1>4. r \in Seq(Tests) /\ Len(r) = L /\ \A i \in 1 .. L : r[i] = f[(L - i) + 1]
  <2>1. r \in Seq(Tests) /\ Len(r) = L
    BY <1>1, OccurrencesReverse
  <2> QED
    BY <2>1 DEF Reverse
<1> HIDE DEF f, L, r, o
<1>5. PICK a \in 1 .. L, b \in 1 .. L : a < b /\ f[a] = "timer" /\ f[b] = "clock"
  BY <1>2 DEF ClockAfterTimer, f
<1>6. o \in Seq(Tests) /\ \E e : Selects(e, r, o, ConfigTests)
  BY <1>4, OnlySelects DEF o
<1>7. PICK e : Selects(e, r, o, ConfigTests)
  BY <1>6
<1>8. k \in 1 .. Len(o) /\ o[k] = "timer" /\ Len(o) \in Nat
  BY <1>3, <1>6 DEF f
<1>9. e[k] \in 1 .. L /\ r[e[k]] = "timer"
  BY <1>4, <1>7, <1>8 DEF Selects
<1>10. e[k] = (L - a) + 1
  <2> DEFINE x == (L - e[k]) + 1
  <2>1. x \in 1 .. L /\ e[k] = (L - x) + 1
    BY <1>2, <1>9
  <2>2. f[x] = "timer"
    BY <1>4, <1>9
  <2> HIDE DEF x
  <2>3. x = a
    BY <1>1, <1>2, <1>5, <2>1, <2>2 DEF IsInjective
  <2> QED
    BY <2>1, <2>3
<1> DEFINE y == (L - b) + 1
<1>11. y \in 1 .. L /\ (L - y) + 1 = b /\ y < e[k]
  BY <1>2, <1>5, <1>10
<1>12. r[y] = "clock" /\ "clock" \in ConfigTests
  BY <1>4, <1>5, <1>11 DEF ConfigTests
<1> HIDE DEF y
<1>13. PICK n \in 1 .. Len(o) : e[n] = y
  BY <1>4, <1>7, <1>11, <1>12 DEF Selects
<1>14. o[n] = "clock"
  BY <1>7, <1>12, <1>13 DEF Selects
<1>15. n < k
  <2>1. ~ (k < n)
    <3>1. y \in Int /\ e[k] \in Int
      BY <1>9, <1>11
    <3>2. k < n => e[k] < e[n]
      BY <1>7, <1>8, <1>13 DEF Selects
    <3> QED
      BY <1>11, <1>13, <3>1, <3>2
  <2>2. n # k
    BY <1>8, <1>14
  <2> QED
    BY <1>8, <2>1, <2>2
<1>16. n \in 1 .. k - 1
  BY <1>8, <1>15
<1> QED
  BY <1>3, <1>14, <1>16 DEF f

-----------------------------------------------------------------------------
(* Harness: running one test. *)

(* What the steps of the three ports that run a test have in common. *)
Attempt ==
  /\ Running /\ UNCHANGED << env, tests, names, multiplier >>
  /\ \E n \in {0, NewIterations(Current)} : tried' = Append(tried, [test |-> Current, iters |-> n])
  /\ \/ iters' = iters
     \/ env.port # "cpp" /\ iters' = [iters EXCEPT ![Current] = NewIterations(Current)]
  /\ table' \in {table, table \cup {Current}}
  /\ factors' = factors \/ \E n \in {0, 1} :
       factors' = [factors EXCEPT ![Current] = IF env.port = "cpp" THEN @ + n ELSE n]
  /\ counted' \in {counted, counted + 1}
  /\ \/ phase' = phase /\ todo' = Tail(todo)
     \/ phase' \in {"crash", "abort"} /\ todo' = todo
     \/ phase = "tests" /\ env.uniprocessor /\ phase' = "score" /\ todo' = todo

(* Running a test is such an attempt in each port. *)
LEMMA RunIsAttempt == RunTestC \/ RunTestCpp \/ RunTestJava => Attempt
<1>1. \A n : UNCHANGED iters /\ n = 0 => UNCHANGED iters
  OBVIOUS
<1>2. ASSUME Start(Current) \/ NoStart(Current)
      PROVE  /\ \E n \in {0, NewIterations(Current)} :
                  tried' = Append(tried, [test |-> Current, iters |-> n])
             /\ \/ iters' = iters
                \/ env.port # "cpp" /\ iters' = [iters EXCEPT ![Current] = NewIterations(Current)]
  BY <1>2 DEF Start, NoStart
<1>3. ASSUME Record(Current) \/ NoRecord
      PROVE  /\ table' \in {table, table \cup {Current}}
             /\ factors' = factors \/ \E n \in {0, 1} :
                  factors' = [factors EXCEPT ![Current] = IF env.port = "cpp" THEN @ + n ELSE n]
  BY <1>3 DEF Record, NoRecord
<1>4. ASSUME Proceed(TRUE) \/ Proceed(FALSE)
      PROVE  counted' \in {counted, counted + 1} /\ phase' = phase /\ todo' = Tail(todo)
  BY <1>4 DEF Proceed
<1>5. ASSUME FailCpp
      PROVE  /\ counted' \in {counted, counted + 1}
             /\ \/ phase' = phase /\ todo' = Tail(todo)
                \/ phase' \in {"crash", "abort"} /\ todo' = todo
                \/ phase = "tests" /\ env.uniprocessor /\ phase' = "score" /\ todo' = todo
  BY <1>4, <1>5 DEF FailCpp
<1>6. ASSUME RunTestC PROVE Attempt
  <2>1. Running /\ UNCHANGED << env, tests, names, multiplier >>
        /\ (Start(Current) \/ NoStart(Current)) /\ (Record(Current) \/ NoRecord)
        /\ (Proceed(FALSE) \/ (phase' = "crash" /\ UNCHANGED << todo, counted >>))
    BY <1>6 DEF RunTestC
  <2> QED
    BY <1>2, <1>3, <1>4, <2>1 DEF Attempt
<1>7. ASSUME RunTestCpp PROVE Attempt
  <2>1. Running /\ UNCHANGED << env, tests, names, multiplier >>
        /\ (Start(Current) \/ NoStart(Current)) /\ (Record(Current) \/ NoRecord)
        /\ (Proceed(TRUE) \/ FailCpp)
    BY <1>7 DEF RunTestCpp
  <2> QED
    BY <1>2, <1>3, <1>4, <1>5, <2>1 DEF Attempt
<1>8. ASSUME RunTestJava PROVE Attempt
  <2>1. Running /\ UNCHANGED << env, tests, names, multiplier >>
        /\ (Start(Current) \/ NoStart(Current)) /\ (Record(Current) \/ NoRecord)
        /\ (Proceed(TRUE) \/ Proceed(FALSE))
    BY <1>8 DEF RunTestJava
  <2> QED
    BY <1>2, <1>3, <1>4, <2>1 DEF Attempt
<1> QED
  BY <1>6, <1>7, <1>8

(* The lists after an attempt. *)
LEMMA AttemptLists ==
  ASSUME TypeOK, Attempt
  PROVE  /\ Current \in Tests /\ NewIterations(Current) \in Nat
         /\ todo # << >> /\ todo' \in Seq(Tests)
         /\ DOMAIN todo = 1 .. Len(todo) /\ todo[1] = Current
         /\ todo' = Tail(todo) => \A k \in DOMAIN todo' :
              k + 1 \in DOMAIN todo /\ todo'[k] = todo[k + 1]
         /\ Len(tried) \in Nat /\ DOMAIN tried = 1 .. Len(tried)
         /\ DOMAIN tried' = 1 .. Len(tried) + 1
         /\ Len(tried') = Len(tried) + 1
         /\ \A i \in 1 .. Len(tried) : tried'[i] = tried[i]
         /\ tried'[Len(tried) + 1].test = Current
         /\ tried'[Len(tried) + 1].iters \in {0, NewIterations(Current)}
         /\ tried' \in Seq([test : Tests, iters : Nat])
<1>1. todo \in Seq(Tests) /\ todo # << >> /\ (todo' = todo \/ todo' = Tail(todo))
  BY DEF TypeOK, Attempt, Running
<1>2. Current \in Tests /\ todo[1] = Current /\ DOMAIN todo = 1 .. Len(todo)
  BY <1>1 DEF Current
<1>3. todo' \in Seq(Tests)
  BY <1>1
<1>4. todo' = Tail(todo) => \A k \in DOMAIN todo' : k + 1 \in DOMAIN todo /\ todo'[k] = todo[k + 1]
  BY <1>1
<1>5. NewIterations(Current) \in Nat
  <2>1. iters[Current] \in Nat /\ multiplier \in Nat
    BY <1>2 DEF TypeOK
  <2> QED
    BY <2>1 DEF NewIterations
<1>6. PICK n \in {0, NewIterations(Current)} :
        tried' = Append(tried, [test |-> Current, iters |-> n])
  BY DEF Attempt
<1> DEFINE Entries == [test : Tests, iters : Nat]
           x == [test |-> Current, iters |-> n]
<1>7. x \in Entries /\ tried \in Seq(Entries) /\ x.test = Current /\ x.iters = n
  BY <1>2, <1>5, <1>6 DEF TypeOK
<1>8. tried' = Append(tried, x)
  BY <1>6
<1> HIDE DEF x, Entries
<1>9. /\ Len(tried) \in Nat /\ DOMAIN tried = 1 .. Len(tried) /\ DOMAIN tried' = 1 .. Len(tried) + 1
      /\ Len(tried') = Len(tried) + 1
      /\ \A i \in 1 .. Len(tried) : tried'[i] = tried[i]
      /\ tried'[Len(tried) + 1] = x /\ tried' \in Seq(Entries)
  BY <1>7, <1>8
<1> QED
  BY <1>1, <1>2, <1>3, <1>4, <1>5, <1>6, <1>7, <1>9 DEF Entries

(* An attempt adds the current test to those that were tried. *)
LEMMA AttemptTried ==
  ASSUME TypeOK, Attempt, NEW t
  PROVE  WasTried(t)' <=> WasTried(t) \/ t = Current
<1>1. Len(tried) + 1 \in 1 .. Len(tried) + 1 /\ 1 .. Len(tried) \subseteq 1 .. Len(tried) + 1
      /\ \A i \in 1 .. Len(tried) + 1 : i \in 1 .. Len(tried) \/ i = Len(tried) + 1
  BY AttemptLists
<1> QED
  BY <1>1, AttemptLists DEF WasTried

(* An attempt keeps the types and what was read. *)
LEMMA AttemptType ==
  ASSUME TypeOK, ReadInv, Attempt
  PROVE  TypeOK' /\ ReadInv'
<1>1. phase' \in Phases /\ phase # "read" /\ phase' # "read"
  BY DEF TypeOK, Attempt, Running, Phases
<1>2. env' = env /\ tests' = tests /\ names' = names /\ multiplier' = multiplier
  BY DEF Attempt
<1>3. env' \in Envs'
  BY <1>2 DEF TypeOK, Envs
<1>4. tried' \in Seq([test : Tests, iters : Nat]) /\ todo' \in Seq(Tests) /\ Current \in Tests
      /\ NewIterations(Current) \in Nat
  BY AttemptLists
<1>5. iters' \in [Tests -> Nat]
  <2> DEFINE n == NewIterations(Current)
             c == Current
  <2>1. iters' = iters \/ iters' = [iters EXCEPT ![c] = n]
    BY DEF Attempt
  <2>2. iters \in [Tests -> Nat]
    BY DEF TypeOK
  <2> HIDE DEF n, c
  <2> QED
    BY <1>4, <2>1, <2>2 DEF n, c
<1>6. factors' \in [Tests -> Nat]
  <2> DEFINE c == Current
  <2>1. factors' = factors \/ \E n \in {0, 1} :
          factors' = [factors EXCEPT ![c] = IF env.port = "cpp" THEN factors[c] + n ELSE n]
    BY DEF Attempt
  <2>2. factors \in [Tests -> Nat] /\ c \in Tests
    BY <1>4 DEF TypeOK
  <2> HIDE DEF c
  <2>3. CASE factors' = factors
    BY <2>2, <2>3
  <2>4. CASE factors' # factors
    <3>1. PICK n \in {0, 1} : factors' =
            [factors EXCEPT ![c] = IF env.port = "cpp" THEN factors[c] + n ELSE n]
      BY <2>1, <2>4
    <3> DEFINE v == IF env.port = "cpp" THEN factors[c] + n ELSE n
    <3>2. v \in Nat
      BY <2>2
    <3> HIDE DEF v
    <3>3. factors' = [factors EXCEPT ![c] = v]
      BY <3>1 DEF v
    <3> QED
      BY <2>2, <3>2, <3>3
  <2> QED
    BY <2>3, <2>4
<1>7. table' \subseteq Tests /\ counted' \in Nat
  <2>1. table \subseteq Tests /\ counted \in Nat
    BY DEF TypeOK
  <2>2. table' \in {table, table \cup {Current}} /\ counted' \in {counted, counted + 1}
    BY DEF Attempt
  <2> QED
    BY <1>4, <2>1, <2>2
<1>8. TypeOK'
  BY <1>1, <1>2, <1>3, <1>4, <1>5, <1>6, <1>7 DEF TypeOK
<1>9. ReadInv'
  <2>1. tests = AsRead(env.file) /\ names = AsRead(env.given) /\ multiplier \in RealTimeMultipliers
    BY <1>1 DEF ReadInv
  <2> QED
    BY <1>1, <1>2, <2>1 DEF ReadInv, AsRead, RealTimeMultipliers
<1> QED
  BY <1>8, <1>9

(* An attempt in the config phase is of a config test, and takes it from   *)
(* the plan only when it is tried.                                         *)
LEMMA AttemptConfig ==
  ASSUME TypeOK, ConfigInv, ConfigFirst, Attempt
  PROVE  ConfigInv' /\ ConfigFirst'
<1>1. env' = env /\ (\A c : InFile(c)' <=> InFile(c)) /\ phase \in {"config", "tests"}
      /\ phase' \in {phase, "crash", "abort", "score"} /\ (phase' = phase => todo' = Tail(todo))
  BY DEF Attempt, InFile, Running
<1> DEFINE t == Current
           n == Len(tried)
<1>2. /\ n \in Nat /\ DOMAIN tried = 1 .. n /\ DOMAIN tried' = 1 .. n + 1
      /\ \A i \in 1 .. n : tried'[i] = tried[i]
      /\ tried'[n + 1].test = t
      /\ todo # << >> /\ DOMAIN todo = 1 .. Len(todo) /\ todo[1] = t
      /\ todo' = Tail(todo) => \A k \in DOMAIN todo' :
           k + 1 \in DOMAIN todo /\ todo'[k] = todo[k + 1]
  BY AttemptLists
<1>3. \A c : WasTried(c)' <=> WasTried(c) \/ c = t
  BY AttemptTried
<1> HIDE DEF t, n
<1>4. todo \in Seq(Tests)
  BY DEF TypeOK
<1>5. 1 \in DOMAIN todo
  BY <1>2, <1>4
<1>6. ASSUME phase = "config"
      PROVE  /\ IsConfig(t) /\ (\A i \in DOMAIN tried : IsConfig(tried[i].test))
             /\ (\A k \in DOMAIN todo : IsConfig(todo[k]))
             /\ \A c \in ConfigTests : InFile(c) =>
                  WasTried(c) \/ \E k \in DOMAIN todo : todo[k] = c
  BY <1>2, <1>5, <1>6 DEF ConfigInv
<1>7. \A i \in 1 .. n + 1 : i \in 1 .. n \/ i = n + 1
  BY <1>2
<1>8. ASSUME phase' = "config"
      PROVE  /\ \A i \in DOMAIN tried' : IsConfig(tried'[i].test)
             /\ \A k \in DOMAIN todo' : IsConfig(todo'[k])
             /\ \A c \in ConfigTests : InFile(c)' =>
                  WasTried(c)' \/ \E k \in DOMAIN todo' : todo'[k] = c
  <2>1. phase = "config" /\ todo' = Tail(todo)
    BY <1>1, <1>8
  <2>2. \A i \in DOMAIN tried' : IsConfig(tried'[i].test)
    BY <1>2, <1>6, <1>7, <2>1
  <2>3. \A k \in DOMAIN todo' : IsConfig(todo'[k])
    BY <1>2, <1>6, <2>1
  <2>4. ASSUME NEW c \in ConfigTests, InFile(c), ~WasTried(c), c # t
        PROVE  \E k \in DOMAIN todo' : todo'[k] = c
    <3>1. PICK k \in DOMAIN todo : todo[k] = c
      BY <1>6, <2>1, <2>4
    <3>2. k # 1
      BY <1>2, <2>4, <3>1
    <3>3. k - 1 \in DOMAIN todo' /\ todo'[k - 1] = todo[k]
      BY <1>2, <1>4, <2>1, <3>2
    <3> QED
      BY <3>1, <3>3
  <2> QED
    BY <1>1, <1>3, <2>2, <2>3, <2>4
<1>9. ASSUME phase' = "tests", NEW c \in ConfigTests, InFile(c)'
      PROVE  WasTried(c)'
  BY <1>1, <1>3, <1>9 DEF ConfigInv
<1>10. ConfigInv'
  BY <1>8, <1>9 DEF ConfigInv
<1>11. ConfigFirst'
  <2> SUFFICES ASSUME NEW i \in 1 .. n + 1, ~IsConfig(tried'[i].test),
                      NEW c \in ConfigTests, InFile(c)
               PROVE  \E j \in 1 .. i - 1 : tried'[j].test = c
    BY <1>1, <1>2 DEF ConfigFirst, IsConfig
  <2>1. CASE i \in 1 .. n
    <3>1. PICK j \in 1 .. i - 1 : tried[j].test = c
      BY <1>2, <2>1 DEF ConfigFirst
    <3>2. j \in 1 .. n
      BY <1>2, <2>1
    <3> QED
      BY <1>2, <3>1, <3>2
  <2>2. CASE i = n + 1
    <3>1. phase = "tests"
      BY <1>1, <1>2, <1>6, <2>2
    <3>2. PICK j \in DOMAIN tried : tried[j].test = c
      BY <3>1 DEF ConfigInv, WasTried
    <3>3. j \in 1 .. i - 1 /\ tried'[j] = tried[j]
      BY <1>2, <2>2
    <3> QED
      BY <3>2, <3>3
  <2> QED
    BY <1>7, <2>1, <2>2
<1> QED
  BY <1>10, <1>11

(* An attempt keeps clock before timer in the plan of the C port. *)
LEMMA AttemptOrder ==
  ASSUME TypeOK, OrderInv, Attempt
  PROVE  OrderInv'
<1>1. env' = env /\ (ClockAfterTimer' <=> ClockAfterTimer)
      /\ phase' \in {phase, "crash", "abort", "score"} /\ (phase' = phase => todo' = Tail(todo))
  <2>1. env' = env /\ (ClockAfterTimer' <=> ClockAfterTimer)
    BY DEF Attempt, ClockAfterTimer
  <2>2. /\ phase' \in {phase, "crash", "abort", "score"} /\ (phase' = phase => todo' = Tail(todo))
    BY DEF Attempt, Running
  <2> QED
    BY <2>1, <2>2
<1>2. /\ \A c : WasTried(c)' <=> WasTried(c) \/ c = Current
      /\ todo \in Seq(Tests) /\ todo # << >> /\ todo[1] = Current /\ DOMAIN todo = 1 .. Len(todo)
      /\ todo' \in Seq(Tests)
  BY AttemptTried, AttemptLists DEF TypeOK
<1> SUFFICES ASSUME phase = "config", env.port = "c", ClockAfterTimer, todo' = Tail(todo),
                    NEW k \in DOMAIN todo', todo'[k] = "timer",
                    ~WasTried("clock"), Current # "clock"
             PROVE  \E j \in 1 .. k - 1 : todo'[j] = "clock"
  BY <1>1, <1>2 DEF OrderInv
<1>3. k + 1 \in DOMAIN todo /\ todo[k + 1] = "timer" /\ k \in Nat
  BY <1>2, AttemptLists
<1>4. PICK j \in 1 .. k : todo[j] = "clock"
  <2>1. \E j \in 1 .. (k + 1) - 1 : todo[j] = "clock"
    BY <1>3 DEF OrderInv
  <2>2. (k + 1) - 1 = k
    BY <1>3
  <2> QED
    BY <2>1, <2>2
<1>5. j # 1
  BY <1>2, <1>4
<1>6. j - 1 \in 1 .. k - 1 /\ todo'[j - 1] = todo[j]
  BY <1>2, <1>3, <1>4, <1>5
<1> QED
  BY <1>4, <1>6

(* An attempt multiplies the iterations of a test that was not tried       *)
(* before, by the multiplier of the mode where it was read as it is in the *)
(* file.                                                                   *)
LEMMA AttemptIters ==
  ASSUME TypeOK, ReadInv, ItersInv, Attempt
  PROVE  ItersInv'
<1> DEFINE t == Current
           n == Len(tried)
           new == NewIterations(t)
<1>1. /\ n \in Nat /\ DOMAIN tried = 1 .. n /\ DOMAIN tried' = 1 .. n + 1
      /\ \A i \in 1 .. n : tried'[i] = tried[i]
      /\ tried'[n + 1].test = t /\ tried'[n + 1].iters \in {0, new} /\ t \in Tests
  BY AttemptLists
<1>2. \A c : WasTried(c)' <=> WasTried(c) \/ c = t
  BY AttemptTried
<1>3. env' = env /\ Promise' = Promise
  BY DEF Attempt, Promise
<1>4. iters' = iters \/ (env.port # "cpp" /\ iters' = [iters EXCEPT ![t] = new])
  BY DEF Attempt
<1>5. iters \in [Tests -> Nat]
  BY DEF TypeOK
<1>6. ASSUME env.quick \/ (iters[t] = Iterations /\ (env.port = "cpp" => env.mode = "soft"))
      PROVE  new = Promise
  <2>1. multiplier \in RealTimeMultipliers
    BY DEF ReadInv, Attempt, Running
  <2> QED
    BY <1>6, <2>1 DEF RealTimeMultipliers, NewIterations, Promise
<1> HIDE DEF t, n, new
<1>7. \A c \in Tests : env'.port = "cpp" \/ ~WasTried(c)' => iters'[c] = Iterations
  <2> SUFFICES ASSUME NEW c \in Tests, env.port = "cpp" \/ ~WasTried(c)'
               PROVE  iters'[c] = Iterations
    BY <1>3
  <2>1. iters[c] = Iterations
    BY <1>2 DEF ItersInv
  <2> QED
    BY <1>2, <1>4, <1>5, <2>1
<1>8. \A i \in 1 .. n + 1 : AsPromised(i)'
  <2> SUFFICES ASSUME NEW i \in 1 .. n + 1, Promised(i)'
               PROVE  tried'[i].iters \in {0, Promise}
    BY <1>3 DEF AsPromised
  <2>1. CASE i \in 1 .. n
    <3>1. \A j \in 1 .. i - 1 : j \in 1 .. n
      BY <1>1, <2>1
    <3>2. Promised(i)
      BY <1>1, <1>3, <2>1, <3>1 DEF Promised
    <3>3. AsPromised(i)
      BY <1>1, <2>1 DEF ItersInv
    <3> QED
      BY <1>1, <2>1, <3>2, <3>3 DEF AsPromised
  <2>2. CASE i = n + 1
    <3>1. env.quick \/ (env.port = "cpp" /\ env.mode = "soft") \/ (env.port # "cpp" /\ ~WasTried(t))
      <4>1. \A j \in 1 .. n : j \in 1 .. i - 1 /\ tried'[j] = tried[j]
        BY <1>1, <2>2
      <4> QED
        BY <1>1, <1>3, <2>2, <4>1 DEF WasTried, Promised
    <3>2. new = Promise
      BY <1>1, <1>6, <3>1 DEF ItersInv
    <3> QED
      BY <1>1, <2>2, <3>2
  <2> QED
    BY <1>1, <2>1, <2>2
<1> QED
  BY <1>1, <1>7, <1>8 DEF ItersInv

(* An attempt moves one occurrence from what is still to run to what was   *)
(* tried.                                                                  *)
LEMMA AttemptCount ==
  ASSUME TypeOK, CountInv, Attempt
  PROVE  CountInv'
<1>1. env' = env /\ (NamesConfig' <=> NamesConfig) /\ (\A c : InFile(c)' <=> InFile(c))
      /\ (\A c : Asked(c)' = Asked(c))
  BY DEF Attempt, NamesConfig, InFile, Asked, Occurrences
<1>2. /\ phase \in {"config", "tests"}
      /\ \/ phase' = phase /\ todo' = Tail(todo)
         \/ phase' \in {"crash", "abort"}
         \/ env.uniprocessor /\ phase' = "score"
  BY DEF Attempt, Running
<1> DEFINE t == Current
           s == TriedTests
<1>3. t \in Tests /\ todo \in Seq(Tests) /\ todo # << >> /\ t = Head(todo)
  BY AttemptLists DEF TypeOK, Current
<1>4. s \in Seq(Tests) /\ s' = Append(s, t)
  <2> DEFINE n == Len(tried)
  <2>1. /\ n \in Nat /\ DOMAIN tried = 1 .. n /\ DOMAIN tried' = 1 .. n + 1
        /\ \A i \in 1 .. n : tried'[i].test = tried[i].test /\ tried[i].test \in Tests
        /\ tried'[n + 1].test = t
    <3>1. tried \in Seq([test : Tests, iters : Nat])
      BY DEF TypeOK
    <3> DEFINE Entries == [test : Tests, iters : Nat]
    <3>2. \A e \in Entries : e.test \in Tests
      OBVIOUS
    <3>5. tried \in Seq(Entries)
      BY <3>1
    <3> HIDE DEF Entries
    <3>3. \A i \in 1 .. n : tried[i] \in Entries
      BY <3>5
    <3>4. \A i \in 1 .. n : tried[i].test \in Tests
      BY <3>2, <3>3
    <3> QED
      BY <3>4, AttemptLists
  <2>2. s = [i \in 1 .. n |-> tried[i].test] /\ s' = [i \in 1 .. n + 1 |-> tried'[i].test]
    BY <2>1 DEF TriedTests
  <2> HIDE DEF n, t, s
  <2>3. s \in Seq(Tests) /\ Len(s) = n
    BY <2>1, <2>2
  <2>4. Append(s, t) = [i \in 1 .. n + 1 |-> IF i \in 1 .. n THEN s[i] ELSE t]
    <3> DEFINE o == Append(s, t)
    <3>1. /\ o \in Seq(Tests) /\ Len(o) = n + 1 /\ o[n + 1] = t
          /\ \A i \in 1 .. n : o[i] = s[i]
      BY <1>3, <2>1, <2>3
    <3>2. \A i \in 1 .. n + 1 : i \in 1 .. n \/ (i = n + 1 /\ i \notin 1 .. n)
      BY <2>1
    <3> HIDE DEF o
    <3>3. o = [i \in 1 .. n + 1 |-> o[i]]
      BY <3>1
    <3>4. \A i \in 1 .. n + 1 : o[i] = IF i \in 1 .. n THEN s[i] ELSE t
      BY <3>1, <3>2
    <3> QED
      BY <3>3, <3>4 DEF o
  <2>5. \A i \in 1 .. n + 1 : tried'[i].test = IF i \in 1 .. n THEN s[i] ELSE t
    <3>1. \A i \in 1 .. n + 1 : i \in 1 .. n \/ i = n + 1
      BY <2>1
    <3>2. n + 1 \notin 1 .. n
      BY <2>1
    <3> QED
      BY <2>1, <2>2, <3>1, <3>2
  <2> QED
    BY <2>2, <2>3, <2>4, <2>5
<1> SUFFICES ASSUME phase' = "tests", phase = "tests", todo' = Tail(todo),
                    ~(env.port = "java" /\ NamesConfig),
                    NEW c \in Tests \ ConfigTests, InFile(c)
             PROVE  Occurrences(c, s') + Occurrences(c, todo') = Asked(c)
  <2>1. \A c : /\ Occurrences(c, TriedTests)' = Occurrences(c, TriedTests')
               /\ Occurrences(c, todo)' = Occurrences(c, todo')
    BY DEF Occurrences
  <2> QED
    BY <1>1, <1>2, <2>1 DEF CountInv
<1>5. Occurrences(c, s) + Occurrences(c, todo) = Asked(c)
  BY DEF CountInv
<1> HIDE DEF s, t
<1>6. Occurrences(c, s') = Occurrences(c, s) + (IF t = c THEN 1 ELSE 0)
  BY <1>3, <1>4, OccurrencesAppend
<1>7. Occurrences(c, todo) = (IF t = c THEN 1 ELSE 0) + Occurrences(c, Tail(todo))
  BY <1>3, OccurrencesTail
<1>8. /\ Occurrences(c, s) \in Nat /\ Occurrences(c, Tail(todo)) \in Nat
      /\ Occurrences(c, todo) \in Nat
  <2>1. Tail(todo) \in Seq(Tests)
    BY <1>3
  <2> QED
    BY <1>3, <1>4, <2>1, PlacesFinite
<1> QED
  BY <1>5, <1>6, <1>7, <1>8

-----------------------------------------------------------------------------
(* Harness: the system score. *)

(* The system score has one factor for each of the four tests.             *)
LEMMA FactorSum ==
  ASSUME NEW f \in [Tests -> Nat]
  PROVE  /\ SumFunctionOnSet(f, Tests) = f["clock"] + (f["timer"] + (f["rate"] + f["sleeper"]))
         /\ SumFunctionOnSet(f, Tests) \in Nat
<1> DEFINE A == {"clock", "timer", "rate", "sleeper"}
           B == {"timer", "rate", "sleeper"}
           C == {"rate", "sleeper"}
           D == {"sleeper"}
<1>1. DOMAIN f = A /\ Tests = A /\ \A x \in A : f[x] \in Nat /\ f[x] \in Int
  BY DEF Tests, ConfigTests
<1>2. SumFunctionOnSet(f, Tests) = SumFunctionOnSet(f, A)
  BY <1>1
<1>3. A \ {"clock"} = B /\ B \ {"timer"} = C /\ C \ {"rate"} = D /\ D \ {"sleeper"} = {}
      /\ B \subseteq A /\ C \subseteq A /\ D \subseteq A
      /\ "clock" \in A /\ "timer" \in B /\ "rate" \in C /\ "sleeper" \in D
  OBVIOUS
<1>4. IsFiniteSet(A) /\ IsFiniteSet(B) /\ IsFiniteSet(C) /\ IsFiniteSet(D) /\ IsFiniteSet({})
  <2>1. IsFiniteSet(D) /\ IsFiniteSet({})
    BY FS_Singleton, FS_EmptySet
  <2>2. C = D \cup {"rate"} /\ B = C \cup {"timer"} /\ A = B \cup {"clock"}
    OBVIOUS
  <2> HIDE DEF A, B, C, D
  <2>3. IsFiniteSet(C)
    BY <2>1, <2>2, FS_AddElement
  <2>4. IsFiniteSet(B)
    BY <2>2, <2>3, FS_AddElement
  <2>5. IsFiniteSet(A)
    BY <2>2, <2>4, FS_AddElement
  <2> QED
    BY <2>1, <2>3, <2>4, <2>5
<1> HIDE DEF A, B, C, D
<1>5. SumFunctionOnSet(f, A) = f["clock"] + SumFunctionOnSet(f, A \ {"clock"})
  BY <1>1, <1>3, <1>4, SumOf
<1>6. SumFunctionOnSet(f, B) = f["timer"] + SumFunctionOnSet(f, B \ {"timer"})
  <2>1. \A x \in B : f[x] \in Int
    BY <1>1, <1>3
  <2> QED
    BY <1>3, <1>4, <2>1, SumOf
<1>7. SumFunctionOnSet(f, C) = f["rate"] + SumFunctionOnSet(f, C \ {"rate"})
  <2>1. \A x \in C : f[x] \in Int
    BY <1>1, <1>3
  <2> QED
    BY <1>3, <1>4, <2>1, SumOf
<1>8. SumFunctionOnSet(f, D) = f["sleeper"] + SumFunctionOnSet(f, D \ {"sleeper"})
  <2>1. \A x \in D : f[x] \in Int
    BY <1>1, <1>3
  <2> QED
    BY <1>3, <1>4, <2>1, SumOf
<1>9. SumFunctionOnSet(f, {}) = 0
  BY <1>4, SumOf
<1>10. f["sleeper"] + 0 = f["sleeper"]
  BY <1>1, <1>3
<1>11. SumFunctionOnSet(f, A) = f["clock"] + (f["timer"] + (f["rate"] + f["sleeper"]))
  BY <1>3, <1>5, <1>6, <1>7, <1>8, <1>9, <1>10
<1> DEFINE a == f["clock"]
           b == f["timer"]
           c == f["rate"]
           d == f["sleeper"]
<1>12. a \in Nat /\ b \in Nat /\ c \in Nat /\ d \in Nat
  BY <1>1 DEF A
<1>13. a + (b + (c + d)) \in Nat
  <2> HIDE DEF a, b, c, d
  <2> QED
    BY <1>12
<1> QED
  BY <1>2, <1>11, <1>13

(* Written out, the number of factors has one summand for each test. *)
LEMMA EnteredSum ==
  ASSUME TypeOK
  PROVE  /\ Entered = factors["clock"] + (factors["timer"] + (factors["rate"] + factors["sleeper"]))
         /\ factors["clock"] \in Nat /\ factors["timer"] \in Nat
         /\ factors["rate"] \in Nat /\ factors["sleeper"] \in Nat /\ Entered \in Nat
<1>1. factors \in [Tests -> Nat]
  BY DEF TypeOK
<1> DEFINE a == factors["clock"]
           b == factors["timer"]
           c == factors["rate"]
           d == factors["sleeper"]
<1>2. Entered = a + (b + (c + d))
  BY <1>1, FactorSum DEF Entered
<1>3. a \in Nat /\ b \in Nat /\ c \in Nat /\ d \in Nat
  BY <1>1 DEF Tests, ConfigTests
<1> HIDE DEF a, b, c, d
<1>4. Entered \in Nat
  BY <1>2, <1>3
<1> QED
  BY <1>2, <1>3, <1>4 DEF a, b, c, d

(* Recording a result adds one factor at most. *)
LEMMA RecordAdds ==
  ASSUME TypeOK, TypeOK', Current \in Tests, Record(Current)
  PROVE  Entered' <= Entered + 1
<1> DEFINE t == Current
           a == factors["clock"]
           b == factors["timer"]
           c == factors["rate"]
           d == factors["sleeper"]
           a2 == factors'["clock"]
           b2 == factors'["timer"]
           c2 == factors'["rate"]
           d2 == factors'["sleeper"]
<1>1. PICK n \in {0, 1} : factors' =
        [factors EXCEPT ![t] = IF env.port = "cpp" THEN factors[t] + n ELSE n]
  BY DEF Record
<1>2. factors \in [Tests -> Nat] /\ t \in Tests
  BY DEF TypeOK
<1>3. /\ Entered = a + (b + (c + d))
      /\ a \in Nat /\ b \in Nat /\ c \in Nat /\ d \in Nat
  BY EnteredSum
<1>4. Entered' = a2 + (b2 + (c2 + d2))
  <2>1. factors' \in [Tests -> Nat]
    BY DEF TypeOK
  <2> QED
    BY <2>1, FactorSum DEF Entered
<1>5. Tests = {"clock", "timer", "rate", "sleeper"}
  BY DEF Tests, ConfigTests
<1> DEFINE v == IF env.port = "cpp" THEN factors[t] + n ELSE n
<1>6. v \in Nat /\ v <= factors[t] + 1
  <2>1. factors[t] \in Nat
    BY <1>2
  <2> QED
    BY <2>1
<1>7. /\ t = "clock" => a2 = v /\ b2 = b /\ c2 = c /\ d2 = d /\ factors[t] = a
      /\ t = "timer" => a2 = a /\ b2 = v /\ c2 = c /\ d2 = d /\ factors[t] = b
      /\ t = "rate" => a2 = a /\ b2 = b /\ c2 = v /\ d2 = d /\ factors[t] = c
      /\ t = "sleeper" => a2 = a /\ b2 = b /\ c2 = c /\ d2 = v /\ factors[t] = d
  <2> HIDE DEF t, v
  <2>1. factors' = [factors EXCEPT ![t] = v]
    BY <1>1 DEF v
  <2> QED
    BY <1>2, <1>5, <2>1
<1> HIDE DEF a, b, c, d, a2, b2, c2, d2, v, t
<1>8. CASE t = "clock"
  BY <1>3, <1>4, <1>6, <1>7, <1>8
<1>9. CASE t = "timer"
  BY <1>3, <1>4, <1>6, <1>7, <1>9
<1>10. CASE t = "rate"
  BY <1>3, <1>4, <1>6, <1>7, <1>10
<1>11. CASE t = "sleeper"
  BY <1>3, <1>4, <1>6, <1>7, <1>11
<1> QED
  BY <1>2, <1>5, <1>8, <1>9, <1>10, <1>11

(* There is no factor in the beginning. *)
LEMMA NoFactors ==
  ASSUME NEW f, f = [t \in Tests |-> 0]
  PROVE  SumFunctionOnSet(f, Tests) = 0
<1>1. f \in [Tests -> Nat] /\ f["clock"] = 0 /\ f["timer"] = 0 /\ f["rate"] = 0 /\ f["sleeper"] = 0
  BY DEF Tests, ConfigTests
<1>2. SumFunctionOnSet(f, Tests) = f["clock"] + (f["timer"] + (f["rate"] + f["sleeper"]))
  BY <1>1, FactorSum
<1>3. 0 + (0 + (0 + 0)) = 0
  OBVIOUS
<1> QED
  BY <1>1, <1>2, <1>3

(* In the C port a factor belongs to a test in the table. *)
LEMMA FactorsC ==
  ASSUME TypeOK, FactorInv, RunTestC
  PROVE  FactorInv'
<1>1. Attempt /\ env.port = "c" /\ env' = env /\ phase' # "end"
  BY RunIsAttempt DEF RunTestC, Attempt, Running
<1>2. factors \in [Tests -> Nat] /\ Current \in Tests
  BY <1>1, AttemptLists DEF TypeOK
<1>3. \A t \in Tests : factors[t] \in {0, 1} /\ (factors[t] = 1 => t \in table)
  BY <1>1 DEF FactorInv
<1>4. CASE NoRecord
  BY <1>1, <1>3, <1>4 DEF NoRecord, FactorInv
<1>5. CASE Record(Current)
  <2>1. PICK n \in {0, 1} : factors' = [factors EXCEPT ![Current] = n]
    BY <1>1, <1>5 DEF Record
  <2>2. table' = table \cup {Current}
    BY <1>5 DEF Record
  <2>3. \A t \in Tests : factors'[t] \in {0, 1} /\ (factors'[t] = 1 => t \in table')
    BY <1>2, <1>3, <2>1, <2>2
  <2> QED
    BY <1>1, <2>3 DEF FactorInv
<1>6. NoRecord \/ Record(Current)
  BY DEF RunTestC
<1> QED
  BY <1>4, <1>5, <1>6

(* In the C++ port a factor is added only with a test that is counted,     *)
(* unless the harness aborts.                                              *)
LEMMA FactorsCpp ==
  ASSUME TypeOK, TypeOK', FactorInv, RunTestCpp
  PROVE  FactorInv'
<1>1. Attempt /\ env.port = "cpp" /\ env' = env
  BY RunIsAttempt DEF RunTestCpp
<1>2. Current \in Tests /\ 1 \in DOMAIN todo /\ todo[1] = Current
  <2>1. todo \in Seq(Tests)
    BY DEF TypeOK
  <2>2. Current \in Tests /\ todo # << >> /\ todo[1] = Current
    BY <1>1, AttemptLists
  <2> QED
    BY <2>1, <2>2
<1>3. Entered <= counted /\ counted \in Nat /\ Entered \in Nat /\ Entered' \in Nat
  <2>1. Entered' \in Nat
    <3>1. factors' \in [Tests -> Nat]
      BY DEF TypeOK
    <3> QED
      BY <3>1, FactorSum DEF Entered
  <2> QED
    BY <1>1, <2>1, EnteredSum DEF FactorInv, TypeOK, Attempt, Running
<1>4. phase' = "tests" => phase = "tests" /\ todo' = Tail(todo)
  BY <1>1 DEF Attempt, Running
<1>5. ASSUME phase' = "tests" PROVE \A k \in DOMAIN todo' : ~IsConfig(todo'[k])
  <2>1. \A k \in DOMAIN todo : ~IsConfig(todo[k])
    BY <1>1, <1>4, <1>5 DEF FactorInv
  <2>2. \A k \in DOMAIN todo' : k + 1 \in DOMAIN todo /\ todo'[k] = todo[k + 1]
    BY <1>1, <1>4, <1>5, AttemptLists
  <2> QED
    BY <2>1, <2>2
<1>6. phase' # "abort" => Entered' <= counted'
  <2>1. counted' \in {counted, counted + 1}
    BY <1>1 DEF Attempt
  <2>2. ASSUME NoRecord PROVE Entered' <= counted'
    <3>1. Entered' = Entered
      BY <2>2 DEF NoRecord, Entered
    <3> QED
      BY <1>3, <2>1, <3>1
  <2>3. ASSUME Record(Current), Proceed(TRUE) PROVE Entered' <= counted'
    <3>1. Entered' <= Entered + 1
      BY <1>2, <2>3, RecordAdds
    <3>2. counted' = counted + 1
      BY <2>3 DEF Proceed
    <3> QED
      BY <1>3, <3>1, <3>2
  <2>4. ASSUME Record(Current), FailCpp, Current \in ConfigTests \cup Parallel, phase' # "abort"
        PROVE  Proceed(TRUE)
    <3>1. ASSUME phase = "tests", env.uniprocessor, Current \notin Parallel
          PROVE  FALSE
      <4>1. ~IsConfig(todo[1])
        BY <1>1, <1>2, <3>1 DEF FactorInv
      <4> QED
        BY <1>2, <2>4, <3>1, <4>1 DEF IsConfig
    <3> QED
      BY <2>4, <3>1 DEF FailCpp
  <2>5. \/ NoRecord
        \/ Record(Current) /\ FailCpp /\ Current \in ConfigTests \cup Parallel
        \/ Record(Current) /\ Proceed(TRUE)
    BY DEF RunTestCpp
  <2> QED
    BY <2>2, <2>3, <2>4, <2>5
<1>7. phase' # "end"
  BY <1>1 DEF Attempt, Running
<1> QED
  BY <1>1, <1>5, <1>6, <1>7 DEF FactorInv

(* In the Java port a factor is added only with a test that is counted. *)
LEMMA FactorsJava ==
  ASSUME TypeOK, TypeOK', FactorInv, RunTestJava
  PROVE  FactorInv'
<1>1. Attempt /\ env.port = "java" /\ env' = env
  BY RunIsAttempt DEF RunTestJava
<1>2. Current \in Tests
  BY <1>1, AttemptLists
<1>3. Entered <= counted /\ counted \in Nat /\ Entered \in Nat /\ Entered' \in Nat
  <2>1. Entered' \in Nat
    <3>1. factors' \in [Tests -> Nat]
      BY DEF TypeOK
    <3> QED
      BY <3>1, FactorSum DEF Entered
  <2> QED
    BY <1>1, <2>1, EnteredSum DEF FactorInv, TypeOK, Attempt, Running
<1>4. counted' \in {counted, counted + 1}
  BY <1>1 DEF Attempt
<1>5. ASSUME NoRecord PROVE Entered' <= counted'
  <2>1. Entered' = Entered
    BY <1>5 DEF NoRecord, Entered
  <2> QED
    BY <1>3, <1>4, <2>1
<1>6. ASSUME Record(Current), Proceed(TRUE) PROVE Entered' <= counted'
  <2>1. Entered' <= Entered + 1
    BY <1>2, <1>6, RecordAdds
  <2>2. counted' = counted + 1
    BY <1>6 DEF Proceed
  <2> QED
    BY <1>3, <2>1, <2>2
<1>7. NoRecord \/ (Record(Current) /\ Proceed(TRUE))
  BY DEF RunTestJava
<1>8. Entered' <= counted'
  BY <1>5, <1>6, <1>7
<1> QED
  BY <1>1, <1>8 DEF FactorInv

(* A test that crashes the harness for want of a result comes after a      *)
(* config test that was tried and has none, when the file has clock after  *)
(* timer.                                                                  *)
LEMMA CrashStep ==
  ASSUME TypeOK, ConfigInv, OrderInv, RunTestC \/ RunTestCpp \/ RunTestJava
  PROVE  CrashNeedsFailure'
<1>1. /\ Attempt /\ env' = env /\ (ClockAfterTimer' <=> ClockAfterTimer)
      /\ phase \in {"config", "tests"}
  BY RunIsAttempt DEF Attempt, ClockAfterTimer, Running
<1> SUFFICES ASSUME phase' = "crash", env.port = "c", ClockAfterTimer
             PROVE  \E i \in 1 .. Len(tried') - 1 : tried'[i].test \in ConfigTests \ table'
  BY <1>1 DEF CrashNeedsFailure
<1>2. env.port = "c" /\ ~(Reads(Current) \subseteq table) /\ table' = table
  BY <1>1 DEF RunTestC, RunTestCpp, RunTestJava, Proceed, FailCpp, NoRecord
<1>3. PICK m \in Reads(Current) : m \notin table
  BY <1>2
<1>4. /\ Current \in Tests /\ todo # << >> /\ DOMAIN todo = 1 .. Len(todo) /\ todo[1] = Current
      /\ Len(tried) \in Nat /\ DOMAIN tried = 1 .. Len(tried) /\ Len(tried') = Len(tried) + 1
      /\ \A i \in 1 .. Len(tried) : tried'[i] = tried[i]
      /\ todo \in Seq(Tests)
  BY <1>1, AttemptLists DEF TypeOK
<1>5. /\ Current = "clock" => Reads(Current) = {}
      /\ Current = "timer" => Reads(Current) = {"clock"}
      /\ m \in ConfigTests
  BY <1>3, <1>4 DEF Reads, Tests, ConfigTests
<1>6. WasTried(m)
  <2>1. CASE phase = "tests"
    <3>1. InFile(m)
      <4>1. \A t : InFile(t) <=> \E i \in DOMAIN env.file : env.file[i] = t
        BY Parameters DEF TypeOK
      <4> QED
        BY <1>5, <4>1 DEF ClockAfterTimer, ConfigTests
    <3> QED
      BY <1>5, <2>1, <3>1 DEF ConfigInv
  <2>2. CASE phase = "config"
    <3>1. 1 \in DOMAIN todo
      BY <1>4
    <3>2. Current \in ConfigTests
      BY <1>4, <2>2, <3>1 DEF ConfigInv, IsConfig
    <3>3. Current = "timer" /\ m = "clock"
      BY <1>3, <1>5, <3>2 DEF ConfigTests
    <3>4. WasTried("clock") \/ \E j \in 1 .. 1 - 1 : todo[j] = "clock"
      BY <1>2, <1>4, <2>2, <3>1, <3>3 DEF OrderInv
    <3> QED
      BY <3>3, <3>4
  <2> QED
    BY <1>1, <2>1, <2>2
<1>7. PICK i \in 1 .. Len(tried) : tried[i].test = m
  BY <1>4, <1>6 DEF WasTried
<1>8. i \in 1 .. Len(tried') - 1
  BY <1>4
<1> QED
  BY <1>2, <1>3, <1>4, <1>5, <1>7, <1>8

-----------------------------------------------------------------------------
(* Harness: the inductive invariant, step by step. *)

(* A sum of zeros and ones counts at most the places that may hold a one.  *)
LEMMA SumOfOnes ==
  ASSUME NEW S, IsFiniteSet(S), NEW f, NEW C, C \subseteq S,
         \A x \in S : f[x] \in {0, 1} /\ (f[x] = 1 => x \in C)
  PROVE  SumFunctionOnSet(f, S) <= Cardinality(C)
<1> DEFINE P == {s \in SUBSET S : SumFunctionOnSet(f, s) <= Cardinality(s \cap C)}
<1>1. \A s \in SUBSET S : IsFiniteSet(s) /\ IsFiniteSet(s \cap C) /\ Cardinality(s \cap C) \in Nat
  BY FS_Subset, FS_CardinalityType
<1>2. {} \in P
  <2>1. SumFunctionOnSet(f, {}) = 0
    BY SumOf, FS_EmptySet
  <2>2. {} \cap C = {} /\ Cardinality({}) = 0
    BY FS_EmptySet
  <2> QED
    BY <2>1, <2>2
<1>3. ASSUME NEW s \in SUBSET S, NEW x \in S, s \in P, x \notin s
      PROVE  s \cup {x} \in P
  <2> DEFINE t == s \cup {x}
             a == s \cap C
             b == t \cap C
  <2>1. t \in SUBSET S /\ t \ {x} = s /\ x \in t
    BY <1>3
  <2>2. Cardinality(b) = IF x \in C THEN Cardinality(a) + 1 ELSE Cardinality(a)
    <3>1. x \notin a /\ b = IF x \in C THEN a \cup {x} ELSE a
      BY <1>3
    <3>2. IsFiniteSet(a)
      BY <1>1
    <3> HIDE DEF a, b
    <3> QED
      BY <3>1, <3>2, FS_AddElement
  <2> HIDE DEF t
  <2>3. /\ SumFunctionOnSet(f, t) = f[x] + SumFunctionOnSet(f, s)
        /\ SumFunctionOnSet(f, s) \in Int
    <3>1. /\ IsFiniteSet(s) /\ IsFiniteSet(t)
          /\ \A y \in s : f[y] \in Int
          /\ \A y \in t : f[y] \in Int
      <4>1. \A y \in S : f[y] \in Int
        OBVIOUS
      <4>2. s \subseteq S /\ t \subseteq S
        BY <2>1
      <4>3. IsFiniteSet(s) /\ IsFiniteSet(t)
        BY <1>1, <2>1
      <4> QED
        BY <4>1, <4>2, <4>3
    <3>2. SumFunctionOnSet(f, t) = f[x] + SumFunctionOnSet(f, t \ {x})
      BY <2>1, <3>1, SumOf
    <3>3. SumFunctionOnSet(f, s) \in Int
      BY <3>1, SumOf
    <3> QED
      BY <2>1, <3>2, <3>3
  <2> DEFINE n == Cardinality(a)
             m == Cardinality(b)
             u == SumFunctionOnSet(f, s)
  <2>4. /\ n \in Nat /\ u \in Int /\ u <= n /\ f[x] \in {0, 1}
        /\ f[x] = 1 => m = n + 1
        /\ f[x] = 0 => m \in {n, n + 1}
    BY <1>1, <1>3, <2>2, <2>3
  <2> HIDE DEF n, u, m
  <2>5. f[x] + u <= m
    BY <2>4
  <2> QED
    BY <2>1, <2>3, <2>5 DEF t, u, m
<1>4. S \in P
  <2> HIDE DEF P
  <2> QED
    BY <1>2, <1>3, SetInduction
<1>5. S \cap C = C
  OBVIOUS
<1> QED
  BY <1>4, <1>5

(* The harness starts in the inductive invariant. *)
LEMMA HarnessInitIInv == Init => IInv
<1> SUFFICES ASSUME Init
             PROVE  IInv
  OBVIOUS
<1>1. env \in Envs /\ Iterations \in Nat
  BY Parameters DEF Init
<1>2. TypeOK
  BY <1>1 DEF Init, TypeOK, Phases
<1>3. Entered = 0
  BY NoFactors DEF Init, Entered
<1>4. ReadInv /\ ConfigInv /\ OrderInv /\ ConfigFirst /\ CrashNeedsFailure
  BY DEF Init, ReadInv, ConfigInv, OrderInv, ConfigFirst, CrashNeedsFailure
<1>5. FactorInv
  BY <1>3 DEF Init, FactorInv
<1>6. ItersInv
  BY DEF Init, ItersInv
<1>7. CountInv
  BY DEF Init, CountInv
<1> QED
  BY <1>2, <1>4, <1>5, <1>6, <1>7 DEF IInv

(* Steps that run no test leave what was tried, the iterations, the table  *)
(* and the factors.                                                        *)
Between ==
  /\ UNCHANGED << env, iters, table, factors, tried >>
  /\ phase' = "crash" => env.port # "c"

(* Such steps keep the parts of the invariant that speak of these. *)
LEMMA BetweenSteps ==
  ASSUME IInv, Between
  PROVE  ConfigFirst' /\ CrashNeedsFailure' /\ ItersInv'
         /\ (\A t : WasTried(t)' <=> WasTried(t)) /\ (\A c : InFile(c)' <=> InFile(c))
         /\ Entered' = Entered
<1>1. ConfigFirst' /\ CrashNeedsFailure'
  BY DEF IInv, Between, ConfigFirst, CrashNeedsFailure, InFile, IsConfig
<1>2. ItersInv'
  BY DEF IInv, Between, ItersInv, WasTried, AsPromised, Promised, Promise
<1>3. (\A t : WasTried(t)' <=> WasTried(t)) /\ (\A c : InFile(c)' <=> InFile(c))
  BY DEF Between, WasTried, InFile
<1>4. Entered' = Entered
  BY DEF Between, Entered
<1> QED
  BY <1>1, <1>2, <1>3, <1>4

(* Reading the parameters keeps the inductive invariant. *)
LEMMA ReadStep ==
  ASSUME IInv, ReadParameters \/ ReadParametersJava
  PROVE  IInv'
<1>1. TypeOK /\ ReadInv
  BY DEF IInv
<1>2. /\ phase = "read" /\ tried = << >> /\ counted = 0 /\ counted' = counted
      /\ Between /\ tests' = AsRead(env.file) /\ names' = AsRead(env.given)
      /\ todo' = ConfigPlan(AsRead(env.file))
      /\ phase' \in {"config", "refused", "score", "crash"}
      /\ phase' = "score" => env.port = "java" /\ NamesConfig
      /\ multiplier' \in RealTimeMultipliers
  <2>1. CASE ReadParameters
    BY <1>1, <2>1 DEF ReadParameters, ReadInv, Between
  <2>2. CASE ReadParametersJava
    <3>1. env.port # "c" /\ env.port = "java" /\ phase = "read"
      BY <2>2 DEF ReadParametersJava
    <3>2. phase' \in {"config", "refused", "score"}
          /\ (phase' = "score" => env.given # << >> /\ IsConfig(Head(env.given)))
      BY <2>2 DEF ReadParametersJava
    <3>3. phase' = "score" => NamesConfig
      <4>1. env.given \in Seq(Tests \cup {"unknown"})
        BY <1>1, Parameters DEF TypeOK
      <4>2. env.given # << >> => 1 \in DOMAIN env.given /\ Head(env.given) = env.given[1]
        BY <4>1
      <4> QED
        BY <3>2, <4>2 DEF NamesConfig
    <3> QED
      BY <1>1, <2>2, <3>1, <3>2, <3>3 DEF ReadParametersJava, ReadInv, Between, AsRead
  <2> QED
    BY <2>1, <2>2
<1>3. /\ ConfigFirst' /\ CrashNeedsFailure' /\ ItersInv' /\ Entered' = Entered
      /\ (\A c : InFile(c)' <=> InFile(c))
  BY <1>2, BetweenSteps
<1>4. /\ env' = env /\ factors' = factors /\ tried' = tried
      /\ factors = [t \in Tests |-> 0] /\ table' = table
      /\ iters' = iters
  BY <1>1, <1>2 DEF Between, ReadInv
<1>5. env.file \in Seq(Tests) /\ env.given \in Seq(Tests \cup {"unknown"})
      /\ (\A c : InFile(c) <=> \E i \in DOMAIN env.file : env.file[i] = c)
  BY <1>1, Parameters DEF TypeOK
<1>6. /\ todo' \in Seq(Tests) /\ (\A k \in DOMAIN todo' : IsConfig(todo'[k]))
      /\ \A c \in ConfigTests : InFile(c) => \E k \in DOMAIN todo' : todo'[k] = c
  BY <1>2, <1>5, PlanOfFile
<1>7. tests' \in Seq(Tests) /\ names' \in Seq(Tests \cup {"unknown"})
  <2>1. tests' \in Seq(Tests)
    BY <1>2, <1>5, ReadLists
  <2> DEFINE All == Tests \cup {"unknown"}
  <2>2. env.given \in Seq(All)
    BY <1>5
  <2> HIDE DEF All
  <2>3. names' \in Seq(All)
    BY <1>2, <2>2, ReadLists
  <2> QED
    BY <2>1, <2>3 DEF All
<1>8. TypeOK'
  <2>1. env' \in Envs' /\ phase' \in Phases
    BY <1>1, <1>2, <1>4 DEF TypeOK, Envs, Phases
  <2>2. multiplier' \in Nat
    BY <1>1, <1>2, Parameters DEF TypeOK
  <2> QED
    BY <1>1, <1>2, <1>4, <1>6, <1>7, <2>1, <2>2 DEF TypeOK
<1>9. ReadInv'
  BY <1>2, <1>4 DEF ReadInv, AsRead, RealTimeMultipliers
<1>10. ConfigInv'
  <2>1. \A i \in DOMAIN tried' : FALSE
    BY <1>2, <1>4
  <2> QED
    BY <1>2, <1>3, <1>6, <2>1 DEF ConfigInv
<1>11. OrderInv'
  <2> SUFFICES ASSUME env.port = "c", ClockAfterTimer, NEW k \in DOMAIN todo', todo'[k] = "timer"
               PROVE  \E j \in 1 .. k - 1 : todo'[j] = "clock"
    BY <1>4 DEF OrderInv, ClockAfterTimer
  <2>1. env \in Envs
    BY <1>1 DEF TypeOK
  <2> QED
    BY <1>2, <2>1, ClockBeforeTimer
<1>12. FactorInv'
  <2>1. Entered' = 0 /\ counted' = 0 /\ 0 <= 0
    BY <1>2, <1>3, <1>4, NoFactors DEF Entered
  <2>2. \A t \in Tests : factors'[t] = 0
    BY <1>4
  <2>3. phase' # "end" /\ phase' # "tests"
    BY <1>2
  <2> QED
    BY <2>1, <2>2, <2>3 DEF FactorInv
<1>13. CountInv'
  <2>1. NamesConfig' <=> NamesConfig
    BY <1>4 DEF NamesConfig
  <2> QED
    BY <1>2, <1>4, <2>1 DEF CountInv
<1> QED
  BY <1>3, <1>8, <1>9, <1>10, <1>11, <1>12, <1>13 DEF IInv

(* The two ends of a loop and the score. *)
LEMMA LoopStep ==
  ASSUME IInv, ConfigDone \/ TestsDone \/ Score
  PROVE  IInv'
<1>1. TypeOK /\ ReadInv /\ ConfigInv /\ FactorInv /\ CountInv
  BY DEF IInv
<1>2. /\ Between /\ UNCHANGED << tests, names, multiplier >>
      /\ \/ /\ phase = "config" /\ todo = << >>
            /\ phase' = "tests" /\ todo' = Requested /\ counted' = counted
         \/ /\ phase = "tests" /\ todo = << >>
            /\ phase' = "score" /\ todo' = todo /\ counted' = counted
         \/ phase = "score" /\ phase' = "end" /\ todo' = todo
            /\ counted' = IF env.port = "c" THEN Cardinality(table) ELSE counted
  BY DEF ConfigDone, TestsDone, Score, Between
<1>3. /\ ConfigFirst' /\ CrashNeedsFailure' /\ ItersInv' /\ Entered' = Entered
      /\ (\A t : WasTried(t)' <=> WasTried(t)) /\ (\A c : InFile(c)' <=> InFile(c))
  BY <1>2, BetweenSteps
<1>4. env' = env /\ factors' = factors /\ tried' = tried /\ table' = table /\ iters' = iters
  BY <1>2 DEF Between
<1>5. /\ Requested \in Seq(Tests)
      /\ env.port = "cpp" => \A k \in DOMAIN Requested : ~IsConfig(Requested[k])
  BY <1>1, RequestedType
<1>6. tests = AsRead(env.file) /\ names = AsRead(env.given) /\ multiplier \in RealTimeMultipliers
  BY <1>1, <1>2 DEF ReadInv
<1>7. TypeOK'
  <2>1. counted' \in Nat
    <3>1. IsFiniteSet(Tests)
      <4>1. /\ IsFiniteSet({})
            /\ Tests = ((({} \cup {"clock"}) \cup {"timer"}) \cup {"rate"}) \cup {"sleeper"}
        BY FS_EmptySet DEF Tests, ConfigTests
      <4> QED
        BY <4>1, FS_AddElement
    <3>2. table \in SUBSET Tests
      BY <1>1 DEF TypeOK
    <3>3. Cardinality(table) \in Nat
      BY <3>1, <3>2, FS_Subset, FS_CardinalityType
    <3> QED
      BY <1>1, <1>2, <3>3 DEF TypeOK
  <2>2. todo' \in Seq(Tests) /\ phase' \in Phases /\ env' \in Envs'
    BY <1>1, <1>2, <1>4, <1>5 DEF TypeOK, Phases, Envs
  <2> QED
    BY <1>1, <1>2, <1>4, <2>1, <2>2 DEF TypeOK
<1>8. ReadInv'
  BY <1>2, <1>4, <1>6 DEF ReadInv, AsRead, RealTimeMultipliers
<1>9. ConfigInv'
  <2>1. ASSUME phase = "config", todo = << >>, NEW c \in ConfigTests, InFile(c) PROVE WasTried(c)
    BY <1>1, <2>1 DEF ConfigInv
  <2> QED
    BY <1>2, <1>3, <2>1 DEF ConfigInv
<1>10. OrderInv'
  BY <1>2 DEF OrderInv
<1>11. FactorInv'
  BY <1>1, <1>2, <1>3, <1>4, <1>5 DEF FactorInv
<1>12. CountInv'
  <2>1. (NamesConfig' <=> NamesConfig) /\ (\A c : Asked(c)' = Asked(c)) /\ TriedTests' = TriedTests
    BY <1>4 DEF NamesConfig, Asked, Occurrences, TriedTests
  <2> SUFFICES ASSUME ~(env.port = "java" /\ NamesConfig), NEW t \in Tests \ ConfigTests, InFile(t)
               PROVE  /\ phase' = "tests" =>
                           Occurrences(t, TriedTests) + Occurrences(t, todo') = Asked(t)
                      /\ phase' \in {"score", "end"} /\ ~env.uniprocessor =>
                           Occurrences(t, TriedTests) = Asked(t)
    <3>1. \A c : /\ Occurrences(c, TriedTests)' = Occurrences(c, TriedTests)
                 /\ Occurrences(c, todo)' = Occurrences(c, todo')
      BY <2>1 DEF Occurrences
    <3> QED
      BY <1>3, <1>4, <2>1, <3>1 DEF CountInv
  <2>2. CASE phase = "config" /\ phase' = "tests" /\ todo' = Requested
    <3>1. \A i \in DOMAIN TriedTests : TriedTests[i] # t
      BY <1>1, <2>2 DEF ConfigInv, IsConfig, TriedTests
    <3>2. Occurrences(t, TriedTests) = 0
      BY <3>1, OccurrencesNone
    <3>3. Occurrences(t, Requested) = Asked(t)
      BY <1>1, <1>6, RequestedCount
    <3>4. Occurrences(t, Requested) \in Nat
      BY <1>5, PlacesFinite
    <3> QED
      BY <2>2, <3>2, <3>3, <3>4
  <2>3. CASE phase = "tests" /\ todo = << >> /\ phase' = "score"
    <3>1. Occurrences(t, todo) = 0
      BY <2>3, OccurrencesNone
    <3>2. Occurrences(t, TriedTests) + Occurrences(t, todo) = Asked(t)
      BY <1>1, <2>3 DEF CountInv
    <3>3. Occurrences(t, TriedTests) \in Nat
      <4>1. tried \in Seq([test : Tests, iters : Nat])
        BY <1>1 DEF TypeOK
      <4>2. TriedTests \in Seq(Tests)
        <5> DEFINE Entries == [test : Tests, iters : Nat]
                   n == Len(tried)
        <5>1. \A e \in Entries : e.test \in Tests
          OBVIOUS
        <5>2. tried \in Seq(Entries)
          BY <4>1
        <5> HIDE DEF Entries
        <5>3. n \in Nat /\ DOMAIN tried = 1 .. n /\ \A i \in 1 .. n : tried[i].test \in Tests
          BY <5>1, <5>2
        <5> HIDE DEF n
        <5> QED
          BY <5>3 DEF TriedTests
      <4> QED
        BY <4>2, PlacesFinite
    <3> QED
      BY <2>3, <3>1, <3>2, <3>3
  <2>4. CASE phase = "score" /\ phase' = "end"
    BY <1>1, <2>4 DEF CountInv
  <2> QED
    BY <1>2, <2>2, <2>3, <2>4
<1> QED
  BY <1>3, <1>7, <1>8, <1>9, <1>10, <1>11, <1>12 DEF IInv

(* Running a test keeps the inductive invariant. *)
LEMMA RunStep ==
  ASSUME IInv, RunTestC \/ RunTestCpp \/ RunTestJava
  PROVE  IInv'
<1>1. /\ TypeOK /\ ReadInv /\ ConfigInv /\ OrderInv /\ FactorInv /\ ItersInv /\ CountInv
      /\ ConfigFirst /\ Attempt
  BY RunIsAttempt DEF IInv
<1>2. TypeOK' /\ ReadInv'
  BY <1>1, AttemptType
<1>3. ConfigInv' /\ ConfigFirst'
  BY <1>1, AttemptConfig
<1>4. OrderInv'
  BY <1>1, AttemptOrder
<1>5. ItersInv'
  BY <1>1, AttemptIters
<1>6. CountInv'
  BY <1>1, AttemptCount
<1>7. FactorInv'
  BY <1>1, <1>2, FactorsC, FactorsCpp, FactorsJava
<1>8. CrashNeedsFailure'
  BY <1>1, CrashStep
<1> QED
  BY <1>2, <1>3, <1>4, <1>5, <1>6, <1>7, <1>8 DEF IInv

(* A step that changes nothing keeps the inductive invariant. *)
LEMMA HarnessStutter ==
  ASSUME IInv, UNCHANGED vars
  PROVE  IInv'
<1>1. UNCHANGED << env, phase, tests, names, multiplier, todo, iters, table, factors, counted, tried >>
  BY DEF vars
<1>2. CASE phase # "crash"
  <2>1. Between
    BY <1>1, <1>2 DEF Between
  <2>2. ConfigFirst' /\ CrashNeedsFailure' /\ ItersInv'
    BY <2>1, BetweenSteps
  <2>3. TypeOK' /\ ReadInv'
    BY <1>1 DEF IInv, TypeOK, ReadInv, Envs, AsRead, RealTimeMultipliers
  <2>4. ConfigInv' /\ OrderInv'
    BY <1>1 DEF IInv, ConfigInv, OrderInv, ClockAfterTimer, WasTried, InFile
  <2>5. FactorInv'
    BY <1>1 DEF IInv, FactorInv, Entered
  <2>6. CountInv'
    BY <1>1 DEF IInv, CountInv, NamesConfig, InFile, Asked, Occurrences, TriedTests
  <2> QED
    BY <2>2, <2>3, <2>4, <2>5, <2>6 DEF IInv
<1>3. CASE phase = "crash"
  <2>2. ConfigFirst' /\ CrashNeedsFailure' /\ ItersInv'
    BY <1>1 DEF IInv, ConfigFirst, CrashNeedsFailure, ItersInv, WasTried, AsPromised, Promised,
       Promise, InFile,
       IsConfig, ClockAfterTimer
  <2>3. TypeOK' /\ ReadInv'
    BY <1>1 DEF IInv, TypeOK, ReadInv, Envs, AsRead, RealTimeMultipliers
  <2>4. ConfigInv' /\ OrderInv' /\ CountInv'
    BY <1>1, <1>3 DEF ConfigInv, OrderInv, CountInv
  <2>5. FactorInv'
    BY <1>1 DEF IInv, FactorInv, Entered
  <2> QED
    BY <2>2, <2>3, <2>4, <2>5 DEF IInv
<1> QED
  BY <1>2, <1>3

(* Every step keeps the inductive invariant. *)
LEMMA HarnessNextIInv == IInv /\ [Next]_vars => IInv'
<1> SUFFICES ASSUME IInv, [Next]_vars
             PROVE  IInv'
  OBVIOUS
<1>1. ASSUME ReadParameters PROVE IInv'
  BY <1>1, ReadStep
<1>2. ASSUME ReadParametersJava PROVE IInv'
  BY <1>2, ReadStep
<1>3. ASSUME ConfigDone PROVE IInv'
  BY <1>3, LoopStep
<1>4. ASSUME TestsDone PROVE IInv'
  BY <1>4, LoopStep
<1>5. ASSUME RunTestC PROVE IInv'
  BY <1>5, RunStep
<1>6. ASSUME RunTestCpp PROVE IInv'
  BY <1>6, RunStep
<1>7. ASSUME RunTestJava PROVE IInv'
  BY <1>7, RunStep
<1>8. ASSUME Score PROVE IInv'
  BY <1>8, LoopStep
<1>9. ASSUME UNCHANGED vars PROVE IInv'
  BY <1>9, HarnessStutter
<1> QED
  BY <1>1, <1>2, <1>3, <1>4, <1>5, <1>6, <1>7, <1>8, <1>9 DEF Next

(* The inductive invariant of the harness holds in every reachable state,  *)
(* for every set of input files and lists of names, whatever fails, in the *)
(* three ports.                                                            *)
THEOREM HarnessInvariance == Spec => []IInv
BY HarnessInitIInv, HarnessNextIInv, PTL DEF Spec

(* Type correctness of the harness. *)
THEOREM HarnessTypeCorrect == Spec => []TypeOK
<1>1. IInv => TypeOK
  BY DEF IInv
<1> QED
  BY <1>1, HarnessInvariance, PTL

(* No benchmark is run before every config test of the file, whatever the  *)
(* file and the list after -t.                                             *)
THEOREM ConfigRunsFirst == Spec => []ConfigFirst
<1>1. IInv => ConfigFirst
  BY DEF IInv
<1> QED
  BY <1>1, HarnessInvariance, PTL

(* With a file that has clock_config after timer_config, only a config     *)
(* test without a result lets a later test crash the harness.              *)
THEOREM CrashAfterFailure == Spec => []CrashNeedsFailure
<1>1. IInv => CrashNeedsFailure
  BY DEF IInv
<1> QED
  BY <1>1, HarnessInvariance, PTL

(* Each benchmark is tried as often as it is asked for, and with the       *)
(* iterations that are promised for the mode: in the C and Java ports when *)
(* it is run for the first time, in the C++ port in soft mode.             *)
THEOREM AskedIsRun == Spec => []RunAsAsked
<1>1. IInv => RunAsAsked
  <2> SUFFICES ASSUME IInv
               PROVE  RunAsAsked
    OBVIOUS
  <2>1. \A i \in DOMAIN tried : AsPromised(i)
    BY DEF IInv, ItersInv
  <2>2. ASSUME phase = "end", ~(env.port = "java" /\ NamesConfig), ~env.uniprocessor
        PROVE  AsOftenAsNamed
    BY <2>2 DEF IInv, CountInv, Asked, AsOftenAsNamed
  <2> QED
    BY <2>1, <2>2 DEF RunAsAsked
<1> QED
  BY <1>1, HarnessInvariance, PTL

(* The factors of the C port are at most as many as the tests in the       *)
(* table.                                                                  *)
LEMMA FactorsFollow == IInv => FactorsWithinMean
<1> SUFFICES ASSUME IInv, phase = "end"
             PROVE  Entered <= counted
  BY DEF FactorsWithinMean
<1>1. TypeOK /\ FactorInv
  BY DEF IInv
<1>2. CASE env.port # "c"
  BY <1>1, <1>2 DEF FactorInv
<1>3. CASE env.port = "c"
  <2>1. \A t \in Tests : factors[t] \in {0, 1} /\ (factors[t] = 1 => t \in table)
    BY <1>1, <1>3 DEF FactorInv
  <2>2. counted = Cardinality(table)
    BY <1>1, <1>3 DEF FactorInv
  <2>3. /\ IsFiniteSet(Tests) /\ IsFiniteSet(table)
        /\ Cardinality(table) \in Nat /\ table \subseteq Tests
    <3>1. IsFiniteSet(Tests)
      <4>1. /\ IsFiniteSet({})
            /\ Tests = ((({} \cup {"clock"}) \cup {"timer"}) \cup {"rate"}) \cup {"sleeper"}
        BY FS_EmptySet DEF Tests, ConfigTests
      <4> QED
        BY <4>1, FS_AddElement
    <3>2. table \in SUBSET Tests
      BY <1>1 DEF TypeOK
    <3> QED
      BY <3>1, <3>2, FS_Subset, FS_CardinalityType
  <2>4. Entered <= Cardinality(table)
    BY <2>1, <2>3, SumOfOnes DEF Entered
  <2> QED
    BY <2>2, <2>3, <2>4
<1> QED
  BY <1>2, <1>3

(* The system score is a mean over at least as many tests as have a factor *)
(* in it.                                                                  *)
THEOREM MeanOfEnough == Spec => []FactorsWithinMean
BY FactorsFollow, HarnessInvariance, PTL
=============================================================================
