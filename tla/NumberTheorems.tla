--------------------------- MODULE NumberTheorems ---------------------------
(***************************************************************************)
(* Facts about numbers and sums that the proofs of several modules rest    *)
(* on: greatest and least elements, climbing to a number step by step, and *)
(* what the sum over a small set of numbered amounts is.                   *)
(***************************************************************************)
EXTENDS Integers, FiniteSetTheorems, SequenceTheorems, TLAPS

(* A bounded set of numbers has a greatest element: else its numbers and   *)
(* all below them would be mapped into themselves, one to one, by k + 1,   *)
(* and 0 left out.                                                         *)
LEMMA GreatestExists ==
  ASSUME NEW S \in SUBSET Nat, S # {}, NEW n \in Nat, \A h \in S : h <= n
  PROVE  \E m \in S : \A k \in S : k <= m
<1> DEFINE D == {k \in Nat : \E h \in S : k <= h}
           f == [k \in D |-> k + 1]
<1>1. IsFiniteSet(D) /\ 0 \in D /\ D \subseteq Nat
  <2>1. D \subseteq 0..n
    OBVIOUS
  <2>2. IsFiniteSet(0..n)
    BY FS_Interval
  <2>3. IsFiniteSet(D)
    BY <2>1, <2>2, FS_Subset
  <2>4. PICK h \in S : TRUE
    OBVIOUS
  <2> QED
    BY <2>3, <2>4
<1>2. PICK m \in D : m + 1 \notin D
  <2> SUFFICES ASSUME \A k \in D : k + 1 \in D PROVE FALSE
    OBVIOUS
  <2>1. f \in Injection(D, D)
    <3>1. f \in [D -> D]
      OBVIOUS
    <3>2. \A a, b \in D : f[a] = f[b] => a = b
      OBVIOUS
    <3> QED
      BY <3>1, <3>2 DEF Injection, IsInjective
  <2>2. f \in Surjection(D, D)
    <3> HIDE DEF D, f
    <3> QED
      BY <1>1, <2>1, FS_Injection
  <2>3. PICK k \in D : f[k] = 0
    BY <1>1, <2>2 DEF Surjection
  <2> QED
    BY <2>3
<1>3. m \in S /\ \A k \in S : k <= m
  <2>1. PICK h \in S : m <= h
    OBVIOUS
  <2>2. \A k \in S : k < m + 1
    BY <1>2
  <2> QED
    BY <2>1, <2>2
<1> QED
  BY <1>3

(* Every set of numbers has a least element. *)
LEMMA LeastExists ==
  ASSUME NEW S \in SUBSET Nat, S # {}
  PROVE  \E m \in S : \A k \in S : m <= k
<1>1. PICK s \in S : TRUE
  OBVIOUS
<1> DEFINE T == {k \in 0..s : \A h \in S : k <= h}
<1>2. PICK m \in T : \A k \in T : k <= m
  <2>1. T \subseteq Nat /\ 0 \in T /\ \A h \in T : h <= s
    BY <1>1
  <2> HIDE DEF T
  <2> QED
    BY <2>1, <1>1, GreatestExists
<1>3. m \in S
  <2> SUFFICES ASSUME m \notin S PROVE FALSE
    OBVIOUS
  <2>1. \A h \in S : m + 1 <= h
    BY <1>2
  <2>2. m + 1 \in T
    BY <2>1, <1>1, <1>2
  <2> QED
    BY <2>2, <1>2
<1> QED
  BY <1>2, <1>3

(* A set of numbers that goes on to the next one reaches every one.        *)
LEMMA Reaches ==
  ASSUME NEW K, 0 \in K, NEW n \in Nat, \A j \in Nat : j < n /\ j \in K => j + 1 \in K
  PROVE  n \in K
<1> DEFINE Met == {j \in 0..n : j \in K}
<1>1. Met \subseteq Nat /\ 0 \in Met /\ \A j \in Met : j <= n
  OBVIOUS
<1>2. PICK m \in Met : \A j \in Met : j <= m
  <2> HIDE DEF Met
  <2> QED
    BY <1>1, GreatestExists
<1>3. ~(m < n)
  BY <1>2
<1> QED
  BY <1>2, <1>3

-----------------------------------------------------------------------------
(* Sums over finite sets, as the folds of the community modules define     *)
(* them: of the amounts f, taken one by one in some order.                 *)

IsSum(it, f, S) ==
    it = [s \in SUBSET S |->
            IF s = {} THEN 0
            ELSE f[CHOOSE e \in s : TRUE] + it[s \ {CHOOSE e \in s : TRUE}]]

(* The sum over a finite set can be built one element at a time.           *)
LEMMA SumExists ==
  ASSUME NEW f, NEW S, IsFiniteSet(S)
  PROVE  \E it : IsSum(it, f, S)
<1> DEFINE Upto(j) == {s \in SUBSET S : Cardinality(s) <= j}
           Next(it, s) == IF s = {} THEN 0
                          ELSE f[CHOOSE e \in s : TRUE] + it[s \ {CHOOSE e \in s : TRUE}]
           Solves(it, j) == it = [s \in Upto(j) |-> Next(it, s)]
           K == {j \in Nat : \E it : Solves(it, j)}
           n == Cardinality(S)
<1>1. /\ n \in Nat
      /\ \A s \in SUBSET S : IsFiniteSet(s) /\ Cardinality(s) \in Nat /\ Cardinality(s) <= n
      /\ \A s \in SUBSET S : s # {} => Cardinality(s \ {CHOOSE e \in s : TRUE}) < Cardinality(s)
                                       /\ s \ {CHOOSE e \in s : TRUE} \in SUBSET S
  <2>1. n \in Nat /\ \A s \in SUBSET S : IsFiniteSet(s) /\ Cardinality(s) \in Nat
                                         /\ Cardinality(s) <= n
    BY FS_Subset, FS_CardinalityType
  <2>2. ASSUME NEW s \in SUBSET S, s # {}
        PROVE  Cardinality(s \ {CHOOSE e \in s : TRUE}) < Cardinality(s)
    <3>1. (CHOOSE e \in s : TRUE) \in s
      BY <2>2
    <3>2. Cardinality(s \ {CHOOSE e \in s : TRUE}) = Cardinality(s) - 1
      BY <2>1, <3>1, FS_RemoveElement
    <3> QED
      BY <2>1, <3>2
  <2> QED
    BY <2>1, <2>2
<1>2. 0 \in K
  <2> DEFINE it == [s \in Upto(0) |-> 0]
  <2>1. \A s \in Upto(0) : s = {}
    BY <1>1, FS_EmptySet
  <2>2. Solves(it, 0)
    BY <2>1
  <2> HIDE DEF Solves, it
  <2> QED
    BY <2>2
<1>3. ASSUME NEW j \in Nat, j < n /\ j \in K PROVE j + 1 \in K
  <2>1. PICK it : Solves(it, j)
    BY <1>3
  <2> DEFINE more == [s \in Upto(j + 1) |-> Next(it, s)]
  <2>2. \A s \in Upto(j) : s \in Upto(j + 1) /\ more[s] = it[s]
    <3> SUFFICES ASSUME NEW s \in Upto(j) PROVE s \in Upto(j + 1) /\ more[s] = it[s]
      OBVIOUS
    <3>1. s \in Upto(j + 1)
      BY <1>1
    <3>2. it[s] = Next(it, s)
      BY <2>1, Zenon
    <3> HIDE DEF Next
    <3> QED
      BY <3>1, <3>2
  <2>3. \A s \in Upto(j + 1) : Next(it, s) = Next(more, s)
    <3> SUFFICES ASSUME NEW s \in Upto(j + 1) PROVE Next(it, s) = Next(more, s)
      OBVIOUS
    <3>1. CASE s = {}
      BY <3>1
    <3>2. CASE s # {}
      <4> DEFINE r == s \ {CHOOSE e \in s : TRUE}
      <4>1. r \in Upto(j)
        BY <1>1, <3>2
      <4>2. more[r] = it[r]
        BY <2>2, <4>1
      <4> HIDE DEF more
      <4> QED
        BY <3>2, <4>2
    <3> QED
      BY <3>1, <3>2
  <2>4. Solves(more, j + 1)
    <3> HIDE DEF Next
    <3> QED
      BY <2>3
  <2> HIDE DEF Solves, more
  <2> QED
    BY <2>4
<1>4. n \in K
  <2> HIDE DEF K
  <2> QED
    BY <1>1, <1>2, <1>3, Reaches
<1>5. PICK it : Solves(it, n)
  BY <1>4
<1>6. Upto(n) = SUBSET S
  BY <1>1
<1> QED
  BY ZenonT(40), <1>5, <1>6 DEF IsSum

(* Sums over no, one and two elements.                                     *)
LEMMA SumIs ==
  ASSUME NEW f, NEW S, NEW it, IsSum(it, f, S), \A e \in S : f[e] \in Int
  PROVE  /\ it[{}] = 0
         /\ \A a \in S : it[{a}] = f[a]
         /\ \A a, b \in S : a # b => it[{a, b}] = f[a] + f[b]
<1>1. it[{}] = 0
  BY DEF IsSum
<1>2. ASSUME NEW a \in S PROVE it[{a}] = f[a]
  <2>1. (CHOOSE e \in {a} : TRUE) = a /\ {a} \ {a} = {} /\ {a} \in SUBSET S /\ {a} # {}
    OBVIOUS
  <2>2. it[{a}] = f[a] + it[{}]
    BY <2>1, Zenon DEF IsSum
  <2> QED
    BY <1>1, <2>2
<1>3. ASSUME NEW a \in S, NEW b \in S, a # b PROVE it[{a, b}] = f[a] + f[b]
  <2> DEFINE c == CHOOSE e \in {a, b} : TRUE
             s == {a, b}
  <2>1. c = a \/ c = b
    OBVIOUS
  <2>2. it[s] = f[c] + it[s \ {c}]
    BY Zenon DEF IsSum
  <2> HIDE DEF c
  <2>3. CASE c = a
    <3>1. s \ {c} = {b}
      BY <1>3, <2>3
    <3> QED
      BY <1>2, <2>2, <2>3, <3>1
  <2>4. CASE c = b
    <3>1. s \ {c} = {a}
      BY <1>3, <2>4
    <3>2. it[s] = f[b] + f[a]
      BY <1>2, <2>2, <2>4, <3>1
    <3>3. f[a] \in Int /\ f[b] \in Int
      OBVIOUS
    <3>4. f[b] + f[a] = f[a] + f[b]
      BY <3>3
    <3> QED
      BY <3>2, <3>4
  <2> QED
    BY <2>1, <2>3, <2>4
<1> QED
  BY <1>1, <1>2, <1>3

-----------------------------------------------------------------------------
(* Sets built up one element at a time, and sums over the places of a      *)
(* sequence.                                                               *)


(* What holds of the empty set, and of a set with one element more of S    *)
(* when it holds of the set, holds of every subset of S.                   *)
LEMMA SubsetsReached ==
  ASSUME NEW S, IsFiniteSet(S), NEW P, {} \in P,
         \A s \in SUBSET S, e \in S : s \in P /\ e \notin s => s \cup {e} \in P
  PROVE  \A s \in SUBSET S : s \in P
<1> DEFINE K == {j \in Nat : \A s \in SUBSET S : Cardinality(s) = j => s \in P}
<1>1. \A s \in SUBSET S : IsFiniteSet(s) /\ Cardinality(s) \in Nat
  BY FS_Subset, FS_CardinalityType
<1>2. 0 \in K
  BY <1>1, FS_EmptySet
<1>3. ASSUME NEW j \in Nat, j \in K PROVE j + 1 \in K
  <2> SUFFICES ASSUME NEW s \in SUBSET S, Cardinality(s) = j + 1 PROVE s \in P
    OBVIOUS
  <2>1. s # {}
    BY FS_EmptySet
  <2>2. PICK e \in s : TRUE
    BY <2>1
  <2>3. Cardinality(s \ {e}) = j
    <3>1. IsFiniteSet(s) /\ Cardinality(s) = j + 1
      BY <1>1
    <3>2. Cardinality(s \ {e}) = Cardinality(s) - 1
      BY <2>2, <3>1, FS_RemoveElement
    <3> QED
      BY <3>1, <3>2
  <2>4. s \ {e} \in P
    BY <1>3, <2>3
  <2>5. (s \ {e}) \cup {e} = s
    OBVIOUS
  <2>6. s \ {e} \in SUBSET S /\ e \in S /\ e \notin s \ {e}
    OBVIOUS
  <2>7. (s \ {e}) \cup {e} \in P
    BY <2>4, <2>6
  <2> QED
    BY <2>5, <2>7
<1>4. \A n \in Nat : n \in K
  <2> HIDE DEF K
  <2> QED
    BY <1>2, <1>3, Reaches
<1> QED
  BY <1>1, <1>4

(* It does not matter in which order the amounts are taken.                *)
LEMMA SumTakes ==
  ASSUME NEW f, NEW S, IsFiniteSet(S), NEW it, IsSum(it, f, S),
         \A e \in S : f[e] \in Int
  PROVE  \A s \in SUBSET S : it[s] \in Int /\ \A e \in s : it[s] = f[e] + it[s \ {e}]
<1> DEFINE Holds(s) == it[s] \in Int /\ \A e \in s : it[s] = f[e] + it[s \ {e}]
           K == {j \in Nat : \A s \in SUBSET S : Cardinality(s) <= j => Holds(s)}
<1>1. \A s \in SUBSET S : IsFiniteSet(s) /\ Cardinality(s) \in Nat
  BY FS_Subset, FS_CardinalityType
<1>2. 0 \in K
  <2>1. it[{}] = 0
    BY DEF IsSum
  <2> QED
    BY <1>1, <2>1, FS_EmptySet
<1>3. ASSUME NEW j \in Nat, j \in K PROVE j + 1 \in K
  <2> SUFFICES ASSUME NEW s \in SUBSET S, Cardinality(s) <= j + 1 PROVE Holds(s)
    OBVIOUS
  <2>1. CASE s = {}
    BY <2>1 DEF IsSum
  <2>2. CASE s # {}
    <3> DEFINE c == CHOOSE e \in s : TRUE
    <3>1. c \in s
      BY <2>2
    <3>2. it[s] = f[c] + it[s \ {c}]
      BY <2>2, Zenon DEF IsSum
    <3> HIDE DEF c
    <3>3. \A e \in s : Holds(s \ {e})
      <4> SUFFICES ASSUME NEW e \in s PROVE Holds(s \ {e})
        OBVIOUS
      <4>1. IsFiniteSet(s) /\ Cardinality(s) \in Nat
        BY <1>1
      <4>2. Cardinality(s \ {e}) = Cardinality(s) - 1
        BY <4>1, FS_RemoveElement
      <4>3. Cardinality(s \ {e}) <= j /\ s \ {e} \in SUBSET S
        BY <4>1, <4>2
      <4> HIDE DEF Holds
      <4> QED
        BY <1>3, <4>3
    <3>4. ASSUME NEW e \in s PROVE it[s] = f[e] + it[s \ {e}]
      <4>1. CASE e = c
        BY <3>2, <4>1
      <4>2. CASE e # c
        <5> DEFINE r == (s \ {c}) \ {e}
        <5>1. it[s \ {c}] = f[e] + it[r]
          BY <3>1, <3>3, <4>2
        <5>2. it[s \ {e}] = f[c] + it[(s \ {e}) \ {c}]
          BY <3>1, <3>3, <4>2
        <5>3. (s \ {e}) \ {c} = r
          OBVIOUS
        <5>4. it[r] \in Int /\ f[e] \in Int /\ f[c] \in Int
          <6>1. IsFiniteSet(s) /\ Cardinality(s) \in Nat /\ IsFiniteSet(s \ {c})
            BY <1>1
          <6>2. Cardinality(s \ {c}) = Cardinality(s) - 1
            BY <3>1, <6>1, FS_RemoveElement
          <6>3. Cardinality(r) = Cardinality(s \ {c}) - 1
            BY <4>2, <6>1, FS_RemoveElement
          <6>4. Cardinality(r) <= j /\ r \in SUBSET S
            BY <6>1, <6>2, <6>3
          <6>5. Holds(r)
            <7> HIDE DEF Holds, r
            <7> QED
              BY <1>3, <6>4
          <6> QED
            BY <3>1, <6>5
        <5> HIDE DEF r
        <5>5. it[s] = f[c] + (f[e] + it[r])
          BY <3>2, <5>1
        <5>6. it[s \ {e}] = f[c] + it[r]
          BY <5>2, <5>3
        <5>7. f[c] + (f[e] + it[r]) = f[e] + (f[c] + it[r])
          BY <5>4
        <5> QED
          BY <5>5, <5>6, <5>7
      <4> QED
        BY <4>1, <4>2
    <3>5. it[s] \in Int
      <4>1. it[s \ {c}] \in Int /\ f[c] \in Int
        BY <3>1, <3>3
      <4> QED
        BY <3>2, <4>1
    <3> QED
      BY <3>4, <3>5
  <2> QED
    BY <2>1, <2>2
<1>4. \A n \in Nat : n \in K
  <2> HIDE DEF K
  <2> QED
    BY <1>2, <1>3, Reaches
<1>5. ASSUME NEW s \in SUBSET S PROVE Holds(s)
  <2>1. Cardinality(s) \in Nat /\ Cardinality(s) \in K
    BY <1>1, <1>4
  <2> HIDE DEF Holds
  <2> QED
    BY <2>1
<1> QED
  BY <1>5

-----------------------------------------------------------------------------
(* The sum of the amounts f over a finite set.                             *)

SumOf(f, S) == (CHOOSE it : IsSum(it, f, S))[S]

(* However it was summed, and from whatever larger set.                    *)
LEMMA SumIsOne ==
  ASSUME NEW f, NEW S, IsFiniteSet(S), NEW it, IsSum(it, f, S),
         NEW g, NEW T \in SUBSET S, NEW other, IsSum(other, g, T),
         \A e \in S : f[e] \in Int, \A e \in T : g[e] = f[e]
  PROVE  it[T] = other[T]
<1> DEFINE P == {s \in SUBSET T : it[s] = other[s]}
<1>1. IsFiniteSet(T)
  BY FS_Subset
<1>2. {} \in P
  BY DEF IsSum
<1>3. ASSUME NEW s \in SUBSET T, NEW e \in T, s \in P /\ e \notin s
      PROVE  s \cup {e} \in P
  <2>1. (s \cup {e}) \ {e} = s /\ e \in s \cup {e} /\ s \cup {e} \in SUBSET T
    BY <1>3
  <2>2. it[s \cup {e}] = f[e] + it[(s \cup {e}) \ {e}]
    <3>1. s \cup {e} \in SUBSET S
      OBVIOUS
    <3> QED
      BY <2>1, <3>1, SumTakes
  <2>3. other[s \cup {e}] = g[e] + other[(s \cup {e}) \ {e}]
    <3>1. \A x \in T : g[x] \in Int
      OBVIOUS
    <3>2. s \cup {e} \in SUBSET T /\ e \in s \cup {e}
      OBVIOUS
    <3> HIDE DEF P
    <3> QED
      BY ONLY IsSum(other, g, T), <1>1, <3>1, <3>2, SumTakes
  <2>4. it[s] = other[s] /\ g[e] = f[e]
    BY <1>3
  <2>5. it[s \cup {e}] = other[s \cup {e}]
    BY <2>1, <2>2, <2>3, <2>4
  <2> QED
    BY <2>1, <2>5
<1>4. T \in P
  <2> HIDE DEF P
  <2>1. T \in SUBSET T
    OBVIOUS
  <2> QED
    BY <1>1, <1>2, <1>3, <2>1, SubsetsReached
<1> QED
  BY <1>4

(* The sum is one that is built so.                                        *)
LEMMA SumOfIs ==
  ASSUME NEW f, NEW S, IsFiniteSet(S)
  PROVE  \E it : IsSum(it, f, S) /\ SumOf(f, S) = it[S]
BY SumExists DEF SumOf

(* Nothing, and one element more.                                          *)
LEMMA SumEmpty ==
  ASSUME NEW f
  PROVE  SumOf(f, {}) = 0
<1>1. PICK it : IsSum(it, f, {}) /\ SumOf(f, {}) = it[{}]
  BY SumOfIs, FS_EmptySet
<1> QED
  BY <1>1 DEF IsSum

(* It is any element and the sum of the rest.                              *)
LEMMA SumAdds ==
  ASSUME NEW f, NEW S, IsFiniteSet(S), \A x \in S : f[x] \in Int, NEW e \in S
  PROVE  SumOf(f, S) = f[e] + SumOf(f, S \ {e}) /\ SumOf(f, S \ {e}) \in Int
<1>1. PICK it : IsSum(it, f, S) /\ SumOf(f, S) = it[S]
  BY SumOfIs
<1>2. PICK other : IsSum(other, f, S \ {e}) /\ SumOf(f, S \ {e}) = other[S \ {e}]
  <2>1. IsFiniteSet(S \ {e})
    BY FS_RemoveElement
  <2> HIDE DEF IsSum
  <2> QED
    BY <2>1, SumOfIs
<1>3. it[S] = f[e] + it[S \ {e}] /\ it[S \ {e}] \in Int
  BY <1>1, SumTakes
<1>4. it[S \ {e}] = other[S \ {e}]
  BY <1>1, <1>2, SumIsOne
<1> QED
  BY <1>1, <1>2, <1>3, <1>4

(* The same amounts make the same sum.                                     *)
LEMMA SumSame ==
  ASSUME NEW f, NEW g, NEW S, IsFiniteSet(S), \A x \in S : f[x] \in Int /\ g[x] = f[x]
  PROVE  SumOf(f, S) = SumOf(g, S)
<1>1. PICK it : IsSum(it, f, S) /\ SumOf(f, S) = it[S]
  BY SumOfIs
<1>2. PICK other : IsSum(other, g, S) /\ SumOf(g, S) = other[S]
  BY SumOfIs
<1>3. it[S] = other[S]
  BY <1>1, <1>2, SumIsOne
<1> QED
  BY <1>1, <1>2, <1>3

(* Sums of numbers are numbers.                                            *)
LEMMA SumIsInt ==
  ASSUME NEW f, NEW S, IsFiniteSet(S), \A x \in S : f[x] \in Int
  PROVE  SumOf(f, S) \in Int
<1>1. CASE S = {}
  BY <1>1, SumEmpty
<1>2. CASE S # {}
  <2>1. PICK e \in S : TRUE
    BY <1>2
  <2>2. SumOf(f, S) = f[e] + SumOf(f, S \ {e}) /\ SumOf(f, S \ {e}) \in Int
    BY <2>1, SumAdds
  <2> QED
    BY <2>1, <2>2
<1> QED
  BY <1>1, <1>2

(* One element more.                                                       *)
LEMMA SumIncludes ==
  ASSUME NEW f, NEW S, IsFiniteSet(S), NEW e, e \notin S,
         f[e] \in Int, \A x \in S : f[x] \in Int
  PROVE  SumOf(f, S \cup {e}) = f[e] + SumOf(f, S)
<1>1. IsFiniteSet(S \cup {e}) /\ (S \cup {e}) \ {e} = S
  BY FS_AddElement
<1>2. \A x \in S \cup {e} : f[x] \in Int
  OBVIOUS
<1>3. SumOf(f, S \cup {e}) = f[e] + SumOf(f, (S \cup {e}) \ {e})
  BY <1>1, <1>2, SumAdds
<1> QED
  BY <1>1, <1>3

(* Sets that do not meet.                                                  *)
LEMMA SumJoins ==
  ASSUME NEW f, NEW S, IsFiniteSet(S), NEW T, IsFiniteSet(T), S \cap T = {},
         \A x \in S \cup T : f[x] \in Int
  PROVE  SumOf(f, S \cup T) = SumOf(f, S) + SumOf(f, T)
<1> DEFINE P == {s \in SUBSET T : SumOf(f, S \cup s) = SumOf(f, S) + SumOf(f, s)}
<1>1. SumOf(f, S) \in Int /\ \A s \in SUBSET T : IsFiniteSet(s) /\ SumOf(f, s) \in Int
  BY FS_Subset, SumIsInt
<1>2. {} \in P
  <2>1. S \cup {} = S /\ SumOf(f, {}) = 0
    BY SumEmpty
  <2> QED
    BY <1>1, <2>1
<1>3. ASSUME NEW s \in SUBSET T, NEW e \in T, s \in P /\ e \notin s
      PROVE  s \cup {e} \in P
  <2>1. SumOf(f, s \cup {e}) = f[e] + SumOf(f, s)
    <3>1. IsFiniteSet(s) /\ e \notin s /\ f[e] \in Int /\ \A x \in s : f[x] \in Int
      BY <1>1, <1>3
    <3> QED
      BY ONLY <3>1, SumIncludes
  <2>2. SumOf(f, (S \cup s) \cup {e}) = f[e] + SumOf(f, S \cup s)
    <3>1. IsFiniteSet(S \cup s) /\ e \notin S \cup s /\ f[e] \in Int
      BY <1>1, <1>3, FS_Union
    <3>2. \A x \in S \cup s : f[x] \in Int
      OBVIOUS
    <3> QED
      BY ONLY <3>1, <3>2, SumIncludes
  <2>3. SumOf(f, S \cup s) = SumOf(f, S) + SumOf(f, s) /\ f[e] \in Int /\ SumOf(f, s) \in Int
    BY <1>1, <1>3
  <2>4. (S \cup s) \cup {e} = S \cup (s \cup {e}) /\ s \cup {e} \in SUBSET T
    OBVIOUS
  <2>5. SumOf(f, S \cup (s \cup {e})) = SumOf(f, S) + SumOf(f, s \cup {e})
    BY <1>1, <2>1, <2>2, <2>3, <2>4
  <2> QED
    BY <2>4, <2>5
<1>4. T \in P
  <2> HIDE DEF P
  <2>1. T \in SUBSET T
    OBVIOUS
  <2> QED
    BY <1>2, <1>3, <2>1, SubsetsReached
<1> QED
  BY <1>4

(* Amounts that are no debts: no part is more than the whole.              *)
LEMMA SumIsNat ==
  ASSUME NEW f, NEW S, IsFiniteSet(S), \A x \in S : f[x] \in Nat
  PROVE  SumOf(f, S) \in Nat
<1> DEFINE P == {s \in SUBSET S : SumOf(f, s) \in Nat}
<1>1. {} \in P
  BY SumEmpty
<1>2. ASSUME NEW s \in SUBSET S, NEW e \in S, s \in P /\ e \notin s
      PROVE  s \cup {e} \in P
  <2>1. IsFiniteSet(s) /\ e \notin s /\ f[e] \in Int /\ \A x \in s : f[x] \in Int
    BY <1>2, FS_Subset
  <2>2. SumOf(f, s \cup {e}) = f[e] + SumOf(f, s)
    BY ONLY <2>1, SumIncludes
  <2>3. f[e] \in Nat /\ SumOf(f, s) \in Nat /\ s \cup {e} \in SUBSET S
    BY <1>2
  <2> QED
    BY <2>2, <2>3
<1>3. S \in P
  <2> HIDE DEF P
  <2>1. S \in SUBSET S
    OBVIOUS
  <2> QED
    BY <1>1, <1>2, <2>1, SubsetsReached
<1> QED
  BY <1>3

(* Fewer amounts sum to no more.                                           *)
LEMMA SumGrows ==
  ASSUME NEW f, NEW S, IsFiniteSet(S), \A x \in S : f[x] \in Nat, NEW T \in SUBSET S
  PROVE  SumOf(f, T) <= SumOf(f, S)
<1>1. IsFiniteSet(T) /\ IsFiniteSet(S \ T) /\ T \cup (S \ T) = S /\ T \cap (S \ T) = {}
  BY FS_Subset
<1>2. \A x \in S : f[x] \in Int
  OBVIOUS
<1>3. SumOf(f, T) \in Nat /\ SumOf(f, S \ T) \in Nat
  BY <1>1, SumIsNat
<1>4. SumOf(f, T \cup (S \ T)) = SumOf(f, T) + SumOf(f, S \ T)
  <2>1. \A x \in T \cup (S \ T) : f[x] \in Int
    BY <1>2
  <2> QED
    BY <1>1, <2>1, SumJoins
<1>5. SumOf(f, S) = SumOf(f, T) + SumOf(f, S \ T)
  BY <1>1, <1>4
<1> QED
  BY <1>3, <1>5

(* No amount is more than the sum.                                         *)
LEMMA SumHasEach ==
  ASSUME NEW f, NEW S, IsFiniteSet(S), \A x \in S : f[x] \in Nat, NEW e \in S
  PROVE  f[e] <= SumOf(f, S)
<1>1. SumOf(f, S) = f[e] + SumOf(f, S \ {e})
  <2>1. IsFiniteSet(S) /\ e \in S /\ \A x \in S : f[x] \in Int
    OBVIOUS
  <2> QED
    BY ONLY <2>1, SumAdds
<1>2. SumOf(f, S \ {e}) \in Nat /\ f[e] \in Nat
  BY FS_RemoveElement, SumIsNat
<1> QED
  BY <1>1, <1>2

(* Nothing but zeros sums to zero.                                         *)
LEMMA SumIsNone ==
  ASSUME NEW f, NEW S, IsFiniteSet(S), \A x \in S : f[x] = 0
  PROVE  SumOf(f, S) = 0
<1> DEFINE P == {s \in SUBSET S : SumOf(f, s) = 0}
<1>1. {} \in P
  BY SumEmpty
<1>2. ASSUME NEW s \in SUBSET S, NEW e \in S, s \in P /\ e \notin s
      PROVE  s \cup {e} \in P
  <2>1. IsFiniteSet(s) /\ e \notin s /\ f[e] \in Int /\ \A x \in s : f[x] \in Int
    BY <1>2, FS_Subset
  <2>2. SumOf(f, s \cup {e}) = f[e] + SumOf(f, s)
    BY ONLY <2>1, SumIncludes
  <2>3. f[e] = 0 /\ SumOf(f, s) = 0 /\ s \cup {e} \in SUBSET S
    BY <1>2
  <2> QED
    BY <2>2, <2>3
<1>3. S \in P
  <2> HIDE DEF P
  <2>1. S \in SUBSET S
    OBVIOUS
  <2> QED
    BY <1>1, <1>2, <2>1, SubsetsReached
<1> QED
  BY <1>3

-----------------------------------------------------------------------------
(* What the members of a sequence weigh together.                          *)

Tally(w, s) == SumOf([i \in DOMAIN s |-> w[s[i]]], DOMAIN s)

(* The tally of the empty sequence.                                        *)
LEMMA TallyNothing ==
  ASSUME NEW w
  PROVE  Tally(w, <<>>) = 0
<1>1. DOMAIN <<>> = {}
  OBVIOUS
<1> QED
  BY <1>1, SumEmpty DEF Tally

(* Tallies of amounts are amounts.                                         *)
LEMMA TallyIsNat ==
  ASSUME NEW X, NEW w \in [X -> Nat], NEW s \in Seq(X)
  PROVE  Tally(w, s) \in Nat
<1> DEFINE f == [i \in DOMAIN s |-> w[s[i]]]
<1>1. IsFiniteSet(DOMAIN s)
  <2>1. DOMAIN s = 1..Len(s) /\ Len(s) \in Int /\ 1 \in Int
    OBVIOUS
  <2> QED
    BY <2>1, FS_Interval
<1>2. \A i \in DOMAIN s : f[i] \in Nat
  OBVIOUS
<1> HIDE DEF f
<1>3. SumOf(f, DOMAIN s) \in Nat
  BY <1>1, <1>2, SumIsNat
<1> QED
  BY <1>3 DEF Tally, f

(* The tally of one element.                                               *)
LEMMA TallyOne ==
  ASSUME NEW X, NEW w \in [X -> Nat], NEW x \in X
  PROVE  Tally(w, <<x>>) = w[x]
<1> DEFINE f == [i \in DOMAIN <<x>> |-> w[<<x>>[i]]]
<1>1. DOMAIN <<x>> = {1} /\ f[1] = w[x] /\ w[x] \in Int /\ {1} \ {1} = {}
  OBVIOUS
<1>2. IsFiniteSet({1}) /\ 1 \in {1} /\ \A i \in {1} : f[i] \in Int
  BY <1>1, FS_Singleton
<1> HIDE DEF f
<1>3. SumOf(f, {1}) = f[1] + SumOf(f, {1} \ {1})
  BY ONLY <1>2, SumAdds
<1>4. SumOf(f, {1}) = w[x]
  BY <1>1, <1>3, SumEmpty
<1> QED
  BY <1>1, <1>4 DEF Tally, f

(* The tally of two sequences is the sum of theirs.                        *)
LEMMA TallyJoins ==
  ASSUME NEW X, NEW w \in [X -> Nat], NEW s \in Seq(X), NEW t \in Seq(X)
  PROVE  Tally(w, s \o t) = Tally(w, s) + Tally(w, t)
<1> DEFINE n == Len(s)
           m == Len(t)
           f == [i \in DOMAIN s |-> w[s[i]]]
           g == [i \in DOMAIN t |-> w[t[i]]]
           h == [i \in DOMAIN (s \o t) |-> w[(s \o t)[i]]]
<1>1. /\ n \in Nat /\ m \in Nat /\ DOMAIN s = 1..n /\ DOMAIN t = 1..m
      /\ DOMAIN (s \o t) = 1..n + m
  OBVIOUS
<1>2. /\ \A i \in 1..n : f[i] \in Int /\ h[i] = f[i]
      /\ \A i \in 1..m : g[i] \in Int /\ h[n + i] = g[i]
      /\ \A i \in 1..n + m : h[i] \in Int
  <2>1. \A i \in 1..n : (s \o t)[i] = s[i] /\ s[i] \in X /\ i \in 1..n + m
    BY <1>1
  <2>2. \A i \in 1..m : (s \o t)[n + i] = t[i] /\ t[i] \in X /\ n + i \in 1..n + m
    BY <1>1
  <2>3. \A i \in 1..n + m : (s \o t)[i] \in X
    BY <1>1
  <2>4. \A x \in X : w[x] \in Int
    OBVIOUS
  <2> QED
    BY <1>1, <2>1, <2>2, <2>3, <2>4
<1> HIDE DEF f, g, h, n, m
<1>0. n \in Nat /\ m \in Nat
  BY <1>1
<1>3. IsFiniteSet(1..n)
  <2>1. 1 \in Int /\ n \in Int
    BY <1>0
  <2> QED
    BY ONLY <2>1, FS_Interval
<1>4. \A j \in Nat : IsFiniteSet(n + 1..n + j) /\ IsFiniteSet(1..j)
  <2>1. \A j \in Nat : n + 1 \in Int /\ n + j \in Int /\ 1 \in Int /\ j \in Int
    BY <1>0
  <2> QED
    BY ONLY <2>1, FS_Interval
<1> DEFINE K == {j \in Nat : j <= m => SumOf(h, n + 1..n + j) = SumOf(g, 1..j)}
<1>5. 0 \in K
  <2>1. n + 1..n + 0 = {} /\ 1..0 = {}
    BY <1>1
  <2> QED
    BY <2>1, SumEmpty
<1>6. ASSUME NEW j \in Nat, j \in K PROVE j + 1 \in K
  <2> SUFFICES ASSUME j + 1 <= m
               PROVE  SumOf(h, n + 1..n + (j + 1)) = SumOf(g, 1..j + 1)
    OBVIOUS
  <2>1. /\ n + 1..n + (j + 1) = (n + 1..n + j) \cup {n + (j + 1)}
        /\ n + (j + 1) \notin n + 1..n + j
        /\ 1..j + 1 = (1..j) \cup {j + 1} /\ j + 1 \notin 1..j
    <3> HIDE DEF K
    <3> QED
      BY <1>0
  <2>0. /\ h[n + (j + 1)] = g[j + 1] /\ g[j + 1] \in Int /\ h[n + (j + 1)] \in Int
        /\ \A i \in n + 1..n + j : h[i] \in Int
        /\ \A i \in 1..j : g[i] \in Int
    <3>1. j + 1 \in 1..m /\ (\A i \in n + 1..n + j : i \in 1..n + m) /\ \A i \in 1..j : i \in 1..m
      BY <1>0
    <3> QED
      BY <1>2, <3>1
  <2>2. SumOf(h, (n + 1..n + j) \cup {n + (j + 1)}) = h[n + (j + 1)] + SumOf(h, n + 1..n + j)
    <3>1. IsFiniteSet(n + 1..n + j) /\ h[n + (j + 1)] \in Int
      BY <1>4, <2>0
    <3>2. \A i \in n + 1..n + j : h[i] \in Int
      BY <2>0
    <3> QED
      BY ONLY <2>1, <3>1, <3>2, SumIncludes
  <2>3. SumOf(g, (1..j) \cup {j + 1}) = g[j + 1] + SumOf(g, 1..j)
    <3>1. IsFiniteSet(1..j) /\ g[j + 1] \in Int
      BY <1>4, <2>0
    <3>2. \A i \in 1..j : g[i] \in Int
      BY <2>0
    <3> QED
      BY ONLY <2>1, <3>1, <3>2, SumIncludes
  <2>4. h[n + (j + 1)] = g[j + 1] /\ SumOf(h, n + 1..n + j) = SumOf(g, 1..j)
    BY <1>0, <1>6, <2>0
  <2> QED
    BY <2>1, <2>2, <2>3, <2>4
<1>7. SumOf(h, n + 1..n + m) = SumOf(g, 1..m)
  <2>1. \A j \in Nat : j \in K
    <3> HIDE DEF K
    <3> QED
      BY <1>5, <1>6, Reaches
  <2> QED
    BY <1>1, <2>1
<1>8. SumOf(h, 1..n) = SumOf(f, 1..n)
  <2>1. IsFiniteSet(1..n) /\ \A i \in 1..n : h[i] \in Int /\ f[i] = h[i]
    BY <1>2, <1>3
  <2> QED
    BY ONLY <2>1, SumSame
<1>9. SumOf(h, (1..n) \cup (n + 1..n + m)) = SumOf(h, 1..n) + SumOf(h, n + 1..n + m)
  <2>1. (1..n) \cap (n + 1..n + m) = {} /\ (1..n) \cup (n + 1..n + m) = 1..n + m
    BY <1>1
  <2>2. \A i \in (1..n) \cup (n + 1..n + m) : h[i] \in Int
    BY <1>2, <2>1
  <2>3. IsFiniteSet(1..n) /\ IsFiniteSet(n + 1..n + m)
    BY <1>1, <1>3, <1>4
  <2> QED
    BY ONLY <2>1, <2>2, <2>3, SumJoins
<1>10. (1..n) \cup (n + 1..n + m) = 1..n + m
  BY <1>1
<1>11. SumOf(h, 1..n + m) = SumOf(f, 1..n) + SumOf(g, 1..m)
  BY <1>7, <1>8, <1>9, <1>10
<1> QED
  BY <1>1, <1>11 DEF Tally, f, g, h

(* One member changed.                                                     *)
SameBut(s, t, k) == \A i \in 1..Len(s) : i # k => t[i] = s[i]

(* Changing one place changes the tally by the difference.                 *)
LEMMA TallyChanges ==
  ASSUME NEW X, NEW w \in [X -> Nat], NEW s \in Seq(X), NEW t \in Seq(X),
         Len(s) = Len(t), NEW k \in 1..Len(s), SameBut(s, t, k)
  PROVE  Tally(w, t) + w[s[k]] = Tally(w, s) + w[t[k]]
<1>0. \A i \in 1..Len(s) : i # k => t[i] = s[i]
  BY DEF SameBut
<1> DEFINE n == Len(s)
           f == [i \in DOMAIN s |-> w[s[i]]]
           g == [i \in DOMAIN t |-> w[t[i]]]
<1>1. n \in Nat /\ DOMAIN s = 1..n /\ DOMAIN t = 1..n /\ k \in 1..n
  OBVIOUS
<1>2. /\ f[k] = w[s[k]] /\ g[k] = w[t[k]] /\ f[k] \in Int /\ g[k] \in Int
      /\ \A i \in 1..n : f[i] \in Int /\ g[i] \in Int
      /\ \A i \in (1..n) \ {k} : g[i] \in Int /\ f[i] = g[i]
  <2>1. \A i \in 1..n : s[i] \in X /\ t[i] \in X
    BY <1>1
  <2>2. \A x \in X : w[x] \in Int
    OBVIOUS
  <2> QED
    BY <1>0, <1>1, <2>1, <2>2
<1> HIDE DEF f, g, n
<1>3. IsFiniteSet(1..n) /\ IsFiniteSet((1..n) \ {k})
  <2>1. 1 \in Int /\ n \in Int
    BY <1>1
  <2>2. IsFiniteSet(1..n)
    BY ONLY <2>1, FS_Interval
  <2> QED
    BY ONLY <2>2, FS_RemoveElement
<1>4. SumOf(f, 1..n) = f[k] + SumOf(f, (1..n) \ {k}) /\ SumOf(f, (1..n) \ {k}) \in Int
  <2>1. \A i \in 1..n : f[i] \in Int
    BY <1>2
  <2>2. k \in 1..n
    BY <1>1
  <2> QED
    BY ONLY <1>3, <2>1, <2>2, SumAdds
<1>5. SumOf(g, 1..n) = g[k] + SumOf(g, (1..n) \ {k}) /\ SumOf(g, (1..n) \ {k}) \in Int
  <2>1. \A i \in 1..n : g[i] \in Int
    BY <1>2
  <2>2. k \in 1..n
    BY <1>1
  <2> QED
    BY ONLY <1>3, <2>1, <2>2, SumAdds
<1>6. SumOf(g, (1..n) \ {k}) = SumOf(f, (1..n) \ {k})
  <2>1. \A i \in (1..n) \ {k} : g[i] \in Int /\ f[i] = g[i]
    BY <1>2
  <2> QED
    BY ONLY <1>3, <2>1, SumSame
<1>7. SumOf(g, 1..n) + f[k] = SumOf(f, 1..n) + g[k]
  BY <1>2, <1>4, <1>5, <1>6
<1> QED
  BY <1>1, <1>2, <1>7 DEF Tally, f, g

(* Short sequences. *)
LEMMA PairJoins ==
  ASSUME NEW X, NEW x \in X, NEW y \in X
  PROVE  <<x>> \o <<y>> = <<x, y>> /\ <<x, y>> \in Seq(X)
<1>1. <<x>> \in Seq(X) /\ <<y>> \in Seq(X) /\ <<x, y>> \in Seq(X)
  OBVIOUS
<1>2. Len(<<x>>) = 1 /\ Len(<<y>>) = 1 /\ Len(<<x, y>>) = 2
  OBVIOUS
<1>3. <<x>>[1] = x /\ <<y>>[1] = y /\ <<x, y>>[1] = x /\ <<x, y>>[2] = y
  OBVIOUS
<1> DEFINE s == <<x>>  t == <<y>>  u == <<x, y>>
<1> HIDE DEF s, t, u
<1>4. s \in Seq(X) /\ t \in Seq(X) /\ u \in Seq(X)
  BY <1>1 DEF s, t, u
<1>5. s \o t \in Seq(X) /\ Len(s \o t) = Len(s) + Len(t)
      /\ \A i \in 1..(Len(s) + Len(t)) : (s \o t)[i] = IF i <= Len(s) THEN s[i] ELSE t[i - Len(s)]
  BY ONLY <1>4, ConcatProperties
<1>6. Len(s) = 1 /\ Len(t) = 1 /\ Len(u) = 2
  BY <1>2 DEF s, t, u
<1>7. s[1] = x /\ t[1] = y /\ u[1] = x /\ u[2] = y
  BY <1>3 DEF s, t, u
<1>8. \A i \in 1..Len(s \o t) : (s \o t)[i] = u[i]
  BY <1>5, <1>6, <1>7
<1>9. Len(s \o t) = Len(u)
  BY <1>5, <1>6
<1>10. s \o t = u
  BY <1>4, <1>5, <1>8, <1>9, SeqEqual
<1> QED
  BY <1>1, <1>10 DEF s, t, u

(* A pair and one more.                                                    *)
LEMMA TripleJoins ==
  ASSUME NEW X, NEW x \in X, NEW y \in X, NEW z \in X
  PROVE  <<x, y>> \o <<z>> = <<x, y, z>> /\ <<x, y, z>> \in Seq(X)
<1>1. <<x, y>> \in Seq(X) /\ <<z>> \in Seq(X) /\ <<x, y, z>> \in Seq(X)
  OBVIOUS
<1>2. Len(<<x, y>>) = 2 /\ Len(<<z>>) = 1 /\ Len(<<x, y, z>>) = 3
  OBVIOUS
<1>3. <<x, y>>[1] = x /\ <<x, y>>[2] = y /\ <<z>>[1] = z
      /\ <<x, y, z>>[1] = x /\ <<x, y, z>>[2] = y /\ <<x, y, z>>[3] = z
  OBVIOUS
<1> DEFINE s == <<x, y>>  t == <<z>>  u == <<x, y, z>>
<1> HIDE DEF s, t, u
<1>4. s \in Seq(X) /\ t \in Seq(X) /\ u \in Seq(X)
  BY <1>1 DEF s, t, u
<1>5. s \o t \in Seq(X) /\ Len(s \o t) = Len(s) + Len(t)
      /\ \A i \in 1..(Len(s) + Len(t)) : (s \o t)[i] = IF i <= Len(s) THEN s[i] ELSE t[i - Len(s)]
  BY ONLY <1>4, ConcatProperties
<1>6. Len(s) = 2 /\ Len(t) = 1 /\ Len(u) = 3
  BY <1>2 DEF s, t, u
<1>7. s[1] = x /\ s[2] = y /\ t[1] = z /\ u[1] = x /\ u[2] = y /\ u[3] = z
  BY <1>3 DEF s, t, u
<1>8. \A i \in 1..Len(s \o t) : (s \o t)[i] = u[i]
  BY <1>5, <1>6, <1>7
<1>9. Len(s \o t) = Len(u)
  BY <1>5, <1>6
<1>10. s \o t = u
  BY <1>4, <1>5, <1>8, <1>9, SeqEqual
<1> QED
  BY <1>1, <1>10 DEF s, t, u

(* The tally of two elements.                                              *)
LEMMA TallyTwo ==
  ASSUME NEW X, NEW w \in [X -> Nat], NEW x \in X, NEW y \in X
  PROVE  Tally(w, <<x, y>>) = w[x] + w[y]
<1>1. <<x>> \in Seq(X) /\ <<y>> \in Seq(X)
  OBVIOUS
<1>2. Tally(w, <<x>> \o <<y>>) = Tally(w, <<x>>) + Tally(w, <<y>>)
  BY <1>1, TallyJoins
<1>3. Tally(w, <<x>>) = w[x] /\ Tally(w, <<y>>) = w[y]
  BY TallyOne
<1>4. <<x>> \o <<y>> = <<x, y>>
  BY PairJoins
<1> QED
  BY ONLY <1>2, <1>3, <1>4

(* The tally of three elements.                                            *)
LEMMA TallyThree ==
  ASSUME NEW X, NEW w \in [X -> Nat], NEW x \in X, NEW y \in X, NEW z \in X
  PROVE  Tally(w, <<x, y, z>>) = w[x] + w[y] + w[z]
<1>1. <<x, y>> \in Seq(X) /\ <<z>> \in Seq(X)
  OBVIOUS
<1>2. Tally(w, <<x, y>> \o <<z>>) = Tally(w, <<x, y>>) + Tally(w, <<z>>)
  BY <1>1, TallyJoins
<1>3. Tally(w, <<x, y>>) = w[x] + w[y] /\ Tally(w, <<z>>) = w[z]
  BY TallyOne, TallyTwo
<1>4. <<x, y>> \o <<z>> = <<x, y, z>>
  BY TripleJoins
<1> QED
  BY ONLY <1>2, <1>3, <1>4
=============================================================================
