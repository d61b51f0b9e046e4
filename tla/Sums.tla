-------------------------------- MODULE Sums --------------------------------
(***************************************************************************)
(* Sums over finite sets, for the proofs about what is counted and added   *)
(* up.  The folds of the models (MapThenSumSet) take the elements in an    *)
(* order of their own; a sum does not depend on it.                        *)
(***************************************************************************)
EXTENDS Integers, FiniteSets, FiniteSetTheorems, WellFoundedInduction, TLAPS

LEMMA LeastNatural ==
  ASSUME NEW T \in SUBSET Nat, T # {}
  PROVE  \E x \in T : \A y \in T : x <= y
<1> DEFINE R == OpToRel(<, Nat)
<1>1. IsWellFoundedOn(R, Nat)
  BY NatLessThanWellFounded
<1>2. ASSUME NEW x \in Nat, NEW y \in Nat, y < x
      PROVE  <<y, x>> \in R
  BY <1>2 DEF OpToRel
<1> HIDE DEF R
<1>3. PICK x \in T : \A y \in T : ~ (<<y, x>> \in R)
  BY <1>1, WFMin
<1>4. ASSUME NEW y \in T
      PROVE  x <= y
  <2>1. x \in Nat /\ y \in Nat
    OBVIOUS
  <2>2. ~(y < x)
    BY <1>2, <1>3, <2>1
  <2> QED
    BY <2>1, <2>2
<1> QED
  BY <1>4

(* The element that the fold takes next.                                   *)
First(s) == CHOOSE x \in s : TRUE

(* The table g of partial sums of f, as the fold fills it.                 *)
Adds(f, s, g) == IF s = {} THEN 0 ELSE f[First(s)] + g[s \ {First(s)}]
Counted(f, S, g) == g = [s \in SUBSET S |-> Adds(f, s, g)]
SumOver(f, S) == (CHOOSE g : Counted(f, S, g))[S]

LEMMA FirstIsIn == ASSUME NEW s, s # {} PROVE First(s) \in s
BY DEF First

LEMMA OneLess ==
  ASSUME NEW S, IsFiniteSet(S), NEW x \in S
  PROVE  /\ IsFiniteSet(S \ {x})
         /\ Cardinality(S \ {x}) \in Nat /\ Cardinality(S) \in Nat
         /\ Cardinality(S) = Cardinality(S \ {x}) + 1
<1>1. IsFiniteSet(S \ {x}) /\ Cardinality(S \ {x}) = Cardinality(S) - 1
  BY FS_RemoveElement
<1>2. Cardinality(S \ {x}) \in Nat /\ Cardinality(S) \in Nat
  BY <1>1, FS_CardinalityType
<1> QED
  BY <1>1, <1>2

Filled(f, S, n) == \E g \in [SUBSET S -> Int] :
                      \A s \in SUBSET S : Cardinality(s) <= n => g[s] = Adds(f, s, g)

(* There is such a table: it is filled level by level.                     *)
LEMMA SumsUpTo ==
  ASSUME NEW S, IsFiniteSet(S), NEW f, \A x \in S : f[x] \in Int, NEW n \in Nat
  PROVE  Filled(f, S, n)
<1> DEFINE Q(k) == \E g \in [SUBSET S -> Int] :
                      \A s \in SUBSET S : Cardinality(s) <= k => g[s] = Adds(f, s, g)
           T == {k \in Nat : ~Q(k)}
<1>0. \A s \in SUBSET S : IsFiniteSet(s) /\ Cardinality(s) \in Nat
  BY FS_Subset, FS_CardinalityType
<1>1. Q(0)
  <2>1. [s \in SUBSET S |-> 0] \in [SUBSET S -> Int]
    OBVIOUS
  <2>2. ASSUME NEW s \in SUBSET S, Cardinality(s) <= 0
        PROVE  s = {}
    BY <1>0, <2>2, FS_EmptySet
  <2> QED
    BY <2>1, <2>2 DEF Adds
<1>2. ASSUME NEW k \in Nat, Q(k)
      PROVE  Q(k + 1)
  <2>1. PICK g \in [SUBSET S -> Int] :
           \A s \in SUBSET S : Cardinality(s) <= k => g[s] = Adds(f, s, g)
    BY <1>2
  <2> DEFINE h == [s \in SUBSET S |-> IF Cardinality(s) <= k THEN g[s] ELSE Adds(f, s, g)]
  <2>2. ASSUME NEW s \in SUBSET S
        PROVE  Adds(f, s, g) \in Int
    <3>1. s # {} => First(s) \in S /\ s \ {First(s)} \in SUBSET S
      BY FirstIsIn
    <3>2. s # {} => f[First(s)] \in Int /\ g[s \ {First(s)}] \in Int
      BY <3>1
    <3> QED
      BY <3>2 DEF Adds
  <2>3. h \in [SUBSET S -> Int]
    BY <2>2
  <2>4. ASSUME NEW s \in SUBSET S, Cardinality(s) <= k + 1
        PROVE  h[s] = Adds(f, s, h)
    <3>1. h[s] = Adds(f, s, g)
      BY <2>1
    <3>2. CASE s = {}
      BY <3>1, <3>2 DEF Adds
    <3>3. CASE s # {}
      <4>1. First(s) \in s /\ s \ {First(s)} \in SUBSET S
        BY <3>3, FirstIsIn
      <4>2. Cardinality(s \ {First(s)}) <= k
        BY <4>1, <1>0, <2>4, OneLess
      <4>3. h[s \ {First(s)}] = g[s \ {First(s)}]
        BY <4>1, <4>2
      <4> HIDE DEF h
      <4> QED
        BY <3>1, <3>3, <4>3 DEF Adds
    <3> QED
      BY <3>2, <3>3
  <2> HIDE DEF h
  <2> QED
    BY <2>3, <2>4
<1> HIDE DEF Q
<1>3. T = {}
  <2>1. SUFFICES ASSUME T # {} PROVE FALSE
    OBVIOUS
  <2>2. PICK k \in T : \A j \in T : k <= j
    BY <2>1, LeastNatural
  <2>3. k \in Nat /\ ~Q(k) /\ k # 0
    BY <1>1
  <2>4. k - 1 \in Nat /\ ~(k <= k - 1)
    BY <2>3
  <2>5. Q(k - 1)
    BY <2>2, <2>4
  <2>6. Q((k - 1) + 1)
    BY <2>4, <2>5, <1>2
  <2>7. (k - 1) + 1 = k
    BY <2>3
  <2> QED
    BY <2>3, <2>6, <2>7
<1>4. Q(n)
  BY <1>3
<1> QED
  BY <1>4 DEF Q, Filled

LEMMA SumsExist ==
  ASSUME NEW S, IsFiniteSet(S), NEW f, \A x \in S : f[x] \in Int
  PROVE  \E g : Counted(f, S, g) /\ g \in [SUBSET S -> Int]
<1>1. Cardinality(S) \in Nat /\ \A s \in SUBSET S : Cardinality(s) <= Cardinality(S)
  BY FS_Subset, FS_CardinalityType
<1>2. PICK n \in Nat : n = Cardinality(S)
  BY <1>1
<1>3. PICK g \in [SUBSET S -> Int] :
         \A s \in SUBSET S : Cardinality(s) <= n => g[s] = Adds(f, s, g)
  <2>1. Filled(f, S, n)
    BY SumsUpTo
  <2> QED
    BY <2>1 DEF Filled
<1>4. g = [s \in SUBSET S |-> Adds(f, s, g)]
  BY <1>1, <1>2, <1>3
<1> QED
  BY <1>4 DEF Counted

(* A table agrees with any other on the sets that both speak of.           *)
LEMMA SumsAgree ==
  ASSUME NEW S, IsFiniteSet(S), NEW f, NEW g, Counted(f, S, g),
         NEW R \in SUBSET S, NEW e, NEW h, Counted(e, R, h),
         \A x \in R : e[x] = f[x]
  PROVE  h[R] = g[R]
<1> DEFINE T == {Cardinality(s) : s \in {r \in SUBSET R : h[r] # g[r]}}
<1>0. \A s \in SUBSET R : IsFiniteSet(s) /\ Cardinality(s) \in Nat
  BY FS_Subset, FS_CardinalityType
<1>1. T = {}
  <2>1. SUFFICES ASSUME T # {} PROVE FALSE
    OBVIOUS
  <2>2. T \in SUBSET Nat
    BY <1>0
  <2>3. PICK n \in T : \A j \in T : n <= j
    BY <2>1, <2>2, LeastNatural
  <2>4. PICK s \in SUBSET R : n = Cardinality(s) /\ h[s] # g[s]
    BY <2>3
  <2>5. /\ g[s] = Adds(f, s, g)
        /\ h[s] = Adds(e, s, h)
    <3>1. s \in SUBSET S /\ s \in SUBSET R
      OBVIOUS
    <3>2. g[s] = [r \in SUBSET S |-> Adds(f, r, g)][s]
      BY DEF Counted
    <3>3. h[s] = [r \in SUBSET R |-> Adds(e, r, h)][s]
      BY DEF Counted
    <3> QED
      BY <3>1, <3>2, <3>3
  <2>6. s # {}
    BY <2>4, <2>5 DEF Adds
  <2>7. First(s) \in s /\ s \ {First(s)} \in SUBSET R
    BY <2>6, FirstIsIn
  <2>8. Cardinality(s \ {First(s)}) < n
    BY <2>4, <2>7, <1>0, OneLess
  <2>9. h[s \ {First(s)}] = g[s \ {First(s)}]
    <3>1. SUFFICES ASSUME h[s \ {First(s)}] # g[s \ {First(s)}] PROVE FALSE
      OBVIOUS
    <3>2. Cardinality(s \ {First(s)}) \in T
      BY <2>7, <3>1
    <3>3. n <= Cardinality(s \ {First(s)})
      BY <2>3, <3>2
    <3>4. n \in Nat /\ Cardinality(s \ {First(s)}) \in Nat
      BY <1>0, <2>4, <2>7
    <3> QED
      BY <2>8, <3>3, <3>4
  <2>10. e[First(s)] = f[First(s)]
    BY <2>7
  <2> QED
    BY <2>4, <2>5, <2>6, <2>9, <2>10 DEF Adds
<1> QED
  BY <1>1

LEMMA SumIsCounted ==
  ASSUME NEW S, IsFiniteSet(S), NEW f, \A x \in S : f[x] \in Int, NEW g, Counted(f, S, g)
  PROVE  SumOver(f, S) = g[S]
<1>1. Counted(f, S, CHOOSE h : Counted(f, S, h))
  OBVIOUS
<1> QED
  BY <1>1, SumsAgree DEF SumOver

LEMMA SumIsAnInteger ==
  ASSUME NEW S, IsFiniteSet(S), NEW f, \A x \in S : f[x] \in Int
  PROVE  SumOver(f, S) \in Int
<1>1. PICK g : Counted(f, S, g) /\ g \in [SUBSET S -> Int]
  BY SumsExist
<1> QED
  BY <1>1, SumIsCounted

LEMMA SumOfNothing ==
  ASSUME NEW f
  PROVE  SumOver(f, {}) = 0
<1>1. IsFiniteSet({})
  BY FS_EmptySet
<1>2. PICK g : Counted(f, {}, g) /\ g \in [SUBSET {} -> Int]
  <2>1. \A x \in {} : f[x] \in Int
    OBVIOUS
  <2> QED
    BY <1>1, <2>1, SumsExist
<1>3. {} \in SUBSET {}
  OBVIOUS
<1>4. g[{}] = [s \in SUBSET {} |-> Adds(f, s, g)][{}]
  BY <1>2 DEF Counted
<1>5. g[{}] = Adds(f, {}, g)
  BY <1>3, <1>4
<1> QED
  BY <1>1, <1>2, <1>5, SumIsCounted DEF Adds

(* Two functions that agree on a set have the same sum over it.            *)
LEMMA SameSum ==
  ASSUME NEW S, IsFiniteSet(S), NEW f, \A x \in S : f[x] \in Int,
         NEW e, \A x \in S : e[x] = f[x]
  PROVE  SumOver(e, S) = SumOver(f, S)
<1>1. PICK g : Counted(f, S, g) /\ g \in [SUBSET S -> Int]
  BY SumsExist
<1>2. PICK h : Counted(e, S, h) /\ h \in [SUBSET S -> Int]
  BY SumsExist
<1>3. h[S] = g[S]
  BY <1>1, <1>2, SumsAgree
<1> QED
  BY <1>1, <1>2, <1>3, SumIsCounted

(* Whichever element is taken first, the sum is the same.                  *)
InAnyOrder(f, S, g) == \A s \in SUBSET S : \A x \in s : g[s] = f[x] + g[s \ {x}]

LEMMA SumsLess ==
  ASSUME NEW S, IsFiniteSet(S), NEW f, \A x \in S : f[x] \in Int,
         NEW g \in [SUBSET S -> Int], Counted(f, S, g)
  PROVE  InAnyOrder(f, S, g)
<1> DEFINE Q(r) == \A y \in r : g[r] = f[y] + g[r \ {y}]
           T == {Cardinality(r) : r \in {q \in SUBSET S : ~Q(q)}}
<1>0. \A r \in SUBSET S : IsFiniteSet(r) /\ Cardinality(r) \in Nat
  BY FS_Subset, FS_CardinalityType
<1>1. ASSUME NEW r \in SUBSET S, r # {}
      PROVE  First(r) \in r /\ r \ {First(r)} \in SUBSET S
             /\ g[r] = f[First(r)] + g[r \ {First(r)}]
  <2>1. g[r] = [q \in SUBSET S |-> Adds(f, q, g)][r]
    BY DEF Counted
  <2>2. g[r] = Adds(f, r, g)
    BY <2>1
  <2> QED
    BY <1>1, <2>2, FirstIsIn DEF Adds
<1>2. T = {}
  <2>1. SUFFICES ASSUME T # {} PROVE FALSE
    OBVIOUS
  <2>2. T \in SUBSET Nat
    BY <1>0
  <2>3. PICK n \in T : \A j \in T : n <= j
    BY <2>1, <2>2, LeastNatural
  <2>4. PICK r \in SUBSET S : n = Cardinality(r) /\ ~Q(r)
    BY <2>3
  <2>5. PICK y \in r : g[r] # f[y] + g[r \ {y}]
    BY <2>4
  <2> DEFINE c == First(r)
  <2>6. c \in r /\ r \ {c} \in SUBSET S /\ g[r] = f[c] + g[r \ {c}]
    BY <1>1, <2>5
  <2> HIDE DEF c
  <2>7. y # c
    BY <2>5, <2>6
  <2>8. ASSUME NEW z \in r
        PROVE  Q(r \ {z})
    <3>1. SUFFICES ASSUME ~Q(r \ {z}) PROVE FALSE
      OBVIOUS
    <3>2. Cardinality(r \ {z}) \in T
      BY <3>1
    <3>3. n <= Cardinality(r \ {z})
      BY <2>3, <3>2
    <3>4. IsFiniteSet(r)
      BY <1>0
    <3>5. /\ Cardinality(r \ {z}) \in Nat /\ Cardinality(r) \in Nat
          /\ Cardinality(r) = Cardinality(r \ {z}) + 1
      BY <3>4, OneLess
    <3> HIDE DEF Q, T
    <3> QED
      BY <2>4, <3>3, <3>5
  <2>9. g[r \ {c}] = f[y] + g[(r \ {c}) \ {y}]
    BY <2>6, <2>7, <2>8
  <2>10. g[r \ {y}] = f[c] + g[(r \ {y}) \ {c}]
    BY <2>6, <2>7, <2>8
  <2>11. (r \ {c}) \ {y} = (r \ {y}) \ {c}
    OBVIOUS
  <2>12. y \in S /\ c \in S /\ (r \ {y}) \ {c} \in SUBSET S
    BY <2>6
  <2>13. f[y] \in Int /\ f[c] \in Int /\ g[(r \ {y}) \ {c}] \in Int
    BY <2>12
  <2> DEFINE d == g[(r \ {y}) \ {c}]
             a == f[y]
             b == f[c]
  <2>14. g[r \ {c}] = a + d /\ g[r \ {y}] = b + d
    BY <2>9, <2>10, <2>11
  <2>15. g[r] = b + g[r \ {c}] /\ g[r] # a + g[r \ {y}]
    BY <2>5, <2>6
  <2>16. a \in Int /\ b \in Int /\ d \in Int
    BY <2>13
  <2> HIDE DEF Q, T, a, b, d
  <2>17. g[r] = b + (a + d) /\ g[r] # a + (b + d)
    BY <2>14, <2>15
  <2> QED
    BY <2>16, <2>17
<1>3. ASSUME NEW s \in SUBSET S PROVE Q(s)
  <2>1. SUFFICES ASSUME ~Q(s) PROVE FALSE
    OBVIOUS
  <2>2. Cardinality(s) \in T
    BY <2>1
  <2> QED
    BY <1>2, <2>2
<1> QED
  BY <1>3 DEF InAnyOrder

(* A sum without one of its elements.                                      *)
LEMMA SumLess ==
  ASSUME NEW S, IsFiniteSet(S), NEW f, \A x \in S : f[x] \in Int, NEW x \in S
  PROVE  SumOver(f, S) = f[x] + SumOver(f, S \ {x})
<1>1. PICK g : Counted(f, S, g) /\ g \in [SUBSET S -> Int]
  BY SumsExist
<1>2. g[S] = f[x] + g[S \ {x}]
  <2>1. InAnyOrder(f, S, g)
    BY <1>1, SumsLess
  <2> QED
    BY <2>1 DEF InAnyOrder
<1>3. SumOver(f, S) = g[S]
  BY <1>1, SumIsCounted
<1> DEFINE R == S \ {x}
<1>4. IsFiniteSet(R) /\ R \in SUBSET S
  BY FS_Subset
<1> HIDE DEF R
<1>5. PICK h : Counted(f, R, h) /\ h \in [SUBSET R -> Int]
  BY <1>4, SumsExist
<1>6. SumOver(f, R) = h[R]
  BY <1>4, <1>5, SumIsCounted
<1>7. h[R] = g[R]
  BY <1>1, <1>4, <1>5, SumsAgree
<1> QED
  BY <1>2, <1>3, <1>6, <1>7 DEF R

(* The sum over two sets that share nothing.                               *)
LEMMA SumOfBoth ==
  ASSUME NEW S, IsFiniteSet(S), NEW R, IsFiniteSet(R), S \cap R = {},
         NEW f, \A x \in S \cup R : f[x] \in Int
  PROVE  SumOver(f, S \cup R) = SumOver(f, S) + SumOver(f, R)
<1> DEFINE Q(s) == SumOver(f, s \cup R) = SumOver(f, s) + SumOver(f, R)
           T == {Cardinality(s) : s \in {q \in SUBSET S : ~Q(q)}}
<1>0. ASSUME NEW s \in SUBSET S
      PROVE  /\ IsFiniteSet(s) /\ Cardinality(s) \in Nat
             /\ IsFiniteSet(s \cup R)
             /\ SumOver(f, s) \in Int /\ SumOver(f, s \cup R) \in Int
  <2>1. IsFiniteSet(s) /\ Cardinality(s) \in Nat
    BY FS_Subset, FS_CardinalityType
  <2>2. IsFiniteSet(s \cup R)
    BY <2>1, FS_Union
  <2>3. SumOver(f, s) \in Int /\ SumOver(f, s \cup R) \in Int
    BY <2>1, <2>2, SumIsAnInteger
  <2> QED
    BY <2>1, <2>2, <2>3
<1>1. SumOver(f, R) \in Int
  BY SumIsAnInteger
<1>2. Q({})
  <2>1. {} \cup R = R
    OBVIOUS
  <2> QED
    BY <1>1, <2>1, SumOfNothing
<1>3. ASSUME NEW s \in SUBSET S, NEW x \in s, Q(s \ {x})
      PROVE  Q(s)
  <2>1. SumOver(f, s) = f[x] + SumOver(f, s \ {x})
    BY <1>0, SumLess
  <2>2. SumOver(f, s \cup R) = f[x] + SumOver(f, (s \cup R) \ {x})
    BY <1>0, SumLess
  <2>3. (s \cup R) \ {x} = (s \ {x}) \cup R
    OBVIOUS
  <2>4. s \ {x} \in SUBSET S
    OBVIOUS
  <2> DEFINE a == f[x]
             b == SumOver(f, s \ {x})
             d == SumOver(f, R)
  <2>5. a \in Int /\ b \in Int /\ d \in Int
    BY <1>0, <1>1, <2>4
  <2>6. SumOver(f, (s \ {x}) \cup R) = b + d
    BY <1>3
  <2>7. SumOver(f, s \cup R) = a + SumOver(f, (s \ {x}) \cup R)
    BY <2>2, <2>3
  <2>8. SumOver(f, s) = a + b
    BY <2>1
  <2> HIDE DEF a, b, d
  <2>9. SumOver(f, s \cup R) = a + (b + d)
    BY <2>6, <2>7
  <2>10. SumOver(f, s \cup R) = SumOver(f, s) + d
    BY <2>5, <2>8, <2>9
  <2> QED
    BY <2>10 DEF d
<1> HIDE DEF Q
<1>4. T = {}
  <2>1. SUFFICES ASSUME T # {} PROVE FALSE
    OBVIOUS
  <2>2. T \in SUBSET Nat
    BY <1>0
  <2>3. PICK n \in T : \A j \in T : n <= j
    BY <2>1, <2>2, LeastNatural
  <2>4. PICK s \in SUBSET S : n = Cardinality(s) /\ ~Q(s)
    BY <2>3
  <2>5. PICK x \in s : TRUE
    BY <1>2, <2>4
  <2>6. s \ {x} \in SUBSET S /\ ~Q(s \ {x})
    BY <1>3, <2>4
  <2>7. n <= Cardinality(s \ {x})
    BY <2>3, <2>6
  <2>8. IsFiniteSet(s)
    BY <1>0
  <2>9. /\ Cardinality(s \ {x}) \in Nat /\ Cardinality(s) \in Nat
        /\ Cardinality(s) = Cardinality(s \ {x}) + 1
    BY <2>8, OneLess
  <2> HIDE DEF T
  <2> QED
    BY <2>4, <2>7, <2>9
<1>5. Q(S)
  <2>1. SUFFICES ASSUME ~Q(S) PROVE FALSE
    OBVIOUS
  <2>2. Cardinality(S) \in T
    BY <2>1
  <2> QED
    BY <1>4, <2>2
<1> QED
  BY <1>5 DEF Q

(* Weights are positive, and so is their sum.                              *)
LEMMA PositiveSum ==
  ASSUME NEW S, IsFiniteSet(S), NEW f, \A x \in S : f[x] \in Nat \ {0}, S # {}
  PROVE  SumOver(f, S) \in Int /\ SumOver(f, S) > 0
<1> DEFINE Q(s) == SumOver(f, s) >= 0
           T == {Cardinality(s) : s \in {q \in SUBSET S : ~Q(q)}}
<1>0. ASSUME NEW s \in SUBSET S
      PROVE  /\ IsFiniteSet(s) /\ Cardinality(s) \in Nat /\ SumOver(f, s) \in Int
             /\ \A x \in s : f[x] \in Int
  <2>1. IsFiniteSet(s) /\ Cardinality(s) \in Nat
    BY FS_Subset, FS_CardinalityType
  <2>2. \A x \in s : f[x] \in Int
    OBVIOUS
  <2> QED
    BY <2>1, <2>2, SumIsAnInteger
<1>1. Q({})
  BY SumOfNothing
<1>2. ASSUME NEW s \in SUBSET S, NEW x \in s, Q(s \ {x})
      PROVE  SumOver(f, s) > 0
  <2> DEFINE a == f[x]
             b == SumOver(f, s \ {x})
  <2>1. SumOver(f, s) = a + b
    BY <1>0, SumLess
  <2>2. a \in Nat \ {0}
    OBVIOUS
  <2>3. s \ {x} \in SUBSET S
    OBVIOUS
  <2>4. b \in Int /\ b >= 0
    BY <1>0, <1>2, <2>3
  <2> HIDE DEF a, b
  <2> QED
    BY <2>1, <2>2, <2>4
<1> HIDE DEF Q
<1>3. T = {}
  <2>1. SUFFICES ASSUME T # {} PROVE FALSE
    OBVIOUS
  <2>2. T \in SUBSET Nat
    BY <1>0
  <2>3. PICK n \in T : \A j \in T : n <= j
    BY <2>1, <2>2, LeastNatural
  <2>4. PICK s \in SUBSET S : n = Cardinality(s) /\ ~Q(s)
    BY <2>3
  <2>5. PICK x \in s : TRUE
    BY <1>1, <2>4
  <2>6. s \ {x} \in SUBSET S /\ ~Q(s \ {x})
    <3>1. SumOver(f, s) \in Int
      BY <1>0
    <3>2. Q(s \ {x}) => Q(s)
      BY <1>2, <2>5, <3>1 DEF Q
    <3> QED
      BY <2>4, <3>2
  <2>7. n <= Cardinality(s \ {x})
    BY <2>3, <2>6
  <2>8. IsFiniteSet(s)
    BY <1>0
  <2>9. /\ Cardinality(s \ {x}) \in Nat /\ Cardinality(s) \in Nat
        /\ Cardinality(s) = Cardinality(s \ {x}) + 1
    BY <2>8, OneLess
  <2> HIDE DEF T
  <2> QED
    BY <2>4, <2>7, <2>9
<1>4. PICK x \in S : TRUE
  OBVIOUS
<1>5. Q(S \ {x})
  <2>1. SUFFICES ASSUME ~Q(S \ {x}) PROVE FALSE
    OBVIOUS
  <2>2. Cardinality(S \ {x}) \in T
    BY <2>1
  <2> QED
    BY <1>3, <2>2
<1> QED
  BY <1>0, <1>2, <1>4, <1>5

LEMMA ImageIsFinite ==
  ASSUME NEW S, IsFiniteSet(S), NEW f
  PROVE  IsFiniteSet({f[x] : x \in S})
<1> DEFINE T == {f[x] : x \in S}
           g == [x \in S |-> f[x]]
<1>1. g \in Surjection(S, T)
  BY DEF Surjection
<1> QED
  BY <1>1, FS_Surjection

(* What holds of nothing, and of a set when it holds without one of its    *)
(* elements, holds of every finite set: W is the subsets of which it does. *)
LEMMA PieceByPiece ==
  ASSUME NEW S, IsFiniteSet(S), NEW W, {} \in W,
         \A s \in SUBSET S : s # {} /\ (\A x \in s : s \ {x} \in W) => s \in W
  PROVE  S \in W
<1> DEFINE T == {Cardinality(s) : s \in {q \in SUBSET S : q \notin W}}
<1>0. \A s \in SUBSET S : IsFiniteSet(s) /\ Cardinality(s) \in Nat
  BY FS_Subset, FS_CardinalityType
<1>1. T = {}
  <2>1. SUFFICES ASSUME T # {} PROVE FALSE
    OBVIOUS
  <2>2. T \in SUBSET Nat
    BY <1>0
  <2>3. PICK n \in T : \A j \in T : n <= j
    BY <2>1, <2>2, LeastNatural
  <2>4. PICK s \in SUBSET S : n = Cardinality(s) /\ s \notin W
    BY <2>3
  <2>5. PICK x \in s : s \ {x} \notin W
    BY <2>4
  <2>6. s \ {x} \in SUBSET S /\ s \ {x} \notin W
    BY <2>4, <2>5
  <2>7. n <= Cardinality(s \ {x})
    BY <2>3, <2>6
  <2>8. IsFiniteSet(s)
    BY <1>0
  <2>9. /\ Cardinality(s \ {x}) \in Nat /\ Cardinality(s) \in Nat
        /\ Cardinality(s) = Cardinality(s \ {x}) + 1
    BY <2>8, OneLess
  <2> HIDE DEF T
  <2> QED
    BY <2>4, <2>7, <2>9
<1>2. SUFFICES ASSUME S \notin W PROVE FALSE
  OBVIOUS
<1>3. Cardinality(S) \in T
  BY <1>2
<1> QED
  BY <1>1, <1>3

LEMMA OneByOne ==
  ASSUME NEW S, IsFiniteSet(S), NEW W, {} \in W,
         \A s \in SUBSET S : \A x \in s : s \ {x} \in W => s \in W
  PROVE  S \in W
<1>1. \A s \in SUBSET S : s # {} /\ (\A x \in s : s \ {x} \in W) => s \in W
  OBVIOUS
<1> QED
  BY <1>1, PieceByPiece

LEMMA SumOfZeros ==
  ASSUME NEW S, IsFiniteSet(S), NEW f, \A x \in S : f[x] = 0
  PROVE  SumOver(f, S) = 0
<1> DEFINE W == {s \in SUBSET S : SumOver(f, s) = 0}
<1>1. {} \in W
  BY SumOfNothing
<1>2. ASSUME NEW s \in SUBSET S, NEW x \in s, s \ {x} \in W
      PROVE  s \in W
  <2>1. IsFiniteSet(s) /\ f[x] = 0 /\ \A y \in s : f[y] \in Int
    BY FS_Subset
  <2>2. SumOver(f, s) = f[x] + SumOver(f, s \ {x})
    BY <2>1, SumLess
  <2>3. SumOver(f, s \ {x}) = 0
    BY <1>2
  <2> QED
    BY <2>1, <2>2, <2>3
<1> HIDE DEF W
<1>3. S \in W
  BY <1>1, <1>2, OneByOne
<1> QED
  BY <1>3 DEF W

(* A finite set of numbers has a greatest one.                             *)
LEMMA GreatestNatural ==
  ASSUME NEW n \in Nat, NEW s \in SUBSET (1 .. n), s # {}
  PROVE  \E x \in s : \A y \in s : x >= y
<1> DEFINE T == {n - x : x \in s}
<1>1. T \in SUBSET Nat /\ T # {}
  OBVIOUS
<1>2. PICK t \in T : \A u \in T : t <= u
  BY <1>1, LeastNatural
<1>3. PICK x \in s : t = n - x
  BY <1>2
<1>4. \A y \in s : n - x <= n - y
  BY <1>2, <1>3
<1>5. \A y \in s : x >= y
  BY <1>4
<1> QED
  BY <1>5

(* What holds no later number without the earlier ones is 1 .. n.          *)
LEMMA FirstNumbers ==
  ASSUME NEW n \in Nat, NEW K \in SUBSET (1 .. n),
         \A i, j \in 1 .. n : i < j /\ j \in K => i \in K
  PROVE  /\ Cardinality(K) \in 0 .. n
         /\ K = 1 .. Cardinality(K)
<1> DEFINE T == {k \in Nat : k + 1 \notin K}
<1>1. n \in T
  OBVIOUS
<1>2. T \in SUBSET Nat /\ T # {}
  BY <1>1
<1>3. PICK c \in T : \A k \in T : c <= k
  BY <1>2, LeastNatural
<1>4. c \in Nat /\ c + 1 \notin K /\ c <= n
  BY <1>1, <1>3
<1>5. \A i \in 1 .. c : i \in K
  <2> TAKE i \in 1 .. c
  <2>1. i - 1 \in Nat /\ i - 1 < c
    BY <1>4
  <2>2. i - 1 \notin T
    BY <1>3, <1>4, <2>1
  <2>3. (i - 1) + 1 = i
    BY <1>4
  <2> QED
    BY <2>1, <2>2, <2>3
<1>6. \A i \in K : i \in 1 .. c
  <2> TAKE i \in K
  <2>1. i \in 1 .. n
    OBVIOUS
  <2>2. CASE i > c
    <3>1. c + 1 \in 1 .. n /\ (c + 1 < i \/ c + 1 = i)
      BY <1>4, <2>1, <2>2
    <3> QED
      BY <1>4, <2>1, <3>1
  <2> QED
    BY <1>4, <2>1, <2>2
<1>7. K = 1 .. c
  BY <1>5, <1>6
<1>8. Cardinality(1 .. c) = c
  <2>1. c \in Int /\ 1 \in Int
    BY <1>4
  <2>2. Cardinality(1 .. c) = IF 1 > c THEN 0 ELSE c - 1 + 1
    BY <2>1, FS_Interval
  <2> QED
    BY <1>4, <2>2
<1> QED
  BY <1>4, <1>7, <1>8

(* The elements of one set stand for those of another, one for one.        *)
OneForOne(p, S, T) == /\ \A x \in S : p[x] \in T
                      /\ \A y \in T : \E x \in S : p[x] = y
                      /\ \A x, y \in S : p[x] = p[y] => x = y

LEMMA SumMoves ==
  ASSUME NEW S, IsFiniteSet(S), NEW T, NEW p, OneForOne(p, S, T),
         NEW f, \A y \in T : f[y] \in Int, NEW e, \A x \in S : e[x] = f[p[x]]
  PROVE  IsFiniteSet(T) /\ SumOver(e, S) = SumOver(f, T)
<1> DEFINE Of(s) == {p[x] : x \in s}
           W == {s \in SUBSET S : SumOver(e, s) = SumOver(f, Of(s))}
<1>0. Of(S) = T
  BY DEF OneForOne
<1>1. ASSUME NEW s \in SUBSET S
      PROVE  /\ IsFiniteSet(s) /\ IsFiniteSet(Of(s))
             /\ Of(s) \subseteq T
             /\ \A y \in Of(s) : f[y] \in Int
             /\ \A x \in s : e[x] \in Int
  <2>1. IsFiniteSet(s)
    BY FS_Subset
  <2>2. IsFiniteSet(Of(s))
    BY <2>1, ImageIsFinite
  <2> QED
    BY <2>1, <2>2 DEF OneForOne
<1>2. {} \in W
  <2>1. Of({}) = {} /\ {} \in SUBSET S
    OBVIOUS
  <2>2. SumOver(e, {}) = 0 /\ SumOver(f, {}) = 0
    BY SumOfNothing
  <2> QED
    BY <2>1, <2>2
<1>3. ASSUME NEW s \in SUBSET S, NEW x \in s, s \ {x} \in W
      PROVE  s \in W
  <2>1. SumOver(e, s) = e[x] + SumOver(e, s \ {x})
    BY <1>1, SumLess
  <2>2. p[x] \in Of(s)
    OBVIOUS
  <2>3. SumOver(f, Of(s)) = f[p[x]] + SumOver(f, Of(s) \ {p[x]})
    BY <1>1, <2>2, SumLess
  <2>4. Of(s) \ {p[x]} = Of(s \ {x})
    BY DEF OneForOne
  <2>5. SumOver(e, s \ {x}) = SumOver(f, Of(s \ {x}))
    BY <1>3
  <2>6. e[x] = f[p[x]]
    OBVIOUS
  <2> QED
    BY <2>1, <2>3, <2>4, <2>5, <2>6
<1> HIDE DEF Of
<1>4. S \in W
  <2> HIDE DEF W
  <2> QED
    BY <1>2, <1>3, OneByOne
<1>5. IsFiniteSet(T)
  BY <1>0, <1>1
<1> QED
  BY <1>0, <1>4, <1>5

(* A sum is the sum of the sums of its parts, each known by its key.       *)
PartOf(S, key, c) == {x \in S : key[x] = c}

LEMMA SumOfParts ==
  ASSUME NEW S, IsFiniteSet(S), NEW C, IsFiniteSet(C), NEW key, \A x \in S : key[x] \in C,
         NEW f, \A x \in S : f[x] \in Int,
         NEW h, \A c \in C : h[c] = SumOver(f, PartOf(S, key, c))
  PROVE  SumOver(f, S) = SumOver(h, C) /\ \A c \in C : h[c] \in Int
<1> DEFINE In(d) == {x \in S : key[x] \in d}
           W == {d \in SUBSET C : SumOver(f, In(d)) = SumOver(h, d)}
<1>0. In(C) = S
  OBVIOUS
<1>1. ASSUME NEW s \in SUBSET S
      PROVE  IsFiniteSet(s) /\ \A x \in s : f[x] \in Int
  BY FS_Subset
<1>2. \A c \in C : h[c] \in Int
  <2> SUFFICES ASSUME NEW c \in C PROVE h[c] \in Int
    OBVIOUS
  <2> DEFINE s == PartOf(S, key, c)
  <2>1. IsFiniteSet(s) /\ \A x \in s : f[x] \in Int
    BY <1>1 DEF PartOf
  <2> HIDE DEF s
  <2>2. SumOver(f, s) \in Int
    BY <2>1, SumIsAnInteger
  <2> QED
    BY <2>2 DEF s
<1>3. {} \in W
  <2>1. In({}) = {} /\ {} \in SUBSET C
    OBVIOUS
  <2>2. SumOver(h, {}) = 0 /\ SumOver(f, {}) = 0
    BY SumOfNothing
  <2> QED
    BY <2>1, <2>2
<1>4. ASSUME NEW d \in SUBSET C, NEW c \in d, d \ {c} \in W
      PROVE  d \in W
  <2> DEFINE P == PartOf(S, key, c)
             R == In(d \ {c})
  <2>1. IsFiniteSet(d) /\ \A x \in d : h[x] \in Int
    BY <1>2, FS_Subset
  <2>2. SumOver(h, d) = h[c] + SumOver(h, d \ {c})
    BY <2>1, SumLess
  <2>3. In(d) = P \cup R /\ P \cap R = {}
    BY DEF PartOf
  <2>4. P \in SUBSET S /\ R \in SUBSET S
    BY DEF PartOf
  <2>5. h[c] = SumOver(f, P)
    OBVIOUS
  <2>6. SumOver(f, R) = SumOver(h, d \ {c})
    BY <1>4
  <2>7. In(d) \in SUBSET S
    OBVIOUS
  <2> HIDE DEF P, R, In
  <2>8. IsFiniteSet(P) /\ IsFiniteSet(R) /\ \A x \in P \cup R : f[x] \in Int
    BY <1>1, <2>4
  <2>9. SumOver(f, P \cup R) = SumOver(f, P) + SumOver(f, R)
    BY <2>3, <2>8, SumOfBoth
  <2>10. SumOver(f, In(d)) = SumOver(h, d)
    BY <2>2, <2>3, <2>5, <2>6, <2>9
  <2> QED
    BY <2>10 DEF In
<1> HIDE DEF In
<1>5. C \in W
  <2> HIDE DEF W
  <2> QED
    BY <1>3, <1>4, OneByOne
<1> QED
  BY <1>0, <1>2, <1>5
=============================================================================
