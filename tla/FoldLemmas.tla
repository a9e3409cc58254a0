----------------------------- MODULE FoldLemmas -----------------------------
(***************************************************************************)
(* Induction over sets of numbers, and what a fold computes: the lemmas    *)
(* that the proofs about Search, Tables and PlayAnalyser share.            *)
(***************************************************************************)
EXTENDS Integers, Sequences, SequencesExt, WellFoundedInduction, TLAPS

(* Induction on the natural numbers, for a set.                            *)

LEMMA NatLeast ==
  ASSUME NEW S \in SUBSET Nat, S # {}
  PROVE  \E n \in S : \A m \in S : n <= m
<1>1. PICK n \in S : \A m \in S : <<m, n>> \notin OpToRel(<, Nat)
  BY NatLessThanWellFounded, WFMin
<1>2. \A m \in S : ~ (m < n)
  BY <1>1 DEF OpToRel
<1>3. \A m \in S : n <= m
  BY ONLY <1>2, n \in Nat, S \in SUBSET Nat
<1> QED
  BY <1>3

LEMMA NatInduct ==
  ASSUME NEW S, 0 \in S, \A n \in Nat : n \in S => n + 1 \in S
  PROVE  Nat \subseteq S
<1> SUFFICES ASSUME Nat \ S # {} PROVE FALSE
  OBVIOUS
<1>1. PICK n \in Nat \ S : \A m \in Nat \ S : n <= m
  BY NatLeast
<1>2. n # 0 /\ n - 1 \in Nat /\ n - 1 \notin Nat \ S
  BY <1>1
<1>3. n - 1 \in S /\ (n - 1) + 1 = n
  BY <1>2
<1> QED
  BY <1>1, <1>2, <1>3

LEMMA MinOf ==
  ASSUME NEW S \in SUBSET Nat, S # {}
  PROVE  Min(S) \in S
<1>1. \E n \in S : \A m \in S : n <= m
  BY NatLeast
<1> QED
  BY <1>1 DEF Min

LEMMA MaxOf ==
  ASSUME NEW n \in Nat, NEW S \in SUBSET (1..n), S # {}
  PROVE  /\ Max(S) \in S
         /\ \A m \in S : m <= Max(S)
<1> DEFINE B == {k \in Nat : \A m \in S : m <= k}
<1>1. n \in B
  OBVIOUS
<1>2. PICK k \in B : \A j \in B : k <= j
  BY <1>1, NatLeast
<1>3. k \in S
  <2>1. SUFFICES ASSUME k \notin S PROVE FALSE
    OBVIOUS
  <2>2. \A m \in S : m <= k /\ m # k
    BY <1>2, <2>1
  <2>3. k >= 1
    <3>1. PICK m \in S : TRUE
      OBVIOUS
    <3> QED
      BY <2>2, <3>1
  <2>4. k - 1 \in Nat /\ \A m \in S : m <= k - 1
    BY <2>2, <2>3
  <2>5. k - 1 \in B
    BY <2>4
  <2> QED
    BY <1>2, <2>5, <2>4
<1>4. \A m \in S : m <= k
  BY <1>2
<1> QED
  BY <1>3, <1>4 DEF Max

-----------------------------------------------------------------------------
(* Folds.                                                                  *)

(* What defines a fold: the step of the highest index comes last. *)
Steps(iter, n, base, G) ==
  \A s \in SUBSET (1..n) :
    iter[s] = IF s = {} THEN base ELSE G[<<iter[s \ {Max(s)}], Max(s)>>]

LEMMA FoldSteps ==
  ASSUME NEW n \in Nat, NEW V, NEW base \in V, NEW G \in [V \X (1..n) -> V]
  PROVE  \E iter \in [SUBSET (1..n) -> V] : Steps(iter, n, base, G)
<1> DEFINE Good(g, k) ==
      \A s \in SUBSET (1..k) :
        g[s] = IF s = {} THEN base ELSE G[<<g[s \ {Max(s)}], Max(s)>>]
    Has(k) == \E g \in [SUBSET (1..k) -> V] : Good(g, k)
    P == {k \in Nat : k <= n => Has(k)}
<1>1. 0 \in P
  <2> DEFINE g == [s \in SUBSET (1..0) |-> base]
  <2>1. g \in [SUBSET (1..0) -> V]
    OBVIOUS
  <2>2. SUBSET (1..0) = {{}}
    BY 1..0 = {}
  <2>3. Good(g, 0)
    BY <2>2
  <2> QED
    BY <2>1, <2>3
<1>2. ASSUME NEW k \in Nat, k \in P PROVE k + 1 \in P
  <2> HIDE DEF Has
  <2>1. SUFFICES ASSUME k + 1 <= n PROVE Has(k + 1)
    OBVIOUS
  <2>0. k <= n /\ Has(k)
    BY <1>2, <2>1
  <2> USE DEF Has
  <2>2. PICK g \in [SUBSET (1..k) -> V] : Good(g, k)
    BY <2>0
  <2> DEFINE h == [s \in SUBSET (1..(k + 1)) |->
                     IF k + 1 \in s THEN G[<<g[s \ {k + 1}], k + 1>>] ELSE g[s]]
  <2>3. ASSUME NEW s \in SUBSET (1..(k + 1)), k + 1 \notin s
        PROVE  s \in SUBSET (1..k)
    BY <2>3
  <2>4. ASSUME NEW s \in SUBSET (1..(k + 1)) PROVE s \ {k + 1} \in SUBSET (1..k)
    OBVIOUS
  <2>5. h \in [SUBSET (1..(k + 1)) -> V]
    <3>1. ASSUME NEW s \in SUBSET (1..(k + 1)) PROVE h[s] \in V
      <4>1. CASE k + 1 \in s
        <5>1. g[s \ {k + 1}] \in V /\ k + 1 \in 1..n
          BY <2>1, <2>2, <2>4
        <5>2. <<g[s \ {k + 1}], k + 1>> \in V \X (1..n)
          BY <5>1
        <5> QED
          BY <4>1, <5>2
      <4>2. CASE k + 1 \notin s
        BY <4>2, <2>2, <2>3
      <4> QED
        BY <4>1, <4>2
    <3> QED
      BY <3>1
  <2>6. ASSUME NEW s \in SUBSET (1..(k + 1))
        PROVE  h[s] = IF s = {} THEN base ELSE G[<<h[s \ {Max(s)}], Max(s)>>]
    <3>1. CASE k + 1 \in s
      <4>1. Max(s) \in s /\ \A m \in s : m <= Max(s)
        <5>1. k + 1 \in Nat /\ s # {}
          BY <3>1
        <5> QED
          BY <5>1, MaxOf
      <4>2. Max(s) = k + 1
        <5>1. Max(s) \in 1..(k + 1) /\ k + 1 <= Max(s)
          BY <4>1, <3>1
        <5> QED
          BY <5>1
      <4>3. s \ {k + 1} \in SUBSET (1..(k + 1)) /\ k + 1 \notin s \ {k + 1}
        OBVIOUS
      <4>4. h[s \ {k + 1}] = g[s \ {k + 1}]
        BY <4>3
      <4> QED
        BY <3>1, <4>2, <4>4
    <3>2. CASE k + 1 \notin s
      <4>1. s \in SUBSET (1..k)
        BY <3>2, <2>3
      <4>2. h[s] = g[s]
        BY <3>2
      <4>3. CASE s = {}
        BY <4>1, <4>2, <4>3, <2>2
      <4>4. CASE s # {}
        <5>1. Max(s) \in s
          BY <4>1, <4>4, MaxOf
        <5>2. s \ {Max(s)} \in SUBSET (1..(k + 1)) /\ k + 1 \notin s \ {Max(s)}
          BY <3>2
        <5>3. h[s \ {Max(s)}] = g[s \ {Max(s)}]
          BY <5>2
        <5> QED
          BY <4>1, <4>2, <4>4, <5>3, <2>2
      <4> QED
        BY <4>3, <4>4
    <3> QED
      BY <3>1, <3>2
  <2> QED
    BY <2>5, <2>6
<1>3. n \in P
  <2> HIDE DEF P
  <2> QED
    BY <1>1, <1>2, NatInduct
<1>4. \E g \in [SUBSET (1..n) -> V] : Good(g, n)
  <2>1. n <= n
    OBVIOUS
  <2> QED
    BY <1>3, <2>1
<1> QED
  BY <1>4 DEF Steps

(* A fold stays in the set that its steps stay in. *)
LEMMA FoldKeeps ==
  ASSUME NEW n \in Nat, NEW V, NEW iter, iter[{}] \in V,
         \A s \in SUBSET (1..n) :
           s # {} /\ iter[s \ {Max(s)}] \in V => iter[s] \in V
  PROVE  iter[1..n] \in V
<1> DEFINE P == {k \in Nat : k <= n => \A s \in SUBSET (1..k) : iter[s] \in V}
<1>1. 0 \in P
  <2>1. SUBSET (1..0) = {{}}
    BY 1..0 = {}
  <2> QED
    BY <2>1
<1>2. ASSUME NEW k \in Nat, k \in P PROVE k + 1 \in P
  <2>1. SUFFICES ASSUME k + 1 <= n, NEW s \in SUBSET (1..(k + 1))
                 PROVE  iter[s] \in V
    OBVIOUS
  <2>2. \A t \in SUBSET (1..k) : iter[t] \in V
    BY <1>2, <2>1
  <2>3. CASE s = {}
    BY <2>3
  <2>4. CASE s # {}
    <3>1. k + 1 \in Nat /\ s \in SUBSET (1..n)
      BY <2>1
    <3>2. Max(s) \in s /\ \A m \in s : m <= Max(s)
      BY <2>4, <3>1, MaxOf
    <3>3. ASSUME NEW m \in s \ {Max(s)} PROVE m \in 1..k
      <4>1. m <= Max(s) /\ m # Max(s) /\ m \in 1..(k + 1) /\ Max(s) \in 1..(k + 1)
        BY <3>2
      <4> QED
        BY <4>1
    <3>4. iter[s \ {Max(s)}] \in V
      BY <2>2, <3>3
    <3> QED
      BY <2>4, <3>1, <3>4
  <2> QED
    BY <2>3, <2>4
<1>3. n \in P
  <2> HIDE DEF P
  <2> QED
    BY <1>1, <1>2, NatInduct
<1>4. n <= n /\ 1..n \in SUBSET (1..n)
  OBVIOUS
<1> QED
  BY <1>3, <1>4

(* The same when the set that the steps stay in grows with the index.      *)
Growing(U, n) == \A j, k \in 0..n : j <= k => U[j] \subseteq U[k]

LEMMA FoldStepsWithin ==
  ASSUME NEW n \in Nat, NEW V, NEW U \in [0..n -> SUBSET V], Growing(U, n),
         NEW base \in U[0], NEW G,
         \A j \in 1..n : \A v \in U[j - 1] : G[<<v, j>>] \in U[j]
  PROVE  \E iter : /\ Steps(iter, n, base, G)
                   /\ \A k \in 0..n : \A s \in SUBSET (1..k) : iter[s] \in U[k]
<1> DEFINE Go == [x \in V \X (1..n) |->
                    IF x[1] \in U[x[2] - 1] THEN G[<<x[1], x[2]>>] ELSE x[1]]
<1>1. Go \in [V \X (1..n) -> V]
  <2>1. ASSUME NEW v \in V, NEW j \in 1..n, v \in U[j - 1] PROVE G[<<v, j>>] \in V
    <3>1. G[<<v, j>>] \in U[j] /\ U[j] \subseteq V
      BY <2>1
    <3> QED
      BY <3>1
  <2> QED
    BY <2>1
<1>2. base \in V
  OBVIOUS
<1>3. PICK iter \in [SUBSET (1..n) -> V] : Steps(iter, n, base, Go)
  <2> HIDE DEF Go
  <2> QED
    BY <1>1, <1>2, FoldSteps
<1> DEFINE P == {k \in Nat : k <= n => \A s \in SUBSET (1..k) : iter[s] \in U[k]}
<1>4. 0 \in P
  <2>1. SUBSET (1..0) = {{}} /\ {} \in SUBSET (1..n)
    BY 1..0 = {}
  <2> QED
    BY <1>3, <2>1 DEF Steps
<1>5. ASSUME NEW k \in Nat, k \in P PROVE k + 1 \in P
  <2>1. SUFFICES ASSUME k + 1 <= n, NEW s \in SUBSET (1..(k + 1))
                 PROVE  iter[s] \in U[k + 1]
    OBVIOUS
  <2>2. \A r \in SUBSET (1..k) : iter[r] \in U[k]
    BY <1>5, <2>1
  <2>3. U[k] \subseteq U[k + 1] /\ U[0] \subseteq U[k + 1] /\ s \in SUBSET (1..n)
    BY <2>1 DEF Growing
  <2>4. CASE s = {}
    <3>1. iter[s] = base
      BY <1>3, <2>3, <2>4 DEF Steps
    <3> QED
      BY <2>3, <3>1
  <2>5. CASE s # {}
    <3>1. k + 1 \in Nat
      OBVIOUS
    <3>2. Max(s) \in s /\ \A m \in s : m <= Max(s)
      BY <2>5, <3>1, MaxOf
    <3>3. CASE k + 1 \notin s
      <4>1. s \in SUBSET (1..k)
        BY <3>3
      <4> QED
        BY <2>2, <2>3, <4>1
    <3>4. CASE k + 1 \in s
      <4>1. Max(s) = k + 1
        <5>1. Max(s) \in 1..(k + 1) /\ k + 1 <= Max(s)
          BY <3>2, <3>4
        <5> QED
          BY <5>1
      <4>2. s \ {k + 1} \in SUBSET (1..k)
        OBVIOUS
      <4>3. iter[s \ {k + 1}] \in U[k] /\ iter[s \ {k + 1}] \in V
        BY <2>2, <2>3, <4>2
      <4>4. iter[s] = Go[<<iter[s \ {k + 1}], k + 1>>]
        BY <1>3, <2>3, <2>5, <4>1 DEF Steps
      <4>5. k + 1 \in 1..n /\ (k + 1) - 1 = k
        BY <2>1
      <4>6. iter[s] = G[<<iter[s \ {k + 1}], k + 1>>]
        BY <4>3, <4>4, <4>5
      <4> QED
        BY <4>3, <4>5, <4>6
    <3> QED
      BY <3>3, <3>4
  <2> QED
    BY <2>4, <2>5
<1>6. Nat \subseteq P
  <2> HIDE DEF P
  <2> QED
    BY <1>4, <1>5, NatInduct
<1>7. \A k \in 0..n : \A s \in SUBSET (1..k) : iter[s] \in U[k]
  BY <1>6
<1>8. ASSUME NEW s \in SUBSET (1..n), s # {}
      PROVE  iter[s] = G[<<iter[s \ {Max(s)}], Max(s)>>]
  <2>1. Max(s) \in s /\ \A m \in s : m <= Max(s)
    BY <1>8, MaxOf
  <2>2. Max(s) \in 1..n /\ Max(s) - 1 \in 0..n
    <3> DEFINE m == Max(s)
    <3>1. m \in 1..n
      BY <2>1
    <3> HIDE DEF m
    <3>2. m - 1 \in 0..n
      BY ONLY <3>1, n \in Nat
    <3> QED
      BY <3>1, <3>2 DEF m
  <2>3. s \ {Max(s)} \in SUBSET (1..(Max(s) - 1))
    <3>1. ASSUME NEW m \in s \ {Max(s)} PROVE m \in 1..(Max(s) - 1)
      <4>1. m <= Max(s) /\ m # Max(s) /\ m \in 1..n
        BY <2>1
      <4> QED
        BY <2>2, <4>1
    <3> QED
      BY <3>1
  <2>4. iter[s \ {Max(s)}] \in U[Max(s) - 1] /\ iter[s \ {Max(s)}] \in V
    BY <1>7, <2>2, <2>3
  <2>5. iter[s] = Go[<<iter[s \ {Max(s)}], Max(s)>>]
    BY <1>3, <1>8 DEF Steps
  <2> QED
    BY <2>2, <2>4, <2>5
<1>9. iter[{}] = base
  BY <1>3 DEF Steps
<1> QED
  BY <1>7, <1>8, <1>9 DEF Steps

LEMMA FoldWithin ==
  ASSUME NEW n \in Nat, NEW U, Growing(U, n), NEW iter, iter[{}] \in U[0],
         \A s \in SUBSET (1..n) :
           s # {} /\ iter[s \ {Max(s)}] \in U[Max(s) - 1] => iter[s] \in U[Max(s)]
  PROVE  iter[1..n] \in U[n]
<1> DEFINE P == {k \in Nat : k <= n => \A s \in SUBSET (1..k) : iter[s] \in U[k]}
<1>1. 0 \in P
  <2>1. SUBSET (1..0) = {{}}
    BY 1..0 = {}
  <2> QED
    BY <2>1
<1>2. ASSUME NEW k \in Nat, k \in P PROVE k + 1 \in P
  <2>1. SUFFICES ASSUME k + 1 <= n, NEW s \in SUBSET (1..(k + 1))
                 PROVE  iter[s] \in U[k + 1]
    OBVIOUS
  <2>2. \A r \in SUBSET (1..k) : iter[r] \in U[k]
    BY <1>2, <2>1
  <2>3. U[k] \subseteq U[k + 1] /\ U[0] \subseteq U[k + 1] /\ s \in SUBSET (1..n)
    BY <2>1 DEF Growing
  <2>4. CASE k + 1 \notin s
    <3>1. s \in SUBSET (1..k)
      BY <2>4
    <3> QED
      BY <2>2, <2>3, <3>1
  <2>5. CASE k + 1 \in s
    <3>1. k + 1 \in Nat /\ s # {}
      BY <2>5
    <3>2. Max(s) \in s /\ \A m \in s : m <= Max(s)
      BY <3>1, MaxOf
    <3>3. Max(s) \in 1..(k + 1) /\ k + 1 <= Max(s)
      BY <2>5, <3>2
    <3>4. Max(s) = k + 1 /\ (k + 1) - 1 = k
      BY <3>3
    <3>5. s \ {k + 1} \in SUBSET (1..k)
      OBVIOUS
    <3>6. iter[s \ {k + 1}] \in U[k]
      BY <2>2, <3>5
    <3> QED
      BY <2>3, <3>1, <3>4, <3>6
  <2> QED
    BY <2>4, <2>5
<1>3. n \in P
  <2> HIDE DEF P
  <2> QED
    BY <1>1, <1>2, NatInduct
<1>4. n <= n /\ 1..n \in SUBSET (1..n)
  OBVIOUS
<1> QED
  BY <1>3, <1>4
-----------------------------------------------------------------------------
(* Recursion that only goes on to the next place.                          *)

(* A function with such an equation exists, whether or not the recursion   *)
(* ends everywhere: its value is that of the last place, or any.           *)
Goes(f, D, F, res, succ) ==
  \A x \in D : f[x] = IF x \in F THEN res[x] ELSE f[succ[x]]

LEMMA TailRecursion ==
  ASSUME NEW D, NEW R, R # {}, NEW F, NEW res \in [D -> R], NEW succ \in [D -> D]
  PROVE  \E f \in [D -> R] : Goes(f, D, F, res, succ)
<1> DEFINE Closed(S) ==
             /\ \A x \in D : x \in F => <<x, res[x]>> \in S
             /\ \A x \in D, r \in R :
                  x \notin F /\ <<succ[x], r>> \in S => <<x, r>> \in S
           L == {z \in D \X R : \A S \in SUBSET (D \X R) : Closed(S) => z \in S}
           Vals(x) == {r \in R : <<x, r>> \in L}
           Pick(V) == IF V # {} THEN CHOOSE r : r \in V ELSE CHOOSE r : r \in R
           f == [x \in D |-> Pick(Vals(x))]
<1>1. Closed(L)
  <2>1. ASSUME NEW x \in D, x \in F PROVE <<x, res[x]>> \in L
    BY <2>1
  <2>2. ASSUME NEW x \in D, NEW r \in R, x \notin F, <<succ[x], r>> \in L
        PROVE  <<x, r>> \in L
    BY <2>2
  <2> HIDE DEF L
  <2> QED
    BY <2>1, <2>2
<1>2. ASSUME NEW S \in SUBSET (D \X R), Closed(S) PROVE L \subseteq S
  BY <1>2
<1>3. L \subseteq D \X R
  OBVIOUS
<1> HIDE DEF L
<1>4. ASSUME NEW x \in D, x \in F, NEW r \in R, <<x, r>> \in L PROVE r = res[x]
  <2> DEFINE S == L \ {<<x, r>>}
  <2>1. SUFFICES ASSUME r # res[x] PROVE FALSE
    OBVIOUS
  <2>2. S \in SUBSET (D \X R) /\ <<x, r>> \notin S
    BY <1>3
  <2>3. \A y \in D : y \in F => <<y, res[y]>> \in S
    BY <1>1, <2>1
  <2>4. ASSUME NEW y \in D, NEW q \in R, y \notin F, <<succ[y], q>> \in S
        PROVE  <<y, q>> \in S
    BY <1>1, <1>4, <2>4
  <2>5. Closed(S)
    <3> HIDE DEF S
    <3> QED
      BY <2>3, <2>4
  <2> HIDE DEF S, Closed
  <2> QED
    BY <1>2, <1>4, <2>2, <2>5
<1>5. ASSUME NEW x \in D, x \notin F, NEW r \in R, <<x, r>> \in L
      PROVE  <<succ[x], r>> \in L
  <2> DEFINE S == L \ {<<x, r>>}
  <2>1. SUFFICES ASSUME <<succ[x], r>> \notin L PROVE FALSE
    OBVIOUS
  <2>2. S \in SUBSET (D \X R) /\ <<x, r>> \notin S
    BY <1>3
  <2>3. ASSUME NEW y \in D, y \in F PROVE <<y, res[y]>> \in S
    BY <1>1, <1>5, <2>3
  <2>4. ASSUME NEW y \in D, NEW q \in R, y \notin F, <<succ[y], q>> \in S
        PROVE  <<y, q>> \in S
    BY <1>1, <2>1, <2>4
  <2>5. Closed(S)
    <3> HIDE DEF S
    <3> QED
      BY <2>3, <2>4
  <2> HIDE DEF S, Closed
  <2> QED
    BY <1>2, <1>5, <2>2, <2>5
<1>6. ASSUME NEW x \in D, x \in F PROVE Vals(x) = {res[x]}
  BY <1>1, <1>4, <1>6
<1>7. ASSUME NEW x \in D, x \notin F PROVE Vals(x) = Vals(succ[x])
  <2>1. ASSUME NEW r \in R PROVE <<x, r>> \in L <=> <<succ[x], r>> \in L
    BY <1>1, <1>5, <1>7
  <2> QED
    BY <2>1
<1>8. ASSUME NEW V \in SUBSET R PROVE Pick(V) \in R
  OBVIOUS
<1>9. \A x \in D : Vals(x) \in SUBSET R
  OBVIOUS
<1>10. \A r \in R : Pick({r}) = r
  OBVIOUS
<1> HIDE DEF Vals, Pick, Closed
<1>11. f \in [D -> R]
  BY <1>8, <1>9
<1>12. ASSUME NEW x \in D
       PROVE  f[x] = IF x \in F THEN res[x] ELSE f[succ[x]]
  <2>1. CASE x \in F
    BY <1>6, <1>10, <2>1
  <2>2. CASE x \notin F
    BY <1>7, <2>2
  <2> QED
    BY <2>1, <2>2
<1> HIDE DEF f
<1> QED
  BY <1>11, <1>12 DEF Goes
=============================================================================
