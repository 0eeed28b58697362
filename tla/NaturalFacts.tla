---------------------------- MODULE NaturalFacts ----------------------------
(***************************************************************************)
(* Least and greatest elements of sets of naturals, and induction over     *)
(* them in a form without an operator parameter: the set of the numbers    *)
(* that have the property takes its place.  What a fold computes.          *)
(***************************************************************************)
EXTENDS Naturals, FiniteSetsExt, WellFoundedInduction, TLAPS

(* Every non-empty set of naturals has a least element.                    *)
LEMMA LeastNat ==
    ASSUME NEW T \in SUBSET Nat, T # {}
    PROVE  \E x \in T : \A y \in T : x <= y
<1> DEFINE R == OpToRel(<, Nat)
<1>1. IsWellFoundedOn(R, Nat)
  BY NatLessThanWellFounded
<1>2. \A x, y \in Nat : x < y => <<x, y>> \in R
  BY DEF OpToRel
<1> HIDE DEF R
<1>3. PICK x \in T : \A y \in T : ~(<<y, x>> \in R)
  BY <1>1, WFMin
<1>4. ASSUME NEW y \in T PROVE x <= y
  <2>1. x \in Nat /\ y \in Nat /\ ~(y < x)
    BY <1>2, <1>3
  <2> QED
    BY <2>1
<1> QED
  BY <1>4

(* A bounded one has a greatest element.                                   *)
LEMMA GreatestNat ==
    ASSUME NEW T \in SUBSET Nat, T # {}, NEW b \in Nat, \A y \in T : y <= b
    PROVE  \E x \in T : \A y \in T : y <= x
<1> DEFINE D == {d \in Nat : \E y \in T : d = b - y}
<1>1. D \in SUBSET Nat /\ D # {}
  <2>1. PICK y \in T : TRUE
    OBVIOUS
  <2>2. b - y \in Nat
    BY <2>1
  <2> QED
    BY <2>1, <2>2
<1>2. PICK d \in D : \A c \in D : d <= c
  BY <1>1, LeastNat
<1>3. PICK x \in T : d = b - x
  BY <1>2
<1>4. ASSUME NEW y \in T PROVE y <= x
  <2>1. b - y \in Nat /\ b - y \in D
    OBVIOUS
  <2>2. b - x <= b - y
    BY <1>2, <1>3, <2>1
  <2> QED
    BY <2>2
<1> QED
  BY <1>4

(* Induction: a set that has 0 and with n also n + 1 is Nat.               *)
LEMMA Induction ==
    ASSUME NEW T \in SUBSET Nat, 0 \in T, \A n \in T : n + 1 \in T
    PROVE  T = Nat
<1> SUFFICES ASSUME Nat \ T # {} PROVE FALSE
    OBVIOUS
<1>1. PICK x \in Nat \ T : \A y \in Nat \ T : x <= y
  BY LeastNat
<1>2. x - 1 \in Nat /\ x - 1 \in T /\ x = (x - 1) + 1
  BY <1>1
<1> QED
  BY <1>1, <1>2

-----------------------------------------------------------------------------
(* Folds, which the community modules define over the set of indices and   *)
(* from its greatest one down.  G[x, i] is what the i-th element makes of  *)
(* the value x: g is the function of the fold, h its intermediate values.  *)
FoldsOver(g, n, s, G) ==
    \A S \in SUBSET (1..n) : g[S] = IF S = {} THEN s ELSE G[g[S \ {Max(S)}], Max(S)]
Iterates(h, n, D, s, G) ==
    h \in [0..n -> D] /\ h[0] = s /\ \A k \in 1..n : h[k] = G[h[k - 1], k]
UnfoldsOver(f, n, D, s, G) ==
    /\ n \in Nat /\ s \in D /\ G \in [D \X (1..n) -> D] /\ f[1..0] = s
    /\ \A k \in 1..n : f[1..(k - 1)] \in D => f[1..k] = G[f[1..(k - 1)], k]

LEMMA MaxFacts ==
    ASSUME NEW k \in Nat, NEW S \in SUBSET (1..k), S # {}
    PROVE  Max(S) \in S /\ \A y \in S : Max(S) >= y
<1>1. S \in SUBSET Nat /\ \A y \in S : y <= k
  OBVIOUS
<1>2. PICK x \in S : \A y \in S : y <= x
  BY <1>1, GreatestNat
<1>3. \A y \in S : x >= y
  BY <1>1, <1>2
<1> QED
  BY <1>2, <1>3 DEF Max

LEMMA InitialSegment ==
    ASSUME NEW n \in Nat, NEW k \in 1..n
    PROVE  /\ 1..k \in SUBSET (1..n) /\ 1..k # {} /\ Max(1..k) = k
           /\ (1..k) \ {Max(1..k)} = 1..(k - 1)
<1>1. k \in Nat /\ k \in 1..k /\ 1..k \in SUBSET (1..n) /\ 1..k \in SUBSET (1..k)
  OBVIOUS
<1>2. \A x : x \in (1..k) \ {k} <=> x \in 1..(k - 1)
  OBVIOUS
<1>3. (1..k) \ {k} = 1..(k - 1)
  BY <1>2
<1>4. Max(1..k) \in 1..k /\ Max(1..k) >= k
  BY <1>1, MaxFacts
<1>5. Max(1..k) = k
  BY <1>1, <1>4
<1> QED
  BY <1>1, <1>3, <1>5

(* A fold is defined: there is a function that satisfies its recursion.    *)
LEMMA FoldExists ==
    ASSUME NEW n \in Nat, NEW D, NEW s \in D, NEW G \in [D \X (1..n) -> D]
    PROVE  \E g \in [SUBSET (1..n) -> D] : FoldsOver(g, n, s, G)
<1> DEFINE Step(g, S) == IF S = {} THEN s ELSE G[g[S \ {Max(S)}], Max(S)]
           Defined(k) == \E g \in [SUBSET (1..k) -> D] :
                           \A S \in SUBSET (1..k) : g[S] = Step(g, S)
           T == {k \in Nat : k <= n => Defined(k)}
<1>3. 0 \in T
  <2>1. PICK g : g = [S \in SUBSET (1..0) |-> s]
    OBVIOUS
  <2>2. g \in [SUBSET (1..0) -> D] /\ \A S \in SUBSET (1..0) : S = {} /\ g[S] = s
    BY <2>1
  <2> QED
    BY <2>2
<1>4. ASSUME NEW k \in T PROVE k + 1 \in T
  <2> HIDE DEF Defined
  <2> SUFFICES ASSUME k + 1 <= n PROVE Defined(k + 1)
      BY <1>4
  <2>1. k \in Nat /\ k <= n /\ k + 1 \in 1..n
    BY <1>4
  <2>a. Defined(k)
    BY <1>4, <2>1
  <2>2. PICK g \in [SUBSET (1..k) -> D] : \A S \in SUBSET (1..k) : g[S] = Step(g, S)
    BY <2>a DEF Defined
  <2>3. PICK e : e = [S \in SUBSET (1..(k + 1)) |->
                        IF k + 1 \in S THEN G[g[S \ {k + 1}], k + 1] ELSE g[S]]
    OBVIOUS
  <2>4. \A S \in SUBSET (1..(k + 1)) :
          S \ {k + 1} \in SUBSET (1..k) /\ (k + 1 \notin S => S \in SUBSET (1..k))
    BY <2>1
  <2>5. e \in [SUBSET (1..(k + 1)) -> D]
    <3> SUFFICES ASSUME NEW S \in SUBSET (1..(k + 1))
                 PROVE  (IF k + 1 \in S THEN G[g[S \ {k + 1}], k + 1] ELSE g[S]) \in D
        BY <2>3
    <3>1. g[S \ {k + 1}] \in D /\ (k + 1 \notin S => g[S] \in D)
      BY <2>2, <2>4
    <3>2. G[g[S \ {k + 1}], k + 1] \in D
      BY <2>1, <3>1
    <3> QED
      BY <3>1, <3>2
  <2>6. \A S \in SUBSET (1..k) : S \in SUBSET (1..(k + 1)) /\ k + 1 \notin S /\ e[S] = g[S]
    <3>1. \A S \in SUBSET (1..k) : S \in SUBSET (1..(k + 1)) /\ k + 1 \notin S
      BY <2>1
    <3> QED
      BY <2>3, <3>1
  <2>7. ASSUME NEW S \in SUBSET (1..(k + 1)) PROVE e[S] = Step(e, S)
    <3>1. CASE k + 1 \in S
      <4>a. k + 1 \in Nat /\ S # {}
        BY <2>1, <3>1
      <4>1. Max(S) \in S /\ Max(S) >= k + 1 /\ Max(S) \in 1..(k + 1)
        BY <3>1, <4>a, MaxFacts
      <4>2. Max(S) = k + 1 /\ S # {}
        BY <2>1, <3>1, <4>1
      <4>3. e[S] = G[g[S \ {k + 1}], k + 1]
        BY <2>3, <3>1
      <4>4. e[S \ {k + 1}] = g[S \ {k + 1}]
        BY <2>4, <2>6
      <4> QED
        BY <4>2, <4>3, <4>4
    <3>2. CASE k + 1 \notin S
      <4>1. S \in SUBSET (1..k) /\ e[S] = g[S] /\ g[S] = Step(g, S)
        BY <2>2, <2>4, <2>6, <3>2
      <4>2. S \ {Max(S)} \in SUBSET (1..k)
        BY <4>1
      <4>3. e[S \ {Max(S)}] = g[S \ {Max(S)}]
        BY <2>6, <4>2
      <4> QED
        BY <4>1, <4>3
    <3> QED
      BY <3>1, <3>2
  <2> QED
    BY <2>5, <2>7 DEF Defined
<1>5. T = Nat
  <2>1. T \in SUBSET Nat
    OBVIOUS
  <2> HIDE DEF T
  <2> QED
    BY <1>3, <1>4, <2>1, Induction
<1>6. Defined(n)
  <2> HIDE DEF Defined
  <2>1. n \in T
    BY <1>5
  <2> QED
    BY <2>1
<1> QED
  BY <1>6 DEF FoldsOver

(* What satisfies the recursion takes the elements one after the other.    *)
LEMMA FoldIterates ==
    ASSUME NEW n, NEW D, NEW s, NEW G, NEW f, UnfoldsOver(f, n, D, s, G)
    PROVE  \E h : Iterates(h, n, D, s, G) /\ h[n] = f[1..n]
<1>t. n \in Nat /\ s \in D /\ G \in [D \X (1..n) -> D]
  BY DEF UnfoldsOver
<1>0. /\ f[1..0] = s
      /\ \A k \in 1..n : f[1..(k - 1)] \in D => f[1..k] = G[f[1..(k - 1)], k]
  BY DEF UnfoldsOver
<1> DEFINE U == {k \in Nat : k <= n => f[1..k] \in D}
<1>1. 0 \in U
  BY <1>0, <1>t
<1>2. ASSUME NEW k \in U PROVE k + 1 \in U
  <2>0. k \in Nat /\ k + 1 \in Nat
    BY ONLY k \in U
  <2>1. ASSUME k + 1 <= n PROVE f[1..(k + 1)] \in D
    <3>1. k \in Nat /\ k <= n /\ k + 1 \in 1..n /\ (k + 1) - 1 = k
      BY ONLY <2>0, <2>1, <1>t
    <3>2. f[1..k] \in D
      BY ONLY k \in U, <3>1
    <3>3. PICK m \in 1..n : m = k + 1 /\ m - 1 = k
      BY ONLY <3>1
    <3>4. f[1..(m - 1)] \in D => f[1..m] = G[f[1..(m - 1)], m]
      BY <1>0, <3>3
    <3>5. f[1..m] = G[f[1..k], m]
      BY ONLY <3>2, <3>3, <3>4
    <3>6. \A x \in D : G[x, m] \in D
      BY <1>t
    <3> QED
      BY ONLY <3>2, <3>3, <3>5, <3>6
  <2> QED
    BY ONLY <2>0, <2>1
<1>3. U = Nat
  <2>1. U \in SUBSET Nat
    OBVIOUS
  <2> HIDE DEF U
  <2> QED
    BY <1>1, <1>2, <2>1, Induction
<1>4. PICK h : h = [k \in 0..n |-> f[1..k]]
  OBVIOUS
<1>5. \A k \in 0..n : k \in Nat /\ k <= n /\ f[1..k] \in D
  <2> HIDE DEF U
  <2> TAKE k \in 0..n
  <2>1. k \in U /\ k \in Nat /\ k <= n
    BY ONLY <1>3, <1>t, k \in 0..n
  <2> QED
    BY ONLY <2>1 DEF U
<1> HIDE DEF U
<1>a. \A k \in 0..n : h[k] = f[1..k]
  BY ONLY <1>4
<1>6. h \in [0..n -> D] /\ h[0] = s /\ h[n] = f[1..n]
  <2>1. h \in [0..n -> D]
    BY ONLY <1>4, <1>5
  <2>2. 0 \in 0..n /\ n \in 0..n
    BY ONLY <1>t
  <2> QED
    BY ONLY <1>a, <2>1, <2>2, <1>0
<1>7. ASSUME NEW k \in 1..n PROVE h[k] = G[h[k - 1], k]
  <2>1. PICK j \in 0..n : j = k - 1
    BY ONLY <1>t, k \in 1..n
  <2>2. h[j] = f[1..j] /\ f[1..j] \in D /\ h[k] = f[1..k]
    <3>1. k \in 0..n
      BY ONLY <1>t, k \in 1..n
    <3> QED
      BY ONLY <1>a, <1>5, <2>1, <3>1
  <2>3. f[1..(k - 1)] \in D => f[1..k] = G[f[1..(k - 1)], k]
    BY <1>0
  <2> QED
    BY ONLY <2>1, <2>2, <2>3
<1> QED
  BY <1>6, <1>7 DEF Iterates

(* Iterations that begin alike agree as long as their steps do.            *)
AgreeOn(G, H, n, D) == \A x \in D, i \in 1..n : G[x, i] = H[x, i]

LEMMA IterationsAgree ==
    ASSUME NEW n \in Nat, NEW m \in Nat, n <= m, NEW D, NEW s, NEW G, NEW H, NEW g, NEW h,
           Iterates(g, n, D, s, G), Iterates(h, m, D, s, H), AgreeOn(G, H, n, D)
    PROVE  \A k \in 0..n : g[k] = h[k]
<1>1. g \in [0..n -> D] /\ g[0] = s /\ \A k \in 1..n : g[k] = G[g[k - 1], k]
  BY DEF Iterates
<1>2. h[0] = s /\ \A k \in 1..m : h[k] = H[h[k - 1], k]
  BY DEF Iterates
<1> DEFINE U == {k \in Nat : k <= n => g[k] = h[k]}
<1>3. 0 \in U
  BY ONLY <1>1, <1>2
<1>4. ASSUME NEW k \in U PROVE k + 1 \in U
  <2>0. k \in Nat /\ k + 1 \in Nat
    BY ONLY k \in U
  <2>1. ASSUME k + 1 <= n PROVE g[k + 1] = h[k + 1]
    <3>1. k <= n /\ k \in 0..n /\ k + 1 \in 1..n /\ k + 1 \in 1..m /\ (k + 1) - 1 = k
      BY ONLY <2>0, <2>1, n \in Nat, m \in Nat, n <= m
    <3>2. g[k] = h[k] /\ g[k] \in D
      BY ONLY k \in U, <1>1, <3>1
    <3>3. PICK j \in 1..n : j = k + 1 /\ j - 1 = k /\ j \in 1..m
      BY ONLY <3>1
    <3>4. g[j] = G[g[j - 1], j] /\ h[j] = H[h[j - 1], j]
      BY ONLY <1>1, <1>2, <3>3
    <3>5. G[g[k], j] = H[g[k], j]
      BY <3>2 DEF AgreeOn
    <3> QED
      BY ONLY <3>2, <3>3, <3>4, <3>5
  <2> QED
    BY ONLY <2>0, <2>1
<1>5. U = Nat
  <2>1. U \in SUBSET Nat
    OBVIOUS
  <2> HIDE DEF U
  <2> QED
    BY ONLY <1>3, <1>4, <2>1, Induction
<1> TAKE k \in 0..n
<1>6. k \in U /\ k <= n
  <2> HIDE DEF U
  <2> QED
    BY ONLY <1>5, k \in 0..n, n \in Nat
<1> QED
  BY ONLY <1>6

(* There is an iteration, and a function that takes the same steps is one. *)
LEMMA IterationExists ==
    ASSUME NEW n \in Nat, NEW D, NEW s \in D, NEW G \in [D \X (1..n) -> D]
    PROVE  \E h : Iterates(h, n, D, s, G)
<1>1. PICK g \in [SUBSET (1..n) -> D] : FoldsOver(g, n, s, G)
  BY FoldExists
<1>2. \A S \in SUBSET (1..n) : g[S] = IF S = {} THEN s ELSE G[g[S \ {Max(S)}], Max(S)]
  BY <1>1 DEF FoldsOver
<1>3. g[1..0] = s
  <2>1. 1..0 = {} /\ 1..0 \in SUBSET (1..n)
    OBVIOUS
  <2> QED
    BY <1>2, <2>1
<1>4. \A k \in 1..n : g[1..k] = G[g[1..(k - 1)], k]
  BY <1>2, InitialSegment
<1>5. UnfoldsOver(g, n, D, s, G)
  BY <1>3, <1>4 DEF UnfoldsOver
<1> QED
  BY <1>5, FoldIterates

LEMMA StepsIterate ==
    ASSUME NEW n \in Nat, NEW D, NEW s \in D, NEW G \in [D \X (1..n) -> D], NEW h,
           h = [k \in 0..n |-> h[k]], h[0] = s,
           \A k \in 1..n : h[k - 1] \in D => h[k] = G[h[k - 1], k]
    PROVE  Iterates(h, n, D, s, G)
<1> DEFINE U == {k \in Nat : k <= n => h[k] \in D}
<1>2. 0 \in U
  OBVIOUS
<1>3. ASSUME NEW k \in U PROVE k + 1 \in U
  <2>0. k \in Nat /\ k + 1 \in Nat
    BY ONLY k \in U
  <2>1. ASSUME k + 1 <= n PROVE h[k + 1] \in D
    <3>1. k <= n /\ k + 1 \in 1..n /\ (k + 1) - 1 = k
      BY ONLY <2>0, <2>1, n \in Nat
    <3>2. h[k] \in D
      BY ONLY k \in U, <3>1
    <3>3. h[k + 1] = G[h[k], k + 1]
      BY <3>1, <3>2
    <3>4. \A x \in D : G[x, k + 1] \in D
      BY <3>1
    <3> QED
      BY ONLY <3>2, <3>3, <3>4
  <2> QED
    BY ONLY <2>0, <2>1
<1>4. U = Nat
  <2>1. U \in SUBSET Nat
    OBVIOUS
  <2> HIDE DEF U
  <2> QED
    BY ONLY <1>2, <1>3, <2>1, Induction
<1>5. \A k \in 0..n : h[k] \in D
  <2> TAKE k \in 0..n
  <2>1. k \in U /\ k <= n
    <3> HIDE DEF U
    <3> QED
      BY ONLY <1>4, k \in 0..n, n \in Nat
  <2> QED
    BY ONLY <2>1
<1>6. h \in [0..n -> D]
  BY ONLY <1>5, h = [k \in 0..n |-> h[k]]
<1>7. ASSUME NEW k \in 1..n PROVE h[k] = G[h[k - 1], k]
  <2>1. k - 1 \in 0..n
    BY ONLY k \in 1..n, n \in Nat
  <2> QED
    BY <1>5, <2>1
<1> HIDE DEF U
<1> QED
  BY <1>6, <1>7 DEF Iterates

=============================================================================
