-------------------------- MODULE FlushPathProofs --------------------------
(***************************************************************************)
(* Theorems about FlushPath, for any user keys, value lengths, number of   *)
(* entries, heights of nodes and sizes of blocks.                          *)
(***************************************************************************)
EXTENDS FlushPath, NaturalFacts, FiniteSetTheorems, SequenceTheorems, TLAPS

-----------------------------------------------------------------------------
(* The order of the entries. *)

IsKey(x) == x.key \in Nat /\ x.seq \in Nat

LEMMA EntryFacts ==
    ASSUME NEW e \in Entry
    PROVE  /\ IsKey(e) /\ e.key \in UserKeys /\ e.seq \in 1..MaxPuts
           /\ e.kind \in {"put", "delete"} /\ e.len \in Nat
           /\ e # ListHead /\ e # NoNode /\ e # NoKey
<1>1. UserKeys \subseteq Nat /\ Lengths \subseteq Nat /\ MaxPuts \in Nat
  BY KeysAssumption
<1>2. /\ e.key \in UserKeys /\ e.seq \in Seqnos /\ e.kind \in {"put", "delete"}
      /\ e.len \in Lengths \cup {0}
  BY DEF Entry
<1>3. ListHead.kind = "head" /\ NoNode.kind = "nil" /\ NoKey.kind = "none"
  BY DEF ListHead, NoNode, NoKey
<1>4. e # ListHead /\ e # NoNode /\ e # NoKey
  BY <1>2, <1>3
<1>5. \A u \in UserKeys, s \in Seqnos, n \in Lengths \cup {0} :
        u \in Nat /\ s \in 1..MaxPuts /\ s \in Nat /\ n \in Nat
  BY <1>1 DEF Seqnos
<1>6. e.key \in Nat /\ e.seq \in 1..MaxPuts /\ e.seq \in Nat /\ e.len \in Nat
  BY ONLY <1>2, <1>5
<1> QED
  BY <1>2, <1>4, <1>6 DEF IsKey

LEMMA LessOrder ==
    ASSUME NEW a, NEW b, NEW c, IsKey(a), IsKey(b), IsKey(c)
    PROVE  /\ ~Less(a, a)
           /\ Less(a, b) => ~Less(b, a)
           /\ Less(a, b) /\ Less(b, c) => Less(a, c)
           /\ ~Less(a, b) /\ ~Less(b, c) => ~Less(a, c)
           /\ Less(a, b) \/ Less(b, a) \/ (a.key = b.key /\ a.seq = b.seq)
  BY DEF Less, IsKey

(* A sequence number names one entry.                                      *)
Unique(S) == \A e, f \in S : e.seq = f.seq => e = f

LEMMA LessTotal ==
    ASSUME NEW S \in SUBSET Entry, Unique(S), NEW a \in S, NEW b \in S
    PROVE  a = b \/ Less(a, b) \/ Less(b, a)
<1>1. IsKey(a) /\ IsKey(b)
  BY EntryFacts
<1> QED
  BY <1>1, LessOrder DEF Unique

(* There is a greatest among entries.                                      *)
LEMMA GreatestEntry ==
    ASSUME NEW S \in SUBSET Entry, Unique(S), S # {}
    PROVE  \E x \in S : \A y \in S : y = x \/ Less(y, x)
<1> DEFINE Has(T) == \E x \in T : \A y \in T : y = x \/ Less(y, x)
           U == {n \in Nat : \A T \in SUBSET S :
                   T # {} /\ (\A e \in T : e.seq <= n) => Has(T)}
<1>1. 0 \in U
  <2> SUFFICES ASSUME NEW T \in SUBSET S, T # {}, \A e \in T : e.seq <= 0 PROVE FALSE
      OBVIOUS
  <2>1. PICK e \in T : e.seq <= 0 /\ e \in Entry
    OBVIOUS
  <2> QED
    BY <2>1, EntryFacts, KeysAssumption
<1>2. ASSUME NEW n \in U PROVE n + 1 \in U
  <2>0. n \in Nat /\ n + 1 \in Nat
    OBVIOUS
  <2> SUFFICES ASSUME NEW T \in SUBSET S, T # {}, \A e \in T : e.seq <= n + 1
               PROVE  Has(T)
      BY <2>0
  <2>1. \A e \in T : e \in Entry /\ e.seq \in Nat
    BY EntryFacts DEF IsKey
  <2>2. CASE \A e \in T : e.seq # n + 1
    <3>1. \A e \in T : e.seq <= n
      BY <2>0, <2>1, <2>2
    <3> QED
      BY <3>1
  <2>3. CASE \E e \in T : e.seq = n + 1
    <3>1. PICK e \in T : e.seq = n + 1
      BY <2>3
    <3>2. \A f \in T \ {e} : f.seq <= n
      BY <2>0, <2>1, <3>1 DEF Unique
    <3>3. CASE T \ {e} = {}
      BY <3>1, <3>3
    <3>4. CASE T \ {e} # {}
      <4>1. T \ {e} \in SUBSET S
        OBVIOUS
      <4>2. Has(T \ {e})
        BY <3>2, <3>4, <4>1
      <4>3. PICK x \in T \ {e} : \A y \in T \ {e} : y = x \/ Less(y, x)
        BY <4>2
      <4>4. Less(x, e) \/ Less(e, x)
        BY <4>3, <3>1, LessTotal
      <4>5. CASE Less(e, x)
        <5>1. \A y \in T : y = x \/ Less(y, x)
          BY <4>3, <4>5
        <5> QED
          BY <5>1
      <4>6. CASE Less(x, e)
        <5>1. ASSUME NEW y \in T PROVE y = e \/ Less(y, e)
          <6>1. IsKey(x) /\ IsKey(y) /\ IsKey(e)
            BY <2>1, EntryFacts
          <6> QED
            BY <4>3, <4>6, <6>1, LessOrder
        <5> QED
          BY <5>1, <3>1
      <4> QED
        BY <4>4, <4>5, <4>6
    <3> QED
      BY <3>3, <3>4
  <2> QED
    BY <2>2, <2>3
<1>3. U = Nat
  <2>1. U \in SUBSET Nat
    OBVIOUS
  <2> HIDE DEF U
  <2> QED
    BY <1>1, <1>2, <2>1, Induction
<1>4. MaxPuts \in U
  <2> HIDE DEF U
  <2> QED
    BY <1>3, KeysAssumption
<1>5. \A e \in S : e.seq <= MaxPuts
  BY EntryFacts, KeysAssumption
<1> QED
  BY <1>4, <1>5

-----------------------------------------------------------------------------
(* One level of the list. *)

Nodes(f) == DOMAIN f \ {ListHead}

(* The nodes behind n.                                                     *)
Behind(f, n) == {m \in Nodes(f) : n = ListHead \/ Less(n, m)}

(* n points to the first of them.                                          *)
Leads(f, n) ==
    IF Behind(f, n) = {} THEN f[n] = NoNode
    ELSE f[n] \in Behind(f, n) /\ \A m \in Behind(f, n) : ~Less(m, f[n])

Chain(f) ==
    /\ ListHead \in DOMAIN f /\ Nodes(f) \subseteq Entry /\ Unique(Nodes(f))
    /\ \A n \in DOMAIN f : Leads(f, n)

(* The last node below the key.                                            *)
Below(f, key, m) ==
    /\ m \in DOMAIN f /\ (m # ListHead => Less(m, key))
    /\ \A x \in Nodes(f) : Less(x, key) => m # ListHead /\ (x = m \/ Less(x, m))

LEMMA BelowExists ==
    ASSUME NEW f, Chain(f), NEW key
    PROVE  \E m : Below(f, key, m)
<1> DEFINE S == {x \in Nodes(f) : Less(x, key)}
<1>1. CASE S = {}
  <2>1. Below(f, key, ListHead)
    BY <1>1 DEF Below, Chain
  <2> QED
    BY <2>1
<1>2. CASE S # {}
  <2>1. S \in SUBSET Entry /\ Unique(S)
    BY DEF Chain, Unique
  <2>2. PICK m \in S : \A y \in S : y = m \/ Less(y, m)
    <3> HIDE DEF S
    <3> QED
      BY <1>2, <2>1, GreatestEntry
  <2>3. Below(f, key, m)
    BY <2>2 DEF Below, Nodes
  <2> QED
    BY <2>3
<1> QED
  BY <1>1, <1>2

LEMMA BelowUnique ==
    ASSUME NEW f, Chain(f), NEW key, NEW m, NEW p, Below(f, key, m), Below(f, key, p)
    PROVE  m = p
<1>1. CASE m = ListHead \/ p = ListHead
  BY <1>1 DEF Below, Nodes
<1>2. CASE m # ListHead /\ p # ListHead
  <2>1. m \in Entry /\ p \in Entry
    BY <1>2 DEF Below, Chain, Nodes
  <2>2. IsKey(m) /\ IsKey(p)
    BY <2>1, EntryFacts
  <2>3. (p = m \/ Less(p, m)) /\ (p = m \/ Less(m, p))
    BY <1>2 DEF Below, Nodes
  <2> QED
    BY <2>2, <2>3, LessOrder
<1> QED
  BY <1>1, <1>2

(* A step to the right: from a node below the key, the next one is below   *)
(* it too, unless it was the last.                                         *)
LEMMA StepRight ==
    ASSUME NEW f, Chain(f), NEW key, IsKey(key), NEW n \in DOMAIN f
    PROVE  /\ f[n] # NoNode => f[n] \in Nodes(f) /\ (n = ListHead \/ Less(n, f[n]))
           /\ f[n] # NoNode /\ Less(f[n], key) => n = ListHead \/ Less(n, key)
           /\ (n = ListHead \/ Less(n, key)) /\ ~(f[n] # NoNode /\ Less(f[n], key))
                => Below(f, key, n)
<1>1. Leads(f, n) /\ Nodes(f) \subseteq Entry
  BY DEF Chain
<1>2. ASSUME NEW x \in Nodes(f) PROVE IsKey(x) /\ x # NoNode
  BY <1>1, <1>2, EntryFacts
<1>3. f[n] # NoNode => f[n] \in Nodes(f) /\ (n = ListHead \/ Less(n, f[n]))
  BY <1>1 DEF Leads, Behind
<1>4. f[n] # NoNode /\ Less(f[n], key) => n = ListHead \/ Less(n, key)
  <2> SUFFICES ASSUME f[n] # NoNode, Less(f[n], key), n # ListHead PROVE Less(n, key)
      OBVIOUS
  <2>1. n \in Nodes(f) /\ f[n] \in Nodes(f) /\ Less(n, f[n])
    BY <1>3 DEF Nodes
  <2> QED
    BY <1>2, <2>1, LessOrder
<1>5. ASSUME n = ListHead \/ Less(n, key), ~(f[n] # NoNode /\ Less(f[n], key))
      PROVE  Below(f, key, n)
  <2> SUFFICES ASSUME NEW x \in Nodes(f), Less(x, key)
               PROVE  n # ListHead /\ (x = n \/ Less(x, n))
      BY <1>5 DEF Below
  <2>1. x \notin Behind(f, n)
    <3> SUFFICES ASSUME x \in Behind(f, n) PROVE FALSE
        OBVIOUS
    <3>1. f[n] \in Nodes(f) /\ ~Less(x, f[n])
      BY <1>1 DEF Leads, Behind
    <3>2. IsKey(f[n]) /\ IsKey(x) /\ f[n] # NoNode
      BY <1>2, <3>1
    <3>3. ~Less(f[n], key)
      BY <1>5, <3>2
    <3> QED
      BY <3>1, <3>2, <3>3, LessOrder
  <2>2. n # ListHead /\ ~Less(n, x)
    BY <2>1 DEF Behind
  <2>3. n \in Nodes(f)
    BY <2>2 DEF Nodes
  <2> QED
    BY <1>1, <2>2, <2>3, LessTotal DEF Chain
<1> QED
  BY <1>3, <1>4, <1>5

(* The walk of findPredecessors along one level.                           *)
Walk(g, f, key) ==
    [n \in DOMAIN f |-> IF f[n] # NoNode /\ Less(f[n], key) THEN g[f[n]] ELSE n]

LEMMA WalkExists ==
    ASSUME NEW f, Chain(f), NEW key, IsKey(key)
    PROVE  \E g : g = Walk(g, f, key)
<1>1. PICK p : Below(f, key, p)
  BY BelowExists
<1>2. PICK g : g = [n \in DOMAIN f |-> IF n = ListHead \/ Less(n, key) THEN p ELSE n]
  OBVIOUS
<1>3. ASSUME NEW n \in DOMAIN f
      PROVE  g[n] = IF f[n] # NoNode /\ Less(f[n], key) THEN g[f[n]] ELSE n
  <2>1. CASE f[n] # NoNode /\ Less(f[n], key)
    <3>1. f[n] \in DOMAIN f /\ (n = ListHead \/ Less(n, key))
      BY <2>1, StepRight DEF Nodes
    <3> QED
      BY <1>2, <2>1, <3>1
  <2>2. CASE ~(f[n] # NoNode /\ Less(f[n], key))
    <3>1. n = ListHead \/ Less(n, key) => n = p
      BY <1>1, <2>2, StepRight, BelowUnique
    <3> QED
      BY <1>2, <2>2, <3>1
  <2> QED
    BY <2>1, <2>2
<1>4. g = Walk(g, f, key)
  BY <1>2, <1>3 DEF Walk
<1> QED
  BY <1>4

LEMMA WalkEnds ==
    ASSUME NEW f, Chain(f), NEW key, IsKey(key), NEW g, g = Walk(g, f, key),
           NEW p, Below(f, key, p), NEW n \in DOMAIN f, n = ListHead \/ Less(n, key)
    PROVE  g[n] = p
<1>1. \A x \in DOMAIN f :
        g[x] = IF f[x] # NoNode /\ Less(f[x], key) THEN g[f[x]] ELSE x
  BY DEF Walk
<1> DEFINE Bad == {x \in Nodes(f) : Less(x, key) /\ g[x] # p}
(* The last node that would go astray.                                     *)
<1>2. ASSUME NEW x \in DOMAIN f, x = ListHead \/ Less(x, key),
             \A y \in Nodes(f) : (x = ListHead \/ Less(x, y)) => y \notin Bad
      PROVE  g[x] = p
  <2>1. CASE f[x] # NoNode /\ Less(f[x], key)
    <3>1. f[x] \in Nodes(f) /\ (x = ListHead \/ Less(x, f[x]))
      BY <2>1, StepRight
    <3>2. g[f[x]] = p
      BY <1>2, <2>1, <3>1
    <3> QED
      BY <1>1, <2>1, <3>2
  <2>2. CASE ~(f[x] # NoNode /\ Less(f[x], key))
    <3>1. Below(f, key, x)
      BY <1>2, <2>2, StepRight
    <3>2. x = p
      BY <3>1, BelowUnique
    <3> QED
      BY <1>1, <2>2, <3>2
  <2> QED
    BY <2>1, <2>2
<1>3. Bad = {}
  <2> SUFFICES ASSUME Bad # {} PROVE FALSE
      OBVIOUS
  <2>1. Bad \in SUBSET Entry /\ Unique(Bad) /\ Bad \subseteq Nodes(f)
    BY DEF Chain, Unique
  <2>2. PICK x \in Bad : \A y \in Bad : y = x \/ Less(y, x)
    <3> HIDE DEF Bad
    <3> QED
      BY <2>1, GreatestEntry
  <2>3. x \in Nodes(f) /\ x \in DOMAIN f /\ x # ListHead /\ Less(x, key) /\ g[x] # p
    BY <2>2 DEF Nodes
  <2>4. ASSUME NEW y \in Nodes(f), Less(x, y), y \in Bad PROVE FALSE
    <3>1. IsKey(x) /\ IsKey(y) /\ (y = x \/ Less(y, x))
      BY <2>1, <2>2, <2>4, EntryFacts
    <3> QED
      BY <2>4, <3>1, LessOrder
  <2> HIDE DEF Bad
  <2> QED
    BY <1>2, <2>3, <2>4
<1> QED
  BY <1>2, <1>3

LEMMA WalkRightEnds ==
    ASSUME NEW l, Chain(next[l]), NEW key, IsKey(key), NEW from \in DOMAIN next[l],
           from = ListHead \/ Less(from, key), NEW p, Below(next[l], key, p)
    PROVE  WalkRight(l, from, key) = p
<1>1. PICK f : f = next[l]
  OBVIOUS
<1> DEFINE chosen == CHOOSE g : g = Walk(g, f, key)
<1>2. WalkRight(l, from, key) = chosen[from]
  BY <1>1 DEF WalkRight, Walk
<1>3. chosen = Walk(chosen, f, key)
  BY <1>1, WalkExists
<1> HIDE DEF chosen
<1> QED
  BY <1>1, <1>2, <1>3, WalkEnds

-----------------------------------------------------------------------------
(* All levels. *)

(* Each level is a chain through some of the nodes of the one below it.    *)
Linked ==
    /\ \A l \in Levels : Chain(next[l])
    /\ \A l, m \in Levels : l <= m => DOMAIN next[m] \subseteq DOMAIN next[l]

(* The search of findPredecessors, level by level.                         *)
Descent(q, key) ==
    [l \in Levels |-> WalkRight(l, IF l = MaxLevel THEN ListHead ELSE q[l + 1], key)]

LEMMA DescentStep ==
    ASSUME Linked, NEW key, IsKey(key), NEW l \in Levels, NEW q,
           l # MaxLevel => Below(next[l + 1], key, q[l + 1])
    PROVE  Below(next[l], key, WalkRight(l, IF l = MaxLevel THEN ListHead ELSE q[l + 1], key))
<1>1. Chain(next[l])
  BY DEF Linked
<1>2. PICK p : Below(next[l], key, p)
  BY <1>1, BelowExists
<1>3. PICK from : from = IF l = MaxLevel THEN ListHead ELSE q[l + 1]
  OBVIOUS
<1>4. from \in DOMAIN next[l] /\ (from = ListHead \/ Less(from, key))
  <2>1. CASE l = MaxLevel
    BY <1>1, <1>3, <2>1 DEF Chain
  <2>2. CASE l # MaxLevel
    <3>1. l + 1 \in Levels /\ l <= l + 1
      BY <2>2, LevelAssumption DEF Levels
    <3>2. DOMAIN next[l + 1] \subseteq DOMAIN next[l]
      BY <3>1 DEF Linked
    <3> QED
      BY <1>3, <2>2, <3>2 DEF Below
  <2> QED
    BY <2>1, <2>2
<1>5. WalkRight(l, from, key) = p
  BY <1>1, <1>2, <1>4, WalkRightEnds
<1> QED
  BY <1>2, <1>3, <1>5

LEMMA Predecessors ==
    ASSUME Linked, NEW key, IsKey(key)
    PROVE  \A l \in Levels : Below(next[l], key, FindPredecessors(key)[l])
<1>1. \E q : q = Descent(q, key)
  <2>1. PICK q : q = [l \in Levels |-> CHOOSE p : Below(next[l], key, p)]
    OBVIOUS
  <2>2. \A l \in Levels : Below(next[l], key, q[l])
    <3> TAKE l \in Levels
    <3>1. \E p : Below(next[l], key, p)
      BY BelowExists DEF Linked
    <3> QED
      BY <2>1, <3>1
  <2>3. ASSUME NEW l \in Levels
        PROVE  q[l] = WalkRight(l, IF l = MaxLevel THEN ListHead ELSE q[l + 1], key)
    <3>1. l # MaxLevel => l + 1 \in Levels
      BY LevelAssumption DEF Levels
    <3>2. Below(next[l], key, WalkRight(l, IF l = MaxLevel THEN ListHead ELSE q[l + 1], key))
      BY <2>2, <3>1, DescentStep
    <3> QED
      BY <2>2, <3>2, BelowUnique DEF Linked
  <2>4. q = Descent(q, key)
    BY <2>1, <2>3 DEF Descent
  <2> QED
    BY <2>4
<1> DEFINE chosen == CHOOSE q : q = Descent(q, key)
<1>2. FindPredecessors(key) = [l \in Levels |-> chosen[l]]
  BY DEF FindPredecessors, Descent
<1>3. chosen = Descent(chosen, key)
  BY <1>1
<1> HIDE DEF chosen
<1>4. \A l \in Levels :
        chosen[l] = WalkRight(l, IF l = MaxLevel THEN ListHead ELSE chosen[l + 1], key)
  BY <1>3 DEF Descent
<1> DEFINE U == {d \in Nat : d < MaxLevel => Below(next[MaxLevel - d], key, chosen[MaxLevel - d])}
<1>5. ASSUME NEW d \in Nat, d < MaxLevel,
             d # 0 => Below(next[MaxLevel - (d - 1)], key, chosen[MaxLevel - (d - 1)])
      PROVE  Below(next[MaxLevel - d], key, chosen[MaxLevel - d])
  <2>1. PICK l \in Levels : l = MaxLevel - d
    BY <1>5, LevelAssumption DEF Levels
  <2>2. l # MaxLevel => l + 1 = MaxLevel - (d - 1) /\ d # 0
    BY <2>1, LevelAssumption DEF Levels
  <2>3. l # MaxLevel => Below(next[l + 1], key, chosen[l + 1])
    BY <1>5, <2>2
  <2>4. Below(next[l], key, WalkRight(l, IF l = MaxLevel THEN ListHead ELSE chosen[l + 1], key))
    BY <2>3, DescentStep
  <2> QED
    BY <1>4, <2>1, <2>4
<1>6. U = Nat
  <2>1. U \in SUBSET Nat
    OBVIOUS
  <2>2. 0 \in U
    BY <1>5
  <2>3. ASSUME NEW d \in U PROVE d + 1 \in U
    <3>1. d \in Nat /\ d + 1 \in Nat /\ (d + 1) - 1 = d
      OBVIOUS
    <3>2. d + 1 < MaxLevel => d < MaxLevel
      BY <3>1, LevelAssumption
    <3> QED
      BY <1>5, <3>1, <3>2
  <2> HIDE DEF U
  <2> QED
    BY <2>1, <2>2, <2>3, Induction
<1> TAKE l \in Levels
<1>7. PICK d \in Nat : d < MaxLevel /\ l = MaxLevel - d
  <2>1. MaxLevel - l \in Nat /\ MaxLevel - l < MaxLevel /\ l = MaxLevel - (MaxLevel - l)
    BY LevelAssumption DEF Levels
  <2> QED
    BY <2>1
<1>8. d \in U
  <2> HIDE DEF U
  <2> QED
    BY <1>6
<1> QED
  BY <1>2, <1>7, <1>8

(* Put links the new node behind the last one below it.                    *)
LEMMA PutLinks ==
    ASSUME NEW f, Chain(f), NEW e \in Entry, \A x \in Nodes(f) : x.seq # e.seq,
           NEW p, Below(f, e, p), NEW g,
           g = [n \in DOMAIN f \cup {e} |->
                  CASE n = e -> f[p] [] n = p -> e [] OTHER -> f[n]]
    PROVE  Chain(g) /\ Nodes(g) = Nodes(f) \cup {e}
<1>1. IsKey(e) /\ e # ListHead /\ e # NoNode
  BY EntryFacts
<1>2. ASSUME NEW x \in Nodes(f)
      PROVE  /\ x \in Entry /\ IsKey(x) /\ x # e /\ x # NoNode
             /\ Less(x, e) \/ Less(e, x)
  <2>1. x \in Entry /\ x.seq # e.seq
    BY <1>2 DEF Chain
  <2> QED
    BY <1>1, <2>1, EntryFacts, LessOrder
<1>3. Nodes(g) = Nodes(f) \cup {e} /\ DOMAIN g = DOMAIN f \cup {e} /\ e \notin DOMAIN f
  BY <1>1, <1>2 DEF Nodes
<1>4. p \in DOMAIN f /\ p # e
  BY <1>3 DEF Below
<1>5. \A m \in Nodes(f) : m \in Behind(f, p) <=> Less(e, m)
  <2> TAKE m \in Nodes(f)
  <2>1. CASE p = ListHead
    BY <1>1, <1>2, <2>1, LessOrder DEF Below, Behind
  <2>2. CASE p # ListHead
    <3>1. p \in Nodes(f) /\ Less(p, e)
      BY <2>2 DEF Below, Nodes
    <3>2. Less(m, e) => m = p \/ Less(m, p)
      BY DEF Below
    <3>3. IsKey(m) /\ IsKey(p) /\ (Less(m, e) \/ Less(e, m))
      BY <1>2, <3>1
    <3> QED
      BY <1>1, <2>2, <3>1, <3>2, <3>3, LessOrder DEF Behind
  <2> QED
    BY <2>1, <2>2
<1>6. Leads(g, e)
  <2>1. Behind(g, e) = Behind(f, p)
    BY <1>1, <1>3, <1>5, LessOrder DEF Behind
  <2>2. g[e] = f[p] /\ Leads(f, p)
    BY <1>3, <1>4 DEF Chain
  <2> QED
    BY <2>1, <2>2 DEF Leads
<1>7. Leads(g, p)
  <2>1. g[p] = e
    BY <1>4
  <2>2. e \in Behind(g, p)
    BY <1>3 DEF Behind, Below
  <2>3. ASSUME NEW m \in Behind(g, p) PROVE ~Less(m, e)
    <3>1. m = e \/ (m \in Nodes(f) /\ m \in Behind(f, p))
      BY <1>3 DEF Behind
    <3>2. m \in Nodes(f) /\ m \in Behind(f, p) => Less(e, m) /\ IsKey(m)
      BY <1>2, <1>5
    <3> QED
      BY <1>1, <3>1, <3>2, LessOrder
  <2> QED
    BY <2>1, <2>2, <2>3 DEF Leads
<1>8. ASSUME NEW n \in DOMAIN f, n # p PROVE Leads(g, n)
  <2>1. g[n] = f[n] /\ Leads(f, n)
    BY <1>3, <1>8 DEF Chain
  <2>2. CASE e \notin Behind(g, n)
    <3>1. Behind(g, n) = Behind(f, n)
      BY <1>3, <2>2 DEF Behind
    <3> QED
      BY <2>1, <3>1 DEF Leads
  <2>3. CASE e \in Behind(g, n)
    <3>1. Behind(g, n) = Behind(f, n) \cup {e}
      BY <1>3, <2>3 DEF Behind
    <3>2. p \in Behind(f, n) /\ p \in Nodes(f) /\ Less(p, e)
      <4>1. CASE n = ListHead
        BY <1>8, <4>1 DEF Below, Nodes, Behind
      <4>2. CASE n # ListHead
        <5>1. n \in Nodes(f) /\ Less(n, e)
          BY <2>3, <4>2 DEF Nodes, Behind
        <5> QED
          BY <1>8, <5>1 DEF Below, Nodes, Behind
      <4> QED
        BY <4>1, <4>2
    <3>3. f[n] \in Behind(f, n) /\ \A m \in Behind(f, n) : ~Less(m, f[n])
      BY <2>1, <3>2 DEF Leads
    <3>4. f[n] \in Nodes(f) /\ ~Less(p, f[n])
      BY <3>2, <3>3 DEF Behind
    <3>5. IsKey(f[n]) /\ IsKey(p)
      BY <1>2, <3>2, <3>4
    <3>6. ~Less(e, f[n])
      BY <1>1, <3>2, <3>4, <3>5, LessOrder
    <3> QED
      BY <2>1, <3>1, <3>3, <3>6 DEF Leads
  <2> QED
    BY <2>2, <2>3
<1>9. Unique(Nodes(g)) /\ Nodes(g) \subseteq Entry /\ ListHead \in DOMAIN g
  <2>1. Unique(Nodes(f)) /\ Nodes(f) \subseteq Entry /\ ListHead \in DOMAIN f
    BY DEF Chain
  <2>2. Unique(Nodes(f) \cup {e})
    BY <2>1 DEF Unique
  <2> QED
    BY <1>3, <2>1, <2>2
<1> QED
  BY <1>3, <1>6, <1>7, <1>8, <1>9 DEF Chain

-----------------------------------------------------------------------------
(* The list with its counters. *)

ListInv ==
    /\ Linked
    /\ level \in Levels /\ length \in 0..MaxPuts
    /\ \A l \in Levels : Nodes(next[l]) # {} => l <= level
    /\ \A l \in Levels : 1 < l /\ l <= level => Nodes(next[l]) # {}
    /\ \A e \in InMemtable : e.seq <= length
    /\ IsFiniteSet(InMemtable) /\ Cardinality(InMemtable) = length

LEMMA OneIsLevel == 1 \in Levels /\ \A l \in Levels : l \in Nat /\ 1 <= l /\ l <= MaxLevel
  BY LevelAssumption DEF Levels

LEMMA MemtableFacts ==
    ASSUME Linked
    PROVE  /\ InMemtable = Nodes(next[1]) /\ Chain(next[1])
           /\ InMemtable \subseteq Entry /\ Unique(InMemtable)
           /\ \A l \in Levels : Nodes(next[l]) \subseteq InMemtable
<1>1. InMemtable = Nodes(next[1]) /\ Chain(next[1])
  BY OneIsLevel DEF Linked, InMemtable, Nodes
<1>2. \A l \in Levels : DOMAIN next[l] \subseteq DOMAIN next[1]
  BY OneIsLevel DEF Linked
<1> QED
  BY <1>1, <1>2 DEF Chain, Nodes

LEMMA ListInit == MemInit => ListInv
<1> SUFFICES ASSUME MemInit PROVE ListInv
    OBVIOUS
<1>1. \A l \in Levels : next[l] = [n \in {ListHead} |-> NoNode]
  BY DEF MemInit
<1>2. \A l \in Levels : Nodes(next[l]) = {} /\ DOMAIN next[l] = {ListHead} /\ next[l][ListHead] = NoNode
  BY <1>1 DEF Nodes
<1>3. \A l \in Levels : Chain(next[l])
  BY <1>2 DEF Chain, Unique, Leads, Behind
<1>4. Linked
  BY <1>2, <1>3 DEF Linked
<1>5. InMemtable = {}
  BY <1>2, OneIsLevel DEF InMemtable, Nodes
<1>6. level \in Levels /\ length \in 0..MaxPuts /\ length = 0
  BY OneIsLevel, KeysAssumption DEF MemInit
<1>7. \A l \in Levels : ~(1 < l /\ l <= level)
  BY OneIsLevel DEF MemInit
<1> QED
  BY <1>2, <1>4, <1>5, <1>6, <1>7, FS_EmptySet DEF ListInv

(* Put keeps the towers linked and the counters right.                     *)
LEMMA MemPutKeeps ==
    ASSUME ListInv, NEW e \in Entry, e.seq = length + 1, NEW h \in Levels,
           MemPut(e, h)
    PROVE  ListInv' /\ InMemtable' = InMemtable \cup {e}
<1> DEFINE found == FindPredecessors(e)
           preds == [l \in Levels |-> IF l > level THEN ListHead ELSE found[l]]
<1>1. \A l \in Levels : next'[l] =
         IF l > h THEN next[l]
         ELSE [n \in DOMAIN next[l] \cup {e} |->
                 CASE n = e        -> next[l][preds[l]]
                   [] n = preds[l] -> e
                   [] OTHER        -> next[l][n]]
  BY DEF MemPut
<1>2. level' = (IF h > level THEN h ELSE level) /\ length' = length + 1
  BY DEF MemPut, RaisedLevel
<1>3. IsKey(e) /\ e.seq \in 1..MaxPuts /\ length \in Nat
  BY EntryFacts, KeysAssumption DEF ListInv
<1>4. Linked /\ level \in Levels
  BY DEF ListInv
<1>5. \A x \in InMemtable : x.seq # e.seq
  <2> TAKE x \in InMemtable
  <2>1. x.seq \in Nat /\ x.seq <= length
    BY <1>4, MemtableFacts, EntryFacts DEF ListInv, IsKey
  <2> QED
    BY <1>3, <2>1
<1>6. ASSUME NEW l \in Levels PROVE Below(next[l], e, preds[l])
  <2>1. Below(next[l], e, found[l])
    BY <1>3, <1>4, Predecessors
  <2>2. CASE l > level
    <3>1. Nodes(next[l]) = {}
      BY <1>4, <2>2, OneIsLevel DEF ListInv
    <3>2. ListHead \in DOMAIN next[l]
      BY <1>4 DEF Linked, Chain
    <3> QED
      BY <2>2, <3>1, <3>2 DEF Below
  <2>3. CASE ~(l > level)
    BY <2>1, <2>3
  <2> QED
    BY <2>2, <2>3
<1> HIDE DEF preds
<1>7. ASSUME NEW l \in Levels
      PROVE  /\ Chain(next'[l])
             /\ Nodes(next'[l]) = IF l > h THEN Nodes(next[l]) ELSE Nodes(next[l]) \cup {e}
             /\ DOMAIN next'[l] = IF l > h THEN DOMAIN next[l] ELSE DOMAIN next[l] \cup {e}
  <2>1. Chain(next[l]) /\ \A x \in Nodes(next[l]) : x.seq # e.seq
    BY <1>4, <1>5, MemtableFacts DEF Linked
  <2>2. CASE l > h
    BY <1>1, <2>1, <2>2
  <2>3. CASE ~(l > h)
    <3>1. PICK p : p = preds[l] /\ Below(next[l], e, p)
      BY <1>6
    <3>2. next'[l] = [n \in DOMAIN next[l] \cup {e} |->
                        CASE n = e -> next[l][p] [] n = p -> e [] OTHER -> next[l][n]]
      BY <1>1, <2>3, <3>1
    <3>3. Chain(next'[l]) /\ Nodes(next'[l]) = Nodes(next[l]) \cup {e}
      BY <2>1, <3>1, <3>2, PutLinks
    <3> QED
      BY <2>3, <3>2, <3>3
  <2> QED
    BY <2>2, <2>3
<1>8. Linked'
  <2>1. ASSUME NEW l \in Levels, NEW m \in Levels, l <= m
        PROVE  DOMAIN next'[m] \subseteq DOMAIN next'[l]
    <3>1. DOMAIN next[m] \subseteq DOMAIN next[l]
      BY <1>4, <2>1 DEF Linked
    <3>2. ~(m > h) => ~(l > h)
      BY <2>1, OneIsLevel
    <3> QED
      BY <1>7, <3>1, <3>2
  <2> QED
    BY <1>7, <2>1 DEF Linked
<1>9. InMemtable' = InMemtable \cup {e}
  <2>1. 1 \in Levels /\ ~(1 > h)
    BY OneIsLevel
  <2> QED
    BY <1>7, <2>1 DEF InMemtable, Nodes
<1>10. level' \in Levels /\ length' \in 0..MaxPuts
  BY <1>2, <1>3, <1>4
<1>11. ASSUME NEW l \in Levels, Nodes(next'[l]) # {} PROVE l <= level'
  <2>1. l > h => Nodes(next[l]) # {}
    BY <1>7, <1>11
  <2>2. l <= h \/ l <= level
    BY <2>1, OneIsLevel DEF ListInv
  <2> QED
    BY <1>2, <1>4, <2>2, OneIsLevel
<1>12. ASSUME NEW x \in InMemtable' PROVE x.seq <= length'
  <2>1. x = e \/ (x.seq \in Nat /\ x.seq <= length)
    BY <1>4, <1>9, MemtableFacts, EntryFacts DEF ListInv, IsKey
  <2> QED
    BY <1>2, <1>3, <2>1
<1>13. IsFiniteSet(InMemtable') /\ Cardinality(InMemtable') = length'
  <2>1. e \notin InMemtable
    BY <1>5
  <2>2. IsFiniteSet(InMemtable) /\ Cardinality(InMemtable) = length
    BY DEF ListInv
  <2>3. IsFiniteSet(InMemtable \cup {e}) /\ Cardinality(InMemtable \cup {e}) = length + 1
    BY <2>1, <2>2, FS_AddElement
  <2> QED
    BY <1>2, <1>9, <2>3
<1>14. ASSUME NEW l \in Levels, 1 < l, l <= level' PROVE Nodes(next'[l]) # {}
  <2>1. ~(l > h) \/ l <= level
    BY <1>2, <1>4, <1>14, OneIsLevel
  <2>2. CASE ~(l > h)
    BY <1>7, <2>2
  <2>3. CASE l > h
    <3>1. Nodes(next[l]) # {}
      BY <1>14, <2>1, <2>3 DEF ListInv
    <3> QED
      BY <1>7, <2>3, <3>1
  <2> QED
    BY <2>2, <2>3
<1> QED
  BY <1>8, <1>9, <1>10, <1>11, <1>12, <1>13, <1>14 DEF ListInv

-----------------------------------------------------------------------------
(* Reads of the memtable. *)

(* The node behind the predecessor is the first one that is not below the  *)
(* key.                                                                    *)
LEMMA SeekFinds ==
    ASSUME Linked, NEW key, IsKey(key), NEW node,
           node = next[1][FindPredecessors(key)[1]]
    PROVE  IF \E x \in InMemtable : ~Less(x, key)
           THEN /\ node \in InMemtable /\ ~Less(node, key)
                /\ \A x \in InMemtable : ~Less(x, key) => ~Less(x, node)
           ELSE node = NoNode
<1>1. PICK f : f = next[1] /\ Chain(f) /\ InMemtable = Nodes(f)
  BY MemtableFacts
<1>2. PICK p : p = FindPredecessors(key)[1] /\ Below(f, key, p)
  BY <1>1, Predecessors, OneIsLevel
<1>3. \A x \in Nodes(f) : x \in Behind(f, p) <=> ~Less(x, key)
  <2> TAKE x \in Nodes(f)
  <2>0. Nodes(f) \subseteq Entry
    BY <1>1 DEF Chain
  <2>1. CASE p = ListHead
    BY <1>2, <2>1 DEF Below, Behind
  <2>2. CASE p # ListHead
    <3>1. p \in Nodes(f) /\ Less(p, key)
      BY <1>2, <2>2 DEF Below, Nodes
    <3>2. IsKey(x) /\ IsKey(p)
      BY <2>0, <3>1, EntryFacts
    <3>3. Less(x, key) => x = p \/ Less(x, p)
      BY <1>2 DEF Below
    <3> QED
      BY <2>2, <3>1, <3>2, <3>3, LessOrder DEF Behind
  <2> QED
    BY <2>1, <2>2
<1>4. Leads(f, p) /\ node = f[p]
  BY <1>1, <1>2 DEF Chain, Below
<1> QED
  BY <1>1, <1>3, <1>4 DEF Leads, Behind

(* What the reference answers.                                             *)
LEMMA LookupIs ==
    ASSUME NEW S \in SUBSET Entry, Unique(S), NEW k, NEW s \in Nat, NEW e \in Visible(S, k, s),
           \A f \in Visible(S, k, s) : f.seq <= e.seq
    PROVE  Lookup(S, k, s) = IF e.kind = "delete" THEN Deleted ELSE e
<1> DEFINE V == Visible(S, k, s)
           c == CHOOSE x \in V : \A f \in V : f.seq <= x.seq
<1>1. c \in V /\ \A f \in V : f.seq <= c.seq
  OBVIOUS
<1>2. c \in S /\ e \in S
  BY <1>1 DEF Visible
<1>3. c.seq \in Nat /\ e.seq \in Nat
  BY <1>2, EntryFacts DEF IsKey
<1>4. c.seq = e.seq
  BY <1>1, <1>3
<1>5. c = e
  BY <1>2, <1>4 DEF Unique
<1> QED
  BY <1>5 DEF Lookup

LEMMA MemGetAnswers ==
    ASSUME Linked, NEW k \in UserKeys, NEW s \in 0..MaxSeqno
    PROVE  MemGet(k, s) = Lookup(InMemtable, k, s)
<1>0. k \in Nat /\ s \in Nat
  BY KeysAssumption DEF MaxSeqno
<1>1. PICK key : key = [key |-> k, seq |-> s]
  OBVIOUS
<1>2. key.key = k /\ key.seq = s /\ IsKey(key)
  BY <1>0, <1>1 DEF IsKey
<1>3. PICK node : node = next[1][FindPredecessors(key)[1]]
  OBVIOUS
<1>4. MemGet(k, s) = IF node = NoNode THEN NotFound
                     ELSE IF node.key # k \/ node.seq > s THEN NotFound
                     ELSE IF node.kind = "delete" THEN Deleted ELSE node
  BY <1>1, <1>3 DEF MemGet
<1>5. InMemtable \subseteq Entry /\ Unique(InMemtable)
  BY MemtableFacts
<1>6. \A x \in InMemtable : x \in Visible(InMemtable, k, s) <=> x.key = k /\ ~Less(x, key)
  <2> TAKE x \in InMemtable
  <2>1. IsKey(x)
    BY <1>5, EntryFacts
  <2> QED
    BY <1>0, <1>2, <2>1 DEF Visible, Less, IsKey
<1>7. CASE node = NoNode
  <2>1. \A x \in InMemtable : Less(x, key)
    BY <1>2, <1>3, <1>5, <1>7, SeekFinds, EntryFacts
  <2>2. Visible(InMemtable, k, s) = {}
    BY <1>6, <2>1 DEF Visible
  <2> QED
    BY <1>4, <1>7, <2>2 DEF Lookup
<1>8. CASE node # NoNode
  <2>1. node \in InMemtable /\ ~Less(node, key)
        /\ \A x \in InMemtable : ~Less(x, key) => ~Less(x, node)
    BY <1>2, <1>3, <1>8, SeekFinds
  <2>2. IsKey(node) /\ node \in Entry
    BY <1>5, <2>1, EntryFacts
  <2>3. CASE node.key = k
    <3>1. node \in Visible(InMemtable, k, s)
      BY <1>6, <2>1, <2>3
    <3>2. ~(node.seq > s)
      BY <3>1, <1>0, <2>2 DEF Visible, IsKey
    <3>3. ASSUME NEW x \in Visible(InMemtable, k, s) PROVE x.seq <= node.seq
      <4>1. x \in InMemtable /\ x.key = k
        BY <3>3 DEF Visible
      <4>2. ~Less(x, node) /\ IsKey(x)
        BY <1>5, <1>6, <2>1, <3>3, <4>1, EntryFacts
      <4> QED
        BY <2>2, <2>3, <4>1, <4>2 DEF Less, IsKey
    <3>4. Lookup(InMemtable, k, s) = IF node.kind = "delete" THEN Deleted ELSE node
      BY <1>0, <1>5, <3>1, <3>3, LookupIs
    <3> QED
      BY <1>4, <1>8, <2>3, <3>2, <3>4
  <2>4. CASE node.key # k
    <3>1. ASSUME NEW x \in Visible(InMemtable, k, s) PROVE FALSE
      <4>1. x \in InMemtable /\ x.key = k /\ ~Less(x, key)
        BY <1>6, <3>1 DEF Visible
      <4>2. ~Less(x, node) /\ IsKey(x)
        BY <1>5, <2>1, <4>1, EntryFacts
      <4> QED
        BY <1>2, <2>1, <2>2, <2>4, <4>1, <4>2 DEF Less, IsKey
    <3> QED
      BY <1>4, <1>8, <2>4, <3>1 DEF Lookup
  <2> QED
    BY <2>3, <2>4
<1> QED
  BY <1>7, <1>8

-----------------------------------------------------------------------------
(* The size of a block. *)

Sizes(h, b) ==
    /\ h \in [0..Len(b) -> Nat] /\ h[0] = 0
    /\ \A i \in 1..Len(b) : h[i] = h[i - 1] + EncodedEntrySize(b[i])

LEMMA SizeSums ==
    ASSUME NEW b \in Seq(Entry)
    PROVE  \E h : Sizes(h, b) /\ BlockSize(b) = h[Len(b)]
<1>1. PICK n \in Nat : n = Len(b)
  OBVIOUS
<1>2. \A i \in 1..n : b[i] \in Entry /\ EncodedEntrySize(b[i]) \in Nat
  BY <1>1, EntryFacts, SizesAssumption DEF EncodedEntrySize
<1>3. PICK G : G = [p \in Nat \X (1..n) |-> p[1] + EncodedEntrySize(b[p[2]])]
  OBVIOUS
<1>4. G \in [Nat \X (1..n) -> Nat]
  BY <1>2, <1>3
<1>5. \A x \in Nat, i \in 1..n : G[x, i] = x + EncodedEntrySize(b[i])
  BY <1>3
<1> DEFINE Step(h, i) == IF i = 0 THEN 0 ELSE h[i - 1] + EncodedEntrySize(b[i])
           F(h) == [i \in 0..n |-> Step(h, i)]
           chosen == CHOOSE h : h = F(h)
<1>6. \E h : h = F(h)
  <2>1. PICK h : Iterates(h, n, Nat, 0, G)
    BY <1>4, IterationExists
  <2>2. h \in [0..n -> Nat] /\ h[0] = 0 /\ \A k \in 1..n : h[k] = G[h[k - 1], k]
    BY <2>1 DEF Iterates
  <2>3. ASSUME NEW i \in 0..n PROVE h[i] = Step(h, i)
    <3>1. CASE i = 0
      BY <2>2, <3>1
    <3>2. CASE i # 0
      <4>1. i \in 1..n /\ i - 1 \in 0..n
        BY ONLY <3>2, i \in 0..n, n \in Nat
      <4>2. h[i - 1] \in Nat /\ h[i] = G[h[i - 1], i]
        BY ONLY <2>2, <4>1
      <4> QED
        BY <1>5, <3>2, <4>1, <4>2
    <3> QED
      BY <3>1, <3>2
  <2> HIDE DEF Step
  <2>4. h = F(h)
    BY <2>2, <2>3
  <2> QED
    BY <2>4
<1>7. chosen = F(chosen)
  <2> HIDE DEF F
  <2> QED
    BY <1>6
<1>8. BlockSize(b) = chosen[n]
  BY <1>1 DEF BlockSize
<1>9. PICK h : h = F(h) /\ BlockSize(b) = h[n]
  <2> HIDE DEF F, chosen
  <2> QED
    BY <1>7, <1>8
<1>10. h = [i \in 0..n |-> h[i]] /\ \A i \in 0..n : h[i] = Step(h, i)
  <2> HIDE DEF Step
  <2> QED
    BY ONLY <1>9
<1>11. h[0] = 0 /\ \A i \in 1..n : h[i] = h[i - 1] + EncodedEntrySize(b[i])
  <2>1. 0 \in 0..n /\ \A i \in 1..n : i \in 0..n /\ i # 0
    BY ONLY n \in Nat
  <2> QED
    BY ONLY <1>10, <2>1
<1> HIDE DEF F, Step, chosen
<1>12. Iterates(h, n, Nat, 0, G)
  <2>1. \A k \in 1..n : h[k - 1] \in Nat => h[k] = G[h[k - 1], k]
    BY ONLY <1>5, <1>11
  <2>2. h = [k \in 0..n |-> h[k]]
    BY ONLY <1>10
  <2>3. h[0] = 0 /\ 0 \in Nat
    BY ONLY <1>11
  <2> QED
    BY ONLY <1>4, <2>1, <2>2, <2>3, n \in Nat, StepsIterate, Zenon
<1>13. h \in [0..n -> Nat]
  BY ONLY <1>12 DEF Iterates
<1>14. Sizes(h, b) /\ BlockSize(b) = h[Len(b)]
  BY ONLY <1>1, <1>9, <1>11, <1>13 DEF Sizes
<1> QED
  BY <1>14

LEMMA SizeFacts ==
    ASSUME NEW b \in Seq(Entry), NEW e \in Entry
    PROVE  /\ BlockSize(b) \in Nat
           /\ BlockSize(Append(b, e)) = BlockSize(b) + EncodedEntrySize(e)
           /\ EncodedEntrySize(e) \in Nat
<1>1. PICK h : Sizes(h, b) /\ BlockSize(b) = h[Len(b)]
  BY SizeSums
<1>2. PICK n \in Nat : n = Len(b)
  OBVIOUS
<1>3. PICK c \in Seq(Entry) : c = Append(b, e)
  BY AppendProperties
<1>4. Len(c) = n + 1 /\ c[n + 1] = e /\ \A i \in 1..n : c[i] = b[i]
  BY <1>2, <1>3
<1>5. PICK g : Sizes(g, c) /\ BlockSize(c) = g[Len(c)]
  BY SizeSums
<1>6. /\ h \in [0..n -> Nat] /\ h[0] = 0
      /\ \A i \in 1..n : h[i] = h[i - 1] + EncodedEntrySize(b[i])
  BY <1>1, <1>2 DEF Sizes
<1>7. /\ g[0] = 0
      /\ \A i \in 1..(n + 1) : g[i] = g[i - 1] + EncodedEntrySize(c[i])
  BY <1>4, <1>5 DEF Sizes
<1> DEFINE U == {k \in Nat : k <= n => g[k] = h[k]}
<1>8. U = Nat
  <2>1. 0 \in U /\ U \in SUBSET Nat
    BY <1>6, <1>7
  <2>2. ASSUME NEW k \in U PROVE k + 1 \in U
    <3>1. k \in Nat /\ k + 1 \in Nat
      BY ONLY k \in U
    <3>2. ASSUME k + 1 <= n PROVE g[k + 1] = h[k + 1]
      <4>1. k <= n /\ k + 1 \in 1..n /\ k + 1 \in 1..(n + 1) /\ (k + 1) - 1 = k
        BY ONLY <3>1, <3>2, n \in Nat
      <4>2. g[k] = h[k]
        BY ONLY <4>1, k \in U
      <4>3. /\ h[k + 1] = h[k] + EncodedEntrySize(b[k + 1])
            /\ g[k + 1] = g[k] + EncodedEntrySize(b[k + 1])
        BY ONLY <1>4, <1>6, <1>7, <4>1
      <4> QED
        BY ONLY <4>2, <4>3
    <3> QED
      BY ONLY <3>1, <3>2
  <2> HIDE DEF U
  <2> QED
    BY ONLY <2>1, <2>2, Induction
<1>9. g[n] = h[n]
  <2>1. n \in U
    <3> HIDE DEF U
    <3> QED
      BY ONLY <1>8, n \in Nat
  <2> QED
    BY ONLY <2>1, n \in Nat
<1>10. g[n + 1] = g[n] + EncodedEntrySize(e) /\ h[n] \in Nat
  <2>1. n + 1 \in 1..(n + 1) /\ (n + 1) - 1 = n /\ n \in 0..n
    BY ONLY n \in Nat
  <2> QED
    BY ONLY <1>4, <1>6, <1>7, <2>1
<1>11. EncodedEntrySize(e) \in Nat
  BY EntryFacts, SizesAssumption DEF EncodedEntrySize
<1> HIDE DEF U
<1> QED
  BY ONLY <1>1, <1>2, <1>3, <1>4, <1>5, <1>9, <1>10, <1>11

-----------------------------------------------------------------------------
(* Blocks of sorted entries. *)

Elems(s)     == {s[i] : i \in 1..Len(s)}
Ascending(s) == \A i, j \in 1..Len(s) : i < j => Less(s[i], s[j])
Held(bs)     == UNION {Elems(bs[i]) : i \in 1..Len(bs)}

Precedes(S, T) == \A e \in S, f \in T : Less(e, f)

Sorted(bs) ==
    /\ bs \in Seq(Seq(Entry))
    /\ \A i \in 1..Len(bs) : bs[i] # <<>> /\ Ascending(bs[i])
    /\ \A i, j \in 1..Len(bs) : i < j => Precedes(Elems(bs[i]), Elems(bs[j]))

Indexed(ix, bs) ==
    ix \in Seq(Entry) /\ Len(ix) = Len(bs) /\ \A i \in 1..Len(bs) : ix[i] = bs[i][Len(bs[i])]

LEMMA ElemsFacts ==
    ASSUME NEW s \in Seq(Entry)
    PROVE  /\ Elems(s) \subseteq Entry
           /\ s # <<>> => Len(s) \in 1..Len(s) /\ s[Len(s)] \in Elems(s) /\ s[1] \in Elems(s)
           /\ s = <<>> => Elems(s) = {}
           /\ \A i \in 1..Len(s) : s[i] \in Entry /\ s[i] \in Elems(s)
<1>1. Len(s) \in Nat /\ (s # <<>> => Len(s) # 0) /\ (s = <<>> => Len(s) = 0)
  OBVIOUS
<1>2. \A i \in 1..Len(s) : s[i] \in Entry
  BY ElementOfSeq
<1> QED
  BY <1>1, <1>2 DEF Elems

LEMMA AppendElems ==
    ASSUME NEW s \in Seq(Entry), NEW e \in Entry
    PROVE  /\ Append(s, e) \in Seq(Entry) /\ Append(s, e) # <<>>
           /\ Len(Append(s, e)) = Len(s) + 1 /\ Append(s, e)[Len(Append(s, e))] = e
           /\ Elems(Append(s, e)) = Elems(s) \cup {e}
           /\ s # <<>> => Append(s, e)[1] = s[1]
           /\ s = <<>> => Append(s, e)[1] = e
           /\ Ascending(s) /\ Precedes(Elems(s), {e}) => Ascending(Append(s, e))
<1>1. PICK n \in Nat : n = Len(s)
  OBVIOUS
<1>2. PICK t : t = Append(s, e)
  OBVIOUS
<1>3. /\ t \in Seq(Entry) /\ Len(t) = n + 1 /\ t[n + 1] = e
      /\ \A i \in 1..n : t[i] = s[i]
  BY <1>1, <1>2, AppendProperties
<1>4. Elems(t) = Elems(s) \cup {e}
  <2>1. \A i \in 1..(n + 1) : i = n + 1 \/ i \in 1..n
    OBVIOUS
  <2>2. \A i \in 1..n : i \in 1..(n + 1)
    OBVIOUS
  <2>3. n + 1 \in 1..(n + 1)
    OBVIOUS
  <2> QED
    BY <1>1, <1>3, <2>1, <2>2, <2>3 DEF Elems
<1>5. ASSUME Ascending(s), Precedes(Elems(s), {e}), NEW i \in 1..(n + 1), NEW j \in 1..(n + 1), i < j
      PROVE  Less(t[i], t[j])
  <2>1. i \in 1..n /\ (j \in 1..n \/ j = n + 1)
    BY <1>5
  <2>2. t[i] = s[i] /\ s[i] \in Elems(s)
    BY <1>1, <1>3, <2>1 DEF Elems
  <2>3. CASE j \in 1..n
    BY <1>1, <1>3, <1>5, <2>1, <2>2, <2>3 DEF Ascending
  <2>4. CASE j = n + 1
    BY <1>3, <1>5, <2>2, <2>4 DEF Precedes
  <2> QED
    BY <2>1, <2>3, <2>4
<1>6. Ascending(s) /\ Precedes(Elems(s), {e}) => Ascending(t)
  BY <1>3, <1>5 DEF Ascending
<1>7. t # <<>> /\ (s # <<>> => t[1] = s[1]) /\ (s = <<>> => t[1] = e)
  <2>1. n = 0 <=> s = <<>>
    BY <1>1
  <2> QED
    BY <1>3, <2>1
<1> QED
  BY <1>1, <1>2, <1>3, <1>4, <1>6, <1>7

LEMMA HeldFacts ==
    ASSUME NEW bs, Sorted(bs)
    PROVE  /\ Held(bs) \subseteq Entry
           /\ \A i \in 1..Len(bs) :
                /\ bs[i] \in Seq(Entry) /\ Elems(bs[i]) \subseteq Held(bs)
                /\ Len(bs[i]) \in Nat /\ Len(bs[i]) \in 1..Len(bs[i]) /\ 1 \in 1..Len(bs[i])
                /\ \A j \in 1..Len(bs[i]) : bs[i][j] \in Held(bs)
           /\ \A e \in Held(bs) : \E i \in 1..Len(bs) : \E j \in 1..Len(bs[i]) : e = bs[i][j]
<1>1. \A i \in 1..Len(bs) : bs[i] \in Seq(Entry) /\ bs[i] # <<>>
  BY ElementOfSeq DEF Sorted
<1>2. \A i \in 1..Len(bs) : Elems(bs[i]) \subseteq Held(bs) /\ Elems(bs[i]) \subseteq Entry
  BY <1>1, ElemsFacts DEF Held
<1>3. ASSUME NEW i \in 1..Len(bs)
      PROVE  Len(bs[i]) \in Nat /\ Len(bs[i]) \in 1..Len(bs[i]) /\ 1 \in 1..Len(bs[i])
  <2>1. PICK b \in Seq(Entry) : b = bs[i] /\ b # <<>>
    BY <1>1
  <2>2. Len(b) \in Nat /\ Len(b) # 0
    BY <2>1
  <2> QED
    BY <2>1, <2>2
<1>4. \A e \in Held(bs) : \E i \in 1..Len(bs) : \E j \in 1..Len(bs[i]) : e = bs[i][j]
  BY DEF Held, Elems
<1>5. \A i \in 1..Len(bs) : \A j \in 1..Len(bs[i]) : bs[i][j] \in Held(bs)
  BY <1>2 DEF Elems
<1>6. Held(bs) \subseteq Entry
  BY <1>2 DEF Held
<1> QED
  BY <1>1, <1>2, <1>3, <1>4, <1>5, <1>6

LEMMA AppendSorted ==
    ASSUME NEW bs, Sorted(bs), NEW ix, Indexed(ix, bs), NEW b \in Seq(Entry), b # <<>>,
           Ascending(b), Precedes(Held(bs), Elems(b))
    PROVE  /\ Sorted(Append(bs, b)) /\ Indexed(Append(ix, b[Len(b)]), Append(bs, b))
           /\ Held(Append(bs, b)) = Held(bs) \cup Elems(b)
           /\ Len(Append(bs, b)) = Len(bs) + 1 /\ Append(bs, b)[Len(bs) + 1] = b
           /\ \A i \in 1..Len(bs) : Append(bs, b)[i] = bs[i]
           /\ Len(bs) \in Nat
<1>1. PICK n \in Nat : n = Len(bs) /\ n = Len(ix)
  BY DEF Sorted, Indexed
<1>2. PICK cs : cs = Append(bs, b)
  OBVIOUS
<1>3. PICK jx : jx = Append(ix, b[Len(b)])
  OBVIOUS
<1>4. /\ cs \in Seq(Seq(Entry)) /\ Len(cs) = n + 1 /\ cs[n + 1] = b
      /\ \A i \in 1..n : cs[i] = bs[i]
  <2>1. PICK D : D = Seq(Entry) /\ bs \in Seq(D) /\ b \in D
    BY DEF Sorted
  <2>2. /\ Append(bs, b) \in Seq(D) /\ Len(Append(bs, b)) = Len(bs) + 1
        /\ \A i \in 1..Len(bs) : Append(bs, b)[i] = bs[i]
        /\ Append(bs, b)[Len(bs) + 1] = b
    BY ONLY <2>1, AppendProperties
  <2> QED
    BY ONLY <1>1, <1>2, <2>1, <2>2, Zenon
<1>5. /\ jx \in Seq(Entry) /\ Len(jx) = n + 1 /\ jx[n + 1] = b[Len(b)]
      /\ \A i \in 1..n : jx[i] = ix[i]
  <2>1. b[Len(b)] \in Entry /\ ix \in Seq(Entry)
    BY ElemsFacts DEF Indexed
  <2> QED
    BY <1>1, <1>3, <2>1, AppendProperties
<1>6. \A i \in 1..(n + 1) : i \in 1..n \/ i = n + 1
  OBVIOUS
<1>7. Indexed(jx, cs)
  <2>1. \A i \in 1..(n + 1) : jx[i] = cs[i][Len(cs[i])]
    BY <1>1, <1>4, <1>5, <1>6 DEF Indexed
  <2> QED
    BY <1>4, <1>5, <2>1 DEF Indexed
<1>8. Held(cs) = Held(bs) \cup Elems(b)
  <2>1. \A i \in 1..n : i \in 1..(n + 1)
    OBVIOUS
  <2>2. n + 1 \in 1..(n + 1)
    OBVIOUS
  <2> QED
    BY <1>1, <1>4, <1>6, <2>1, <2>2 DEF Held
<1>9. Sorted(cs)
  <2>1. ASSUME NEW i \in 1..(n + 1), NEW j \in 1..(n + 1), i < j
        PROVE  Precedes(Elems(cs[i]), Elems(cs[j]))
    <3>1. i \in 1..n /\ (j \in 1..n \/ j = n + 1)
      BY <2>1
    <3>2. Elems(cs[i]) = Elems(bs[i]) /\ Elems(bs[i]) \subseteq Held(bs)
      BY <1>1, <1>4, <3>1 DEF Held
    <3>3. CASE j \in 1..n
      BY <1>1, <1>4, <2>1, <3>1, <3>2, <3>3 DEF Sorted
    <3>4. CASE j = n + 1
      BY <1>4, <3>2, <3>4 DEF Precedes
    <3> QED
      BY <3>1, <3>3, <3>4
  <2>2. \A i \in 1..(n + 1) : cs[i] # <<>> /\ Ascending(cs[i])
    BY <1>1, <1>4, <1>6 DEF Sorted
  <2> QED
    BY <1>4, <2>1, <2>2 DEF Sorted
<1> QED
  BY <1>1, <1>2, <1>3, <1>4, <1>7, <1>8, <1>9

(* Places in the order of their entries.                                   *)
LEMMA PlaceOrder ==
    ASSUME NEW bs, Sorted(bs), NEW a \in 1..Len(bs), NEW i \in 1..Len(bs[a]),
           NEW b \in 1..Len(bs), NEW j \in 1..Len(bs[b])
    PROVE  Less(bs[a][i], bs[b][j]) <=> a < b \/ (a = b /\ i < j)
<1>1. bs[a][i] \in Entry /\ bs[b][j] \in Entry
  BY HeldFacts
<1>2. IsKey(bs[a][i]) /\ IsKey(bs[b][j])
  BY <1>1, EntryFacts
<1>3. a \in Nat /\ b \in Nat /\ i \in Nat /\ j \in Nat
  BY HeldFacts DEF Sorted
<1>4. bs[a][i] \in Elems(bs[a]) /\ bs[b][j] \in Elems(bs[b])
  BY DEF Elems
<1>5. CASE a < b
  BY <1>4, <1>5 DEF Sorted, Precedes
<1>6. CASE b < a
  <2>1. Less(bs[b][j], bs[a][i])
    BY <1>4, <1>6 DEF Sorted, Precedes
  <2> QED
    BY <1>2, <1>3, <1>6, <2>1, LessOrder
<1>7. CASE a = b
  <2>1. Ascending(bs[a])
    BY DEF Sorted
  <2>2. i < j => Less(bs[a][i], bs[a][j])
    BY <1>7, <2>1 DEF Ascending
  <2>3. j < i => Less(bs[a][j], bs[a][i])
    BY <1>7, <2>1 DEF Ascending
  <2>4. i = j => ~Less(bs[a][i], bs[a][j])
    BY <1>2, LessOrder
  <2> QED
    BY <1>2, <1>3, <1>7, <2>2, <2>3, <2>4, LessOrder
<1> QED
  BY <1>3, <1>5, <1>6, <1>7

(* Where the table begins, what follows a place, and where it ends.        *)
LEMMA FirstEntry ==
    ASSUME NEW bs, Sorted(bs), Len(bs) # 0
    PROVE  /\ 1 \in 1..Len(bs) /\ 1 \in 1..Len(bs[1]) /\ bs[1][1] \in Held(bs)
           /\ \A x \in Held(bs) : ~Less(x, bs[1][1])
<1>1. Len(bs) \in Nat /\ 1 \in 1..Len(bs)
  BY DEF Sorted
<1>2. 1 \in 1..Len(bs[1]) /\ bs[1][1] \in Held(bs)
  BY <1>1, HeldFacts
<1>3. ASSUME NEW x \in Held(bs) PROVE ~Less(x, bs[1][1])
  <2>1. PICK a \in 1..Len(bs) : \E i \in 1..Len(bs[a]) : x = bs[a][i]
    BY HeldFacts
  <2>2. PICK i \in 1..Len(bs[a]) : x = bs[a][i]
    BY <2>1
  <2>3. a \in Nat /\ i \in Nat /\ 1 <= a /\ 1 <= i
    BY HeldFacts, <1>1
  <2> QED
    BY <1>1, <1>2, <2>2, <2>3, PlaceOrder
<1> QED
  BY <1>1, <1>2, <1>3

LEMMA NextEntry ==
    ASSUME NEW bs, Sorted(bs), NEW a \in 1..Len(bs), NEW i \in 1..Len(bs[a]),
           NEW b \in 1..Len(bs), NEW j \in 1..Len(bs[b]),
           \/ a = b /\ j = i + 1
           \/ i = Len(bs[a]) /\ b = a + 1 /\ j = 1
    PROVE  /\ bs[b][j] \in Held(bs) /\ Less(bs[a][i], bs[b][j])
           /\ \A x \in Held(bs) : Less(bs[a][i], x) => ~Less(x, bs[b][j])
<1>1. Len(bs) \in Nat /\ Len(bs[a]) \in Nat /\ Len(bs[b]) \in Nat
  BY HeldFacts DEF Sorted
<1>2. bs[b][j] \in Held(bs)
  BY HeldFacts
<1>3. Less(bs[a][i], bs[b][j])
  BY <1>1, PlaceOrder
<1>4. ASSUME NEW x \in Held(bs), Less(bs[a][i], x) PROVE ~Less(x, bs[b][j])
  <2>1. PICK c \in 1..Len(bs) : \E k \in 1..Len(bs[c]) : x = bs[c][k]
    BY HeldFacts
  <2>2. PICK k \in 1..Len(bs[c]) : x = bs[c][k]
    BY <2>1
  <2>3. c \in Nat /\ k \in Nat /\ k <= Len(bs[c]) /\ 1 <= k
    BY HeldFacts, <1>1
  <2>4. a < c \/ (a = c /\ i < k)
    BY <1>4, <2>2, PlaceOrder
  <2>5. ~(c < b \/ (c = b /\ k < j))
    BY <1>1, <2>3, <2>4
  <2> QED
    BY <2>2, <2>5, PlaceOrder
<1> QED
  BY <1>2, <1>3, <1>4

LEMMA LastEntry ==
    ASSUME NEW bs, Sorted(bs), NEW a \in 1..Len(bs), a = Len(bs), NEW i, i = Len(bs[a])
    PROVE  \A x \in Held(bs) : ~Less(bs[a][i], x)
<1>1. Len(bs) \in Nat /\ i \in Nat /\ i \in 1..Len(bs[a])
  BY HeldFacts DEF Sorted
<1> TAKE x \in Held(bs)
<1>2. PICK c \in 1..Len(bs) : \E k \in 1..Len(bs[c]) : x = bs[c][k]
  BY HeldFacts
<1>3. PICK k \in 1..Len(bs[c]) : x = bs[c][k]
  BY <1>2
<1>4. c \in Nat /\ k \in Nat /\ k <= Len(bs[c]) /\ c <= a
  BY HeldFacts, <1>1
<1>5. ~(a < c \/ (a = c /\ i < k))
  BY <1>1, <1>4
<1> QED
  BY <1>1, <1>3, <1>5, PlaceOrder

-----------------------------------------------------------------------------
(* Scans. *)

(* s are the first entries of W.                                           *)
Scans(s, W) ==
    /\ s \in Seq(Entry) /\ Ascending(s) /\ Elems(s) \subseteq W
    /\ Precedes(Elems(s), W \ Elems(s))

LEMMA ScanNone ==
    ASSUME NEW W
    PROVE  Scans(<<>>, W) /\ Elems(<<>>) = {}
  BY DEF Scans, Elems, Ascending, Precedes

LEMMA ScanFirst ==
    ASSUME NEW W \in SUBSET Entry, Unique(W), NEW c \in W, \A x \in W : ~Less(x, c)
    PROVE  Scans(<<c>>, W) /\ <<c>> # <<>> /\ <<c>>[Len(<<c>>)] = c
<1>1. PICK s : s = <<c>>
  OBVIOUS
<1>2. s \in Seq(Entry) /\ s # <<>> /\ Len(s) = 1 /\ s[1] = c
  BY <1>1
<1>3. Elems(s) = {c} /\ Ascending(s)
  BY <1>2 DEF Elems, Ascending
<1>4. \A x \in W : x = c \/ Less(c, x)
  BY LessTotal
<1> QED
  BY <1>1, <1>2, <1>3, <1>4 DEF Scans, Precedes

LEMMA ScanNext ==
    ASSUME NEW W \in SUBSET Entry, Unique(W), NEW s, Scans(s, W), s # <<>>,
           NEW d \in W, Less(s[Len(s)], d), \A x \in W : Less(s[Len(s)], x) => ~Less(x, d)
    PROVE  Scans(Append(s, d), W) /\ Append(s, d) # <<>> /\ Append(s, d)[Len(Append(s, d))] = d
<1>1. PICK c : c = s[Len(s)] /\ c \in Elems(s) /\ c \in W
  BY ElemsFacts DEF Scans
<1>2. IsKey(c) /\ IsKey(d)
  BY <1>1, EntryFacts
<1>3. ASSUME NEW x \in Elems(s) PROVE x = c \/ Less(x, c)
  <2>1. PICK i \in 1..Len(s) : x = s[i]
    BY <1>3 DEF Elems
  <2>2. Len(s) \in Nat /\ Len(s) \in 1..Len(s)
    BY ElemsFacts DEF Scans
  <2>3. i < Len(s) => Less(s[i], s[Len(s)])
    BY <2>2 DEF Scans, Ascending
  <2> QED
    BY <1>1, <2>1, <2>2, <2>3
<1>4. ASSUME NEW x \in Elems(s) PROVE Less(x, d)
  <2>1. IsKey(x)
    BY <1>4, EntryFacts DEF Scans
  <2> QED
    BY <1>1, <1>2, <1>3, <2>1, LessOrder
<1>5. s \in Seq(Entry) /\ d \in Entry /\ Precedes(Elems(s), {d}) /\ Ascending(s)
  BY <1>4 DEF Scans, Precedes
<1>6. /\ Append(s, d) \in Seq(Entry) /\ Append(s, d) # <<>> /\ Ascending(Append(s, d))
      /\ Append(s, d)[Len(Append(s, d))] = d /\ Elems(Append(s, d)) = Elems(s) \cup {d}
  BY <1>5, AppendElems
<1>7. ASSUME NEW x \in W \ (Elems(s) \cup {d}) PROVE Less(d, x)
  <2>1. Less(c, x)
    BY <1>1, <1>7 DEF Scans, Precedes
  <2>2. ~Less(x, d)
    BY <1>1, <1>7, <2>1
  <2> QED
    BY <1>7, <2>2, LessTotal
<1>8. Precedes(Elems(s) \cup {d}, W \ (Elems(s) \cup {d}))
  BY <1>7 DEF Scans, Precedes
<1> QED
  BY <1>6, <1>8 DEF Scans

LEMMA ScanEnd ==
    ASSUME NEW W \in SUBSET Entry, NEW s, Scans(s, W), s # <<>>, \A x \in W : ~Less(s[Len(s)], x)
    PROVE  Elems(s) = W
<1>1. s[Len(s)] \in Elems(s)
  BY ElemsFacts DEF Scans
<1> QED
  BY <1>1 DEF Scans, Precedes

-----------------------------------------------------------------------------
(* Reads of the table. *)

(* No block before the one that seekBlock finds has the key or one above.  *)
LEMMA SeekBlockFacts ==
    ASSUME Sorted(blocks), Indexed(index, blocks), NEW k \in Nat
    PROVE  /\ SeekBlock(k) \in 1..(Len(index) + 1) /\ Len(index) \in Nat
           /\ \A i \in 1..Len(index) : i < SeekBlock(k) =>
                \A e \in Elems(blocks[i]) : e.key < k
           /\ SeekBlock(k) <= Len(index) =>
                /\ SeekBlock(k) \in 1..Len(index) /\ index[SeekBlock(k)].key >= k
                /\ index[SeekBlock(k)] \in Elems(blocks[SeekBlock(k)])
<1>1. PICK n \in Nat : n = Len(index) /\ n = Len(blocks)
  BY DEF Indexed
<1>2. PICK from : from = [key |-> k, seq |-> MaxSeqno]
  OBVIOUS
<1>3. from.key = k /\ from.seq = MaxSeqno /\ MaxSeqno \in Nat /\ MaxSeqno = MaxPuts + 1
  BY <1>2, KeysAssumption DEF MaxSeqno
<1>4. ASSUME NEW i \in 1..n
      PROVE  /\ index[i] \in Entry /\ IsKey(index[i]) /\ index[i] \in Elems(blocks[i])
             /\ Less(index[i], from) <=> index[i].key < k
             /\ \A e \in Elems(blocks[i]) : IsKey(e) /\ e.key <= index[i].key
  <2>1. index[i] \in Elems(blocks[i]) /\ index[i] = blocks[i][Len(blocks[i])]
    BY <1>1, HeldFacts DEF Indexed, Elems
  <2>2. Elems(blocks[i]) \subseteq Entry
    BY <1>1, HeldFacts
  <2>3. index[i] \in Entry /\ IsKey(index[i]) /\ index[i].seq \in 1..MaxPuts
    BY <2>1, <2>2, EntryFacts
  <2>4. Less(index[i], from) <=> index[i].key < k
    BY <1>3, <2>3, KeysAssumption DEF Less, IsKey
  <2>5. ASSUME NEW e \in Elems(blocks[i]) PROVE IsKey(e) /\ e.key <= index[i].key
    <3>1. PICK j \in 1..Len(blocks[i]) : e = blocks[i][j]
      BY <2>5 DEF Elems
    <3>2. Len(blocks[i]) \in Nat /\ Len(blocks[i]) \in 1..Len(blocks[i]) /\ j <= Len(blocks[i])
      BY <1>1, HeldFacts
    <3>3. ~Less(index[i], e)
      BY <1>1, <2>1, <3>1, <3>2, PlaceOrder
    <3>4. IsKey(e)
      BY <2>2, <2>5, EntryFacts
    <3> QED
      BY <2>3, <3>3, <3>4 DEF Less, IsKey
  <2> QED
    BY <2>1, <2>3, <2>4, <2>5
<1> DEFINE cand == {i \in 1..n : ~Less(index[i], from)}
<1>5. SeekBlock(k) = IF cand = {} THEN n + 1 ELSE CHOOSE i \in cand : \A j \in cand : i <= j
  BY <1>1, <1>2 DEF SeekBlock
<1>6. PICK b : b = SeekBlock(k)
  OBVIOUS
<1>7. /\ b \in 1..(n + 1) /\ (b <= n => b \in cand)
      /\ \A i \in 1..n : i < b => i \notin cand
  <2>1. CASE cand = {}
    BY <1>5, <1>6, <2>1
  <2>2. CASE cand # {}
    <3>1. cand \in SUBSET Nat
      OBVIOUS
    <3>2. \E x \in cand : \A y \in cand : x <= y
      <4> HIDE DEF cand
      <4> QED
        BY <2>2, <3>1, LeastNat
    <3>3. b \in cand /\ \A y \in cand : b <= y
      <4> HIDE DEF cand
      <4> QED
        BY <1>5, <1>6, <2>2, <3>2
    <3>4. b \in 1..n
      BY <3>3
    <3>5. \A i \in 1..n : i < b => i \notin cand
      <4> HIDE DEF cand
      <4> QED
        BY <3>3, <3>4
    <3> QED
      BY <3>3, <3>4, <3>5
  <2> QED
    BY <2>1, <2>2
<1>8. ASSUME NEW i \in 1..n, i < b, NEW e \in Elems(blocks[i]) PROVE e.key < k
  <2>1. Less(index[i], from)
    BY <1>7, <1>8
  <2>2. index[i].key < k /\ e.key <= index[i].key /\ IsKey(e) /\ IsKey(index[i])
    BY <1>4, <1>8, <2>1
  <2> QED
    BY <2>2 DEF IsKey
<1>9. ASSUME b <= n PROVE b \in 1..n /\ index[b].key >= k /\ index[b] \in Elems(blocks[b])
  <2>1. b \in 1..n /\ ~Less(index[b], from)
    BY <1>7, <1>9
  <2>2. ~(index[b].key < k) /\ IsKey(index[b]) /\ index[b] \in Elems(blocks[b])
    BY <1>4, <2>1
  <2> QED
    BY <2>1, <2>2 DEF IsKey
<1> HIDE DEF cand
<1> QED
  BY <1>1, <1>6, <1>7, <1>8, <1>9

(* Seek stands on the first entry at or above the user key.                *)
LEMMA SeekPlace ==
    ASSUME Sorted(blocks), Indexed(index, blocks), NEW k \in Nat,
           \A i \in 1..Len(blocks) : Len(blocks[i]) <= MaxPuts,
           NEW P, P = Places(SeekBlock(k), k)
    PROVE  /\ P = {} => \A x \in Held(blocks) : ~(x.key >= k)
           /\ P # {} => LET p == FirstPlace(P) IN
                /\ p[1] \in 1..Len(index) /\ p[2] \in 1..Len(blocks[p[1]])
                /\ blocks[p[1]][p[2]].key >= k
                /\ \A x \in Held(blocks) : x.key >= k => ~Less(x, blocks[p[1]][p[2]])
<1>1. PICK n \in Nat : n = Len(index) /\ n = Len(blocks)
  BY DEF Indexed
<1>2. PICK b : b = SeekBlock(k) /\ b \in 1..(n + 1)
  BY <1>1, SeekBlockFacts
<1>3. P = {p \in (b..n) \X (1..MaxPuts) :
             p[2] <= Len(blocks[p[1]]) /\ blocks[p[1]][p[2]].key >= k}
  BY <1>1, <1>2 DEF Places
<1>4. \A i \in 1..n : Len(blocks[i]) \in Nat /\ Len(blocks[i]) <= MaxPuts
  BY <1>1, HeldFacts
<1>5. ASSUME NEW a \in 1..n, NEW i \in 1..Len(blocks[a]), blocks[a][i].key >= k
      PROVE  <<a, i>> \in P
  <2>1. blocks[a][i] \in Elems(blocks[a]) /\ IsKey(blocks[a][i])
    BY <1>1, HeldFacts, EntryFacts DEF Elems
  <2>2. ~(a < b)
    <3> SUFFICES ASSUME a < b PROVE FALSE
        OBVIOUS
    <3>1. blocks[a][i].key < k
      BY <1>1, <1>2, <2>1, SeekBlockFacts
    <3> QED
      BY <1>5, <2>1, <3>1 DEF IsKey
  <2>3. a \in b..n /\ i \in 1..MaxPuts /\ i <= Len(blocks[a])
    BY <1>2, <1>4, <2>2, KeysAssumption
  <2> QED
    BY <1>3, <1>5, <2>3
<1>6. ASSUME NEW x \in Held(blocks), x.key >= k
      PROVE  \E a \in 1..n : \E i \in 1..Len(blocks[a]) : x = blocks[a][i] /\ <<a, i>> \in P
  <2>1. PICK a \in 1..n : \E i \in 1..Len(blocks[a]) : x = blocks[a][i]
    BY <1>1, HeldFacts
  <2> QED
    BY <1>5, <1>6, <2>1
<1>7. ASSUME NEW p \in P
      PROVE  /\ p = <<p[1], p[2]>> /\ p[1] \in Nat /\ p[2] \in Nat
             /\ p[1] \in 1..n /\ p[2] \in 1..Len(blocks[p[1]]) /\ blocks[p[1]][p[2]].key >= k
  <2>1. p[1] \in b..n /\ p[2] \in 1..MaxPuts /\ p[2] <= Len(blocks[p[1]]) /\ p = <<p[1], p[2]>>
        /\ blocks[p[1]][p[2]].key >= k
    BY <1>3, <1>7
  <2>2. p[1] \in 1..n
    BY <1>2, <2>1
  <2> QED
    BY <1>4, <2>1, <2>2, KeysAssumption
<1>8. ASSUME P # {}
      PROVE  \E p \in P : \A q \in P : p[1] < q[1] \/ (p[1] = q[1] /\ p[2] <= q[2])
  <2> DEFINE A == {p[1] : p \in P}
  <2>1. A \in SUBSET Nat /\ A # {}
    BY <1>7, <1>8
  <2>2. PICK a \in A : \A c \in A : a <= c
    <3> HIDE DEF A
    <3> QED
      BY <2>1, LeastNat
  <2> DEFINE I == {i \in Nat : \E p \in P : p[1] = a /\ p[2] = i}
  <2>3. I \in SUBSET Nat /\ I # {}
    BY <1>7, <2>2
  <2>4. PICK i \in I : \A j \in I : i <= j
    <3> HIDE DEF I
    <3> QED
      BY <2>3, LeastNat
  <2>5. PICK p \in P : p[1] = a /\ p[2] = i
    BY <2>4
  <2>6. ASSUME NEW q \in P PROVE p[1] < q[1] \/ (p[1] = q[1] /\ p[2] <= q[2])
    <3>1. q[1] \in Nat /\ q[2] \in Nat /\ a <= q[1] /\ a \in Nat
      BY <1>7, <2>1, <2>2
    <3>2. q[1] = a => i <= q[2]
      BY <2>4, <3>1
    <3> QED
      BY <2>5, <3>1, <3>2
  <2> QED
    BY <2>6
<1>9. ASSUME P # {}
      PROVE  LET p == FirstPlace(P) IN
                /\ p[1] \in 1..n /\ p[2] \in 1..Len(blocks[p[1]])
                /\ blocks[p[1]][p[2]].key >= k
                /\ \A x \in Held(blocks) : x.key >= k => ~Less(x, blocks[p[1]][p[2]])
  <2>1. PICK p : p = FirstPlace(P)
    OBVIOUS
  <2>2. p \in P /\ \A q \in P : p[1] < q[1] \/ (p[1] = q[1] /\ p[2] <= q[2])
    BY <1>8, <1>9, <2>1 DEF FirstPlace
  <2>3. /\ p[1] \in 1..n /\ p[2] \in 1..Len(blocks[p[1]]) /\ blocks[p[1]][p[2]].key >= k
        /\ p[1] \in Nat /\ p[2] \in Nat
    BY <1>7, <2>2
  <2>4. ASSUME NEW x \in Held(blocks), x.key >= k PROVE ~Less(x, blocks[p[1]][p[2]])
    <3>1. PICK a \in 1..n : \E i \in 1..Len(blocks[a]) : x = blocks[a][i] /\ <<a, i>> \in P
      BY <1>6, <2>4
    <3>2. PICK i \in 1..Len(blocks[a]) : x = blocks[a][i] /\ <<a, i>> \in P
      BY <3>1
    <3>3. PICK q \in P : q = <<a, i>>
      BY <3>2
    <3>4. p[1] < a \/ (p[1] = a /\ p[2] <= i)
      BY <2>2, <3>3
    <3>5. a \in Nat /\ i \in Nat
      BY <1>4
    <3>6. ~(a < p[1] \/ (a = p[1] /\ i < p[2]))
      BY <2>3, <3>4, <3>5
    <3> QED
      BY <1>1, <2>3, <3>2, <3>6, PlaceOrder
  <2> QED
    BY <2>1, <2>3, <2>4
<1> QED
  BY <1>1, <1>6, <1>9

(* A block gives its newest visible version of the key, or tells whether   *)
(* it has the key at all.                                                  *)
LEMMA ScanBlockFacts ==
    ASSUME NEW b \in Seq(Entry), Ascending(b), NEW k \in Nat, NEW s \in Nat
    PROVE  IF Visible(Elems(b), k, s) = {}
           THEN /\ ScanBlock(b, k, s).val = NoValue
                /\ ScanBlock(b, k, s).found <=> \E e \in Elems(b) : e.key = k
           ELSE \E e \in Visible(Elems(b), k, s) :
                  /\ \A f \in Visible(Elems(b), k, s) : f.seq <= e.seq
                  /\ ScanBlock(b, k, s).found
                  /\ ScanBlock(b, k, s).val = (IF e.kind = "delete" THEN Deleted ELSE e)
                  /\ ScanBlock(b, k, s).val # NoValue
<1>1. PICK n \in Nat : n = Len(b)
  OBVIOUS
<1>2. \A i \in 1..n : b[i] \in Entry /\ IsKey(b[i]) /\ b[i] \in Elems(b)
  BY <1>1, ElemsFacts, EntryFacts
<1> DEFINE hits == {i \in 1..n : b[i].key = k /\ b[i].seq <= s}
           hit  == b[CHOOSE i \in hits : \A j \in hits : i <= j]
           V    == Visible(Elems(b), k, s)
<1>3. ScanBlock(b, k, s) =
        IF hits = {} THEN [found |-> \E i \in 1..n : b[i].key = k, val |-> NoValue]
        ELSE [found |-> TRUE, val |-> IF hit.kind = "delete" THEN Deleted ELSE hit]
  BY <1>1 DEF ScanBlock, CloneValue
<1>4. \A i \in 1..n : i \in hits <=> b[i] \in V
  BY <1>2 DEF Visible
<1>5. \A e \in V : \E i \in hits : e = b[i]
  BY <1>1 DEF Visible, Elems
<1>6. (\E i \in 1..n : b[i].key = k) <=> \E e \in Elems(b) : e.key = k
  BY <1>1, <1>2 DEF Elems
<1>7. CASE V = {}
  <2>1. hits = {}
    BY <1>4, <1>7
  <2>2. ScanBlock(b, k, s) = [found |-> \E i \in 1..n : b[i].key = k, val |-> NoValue]
    <3> HIDE DEF hits
    <3> QED
      BY <1>3, <2>1
  <2> HIDE DEF V, hits
  <2>3. V = Visible(Elems(b), k, s)
    BY DEF V
  <2> QED
    BY <1>6, <1>7, <2>2, <2>3
<1>8. CASE V # {}
  <2>1. hits # {} /\ hits \in SUBSET Nat
    BY <1>5, <1>8
  <2>2. \E x \in hits : \A y \in hits : x <= y
    <3> HIDE DEF hits
    <3> QED
      BY <2>1, LeastNat
  <2>3. PICK x : x = CHOOSE i \in hits : \A j \in hits : i <= j
    OBVIOUS
  <2>4. x \in hits /\ \A y \in hits : x <= y
    <3> HIDE DEF hits
    <3> QED
      BY <2>2, <2>3
  <2>5. x \in 1..n /\ hit = b[x] /\ b[x] \in V /\ b[x] \in Entry /\ IsKey(b[x]) /\ b[x].key = k
    BY <1>2, <1>4, <2>3, <2>4
  <2>6. /\ ScanBlock(b, k, s).found
        /\ ScanBlock(b, k, s).val = (IF b[x].kind = "delete" THEN Deleted ELSE b[x])
    <3> HIDE DEF hits, V
    <3>1. ScanBlock(b, k, s) =
            [found |-> TRUE, val |-> IF b[x].kind = "delete" THEN Deleted ELSE b[x]]
      BY <1>3, <2>1, <2>5
    <3> QED
      BY <3>1
  <2>7. ScanBlock(b, k, s).val # NoValue
    <3>1. b[x].kind \in {"put", "delete"} /\ Deleted.kind = "ErrKeyDeleted" /\ NoValue.kind = "nil"
      BY <2>5, EntryFacts DEF Deleted, NoValue
    <3> QED
      BY <2>6, <3>1
  <2>8. ASSUME NEW f \in V PROVE f.seq <= b[x].seq
    <3>1. PICK i \in hits : f = b[i]
      BY <1>5, <2>8
    <3>2. i \in 1..n /\ x <= i /\ b[i].key = k /\ IsKey(b[i])
      BY <1>2, <2>4, <3>1
    <3>3. i = x \/ Less(b[x], b[i])
      BY <1>1, <2>5, <3>2 DEF Ascending
    <3> QED
      BY <2>5, <3>1, <3>2, <3>3 DEF Less, IsKey
  <2> HIDE DEF hits, hit
  <2> QED
    BY <1>8, <2>5, <2>6, <2>7, <2>8
<1> QED
  BY <1>7, <1>8

(* What Get answers at block i, when it has come that far, if it does not  *)
(* go on to block i + 1.                                                   *)
Passes(i, k, s) ==
    ScanBlock(blocks[i], k, s).found /\ ScanBlock(blocks[i], k, s).val = NoValue
Stops(i, k, s) ==
    IF ScanBlock(blocks[i], k, s).found THEN ScanBlock(blocks[i], k, s).val ELSE NotFound
Gets(g, n, k, s) ==
    [i \in 1..(n + 1) |-> IF i = n + 1 THEN NotFound
                          ELSE IF Passes(i, k, s) THEN g[i + 1] ELSE Stops(i, k, s)]

LEMMA GetsExists ==
    ASSUME NEW n \in Nat, NEW k, NEW s
    PROVE  \E g : g = Gets(g, n, k, s)
<1> DEFINE D == {NotFound} \cup {Stops(i, k, s) : i \in 1..n}
           G == [p \in D \X (1..n) |-> IF Passes(n + 1 - p[2], k, s) THEN p[1]
                                       ELSE Stops(n + 1 - p[2], k, s)]
<1>1. \A d \in 1..n : n + 1 - d \in 1..n
  OBVIOUS
<1>2. G \in [D \X (1..n) -> D] /\ NotFound \in D
  BY <1>1
<1>3. PICK h : Iterates(h, n, D, NotFound, G)
  <2> HIDE DEF D, G
  <2> QED
    BY <1>2, IterationExists
<1>4. h \in [0..n -> D] /\ h[0] = NotFound /\ \A d \in 1..n : h[d] = G[h[d - 1], d]
  <2> HIDE DEF D, G
  <2> QED
    BY <1>3 DEF Iterates
<1>5. ASSUME NEW d \in 1..n
      PROVE  h[d] = IF Passes(n + 1 - d, k, s) THEN h[d - 1] ELSE Stops(n + 1 - d, k, s)
  <2>1. h[d - 1] \in D
    <3>1. d - 1 \in 0..n
      OBVIOUS
    <3> HIDE DEF D, G
    <3> QED
      BY <1>4, <3>1
  <2>2. G[h[d - 1], d] = IF Passes(n + 1 - d, k, s) THEN h[d - 1] ELSE Stops(n + 1 - d, k, s)
    <3> HIDE DEF D
    <3> QED
      BY <2>1
  <2> HIDE DEF D, G
  <2> QED
    BY <1>4, <2>2
<1> HIDE DEF D, G
<1>6. PICK g : g = [i \in 1..(n + 1) |-> h[n + 1 - i]]
  OBVIOUS
<1>7. ASSUME NEW i \in 1..(n + 1)
      PROVE  g[i] = IF i = n + 1 THEN NotFound
                    ELSE IF Passes(i, k, s) THEN g[i + 1] ELSE Stops(i, k, s)
  <2>1. CASE i = n + 1
    <3>1. n + 1 - i = 0
      BY <2>1
    <3>2. g[i] = h[0]
      BY <1>6, <3>1
    <3> QED
      BY <1>4, <2>1, <3>2
  <2>2. CASE i # n + 1
    <3>1. PICK d \in 1..n : d = n + 1 - i
      BY <2>2
    <3>2. n + 1 - d = i /\ i + 1 \in 1..(n + 1) /\ n + 1 - (i + 1) = d - 1
      BY <3>1
    <3>3. g[i] = h[d] /\ g[i + 1] = h[d - 1]
      BY <1>6, <3>1, <3>2
    <3> QED
      BY <1>5, <2>2, <3>2, <3>3
  <2> QED
    BY <2>1, <2>2
<1>8. g = Gets(g, n, k, s)
  BY <1>6, <1>7 DEF Gets
<1> QED
  BY <1>8

(* Get of an open reader finds the newest visible version, also when the   *)
(* versions of the key straddle blocks.                                    *)
LEMMA SSTGetAnswers ==
    ASSUME Sorted(blocks), Indexed(index, blocks), Unique(Held(blocks)), readerOpen,
           NEW k \in UserKeys, NEW s \in 0..MaxSeqno
    PROVE  SSTGet(k, s) = Lookup(Held(blocks), k, s)
<1>0. k \in Nat /\ s \in Nat
  BY KeysAssumption DEF MaxSeqno
<1>1. PICK n \in Nat : n = Len(index) /\ n = Len(blocks)
  BY DEF Indexed
<1>2. PICK b : b = SeekBlock(k) /\ b \in 1..(n + 1)
  BY <1>0, <1>1, SeekBlockFacts
<1> DEFINE g == CHOOSE q : q = Gets(q, n, k, s)
<1>3. SSTGet(k, s) = g[b]
  <2> DEFINE F(q) ==
        [i \in 1..(n + 1) |->
           IF i = n + 1 THEN NotFound
           ELSE IF ~readerOpen THEN CorruptBlock
           ELSE LET r == ScanBlock(blocks[i], k, s) IN
                IF ~r.found THEN NotFound
                ELSE IF r.val # NoValue THEN r.val ELSE q[i + 1]]
  <2>1. SSTGet(k, s) = (CHOOSE q : q = F(q))[b]
    BY <1>1, <1>2 DEF SSTGet
  <2>2. ASSUME NEW q PROVE F(q) = Gets(q, n, k, s)
    BY DEF Gets, Passes, Stops
  <2>3. (CHOOSE q : q = F(q)) = (CHOOSE q : q = Gets(q, n, k, s))
    <3> HIDE DEF F
    <3> QED
      BY <2>2
  <2> QED
    BY <2>1, <2>3
<1>4. g = Gets(g, n, k, s)
  BY GetsExists
<1> HIDE DEF g
<1>5. /\ g[n + 1] = NotFound
      /\ \A i \in 1..n : g[i] = IF Passes(i, k, s) THEN g[i + 1] ELSE Stops(i, k, s)
  <2>1. \A i \in 1..(n + 1) :
          g[i] = IF i = n + 1 THEN NotFound
                 ELSE IF Passes(i, k, s) THEN g[i + 1] ELSE Stops(i, k, s)
    BY <1>4 DEF Gets
  <2>2. n + 1 \in 1..(n + 1) /\ \A i \in 1..n : i \in 1..(n + 1) /\ i # n + 1
    OBVIOUS
  <2> QED
    BY <2>1, <2>2
<1> DEFINE H    == Held(blocks)
           B(i) == Elems(blocks[i])
           Has(i) == \E e \in B(i) : e.key = k
           Q(i) == /\ b <= i /\ \A j \in 1..n : j < i => Visible(B(j), k, s) = {}
                   /\ i = b \/ Has(i - 1)
           Right(i) == Q(i) => g[i] = Lookup(H, k, s)
<1>6. ASSUME NEW i \in 1..n
      PROVE  /\ blocks[i] \in Seq(Entry) /\ Ascending(blocks[i]) /\ B(i) # {}
             /\ B(i) \subseteq H /\ B(i) \subseteq Entry
  <2>1. blocks[i] \in Seq(Entry) /\ Ascending(blocks[i]) /\ B(i) \subseteq H /\ H \subseteq Entry
    BY <1>1, HeldFacts DEF Sorted
  <2>2. B(i) # {}
    BY <1>1, HeldFacts DEF Elems
  <2> QED
    BY <2>1, <2>2
<1>7. H \subseteq Entry /\ \A e \in H : \E i \in 1..n : e \in B(i)
  BY <1>1, HeldFacts DEF Elems
<1>8. \A i, j \in 1..n : i < j => Precedes(B(i), B(j))
  BY <1>1 DEF Sorted
<1>9. \A e \in Entry : IsKey(e)
  BY EntryFacts
<1>10. \A i \in 1..n : \A e \in B(i) : e \in Visible(B(i), k, s) <=> e \in Visible(H, k, s)
  BY <1>6 DEF Visible
<1> HIDE DEF H, B
<1>11. Right(n + 1)
  <2> SUFFICES ASSUME Q(n + 1) PROVE g[n + 1] = Lookup(H, k, s)
    OBVIOUS
  <2>1. \A j \in 1..n : Visible(B(j), k, s) = {}
    OBVIOUS
  <2>2. ASSUME NEW f \in Visible(H, k, s) PROVE FALSE
    <3>1. f \in H
      BY <2>2 DEF Visible
    <3>2. PICK j \in 1..n : f \in B(j)
      BY <1>7, <3>1
    <3> QED
      BY <1>10, <2>1, <2>2, <3>2
  <2> QED
    BY <1>5, <2>2 DEF Lookup
<1>12. ASSUME NEW i \in 1..n, Right(i + 1) PROVE Right(i)
  <2> SUFFICES ASSUME Q(i) PROVE g[i] = Lookup(H, k, s)
    OBVIOUS
  <2> HIDE DEF Q
  <2>0. /\ b <= i /\ \A j \in 1..n : j < i => Visible(B(j), k, s) = {}
        /\ i = b \/ Has(i - 1)
    BY DEF Q
  <2>1. CASE Visible(B(i), k, s) # {}
    <3>1. PICK e \in Visible(B(i), k, s) :
            /\ \A f \in Visible(B(i), k, s) : f.seq <= e.seq
            /\ ScanBlock(blocks[i], k, s).found
            /\ ScanBlock(blocks[i], k, s).val = (IF e.kind = "delete" THEN Deleted ELSE e)
            /\ ScanBlock(blocks[i], k, s).val # NoValue
      BY <1>0, <1>6, <2>1, ScanBlockFacts DEF B
    <3>2. e \in B(i) /\ e.key = k /\ e \in Visible(H, k, s)
      BY <1>10, <3>1 DEF Visible
    <3>3. g[i] = IF e.kind = "delete" THEN Deleted ELSE e
      BY <1>5, <3>1 DEF Passes, Stops
    <3>4. ASSUME NEW f \in Visible(H, k, s) PROVE f.seq <= e.seq
      <4>1. f \in H /\ f.key = k
        BY <3>4 DEF Visible
      <4>2. PICK j \in 1..n : f \in B(j)
        BY <1>7, <4>1
      <4>3. f \in Visible(B(j), k, s)
        BY <1>10, <3>4, <4>2
      <4>4. ~(j < i)
        BY <2>0, <4>3
      <4>5. j = i \/ Less(e, f)
        BY <1>8, <3>2, <4>2, <4>4 DEF Precedes
      <4>6. IsKey(e) /\ IsKey(f)
        BY <1>6, <1>9, <3>2, <4>2
      <4> QED
        BY <3>1, <3>2, <4>1, <4>3, <4>5, <4>6 DEF Less, IsKey
    <3> QED
      BY <1>0, <1>7, <3>2, <3>3, <3>4, LookupIs DEF H
  <2>2. CASE Visible(B(i), k, s) = {} /\ Has(i)
    <3>1. Passes(i, k, s)
      BY <1>0, <1>6, <2>2, ScanBlockFacts DEF B, Passes
    <3>2. g[i] = g[i + 1]
      BY <1>5, <3>1
    <3>3. Q(i + 1)
      <4>1. (i + 1) - 1 = i /\ b <= i + 1
        BY <1>2, <2>0
      <4>2. ASSUME NEW j \in 1..n, j < i + 1 PROVE Visible(B(j), k, s) = {}
        <5>1. j < i \/ j = i
          BY <4>2
        <5> QED
          BY <2>0, <2>2, <5>1
      <4> QED
        BY <2>2, <4>1, <4>2 DEF Q
    <3> QED
      BY <1>12, <3>2, <3>3
  <2>3. CASE ~Has(i)
    <3>1. Visible(B(i), k, s) = {}
      BY <2>3 DEF Visible
    <3>2. ~ScanBlock(blocks[i], k, s).found
      BY <1>0, <1>6, <2>3, <3>1, ScanBlockFacts DEF B
    <3>3. g[i] = NotFound
      BY <1>5, <3>2 DEF Passes, Stops
    <3>4. ASSUME NEW f \in Visible(H, k, s) PROVE FALSE
      <4>1. f \in H /\ f.key = k
        BY <3>4 DEF Visible
      <4>2. PICK j \in 1..n : f \in B(j)
        BY <1>7, <4>1
      <4>3. f \in Visible(B(j), k, s)
        BY <1>10, <3>4, <4>2
      <4>4. i < j
        <5>1. ~(j < i)
          BY <2>0, <4>3
        <5>2. j # i
          BY <3>1, <4>3
        <5> QED
          BY <5>1, <5>2
      <4>5. IsKey(f) /\ \A y \in B(i) : Less(y, f) /\ IsKey(y) /\ y.key # k
        BY <1>6, <1>8, <1>9, <2>3, <4>2, <4>4 DEF Precedes
      <4>6. \A y \in B(i) : y.key < k
        BY <1>0, <4>1, <4>5 DEF Less, IsKey
      <4>7. CASE i = b
        <5>0. SeekBlock(k) <= Len(index)
          BY <1>1, <1>2, <4>7
        <5>1. index[b] \in B(i) /\ index[b].key >= k
          BY <1>0, <1>2, <4>7, <5>0, SeekBlockFacts DEF B
        <5> QED
          BY <1>0, <4>5, <4>6, <5>1 DEF IsKey
      <4>8. CASE i # b
        <5>1. i - 1 \in 1..n /\ i - 1 < i
          BY <1>2, <2>0, <4>8
        <5>2. PICK x \in B(i - 1) : x.key = k
          BY <2>0, <4>8
        <5>3. PICK y : y \in B(i)
          BY <1>6
        <5>4. Less(x, y) /\ IsKey(x) /\ IsKey(y)
          BY <1>6, <1>8, <1>9, <5>1, <5>2, <5>3 DEF Precedes
        <5> QED
          BY <1>0, <4>6, <5>2, <5>3, <5>4 DEF Less, IsKey
      <4> QED
        BY <4>7, <4>8
    <3> QED
      BY <3>3, <3>4 DEF Lookup
  <2> QED
    BY <2>1, <2>2, <2>3
<1> DEFINE U == {d \in Nat : d <= n => Right(n + 1 - d)}
<1> HIDE DEF Right
<1>13. U = Nat
  <2>1. U \in SUBSET Nat
    OBVIOUS
  <2>2. 0 \in U
    <3>1. n + 1 - 0 = n + 1
      OBVIOUS
    <3> QED
      BY <1>11, <3>1
  <2>3. ASSUME NEW d \in U PROVE d + 1 \in U
    <3>1. d \in Nat /\ d + 1 \in Nat
      OBVIOUS
    <3>2. ASSUME d + 1 <= n PROVE Right(n + 1 - (d + 1))
      <4>1. PICK i \in 1..n : i = n + 1 - (d + 1)
        BY <3>1, <3>2
      <4>2. i + 1 = n + 1 - d /\ d <= n
        BY <3>1, <3>2, <4>1
      <4>3. Right(i + 1)
        BY <2>3, <4>2
      <4> QED
        BY <1>12, <4>1, <4>3
    <3> QED
      BY <3>1, <3>2
  <2> HIDE DEF U
  <2> QED
    BY <2>1, <2>2, <2>3, Induction
<1>14. Right(b)
  <2>1. PICK d \in Nat : d <= n /\ b = n + 1 - d
    <3>1. n + 1 - b \in Nat /\ n + 1 - b <= n /\ b = n + 1 - (n + 1 - b)
      BY <1>2
    <3> QED
      BY <3>1
  <2>2. d \in U
    BY <1>13
  <2> QED
    BY <2>1, <2>2
<1>15. Q(b)
  <2>1. ASSUME NEW j \in 1..n, j < b PROVE Visible(B(j), k, s) = {}
    <3>1. \A e \in B(j) : e.key < k /\ IsKey(e)
      BY <1>0, <1>1, <1>2, <1>6, <1>9, <2>1, SeekBlockFacts DEF B
    <3>2. \A e \in B(j) : e.key # k
      BY <1>0, <3>1 DEF IsKey
    <3> QED
      BY <3>2 DEF Visible
  <2> QED
    BY <1>2, <2>1
<1> QED
  BY <1>3, <1>14, <1>15 DEF Right, H

-----------------------------------------------------------------------------
(* The inductive invariant. *)

Written     == Held(blocks) \cup Elems(current)
Wanted      == {e \in InMemtable : \E k \in target : e.key >= k}
First(S, c) == c \in S /\ \A x \in S : ~Less(x, c)
Last(S, c)  == c \in S /\ \A x \in S : ~Less(c, x)
LastOf(s)   == s[Len(s)]

(* The blocks in the file and the one being filled ascend, and nothing is  *)
(* counted twice.                                                          *)
WriterInv ==
    /\ Sorted(blocks) /\ Indexed(index, blocks)
    /\ current \in Seq(Entry) /\ Ascending(current)
    /\ Precedes(Held(blocks), Elems(current))
    /\ entryCount \in Nat /\ IsFiniteSet(Written) /\ Cardinality(Written) = entryCount
    /\ Len(current) <= entryCount
    /\ \A i \in 1..Len(blocks) : Len(blocks[i]) <= entryCount
    /\ Written \subseteq InMemtable

(* BlocksPacked, with the block being filled.                              *)
PackedInv ==
    /\ BlocksPacked
    /\ Len(current) > 1 => BlockSize(current) <= TargetBlockSize
    /\ blocks # <<>> /\ current # <<>> =>
         BlockSize(LastOf(blocks)) + EncodedEntrySize(current[1]) > TargetBlockSize

(* What has been written are the entries that the cursor has passed.       *)
WriteInv ==
    /\ locked
    /\ Written = {e \in InMemtable : cursor = NoNode \/ Less(e, cursor)}
    /\ IF Written = {} THEN current = <<>> /\ lastKey = NoKey /\ smallest = NoKey
       ELSE /\ current # <<>> /\ Last(Written, lastKey) /\ largest = lastKey
            /\ First(InMemtable, smallest)

ReadInv ==
    /\ current = <<>> /\ Held(blocks) = InMemtable
    /\ First(InMemtable, smallest) /\ Last(InMemtable, largest)
    /\ footer = [blocks |-> Len(blocks), entries |-> Cardinality(InMemtable),
                 written |-> TRUE]

PhaseInv ==
    /\ phase \in {"fill", "write", "readable", "failed"}
    /\ cursor \in InMemtable \cup {NoNode} /\ locked \in BOOLEAN
    /\ ~locked => cursor = NoNode
    /\ phase = "fill" =>
         /\ blocks = <<>> /\ current = <<>> /\ lastKey = NoKey
         /\ smallest = NoKey /\ largest = NoKey
    /\ phase = "write" => WriteInv
    /\ phase = "readable" => ReadInv
    /\ phase \in {"readable", "failed"} => ~locked

Iterators ==
    [open : BOOLEAN, block : Nat, idx : Nat, valid : BOOLEAN,
     err : {"nil", "ErrCorruptBlock", "ErrIteratorClosed"}]

(* The table's iterator is valid only on an entry of the table.            *)
IterInv ==
    /\ readerOpen \in BOOLEAN /\ it \in Iterators
    /\ it.block <= Len(index) + 1
    /\ it.valid => /\ it.open /\ it.err = "nil"
                   /\ it.block \in 1..Len(index) /\ it.idx \in 1..Len(blocks[it.block])
    /\ phase # "readable" => ~readerOpen /\ it = NoIter

(* A scan stands on the last entry it has seen, and has nothing left to    *)
(* see when it ends without an error.                                      *)
ScanInv ==
    /\ target \subseteq Nat /\ Scans(seen, Wanted)
    /\ locked => IF cursor = NoNode THEN Elems(seen) = Wanted
                 ELSE seen # <<>> /\ LastOf(seen) = cursor
    /\ it.open => /\ it.valid => seen # <<>> /\ LastOf(seen) = blocks[it.block][it.idx]
                  /\ ~it.valid /\ it.err = "nil" => Elems(seen) = Wanted
    /\ ~locked /\ ~it.open => target = {} /\ seen = <<>>

FlushInv == ListInv /\ WriterInv /\ PackedInv /\ PhaseInv /\ IterInv /\ ScanInv

-----------------------------------------------------------------------------
(* What a move of an iterator does to a scan of the entries W. *)

LEMMA ScanStarts ==
    ASSUME NEW W \in SUBSET Entry, Unique(W), NEW c,
           IF W = {} THEN c = NoNode ELSE First(W, c),
           NEW s, s = IF c = NoNode THEN <<>> ELSE <<c>>
    PROVE  /\ Scans(s, W) /\ (c = NoNode => Elems(s) = W)
           /\ c # NoNode => s # <<>> /\ LastOf(s) = c
<1>1. CASE W = {}
  <2>1. c = NoNode /\ s = <<>>
    BY <1>1
  <2> QED
    BY <1>1, <2>1, ScanNone
<1>2. CASE W # {}
  <2>1. c \in W /\ \A x \in W : ~Less(x, c)
    BY <1>2 DEF First
  <2>2. c # NoNode
    BY <2>1, EntryFacts
  <2>3. s = <<c>>
    BY <2>2
  <2> QED
    BY <2>1, <2>2, <2>3, ScanFirst DEF LastOf
<1> QED
  BY <1>1, <1>2

LEMMA ScanStays ==
    ASSUME NEW W, NEW s, Scans(s, W), NEW t, t = s \o <<>>
    PROVE  t = s
  BY DEF Scans

(* The entries a scan wants: it starts at the first and has the rest above *)
(* it.                                                                     *)
LEMMA WantedFacts ==
    ASSUME Linked
    PROVE  /\ InMemtable \subseteq Entry /\ Unique(InMemtable)
           /\ Wanted \in SUBSET Entry /\ Unique(Wanted) /\ Wanted \subseteq InMemtable
           /\ target = {} => Wanted = {}
           /\ target = {FromStart} => Wanted = InMemtable
           /\ target \subseteq Nat => \A c \in Wanted :
                {x \in Wanted : Less(c, x)} = {x \in InMemtable : Less(c, x)}
<1>1. InMemtable \subseteq Entry /\ Unique(InMemtable)
  BY MemtableFacts
<1>2. \A e \in InMemtable : IsKey(e)
  BY <1>1, EntryFacts
<1>3. Wanted \subseteq InMemtable
  BY DEF Wanted
<1>4. Wanted \in SUBSET Entry /\ Unique(Wanted)
  BY <1>1, <1>3 DEF Unique
<1>5. target = {} => Wanted = {}
  BY DEF Wanted
<1>6. target = {FromStart} => Wanted = InMemtable
  BY <1>2 DEF Wanted, FromStart, IsKey
<1>7. ASSUME target \subseteq Nat, NEW c \in Wanted, NEW x \in InMemtable, Less(c, x)
      PROVE  x \in Wanted
  <2>1. PICK k \in target : c.key >= k
    BY <1>7 DEF Wanted
  <2>2. IsKey(c) /\ IsKey(x) /\ k \in Nat
    BY <1>2, <1>3, <1>7
  <2>3. x.key >= k
    BY <1>7, <2>1, <2>2 DEF Less, IsKey
  <2> QED
    BY <2>3 DEF Wanted
<1>8. ASSUME target \subseteq Nat, NEW c \in Wanted
      PROVE  {x \in Wanted : Less(c, x)} = {x \in InMemtable : Less(c, x)}
  BY <1>3, <1>7, <1>8
<1> QED
  BY <1>1, <1>3, <1>4, <1>5, <1>6, <1>8

(* The bottom level leads from an entry to the next.                       *)
LEMMA BottomLevel ==
    ASSUME Linked
    PROVE  /\ IF InMemtable = {} THEN next[1][ListHead] = NoNode
              ELSE First(InMemtable, next[1][ListHead])
           /\ \A c \in InMemtable :
                IF {x \in InMemtable : Less(c, x)} = {} THEN next[1][c] = NoNode
                ELSE First({x \in InMemtable : Less(c, x)}, next[1][c])
<1>1. InMemtable = Nodes(next[1]) /\ Chain(next[1]) /\ InMemtable \subseteq Entry
  BY MemtableFacts
<1>2. ListHead \in DOMAIN next[1] /\ \A n \in DOMAIN next[1] : Leads(next[1], n)
  BY <1>1 DEF Chain
<1>3. Behind(next[1], ListHead) = InMemtable
  BY <1>1 DEF Behind
<1>4. ASSUME NEW c \in InMemtable
      PROVE  Behind(next[1], c) = {x \in InMemtable : Less(c, x)} /\ c \in DOMAIN next[1]
  <2>1. c # ListHead
    BY <1>1, EntryFacts
  <2> QED
    BY <1>1, <2>1 DEF Behind, Nodes
<1>5. IF InMemtable = {} THEN next[1][ListHead] = NoNode
      ELSE First(InMemtable, next[1][ListHead])
  BY <1>2, <1>3 DEF Leads, First
<1>6. ASSUME NEW c \in InMemtable
      PROVE  IF {x \in InMemtable : Less(c, x)} = {} THEN next[1][c] = NoNode
             ELSE First({x \in InMemtable : Less(c, x)}, next[1][c])
  <2>1. Leads(next[1], c) /\ Behind(next[1], c) = {x \in InMemtable : Less(c, x)}
    BY <1>2, <1>4
  <2> QED
    BY <2>1 DEF Leads, First
<1> QED
  BY <1>5, <1>6

(* Seek goes to the first entry of the user key or above.                  *)
LEMMA SeekLands ==
    ASSUME Linked, NEW k \in UserKeys, NEW W, W = {e \in InMemtable : e.key >= k}, NEW c,
           c = next[1][FindPredecessors([key |-> k, seq |-> MaxSeqno])[1]]
    PROVE  IF W = {} THEN c = NoNode ELSE First(W, c)
<1>1. PICK key : key = [key |-> k, seq |-> MaxSeqno]
  OBVIOUS
<1>2. key.key = k /\ key.seq = MaxSeqno /\ IsKey(key) /\ MaxSeqno = MaxPuts + 1 /\ k \in Nat
  BY <1>1, KeysAssumption DEF IsKey, MaxSeqno
<1>3. InMemtable \subseteq Entry
  BY MemtableFacts
<1>4. ASSUME NEW x \in InMemtable PROVE x \in W <=> ~Less(x, key)
  <2>1. IsKey(x) /\ x.seq \in 1..MaxPuts
    BY <1>3, <1>4, EntryFacts
  <2> QED
    BY <1>2, <2>1, KeysAssumption DEF Less, IsKey
<1>5. c = next[1][FindPredecessors(key)[1]]
  BY <1>1
<1>6. IF \E x \in InMemtable : ~Less(x, key)
      THEN /\ c \in InMemtable /\ ~Less(c, key)
           /\ \A x \in InMemtable : ~Less(x, key) => ~Less(x, c)
      ELSE c = NoNode
  BY <1>2, <1>5, SeekFinds
<1> QED
  BY <1>4, <1>6 DEF First

-----------------------------------------------------------------------------
(* The invariant holds at first and every step keeps it. *)

LEMMA IteratorUpdates ==
    ASSUME NEW r \in Iterators, NEW o \in BOOLEAN, NEW i \in Nat, NEW j \in Nat,
           NEW v \in BOOLEAN, NEW e \in {"nil", "ErrCorruptBlock", "ErrIteratorClosed"}
    PROVE  /\ [r EXCEPT !.open = o, !.err = e] \in Iterators
           /\ [r EXCEPT !.block = i, !.idx = j, !.valid = v, !.err = e] \in Iterators
           /\ [r EXCEPT !.block = i, !.valid = v, !.err = e] \in Iterators
           /\ [r EXCEPT !.block = i, !.idx = j, !.valid = v] \in Iterators
           /\ [r EXCEPT !.block = i, !.idx = j] \in Iterators
           /\ [r EXCEPT !.valid = v, !.err = e] \in Iterators
           /\ [r EXCEPT !.idx = j] \in Iterators
<1>1. ASSUME NEW q \in Iterators PROVE [q EXCEPT !.open = o] \in Iterators
  BY SMT DEF Iterators
<1>2. ASSUME NEW q \in Iterators PROVE [q EXCEPT !.block = i] \in Iterators
  BY SMT DEF Iterators
<1>3. ASSUME NEW q \in Iterators PROVE [q EXCEPT !.idx = j] \in Iterators
  BY SMT DEF Iterators
<1>4. ASSUME NEW q \in Iterators PROVE [q EXCEPT !.valid = v] \in Iterators
  BY SMT DEF Iterators
<1>5. ASSUME NEW q \in Iterators PROVE [q EXCEPT !.err = e] \in Iterators
  BY SMT DEF Iterators
<1>6. [r EXCEPT !.open = o, !.err = e] \in Iterators
  <2>1. PICK q1 \in Iterators : q1 = [r EXCEPT !.open = o]
    BY <1>1
  <2>2. PICK q2 \in Iterators : q2 = [q1 EXCEPT !.err = e]
    BY <1>5
  <2> QED
    BY <2>1, <2>2, Zenon
<1>7. [r EXCEPT !.block = i, !.idx = j, !.valid = v, !.err = e] \in Iterators
  <2>1. PICK q1 \in Iterators : q1 = [r EXCEPT !.block = i]
    BY <1>2
  <2>2. PICK q2 \in Iterators : q2 = [q1 EXCEPT !.idx = j]
    BY <1>3
  <2>3. PICK q3 \in Iterators : q3 = [q2 EXCEPT !.valid = v]
    BY <1>4
  <2>4. PICK q4 \in Iterators : q4 = [q3 EXCEPT !.err = e]
    BY <1>5
  <2> QED
    BY <2>1, <2>2, <2>3, <2>4, Zenon
<1>8. [r EXCEPT !.block = i, !.valid = v, !.err = e] \in Iterators
  <2>1. PICK q1 \in Iterators : q1 = [r EXCEPT !.block = i]
    BY <1>2
  <2>2. PICK q2 \in Iterators : q2 = [q1 EXCEPT !.valid = v]
    BY <1>4
  <2>3. PICK q3 \in Iterators : q3 = [q2 EXCEPT !.err = e]
    BY <1>5
  <2> QED
    BY <2>1, <2>2, <2>3, Zenon
<1>9. [r EXCEPT !.block = i, !.idx = j, !.valid = v] \in Iterators
  <2>1. PICK q1 \in Iterators : q1 = [r EXCEPT !.block = i]
    BY <1>2
  <2>2. PICK q2 \in Iterators : q2 = [q1 EXCEPT !.idx = j]
    BY <1>3
  <2>3. PICK q3 \in Iterators : q3 = [q2 EXCEPT !.valid = v]
    BY <1>4
  <2> QED
    BY <2>1, <2>2, <2>3, Zenon
<1>10. [r EXCEPT !.block = i, !.idx = j] \in Iterators
  <2>1. PICK q1 \in Iterators : q1 = [r EXCEPT !.block = i]
    BY <1>2
  <2>2. PICK q2 \in Iterators : q2 = [q1 EXCEPT !.idx = j]
    BY <1>3
  <2> QED
    BY <2>1, <2>2, Zenon
<1>11. [r EXCEPT !.valid = v, !.err = e] \in Iterators
  <2>1. PICK q1 \in Iterators : q1 = [r EXCEPT !.valid = v]
    BY <1>4
  <2>2. PICK q2 \in Iterators : q2 = [q1 EXCEPT !.err = e]
    BY <1>5
  <2> QED
    BY <2>1, <2>2, Zenon
<1>12. [r EXCEPT !.idx = j] \in Iterators
  <2>1. PICK q1 \in Iterators : q1 = [r EXCEPT !.idx = j]
    BY <1>3
  <2> QED
    BY <2>1, Zenon
<1> QED
  BY <1>6, <1>7, <1>8, <1>9, <1>10, <1>11, <1>12

LEMMA NoIterFacts ==
    /\ NoIter \in Iterators /\ Fresh \in Iterators
    /\ ~NoIter.open /\ ~NoIter.valid /\ NoIter.block = 0
    /\ Fresh.open /\ ~Fresh.valid /\ Fresh.block = 0 /\ Fresh.err = "nil"
<1>1. Fresh \in Iterators
  BY SMT DEF Iterators, Fresh
<1>2. /\ Fresh.open /\ ~Fresh.valid /\ Fresh.block = 0 /\ Fresh.err = "nil"
  BY SMT DEF Fresh
<1>3. NoIter \in Iterators
  <2>1. PICK o \in BOOLEAN : o = FALSE
    OBVIOUS
  <2>2. [Fresh EXCEPT !.open = o, !.err = "ErrIteratorClosed"] \in Iterators
    BY <1>1, IteratorUpdates
  <2> QED
    BY <2>1, <2>2, Zenon DEF NoIter
<1>4. ~NoIter.open /\ ~NoIter.valid /\ NoIter.block = 0
  BY SMT DEF NoIter, Fresh
<1> QED
  BY <1>1, <1>2, <1>3, <1>4

(* What the iterator's moves set.                                          *)
LEMMA PositionFacts ==
    ASSUME it \in Iterators, NEW i \in Nat, NEW j \in Nat
    PROVE  /\ At(i, j) \in Iterators /\ At(i, j).valid /\ At(i, j).err = "nil"
           /\ At(i, j).block = i /\ At(i, j).idx = j /\ (At(i, j).open <=> it.open)
           /\ Exhausted \in Iterators /\ ~Exhausted.valid /\ Exhausted.err = "nil"
           /\ Exhausted.block = it.block /\ (Exhausted.open <=> it.open)
           /\ LoadFailed(i) \in Iterators /\ ~LoadFailed(i).valid /\ LoadFailed(i).block = i
           /\ LoadFailed(i).err = "ErrCorruptBlock" /\ (LoadFailed(i).open <=> it.open)
<1>1. PICK y \in BOOLEAN : y = TRUE
  OBVIOUS
<1>2. PICK z \in BOOLEAN : z = FALSE
  OBVIOUS
<1>3. PICK e \in {"nil", "ErrCorruptBlock", "ErrIteratorClosed"} : e = "nil"
  OBVIOUS
<1>4. PICK c \in {"nil", "ErrCorruptBlock", "ErrIteratorClosed"} : c = "ErrCorruptBlock"
  OBVIOUS
<1>5. At(i, j) \in Iterators
  <2>1. [it EXCEPT !.block = i, !.idx = j, !.valid = y, !.err = e] \in Iterators
    BY IteratorUpdates
  <2> QED
    BY <1>1, <1>3, <2>1, Zenon DEF At
<1>6. Exhausted \in Iterators
  <2>1. [it EXCEPT !.valid = z, !.err = e] \in Iterators
    BY IteratorUpdates
  <2> QED
    BY <1>2, <1>3, <2>1, Zenon DEF Exhausted
<1>7. LoadFailed(i) \in Iterators
  <2>1. [it EXCEPT !.block = i, !.valid = z, !.err = c] \in Iterators
    BY IteratorUpdates
  <2> QED
    BY <1>2, <1>4, <2>1, Zenon DEF LoadFailed
<1>8. /\ At(i, j).valid /\ At(i, j).err = "nil"
      /\ At(i, j).block = i /\ At(i, j).idx = j /\ (At(i, j).open <=> it.open)
  BY SMT DEF At, Iterators
<1>9. /\ ~Exhausted.valid /\ Exhausted.err = "nil"
      /\ Exhausted.block = it.block /\ (Exhausted.open <=> it.open)
  BY SMT DEF Exhausted, Iterators
<1>10. /\ ~LoadFailed(i).valid /\ LoadFailed(i).block = i
       /\ LoadFailed(i).err = "ErrCorruptBlock" /\ (LoadFailed(i).open <=> it.open)
  BY SMT DEF LoadFailed, Iterators
<1> QED
  BY <1>5, <1>6, <1>7, <1>8, <1>9, <1>10

LEMMA NothingHeld == Held(<<>>) = {} /\ Elems(<<>>) = {} /\ Ascending(<<>>) /\ Len(<<>>) = 0
  BY DEF Held, Elems, Ascending

LEMMA FlushInit == Init => FlushInv
<1> SUFFICES ASSUME Init PROVE FlushInv
  OBVIOUS
<1> USE DEF Init
<1>1. ListInv
  BY ListInit
<1>2. Held(<<>>) = {} /\ Elems(<<>>) = {} /\ Ascending(<<>>) /\ Len(<<>>) = 0
  BY NothingHeld
<1>3. <<>> \in Seq(Entry) /\ <<>> \in Seq(Seq(Entry))
  OBVIOUS
<1>4. Written = {}
  BY <1>2 DEF SSTInit, Written
<1>5. WriterInv
  <2>1. Sorted(blocks) /\ Indexed(index, blocks)
    BY <1>2, <1>3 DEF SSTInit, Sorted, Indexed
  <2>2. IsFiniteSet(Written) /\ Cardinality(Written) = 0
    BY <1>4, FS_EmptySet
  <2> QED
    BY <1>2, <1>3, <1>4, <2>1, <2>2 DEF SSTInit, WriterInv, Precedes
<1>6. PackedInv
  BY <1>2 DEF SSTInit, PackedInv, BlocksPacked
<1>7. PhaseInv
  BY DEF SSTInit, MemInit, PhaseInv
<1>8. IterInv
  <2>1. phase = "fill" /\ readerOpen = FALSE /\ it = NoIter /\ Len(index) = 0
    BY <1>2 DEF SSTInit
  <2>2. ~it.valid /\ it.block <= Len(index) + 1
    BY <2>1, NoIterFacts
  <2> QED
    BY <2>1, <2>2, NoIterFacts, Zenon DEF IterInv
<1>9. ScanInv
  BY ScanNone DEF SSTInit, MemInit, ScanInv, NoIter, Fresh
<1> QED
  BY <1>1, <1>5, <1>6, <1>7, <1>8, <1>9 DEF FlushInv

LEMMA KeepList ==
    ASSUME ListInv, UNCHANGED listVars
    PROVE  ListInv' /\ InMemtable' = InMemtable
  BY DEF ListInv, listVars, Linked, InMemtable

LEMMA KeepFile ==
    ASSUME WriterInv, PackedInv, UNCHANGED fileVars, InMemtable \subseteq InMemtable'
    PROVE  WriterInv' /\ PackedInv' /\ Written' = Written
<1> USE DEF fileVars
<1>1. Written' = Written
  BY DEF Written
<1>2. WriterInv'
  BY <1>1 DEF WriterInv
<1>3. PackedInv'
  BY DEF PackedInv, BlocksPacked
<1> QED
  BY <1>1, <1>2, <1>3

LEMMA PutKeeps ==
    ASSUME FlushInv, NEW k \in UserKeys, NEW kind, NEW len, NEW h \in Levels,
           \/ kind = "put" /\ len \in Lengths
           \/ kind = "delete" /\ len = 0,
           Put(k, kind, len, h)
    PROVE  FlushInv'
<1> USE DEF FlushInv
<1>1. PICK e : e = [key |-> k, seq |-> length + 1, kind |-> kind, len |-> len]
  OBVIOUS
<1>2. phase = "fill" /\ length < MaxPuts /\ MemPut(e, h) /\ length \in 0..MaxPuts
      /\ UNCHANGED <<sstVars, phase, smallest, largest, scanVars>>
  BY <1>1 DEF Put, ListInv
<1>3. e \in Entry /\ e.seq = length + 1
  <2>1. length + 1 \in 1..MaxPuts
    BY <1>2, KeysAssumption
  <2> QED
    BY <1>1, <2>1 DEF Entry, Seqnos
<1>4. ListInv' /\ InMemtable' = InMemtable \cup {e}
  BY <1>2, <1>3, MemPutKeeps
<1>5. ~locked /\ UNCHANGED <<cursor, locked>>
  BY <1>2 DEF MemPut, iterVars
<1>6. WriterInv' /\ PackedInv'
  BY <1>2, <1>4, KeepFile DEF sstVars, fileVars
<1>7. cursor = NoNode /\ it = NoIter /\ ~it.open
  BY <1>2, <1>5 DEF PhaseInv, IterInv, NoIter, Fresh
<1>8. PhaseInv'
  BY <1>2, <1>5, <1>7 DEF PhaseInv, sstVars, fileVars
<1>9. IterInv'
  BY <1>2 DEF IterInv, sstVars, fileVars, readVars
<1>10. ScanInv'
  <2>1. target = {} /\ seen = <<>>
    BY <1>5, <1>7 DEF ScanInv
  <2>2. target' = {} /\ seen' = <<>> /\ ~locked' /\ ~it'.open
    BY <1>2, <1>5, <1>7, <2>1 DEF scanVars, sstVars, readVars
  <2>3. Wanted' = {}
    BY <2>2 DEF Wanted
  <2> QED
    BY <2>2, <2>3, ScanNone DEF ScanInv
<1> QED
  BY <1>4, <1>6, <1>8, <1>9, <1>10

(* The cursor is placed and the scan starts anew.                          *)
LEMMA CursorStarts ==
    ASSUME ListInv, NEW k \in Nat, NEW W, W = {e \in InMemtable : e.key >= k},
           IF W = {} THEN cursor' = NoNode ELSE First(W, cursor'),
           locked', UNCHANGED listVars, Restart(k, CursorEntry), ~it'.open
    PROVE  ScanInv' /\ cursor' \in InMemtable' \cup {NoNode}
<1>1. InMemtable' = InMemtable /\ Linked /\ Linked'
  BY KeepList DEF ListInv
<1>2. target' = {k} /\ seen' = (IF cursor' = NoNode THEN <<>> ELSE <<cursor'>>)
  BY DEF Restart, CursorEntry
<1>3. Wanted' = W
  BY <1>1, <1>2 DEF Wanted
<1>4. InMemtable \subseteq Entry /\ Unique(InMemtable)
  BY <1>1, MemtableFacts
<1>5. W \in SUBSET Entry /\ Unique(W) /\ W \subseteq InMemtable
  BY <1>4 DEF Unique
<1>6. /\ Scans(seen', W) /\ (cursor' = NoNode => Elems(seen') = W)
      /\ cursor' # NoNode => seen' # <<>> /\ LastOf(seen') = cursor'
  BY <1>2, <1>5, ScanStarts
<1>7. cursor' \in W \cup {NoNode}
  BY DEF First
<1> QED
  BY <1>1, <1>2, <1>3, <1>5, <1>6, <1>7 DEF ScanInv

(* The cursor moves on.                                                    *)
LEMMA CursorMoves ==
    ASSUME ListInv, PhaseInv, ScanInv, locked, IterNext, Advance(CursorEntry), ~it'.open
    PROVE  /\ ScanInv' /\ cursor' \in InMemtable' \cup {NoNode} /\ locked'
           /\ UNCHANGED listVars
<1>1. UNCHANGED listVars /\ locked' = locked
      /\ cursor' = IF cursor = NoNode THEN NoNode ELSE next[1][cursor]
  BY DEF IterNext
<1>2. InMemtable' = InMemtable /\ Linked
  BY <1>1, KeepList DEF ListInv
<1>3. target' = target /\ seen' = seen \o (IF cursor' = NoNode THEN <<>> ELSE <<cursor'>>)
  BY DEF Advance, CursorEntry
<1>4. Wanted' = Wanted
  BY <1>2, <1>3 DEF Wanted
<1>5. Scans(seen, Wanted) /\ target \subseteq Nat
      /\ IF cursor = NoNode THEN Elems(seen) = Wanted ELSE seen # <<>> /\ LastOf(seen) = cursor
  BY DEF ScanInv
<1>6. /\ Scans(seen', Wanted) /\ cursor' \in InMemtable \cup {NoNode}
      /\ IF cursor' = NoNode THEN Elems(seen') = Wanted
         ELSE seen' # <<>> /\ LastOf(seen') = cursor'
  <2>1. CASE cursor = NoNode
    <3>1. cursor' = NoNode /\ seen' = seen
      BY <1>1, <1>3, <1>5, <2>1, ScanStays
    <3> QED
      BY <1>5, <2>1, <3>1
  <2>2. CASE cursor # NoNode
    <3>1. cursor \in InMemtable /\ seen # <<>> /\ LastOf(seen) = cursor
      BY <1>5, <2>2 DEF PhaseInv
    <3>2. cursor \in Elems(seen) /\ cursor \in Wanted
      <4>1. seen \in Seq(Entry) /\ Elems(seen) \subseteq Wanted
        BY <1>5 DEF Scans
      <4>2. LastOf(seen) \in Elems(seen)
        BY <3>1, <4>1, ElemsFacts DEF LastOf
      <4> QED
        BY <3>1, <4>1, <4>2
    <3>3. PICK B : B = {x \in InMemtable : Less(cursor, x)}
      OBVIOUS
    <3>4. B = {x \in Wanted : Less(LastOf(seen), x)}
      BY <1>2, <1>5, <3>1, <3>2, <3>3, WantedFacts
    <3>5. IF B = {} THEN cursor' = NoNode ELSE First(B, cursor')
      BY <1>1, <1>2, <2>2, <3>1, <3>3, BottomLevel
    <3>6. Wanted \in SUBSET Entry /\ Unique(Wanted)
      BY <1>2, WantedFacts
    <3>7. /\ Scans(seen', Wanted) /\ (cursor' = NoNode => Elems(seen') = Wanted)
          /\ cursor' # NoNode => seen' # <<>> /\ LastOf(seen') = cursor'
      <4>1. PICK W \in SUBSET Entry : W = Wanted /\ Unique(W)
        BY <3>6
      <4>2. PICK d : d = cursor'
        OBVIOUS
      <4>3. seen' = seen \o (IF d = NoNode THEN <<>> ELSE <<d>>) /\ seen \in Seq(Entry)
        BY <1>3, <1>5, <4>2 DEF Scans
      <4>4. Scans(seen, W)
        BY <1>5, <4>1
      <4>5. /\ d # NoNode => d \in W /\ Less(LastOf(seen), d)
            /\ \A x \in W : Less(LastOf(seen), x) => d # NoNode /\ ~Less(x, d)
        <5>1. \A x \in B : x # NoNode
          BY <3>4, <3>6, EntryFacts
        <5> QED
          BY <3>4, <3>5, <4>1, <4>2, <5>1 DEF First
      <4>6. CASE d = NoNode
        <5>1. seen' = seen
          <6>1. seen' = seen \o <<>>
            BY <4>3, <4>6
          <6> QED
            BY <4>3, <6>1
        <5>2. \A x \in W : ~Less(seen[Len(seen)], x)
          BY <4>5, <4>6 DEF LastOf
        <5>3. Elems(seen) = W
          BY <3>1, <4>4, <5>2, ScanEnd
        <5> QED
          BY <4>1, <4>2, <4>4, <4>6, <5>1, <5>3
      <4>7. CASE d # NoNode
        <5>1. d \in W /\ Less(seen[Len(seen)], d) /\ \A x \in W : Less(seen[Len(seen)], x) => ~Less(x, d)
          BY <4>5, <4>7 DEF LastOf
        <5>2. seen' = Append(seen, d)
          <6>1. seen' = seen \o <<d>> /\ d \in Entry
            BY <4>3, <4>7, <5>1
          <6> QED
            BY <4>3, <6>1
        <5>3. Scans(Append(seen, d), W) /\ Append(seen, d) # <<>>
              /\ Append(seen, d)[Len(Append(seen, d))] = d
          BY <3>1, <4>1, <4>4, <5>1, ScanNext
        <5> QED
          BY <4>1, <4>2, <4>7, <5>2, <5>3 DEF LastOf
      <4> QED
        BY <4>6, <4>7
    <3>8. cursor' \in InMemtable \cup {NoNode}
      BY <3>3, <3>5 DEF First
    <3> QED
      BY <3>7, <3>8
  <2> QED
    BY <2>1, <2>2
<1> QED
  BY <1>1, <1>2, <1>3, <1>4, <1>5, <1>6 DEF ScanInv

LEMMA CursorCloses ==
    ASSUME ListInv, IterClose, Forget, ~it'.open
    PROVE  ScanInv' /\ cursor' = NoNode /\ locked' = FALSE /\ UNCHANGED listVars
<1>1. target' = {} /\ seen' = <<>> /\ cursor' = NoNode /\ locked' = FALSE /\ UNCHANGED listVars
  BY DEF IterClose, Forget
<1>2. Wanted' = {}
  BY <1>1 DEF Wanted
<1> QED
  BY <1>1, <1>2, ScanNone DEF ScanInv

LEMMA MemScanKeeps ==
    ASSUME FlushInv, MemScan
    PROVE  FlushInv'
<1> USE DEF FlushInv
<1>1. phase = "fill" /\ UNCHANGED <<sstVars, phase, smallest, largest>>
  BY DEF MemScan
<1>2. UNCHANGED fileVars /\ UNCHANGED readVars /\ it' = it /\ ~it'.open
  BY <1>1, NoIterFacts DEF IterInv, sstVars, readVars
<1>3. ASSUME UNCHANGED listVars, ScanInv', cursor' \in InMemtable' \cup {NoNode},
             locked' \in BOOLEAN, ~locked' => cursor' = NoNode
      PROVE  FlushInv'
  <2>1. ListInv' /\ InMemtable' = InMemtable
    BY <1>3, KeepList
  <2>2. WriterInv' /\ PackedInv'
    BY <1>2, <2>1, KeepFile
  <2>3. PhaseInv'
    BY <1>1, <1>2, <1>3 DEF PhaseInv, fileVars
  <2>4. IterInv'
    BY <1>1, <1>2 DEF IterInv, fileVars, readVars
  <2> QED
    BY <1>3, <2>1, <2>2, <2>3, <2>4
<1>4. Linked
  BY DEF ListInv
<1>5. CASE IterSeekToFirst /\ Restart(FromStart, CursorEntry)
  <2>1. cursor' = next[1][ListHead] /\ locked' = TRUE /\ UNCHANGED listVars
    BY <1>5 DEF IterSeekToFirst
  <2>2. PICK W : W = {e \in InMemtable : e.key >= FromStart}
    OBVIOUS
  <2>3. W = InMemtable
    BY <1>4, <2>2, MemtableFacts, EntryFacts DEF FromStart, IsKey
  <2>4. IF W = {} THEN cursor' = NoNode ELSE First(W, cursor')
    BY <1>4, <2>1, <2>3, BottomLevel
  <2>5. FromStart \in Nat
    BY DEF FromStart
  <2>6. ScanInv' /\ cursor' \in InMemtable' \cup {NoNode}
    BY <1>2, <1>5, <2>1, <2>2, <2>4, <2>5, CursorStarts
  <2> QED
    BY <1>3, <2>1, <2>6
<1>6. ASSUME NEW k \in UserKeys, IterSeek(k), Restart(k, CursorEntry)
      PROVE  FlushInv'
  <2>1. cursor' = next[1][FindPredecessors([key |-> k, seq |-> MaxSeqno])[1]]
        /\ locked' = TRUE /\ UNCHANGED listVars
    BY <1>6 DEF IterSeek
  <2>2. PICK W : W = {e \in InMemtable : e.key >= k}
    OBVIOUS
  <2>3. IF W = {} THEN cursor' = NoNode ELSE First(W, cursor')
    BY <1>4, <2>1, <2>2, SeekLands
  <2>4. ScanInv' /\ cursor' \in InMemtable' \cup {NoNode}
    BY <1>2, <1>6, <2>1, <2>2, <2>3, KeysAssumption, CursorStarts
  <2> QED
    BY <1>3, <2>1, <2>4
<1>7. CASE locked /\ IterNext /\ Advance(CursorEntry)
  <2>1. ScanInv' /\ cursor' \in InMemtable' \cup {NoNode} /\ locked' /\ UNCHANGED listVars
    BY <1>2, <1>7, CursorMoves
  <2>2. locked' \in BOOLEAN
    BY <1>7 DEF IterNext, PhaseInv
  <2> QED
    BY <1>3, <2>1, <2>2
<1>8. CASE locked /\ IterClose /\ Forget
  <2>1. ScanInv' /\ cursor' = NoNode /\ locked' = FALSE /\ UNCHANGED listVars
    BY <1>2, <1>8, CursorCloses
  <2> QED
    BY <1>3, <2>1
<1> QED
  BY <1>5, <1>6, <1>7, <1>8 DEF MemScan

LEMMA FlushStartKeeps ==
    ASSUME FlushInv, FlushStart
    PROVE  FlushInv'
<1> USE DEF FlushInv
<1>1. /\ phase = "fill" /\ phase' = "write" /\ IterSeekToFirst
      /\ Restart(FromStart, CursorEntry) /\ UNCHANGED <<sstVars, smallest, largest>>
  BY DEF FlushStart
<1>2. UNCHANGED fileVars /\ UNCHANGED readVars /\ it' = it /\ ~it'.open
  BY <1>1, NoIterFacts DEF IterInv, sstVars, readVars
<1>3. cursor' = next[1][ListHead] /\ locked' = TRUE /\ UNCHANGED listVars /\ Linked
  BY <1>1 DEF IterSeekToFirst, ListInv
<1>4. ListInv' /\ InMemtable' = InMemtable
  BY <1>3, KeepList
<1>5. PICK W : W = {e \in InMemtable : e.key >= FromStart}
  OBVIOUS
<1>6. W = InMemtable /\ FromStart \in Nat
  BY <1>3, <1>5, MemtableFacts, EntryFacts DEF FromStart, IsKey
<1>7. IF W = {} THEN cursor' = NoNode ELSE First(W, cursor')
  BY <1>3, <1>6, BottomLevel
<1>8. ScanInv' /\ cursor' \in InMemtable' \cup {NoNode}
  BY <1>1, <1>2, <1>3, <1>5, <1>6, <1>7, CursorStarts
<1>9. WriterInv' /\ PackedInv' /\ Written' = Written
  BY <1>2, <1>4, KeepFile
<1>10. Written' = {}
  <2>1. blocks = <<>> /\ current = <<>>
    BY <1>1 DEF PhaseInv
  <2> QED
    BY <1>9, <2>1, NothingHeld DEF Written
<1>11. WriteInv'
  <2>1. ASSUME NEW e \in InMemtable PROVE ~(cursor' = NoNode \/ Less(e, cursor'))
    <3>1. First(InMemtable, cursor')
      BY <1>6, <1>7, <2>1
    <3>2. cursor' \in Entry
      BY <1>3, <3>1, MemtableFacts DEF First
    <3> QED
      BY <2>1, <3>1, <3>2, EntryFacts DEF First
  <2>2. Written' = {e \in InMemtable' : cursor' = NoNode \/ Less(e, cursor')}
    BY <1>4, <1>10, <2>1
  <2>3. current' = <<>> /\ lastKey' = NoKey /\ smallest' = NoKey
    BY <1>1, <1>2 DEF PhaseInv, fileVars
  <2> QED
    BY <1>3, <1>10, <2>2, <2>3 DEF WriteInv
<1>12. PhaseInv'
  BY <1>1, <1>3, <1>8, <1>11 DEF PhaseInv
<1>13. IterInv'
  BY <1>1, <1>2 DEF IterInv, fileVars, readVars
<1> QED
  BY <1>4, <1>8, <1>9, <1>12, <1>13

(* The current block is appended to the file.                              *)
LEMMA BlockCloses ==
    ASSUME WriterInv, PackedInv, current # <<>>, FlushCurrentBlock
    PROVE  /\ Sorted(blocks') /\ Indexed(index', blocks') /\ Held(blocks') = Written
           /\ Len(blocks') = Len(blocks) + 1 /\ Len(blocks) \in Nat
           /\ BlocksPacked' /\ LastOf(blocks') = current
           /\ \A i \in 1..Len(blocks') : Len(blocks'[i]) \in Nat /\ Len(blocks'[i]) <= entryCount
<1>1. PICK n \in Nat : n = Len(blocks)
  BY DEF WriterInv, Indexed
<1>2. /\ Sorted(blocks) /\ Indexed(index, blocks) /\ current \in Seq(Entry)
      /\ Ascending(current) /\ Precedes(Held(blocks), Elems(current))
      /\ Len(current) <= entryCount /\ \A i \in 1..n : Len(blocks[i]) <= entryCount
  BY <1>1 DEF WriterInv
<1>3. blocks' = Append(blocks, current) /\ index' = Append(index, current[Len(current)])
  BY DEF FlushCurrentBlock
<1>4. /\ Sorted(blocks') /\ Indexed(index', blocks')
      /\ Held(blocks') = Held(blocks) \cup Elems(current)
      /\ Len(blocks') = n + 1 /\ blocks'[n + 1] = current
      /\ \A i \in 1..n : blocks'[i] = blocks[i]
  BY <1>1, <1>2, <1>3, AppendSorted
<1>5. ASSUME NEW i \in 1..Len(blocks')
      PROVE  Len(blocks'[i]) \in Nat /\ Len(blocks'[i]) <= entryCount
  <2>1. CASE i = n + 1
    BY <1>2, <1>4, <2>1
  <2>2. CASE i # n + 1
    <3>1. i \in 1..n /\ blocks'[i] = blocks[i] /\ Len(blocks[i]) <= entryCount
      BY <1>2, <1>4, <2>2
    <3>2. Len(blocks[i]) \in Nat
      BY <1>1, <1>2, <3>1, HeldFacts
    <3> QED
      BY <3>1, <3>2
  <2> QED
    BY <2>1, <2>2
<1>6. ASSUME NEW i \in 1..(n + 1)
      PROVE  /\ Len(blocks'[i]) > 1 => BlockSize(blocks'[i]) <= TargetBlockSize
             /\ i < n + 1 => BlockSize(blocks'[i]) + EncodedEntrySize(blocks'[i + 1][1])
                               > TargetBlockSize
  <2>1. CASE i = n + 1
    BY <1>4, <2>1 DEF PackedInv
  <2>2. CASE i = n
    <3>1. i \in 1..n /\ blocks'[i] = blocks[i] /\ blocks'[i + 1] = current
      BY <1>4, <2>2
    <3>2. blocks # <<>>
      BY <1>1, <2>2, <3>1
    <3>3. BlockSize(blocks[i]) + EncodedEntrySize(current[1]) > TargetBlockSize
      BY <1>1, <2>2, <3>2 DEF PackedInv, LastOf
    <3>4. Len(blocks[i]) > 1 => BlockSize(blocks[i]) <= TargetBlockSize
      BY <1>1, <3>1 DEF PackedInv, BlocksPacked
    <3> QED
      BY <3>1, <3>3, <3>4
  <2>3. CASE i < n
    <3>1. i \in 1..n /\ i + 1 \in 1..n /\ blocks'[i] = blocks[i] /\ blocks'[i + 1] = blocks[i + 1]
      BY <1>4, <2>3
    <3> QED
      BY <1>1, <2>3, <3>1 DEF PackedInv, BlocksPacked
  <2> QED
    BY <2>1, <2>2, <2>3
<1>7. BlocksPacked'
  BY <1>4, <1>6 DEF BlocksPacked
<1>8. LastOf(blocks') = current
  BY <1>4 DEF LastOf
<1> QED
  BY <1>1, <1>4, <1>5, <1>7, <1>8 DEF Written

(* Add puts an entry behind what is there, into the current block or into  *)
(* a new one.                                                              *)
LEMMA AddKeeps ==
    ASSUME ListInv, WriterInv, PackedInv, NEW e \in InMemtable, e \in Entry,
           Precedes(Written, {e}), SSTAdd(e), UNCHANGED listVars,
           current = <<>> => blocks = <<>>
    PROVE  /\ WriterInv' /\ PackedInv' /\ Written' = Written \cup {e}
           /\ current' # <<>> /\ index' \in Seq(Entry)
<1>1. InMemtable' = InMemtable
  BY KeepList
<1>2. e \notin Written /\ Written \subseteq Entry
  <2>1. InMemtable \subseteq Entry
    BY MemtableFacts DEF ListInv
  <2>2. ~Less(e, e)
    BY EntryFacts, LessOrder
  <2> QED
    BY <2>1, <2>2 DEF Precedes, WriterInv
<1>3. PICK n \in Nat : n = Len(blocks)
  BY DEF WriterInv, Indexed
<1>4. entryCount' = entryCount + 1 /\ entryCount \in Nat
  BY DEF SSTAdd, WriterInv
<1>5. ASSUME Written' = Written \cup {e}
      PROVE  /\ IsFiniteSet(Written') /\ Cardinality(Written') = entryCount'
             /\ Written' \subseteq InMemtable'
  <2>1. IsFiniteSet(Written) /\ Cardinality(Written) = entryCount /\ Written \subseteq InMemtable
    BY DEF WriterInv
  <2>2. IsFiniteSet(Written \cup {e}) /\ Cardinality(Written \cup {e}) = entryCount + 1
    BY <1>2, <2>1, FS_AddElement
  <2> QED
    BY <1>1, <1>4, <1>5, <2>1, <2>2
<1>6. /\ Sorted(blocks) /\ Indexed(index, blocks) /\ current \in Seq(Entry)
      /\ Ascending(current) /\ Precedes(Held(blocks), Elems(current))
      /\ Len(current) <= entryCount /\ \A i \in 1..n : Len(blocks[i]) <= entryCount
  BY <1>3 DEF WriterInv
<1>7. PICK m \in Nat : m = Len(current)
  BY <1>6
<1>8. CASE Overflows(e)
  <2>1. /\ blocks' = Append(blocks, current) /\ index' = Append(index, current[Len(current)])
        /\ current' = <<e>> /\ current # <<>>
        /\ BlockSize(current) + EncodedEntrySize(e) > TargetBlockSize
    BY <1>8 DEF SSTAdd, FlushCurrentBlock, Overflows
  <2>2. /\ Sorted(blocks') /\ Indexed(index', blocks') /\ Held(blocks') = Written
        /\ BlocksPacked' /\ LastOf(blocks') = current
        /\ \A i \in 1..Len(blocks') : Len(blocks'[i]) \in Nat /\ Len(blocks'[i]) <= entryCount
    <3>1. FlushCurrentBlock
      BY <1>8 DEF SSTAdd
    <3> QED
      BY <2>1, <3>1, BlockCloses
  <2>3. /\ current' \in Seq(Entry) /\ Ascending(current') /\ Elems(current') = {e}
        /\ Len(current') = 1 /\ current'[1] = e /\ current' # <<>>
    BY <2>1 DEF Ascending, Elems
  <2>4. Written' = Written \cup {e}
    BY <2>2, <2>3 DEF Written
  <2>5. Precedes(Held(blocks'), Elems(current'))
    BY <2>2, <2>3 DEF Written
  <2>6. \A i \in 1..Len(blocks') : Len(blocks'[i]) <= entryCount'
    BY <1>4, <2>2
  <2>7. WriterInv'
    BY <1>4, <1>5, <2>2, <2>3, <2>4, <2>5, <2>6 DEF WriterInv
  <2>8. PackedInv'
    BY <2>1, <2>2, <2>3 DEF PackedInv
  <2> QED
    BY <2>2, <2>3, <2>4, <2>7, <2>8 DEF Indexed
<1>9. CASE ~Overflows(e)
  <2>1. current' = Append(current, e) /\ blocks' = blocks /\ index' = index
    BY <1>8, <1>9 DEF SSTAdd
  <2>2. /\ current' \in Seq(Entry) /\ current' # <<>> /\ Len(current') = m + 1
        /\ Elems(current') = Elems(current) \cup {e}
        /\ (current # <<>> => current'[1] = current[1]) /\ (current = <<>> => current'[1] = e)
    BY <1>6, <1>7, <2>1, AppendElems
  <2>3. Ascending(current')
    <3>1. Precedes(Elems(current), {e})
      BY DEF Written, Precedes
    <3> QED
      BY <1>6, <2>1, <3>1, AppendElems
  <2>4. Written' = Written \cup {e}
    BY <2>1, <2>2 DEF Written
  <2>5. Precedes(Held(blocks'), Elems(current'))
    BY <1>6, <2>1, <2>2 DEF Precedes, Written
  <2>6. ASSUME NEW i \in 1..Len(blocks') PROVE Len(blocks'[i]) <= entryCount'
    <3>1. i \in 1..n /\ Len(blocks[i]) <= entryCount
      BY <1>3, <1>6, <2>1
    <3>2. Len(blocks[i]) \in Nat
      BY <1>3, <1>6, <3>1, HeldFacts
    <3> QED
      BY <1>4, <2>1, <3>1, <3>2
  <2>7. Len(current') <= entryCount'
    BY <1>4, <1>6, <1>7, <2>2
  <2>8. WriterInv'
    BY <1>4, <1>5, <1>6, <2>1, <2>2, <2>3, <2>4, <2>5, <2>6, <2>7 DEF WriterInv
  <2>9. PackedInv'
    <3>1. BlocksPacked'
      BY <2>1 DEF PackedInv, BlocksPacked
    <3>2. Len(current') > 1 => BlockSize(current') <= TargetBlockSize
      <4> SUFFICES ASSUME Len(current') > 1 PROVE BlockSize(current') <= TargetBlockSize
        OBVIOUS
      <4>1. current # <<>>
        BY <1>7, <2>2
      <4>2. ~(BlockSize(current) + EncodedEntrySize(e) > TargetBlockSize)
        BY <1>9, <4>1 DEF Overflows
      <4>3. BlockSize(current') = BlockSize(current) + EncodedEntrySize(e)
            /\ BlockSize(current) \in Nat /\ EncodedEntrySize(e) \in Nat
        BY <1>6, <2>1, SizeFacts
      <4> QED
        BY <4>2, <4>3, SizesAssumption
    <3>3. blocks' # <<>> => current # <<>>
      BY <2>1
    <3> QED
      BY <2>1, <2>2, <3>1, <3>2, <3>3 DEF PackedInv
  <2> QED
    BY <1>6, <2>1, <2>2, <2>4, <2>8, <2>9 DEF Indexed
<1> QED
  BY <1>8, <1>9

LEMMA WriteEntryKeeps ==
    ASSUME FlushInv, WriteEntry
    PROVE  FlushInv'
<1> USE DEF FlushInv
<1>1. /\ phase = "write" /\ cursor # NoNode /\ SSTAdd(cursor) /\ smallest' = SmallestKey
      /\ largest' = cursor /\ IterNext /\ Advance(CursorEntry) /\ phase' = phase
  BY DEF WriteEntry
<1>2. WriteInv /\ locked
  BY <1>1 DEF PhaseInv, WriteInv
<1>3. footer' = footer /\ UNCHANGED readVars /\ it' = it /\ readerOpen' = readerOpen /\ lastKey' = cursor
  BY <1>1 DEF SSTAdd, readVars
<1>4. ~readerOpen /\ it = NoIter /\ ~it'.open
  BY <1>1, <1>3, NoIterFacts DEF IterInv
<1>5. ScanInv' /\ cursor' \in InMemtable' \cup {NoNode} /\ locked' /\ UNCHANGED listVars
  BY <1>1, <1>2, <1>4, CursorMoves
<1>6. ListInv' /\ InMemtable' = InMemtable /\ Linked
  BY <1>5, KeepList DEF ListInv
<1>7. cursor \in InMemtable /\ InMemtable \subseteq Entry /\ Unique(InMemtable) /\ cursor \in Entry
  BY <1>1, <1>6, MemtableFacts DEF PhaseInv
<1>8. Written = {e \in InMemtable : Less(e, cursor)}
  BY <1>1, <1>2 DEF WriteInv
<1>9. /\ WriterInv' /\ PackedInv' /\ Written' = Written \cup {cursor}
      /\ current' # <<>> /\ index' \in Seq(Entry)
  <2>1. Precedes(Written, {cursor})
    BY <1>8 DEF Precedes
  <2>2. current = <<>> => blocks = <<>>
    <3> SUFFICES ASSUME current = <<>>, blocks # <<>> PROVE FALSE
      OBVIOUS
    <3>1. Written = {}
      BY <1>2 DEF WriteInv
    <3>2. Sorted(blocks)
      BY DEF WriterInv
    <3>3. 1 \in 1..Len(blocks)
      <4>1. blocks \in Seq(Seq(Entry))
        BY <3>2 DEF Sorted
      <4> QED
        BY <4>1
    <3>4. blocks[1][1] \in Held(blocks)
      BY <3>2, <3>3, HeldFacts
    <3> QED
      BY <3>1, <3>4 DEF Written
  <2> QED
    BY <1>1, <1>5, <1>7, <2>1, <2>2, AddKeeps
<1>10. cursor' = next[1][cursor]
  BY <1>1 DEF IterNext
<1>11. ASSUME NEW x \in InMemtable
       PROVE  x \in Written' <=> cursor' = NoNode \/ Less(x, cursor')
  <2>1. x \in Written' <=> x = cursor \/ Less(x, cursor)
    BY <1>8, <1>9, <1>11
  <2>2. IsKey(x) /\ IsKey(cursor)
    BY <1>7, <1>11, EntryFacts
  <2>3. x \in Written' <=> ~Less(cursor, x)
    BY <1>7, <2>1, <2>2, LessTotal, LessOrder
  <2>4. PICK B : B = {y \in InMemtable : Less(cursor, y)}
    OBVIOUS
  <2>5. IF B = {} THEN cursor' = NoNode ELSE First(B, cursor')
    BY <1>6, <1>7, <1>10, <2>4, BottomLevel
  <2>6. CASE B = {}
    BY <1>11, <2>3, <2>4, <2>5, <2>6
  <2>7. CASE B # {}
    <3>1. cursor' \in InMemtable /\ Less(cursor, cursor') /\ \A y \in B : ~Less(y, cursor')
      BY <2>4, <2>5, <2>7 DEF First
    <3>2. cursor' # NoNode /\ IsKey(cursor')
      BY <1>7, <3>1, EntryFacts
    <3>3. Less(cursor, x) => ~Less(x, cursor')
      BY <1>11, <2>4, <3>1
    <3>4. x = cursor \/ Less(x, cursor) => Less(x, cursor')
      BY <2>2, <3>1, <3>2, LessOrder
    <3> QED
      BY <2>1, <2>3, <3>2, <3>3, <3>4
  <2> QED
    BY <2>6, <2>7
<1>12. Written' = {e \in InMemtable' : cursor' = NoNode \/ Less(e, cursor')}
  <2>1. Written' \subseteq InMemtable
    BY <1>7, <1>8, <1>9
  <2> QED
    BY <1>6, <1>11, <2>1
<1>13. Last(Written', lastKey') /\ largest' = lastKey'
  <2>1. ASSUME NEW x \in Written' PROVE ~Less(cursor, x)
    <3>1. x = cursor \/ Less(x, cursor)
      BY <1>8, <1>9, <2>1
    <3>2. IsKey(x) /\ IsKey(cursor)
      BY <1>7, <1>8, <1>9, <2>1, EntryFacts
    <3> QED
      BY <3>1, <3>2, LessOrder
  <2> QED
    BY <1>1, <1>3, <1>9, <2>1 DEF Last
<1>14. First(InMemtable', smallest')
  <2>1. CASE Written = {}
    <3>1. smallest' = cursor
      BY <1>1, <1>2, <2>1 DEF WriteInv, SmallestKey
    <3> QED
      BY <1>6, <1>7, <1>8, <2>1, <3>1 DEF First
  <2>2. CASE Written # {}
    <3>1. First(InMemtable, smallest)
      BY <1>2, <2>2 DEF WriteInv
    <3>2. smallest # NoKey
      BY <1>7, <3>1, EntryFacts DEF First
    <3> QED
      BY <1>1, <1>6, <3>1, <3>2 DEF SmallestKey
  <2> QED
    BY <2>1, <2>2
<1>15. WriteInv'
  BY <1>5, <1>9, <1>12, <1>13, <1>14 DEF WriteInv
<1>16. PhaseInv'
  <2>1. locked' \in BOOLEAN
    BY <1>1 DEF IterNext, PhaseInv
  <2> QED
    BY <1>1, <1>5, <1>15, <2>1 DEF PhaseInv
<1>17. IterInv'
  <2>1. ~readerOpen' /\ it' = NoIter /\ it' \in Iterators /\ ~it'.valid /\ it'.block = 0
    BY <1>3, <1>4, NoIterFacts
  <2>2. it'.block <= Len(index') + 1 /\ readerOpen' \in BOOLEAN
    BY <1>3, <1>9, <2>1 DEF IterInv
  <2> QED
    BY <2>1, <2>2, Zenon DEF IterInv
<1> QED
  BY <1>5, <1>6, <1>9, <1>16, <1>17

(* A failed flush leaves no file and the memtable as it was.               *)
LEMMA WriteFailsKeeps ==
    ASSUME FlushInv, WriteFails
    PROVE  FlushInv'
<1> USE DEF FlushInv
<1>1. /\ phase = "write" /\ phase' = "failed" /\ IterClose /\ Forget /\ FileRemoved
      /\ smallest' = NoKey /\ largest' = NoKey
  BY DEF WriteFails
<1>2. /\ blocks' = <<>> /\ index' = <<>> /\ current' = <<>> /\ entryCount' = 0
      /\ it' = it /\ readerOpen' = readerOpen
  BY <1>1 DEF FileRemoved, readVars
<1>3. ~readerOpen /\ it = NoIter /\ ~it'.open
  BY <1>1, <1>2, NoIterFacts DEF IterInv
<1>4. ScanInv' /\ cursor' = NoNode /\ locked' = FALSE /\ UNCHANGED listVars
  BY <1>1, <1>3, CursorCloses
<1>5. ListInv' /\ InMemtable' = InMemtable
  BY <1>4, KeepList
<1>6. <<>> \in Seq(Entry) /\ <<>> \in Seq(Seq(Entry)) /\ Len(<<>>) = 0
  OBVIOUS
<1>7. Written' = {}
  BY <1>2, NothingHeld DEF Written
<1>8. WriterInv'
  <2>1. Sorted(blocks') /\ Indexed(index', blocks')
    BY <1>2, <1>6 DEF Sorted, Indexed
  <2>2. IsFiniteSet({}) /\ Cardinality({}) = 0
    BY FS_EmptySet
  <2>3. Precedes(Held(blocks'), Elems(current')) /\ Ascending(current') /\ Len(current') = 0
    BY <1>2, NothingHeld DEF Precedes
  <2>4. current' \in Seq(Entry) /\ Len(blocks') = 0
    BY <1>2, <1>6
  <2> QED
    BY <1>2, <1>7, <2>1, <2>2, <2>3, <2>4 DEF WriterInv
<1>9. PackedInv'
  BY <1>2, <1>6 DEF PackedInv, BlocksPacked
<1>10. PhaseInv'
  BY <1>1, <1>4 DEF PhaseInv
<1>11. IterInv'
  <2>1. ~readerOpen' /\ it' = NoIter /\ it' \in Iterators /\ ~it'.valid /\ it'.block = 0
    BY <1>2, <1>3, NoIterFacts
  <2>2. it'.block <= Len(index') + 1 /\ readerOpen' \in BOOLEAN
    BY <1>2, <1>6, <2>1 DEF IterInv
  <2> QED
    BY <2>1, <2>2, Zenon DEF IterInv
<1> QED
  BY <1>4, <1>5, <1>8, <1>9, <1>10, <1>11

LEMMA WriteDoneKeeps ==
    ASSUME FlushInv, WriteDone
    PROVE  FlushInv'
<1> USE DEF FlushInv
<1>1. /\ phase = "write" /\ cursor = NoNode /\ smallest # NoKey /\ IterClose /\ Forget
      /\ SSTClose
  BY DEF WriteDone
<1>2. WriteInv
  BY <1>1 DEF PhaseInv
<1>3. /\ current # <<>> /\ Written = InMemtable /\ Last(InMemtable, largest)
      /\ First(InMemtable, smallest)
  <2>1. Written # {}
    BY <1>1, <1>2 DEF WriteInv
  <2>2. Written = InMemtable
    BY <1>1, <1>2 DEF WriteInv
  <2> QED
    BY <1>2, <2>1, <2>2 DEF WriteInv
<1>4. /\ FlushCurrentBlock /\ current' = <<>> /\ entryCount' = entryCount
      /\ footer' = [blocks |-> Len(blocks'), entries |-> entryCount, written |-> TRUE]
  BY <1>1, <1>3 DEF SSTClose
<1>5. /\ Sorted(blocks') /\ Indexed(index', blocks') /\ Held(blocks') = Written
      /\ BlocksPacked' /\ LastOf(blocks') = current
      /\ \A i \in 1..Len(blocks') : Len(blocks'[i]) \in Nat /\ Len(blocks'[i]) <= entryCount
  BY <1>3, <1>4, BlockCloses
<1>6. ~readerOpen /\ it = NoIter /\ it' = it /\ ~it'.open /\ readerOpen' \in BOOLEAN
      /\ (phase' # "readable" => readerOpen' = FALSE)
  <2>1. ~readerOpen /\ readerOpen \in BOOLEAN /\ it = NoIter
    BY <1>1 DEF IterInv
  <2>2. /\ it' = it /\ readerOpen' \in BOOLEAN
        /\ (phase' # "readable" => readerOpen' = FALSE)
    BY <2>1 DEF WriteDone, SSTOpenReader, readVars
  <2> QED
    BY <2>1, <2>2, NoIterFacts
<1>7. ScanInv' /\ cursor' = NoNode /\ locked' = FALSE /\ UNCHANGED listVars
  BY <1>1, <1>6, CursorCloses
<1>8. ListInv' /\ InMemtable' = InMemtable
  BY <1>7, KeepList
<1>9. Written' = InMemtable
  BY <1>3, <1>4, <1>5, NothingHeld DEF Written
<1>10. WriterInv'
  <2>1. /\ entryCount \in Nat /\ IsFiniteSet(Written) /\ Cardinality(Written) = entryCount
    BY DEF WriterInv
  <2>2. current' \in Seq(Entry) /\ Ascending(current') /\ Len(current') <= entryCount'
        /\ Precedes(Held(blocks'), Elems(current'))
    BY <1>4, <2>1, NothingHeld DEF Precedes
  <2> QED
    BY <1>3, <1>4, <1>5, <1>8, <1>9, <2>1, <2>2 DEF WriterInv
<1>11. PackedInv'
  BY <1>4, <1>5, NothingHeld DEF PackedInv
<1>12. PhaseInv'
  <2>1. CASE phase' = "readable" /\ UNCHANGED <<smallest, largest>>
    <3>1. entryCount = Cardinality(InMemtable)
      BY <1>3 DEF WriterInv
    <3>2. ReadInv'
      BY <1>3, <1>4, <1>5, <1>8, <2>1, <3>1 DEF ReadInv
    <3> QED
      BY <1>7, <2>1, <3>2 DEF PhaseInv
  <2>2. CASE phase' = "failed"
    BY <1>7, <2>2 DEF PhaseInv
  <2> QED
    BY <2>1, <2>2 DEF WriteDone
<1>13. IterInv'
  <2>1. it' = NoIter /\ it' \in Iterators /\ ~it'.valid /\ it'.block = 0
    BY <1>6, NoIterFacts
  <2>2. index' \in Seq(Entry)
    BY <1>5 DEF Indexed
  <2>3. it'.block <= Len(index') + 1
    BY <2>1, <2>2
  <2> QED
    BY <1>6, <2>1, <2>3, Zenon DEF IterInv
<1> QED
  BY <1>7, <1>8, <1>10, <1>11, <1>12, <1>13

(* A step of the table's iterator, or of its reader.                       *)
LEMMA TableKeeps ==
    ASSUME FlushInv, phase = "readable", UNCHANGED <<memVars, fileVars, phase, smallest, largest>>
    PROVE  /\ ListInv' /\ InMemtable' = InMemtable /\ WriterInv' /\ PackedInv' /\ PhaseInv'
           /\ ~locked' /\ Held(blocks) = InMemtable /\ Sorted(blocks) /\ Indexed(index, blocks)
           /\ Linked /\ InMemtable \subseteq Entry /\ Unique(InMemtable)
           /\ \A i \in 1..Len(blocks) : Len(blocks[i]) <= MaxPuts
<1> USE DEF FlushInv
<1>1. ListInv' /\ InMemtable' = InMemtable
  BY KeepList DEF memVars
<1>2. WriterInv' /\ PackedInv'
  BY <1>1, KeepFile
<1>3. ReadInv /\ ~locked
  BY DEF PhaseInv
<1>4. ReadInv'
  BY <1>1, <1>3 DEF ReadInv, fileVars
<1>5. PhaseInv' /\ ~locked'
  BY <1>1, <1>3, <1>4 DEF PhaseInv, memVars, iterVars
<1>6. Held(blocks) = InMemtable /\ Sorted(blocks) /\ Indexed(index, blocks)
  BY <1>3 DEF ReadInv, WriterInv
<1>7. Linked /\ InMemtable \subseteq Entry /\ Unique(InMemtable)
  BY MemtableFacts DEF ListInv
<1>8. ASSUME NEW i \in 1..Len(blocks) PROVE Len(blocks[i]) <= MaxPuts
  <2>1. Written = InMemtable
    BY <1>3, NothingHeld DEF ReadInv, Written
  <2>2. entryCount = length /\ entryCount \in Nat /\ length <= MaxPuts
    BY <2>1, KeysAssumption DEF WriterInv, ListInv
  <2>3. Len(blocks[i]) <= entryCount /\ Len(blocks[i]) \in Nat
    BY <1>6, HeldFacts DEF WriterInv
  <2> QED
    BY <2>2, <2>3, KeysAssumption
<1> QED
  BY <1>1, <1>2, <1>5, <1>6, <1>7, <1>8

(* The iterator is placed on the first entry from k on.                    *)
LEMMA TableStarts ==
    ASSUME FlushInv, phase = "readable", UNCHANGED <<memVars, fileVars, phase, smallest, largest>>,
           NEW k \in Nat, Restart(k, TableEntry), it'.open, NEW W,
           W = {e \in InMemtable : e.key >= k},
           it'.valid => First(W, blocks[it'.block][it'.idx]),
           ~it'.valid /\ it'.err = "nil" => W = {}
    PROVE  ScanInv'
<1>1. InMemtable' = InMemtable /\ InMemtable \subseteq Entry /\ Unique(InMemtable) /\ ~locked'
  BY TableKeeps
<1>2. target' = {k} /\ seen' = (IF it'.valid THEN <<blocks[it'.block][it'.idx]>> ELSE <<>>)
  BY DEF Restart, TableEntry
<1>3. Wanted' = W /\ target' \subseteq Nat
  BY <1>1, <1>2 DEF Wanted
<1>4. W \in SUBSET Entry /\ Unique(W)
  BY <1>1 DEF Unique
<1>5. blocks' = blocks
  BY DEF fileVars
<1>6. CASE it'.valid
  <2>1. PICK c : c = blocks[it'.block][it'.idx]
    OBVIOUS
  <2>2. c \in W /\ \A x \in W : ~Less(x, c)
    BY <1>6, <2>1 DEF First
  <2>3. Scans(<<c>>, W) /\ <<c>> # <<>> /\ <<c>>[Len(<<c>>)] = c
    BY <1>4, <2>2, ScanFirst
  <2>4. Scans(seen', Wanted') /\ seen' # <<>> /\ LastOf(seen') = blocks'[it'.block][it'.idx]
    BY <1>2, <1>3, <1>5, <1>6, <2>1, <2>3 DEF LastOf
  <2> QED
    BY <1>1, <1>3, <1>6, <2>4 DEF ScanInv
<1>7. CASE ~it'.valid
  <2>1. seen' = <<>>
    BY <1>2, <1>7
  <2>2. Scans(seen', Wanted') /\ Elems(seen') = {}
    BY <2>1, ScanNone
  <2>3. it'.err = "nil" => Elems(seen') = Wanted'
    BY <1>3, <1>7, <2>2
  <2> QED
    BY <1>1, <1>3, <1>7, <2>2, <2>3 DEF ScanInv
<1> QED
  BY <1>6, <1>7

(* The iterator moves on.                                                  *)
LEMMA TableMoves ==
    ASSUME FlushInv, phase = "readable", UNCHANGED <<memVars, fileVars, phase, smallest, largest>>,
           Advance(TableEntry), it.open, it.valid, it'.open, NEW c, NEW d,
           c = blocks[it.block][it.idx], d = blocks[it'.block][it'.idx],
           it'.valid => /\ d \in InMemtable /\ Less(c, d)
                        /\ \A x \in InMemtable : Less(c, x) => ~Less(x, d),
           ~it'.valid /\ it'.err = "nil" => \A x \in InMemtable : ~Less(c, x)
    PROVE  ScanInv'
<1>1. InMemtable' = InMemtable /\ Linked /\ ~locked'
  BY TableKeeps
<1>2. /\ target' = target
      /\ seen' = seen \o (IF it'.valid THEN <<d>> ELSE <<>>)
  BY DEF Advance, TableEntry
<1>3. Wanted' = Wanted
  BY <1>1, <1>2 DEF Wanted
<1>4. blocks' = blocks
  BY DEF fileVars
<1>5. /\ Scans(seen, Wanted) /\ target \subseteq Nat /\ seen # <<>> /\ LastOf(seen) = c
  BY DEF FlushInv, ScanInv
<1>6. PICK W \in SUBSET Entry : W = Wanted /\ Unique(W) /\ W \subseteq InMemtable
  BY <1>1, WantedFacts
<1>7. c \in W /\ Scans(seen, W)
  <2>1. seen \in Seq(Entry) /\ Elems(seen) \subseteq W
    BY <1>5, <1>6 DEF Scans
  <2>2. LastOf(seen) \in Elems(seen)
    BY <1>5, <2>1, ElemsFacts DEF LastOf
  <2> QED
    BY <1>5, <1>6, <2>1, <2>2
<1>8. {x \in W : Less(c, x)} = {x \in InMemtable : Less(c, x)}
  BY <1>1, <1>5, <1>6, <1>7, WantedFacts
<1>9. CASE it'.valid
  <2>1. d \in W /\ Less(seen[Len(seen)], d)
    BY <1>5, <1>8, <1>9 DEF LastOf
  <2>2. \A x \in W : Less(seen[Len(seen)], x) => ~Less(x, d)
    BY <1>5, <1>6, <1>9 DEF LastOf
  <2>3. Scans(Append(seen, d), W) /\ Append(seen, d) # <<>>
        /\ Append(seen, d)[Len(Append(seen, d))] = d
    BY <1>5, <1>6, <1>7, <2>1, <2>2, ScanNext
  <2>4. seen' = Append(seen, d)
    <3>1. seen' = seen \o <<d>>
      BY <1>2, <1>9
    <3>2. seen \in Seq(Entry) /\ d \in Entry
      BY <1>5, <2>1 DEF Scans
    <3> QED
      BY <3>1, <3>2
  <2>5. Scans(seen', Wanted') /\ seen' # <<>> /\ LastOf(seen') = blocks'[it'.block][it'.idx]
    BY <1>3, <1>4, <1>6, <2>3, <2>4 DEF LastOf
  <2> QED
    BY <1>1, <1>2, <1>5, <1>9, <2>5 DEF ScanInv
<1>10. CASE ~it'.valid
  <2>1. seen' = seen
    <3>1. seen' = seen \o <<>>
      BY <1>2, <1>10
    <3> QED
      BY <1>5, <3>1, ScanStays
  <2>2. it'.err = "nil" => Elems(seen') = Wanted'
    <3> SUFFICES ASSUME it'.err = "nil" PROVE Elems(seen) = W
      BY <1>3, <1>6, <2>1
    <3>1. \A x \in W : ~Less(seen[Len(seen)], x)
      BY <1>5, <1>6, <1>10 DEF LastOf
    <3> QED
      BY <1>5, <1>7, <3>1, ScanEnd
  <2>3. Scans(seen', Wanted')
    BY <1>3, <1>5, <2>1
  <2> QED
    BY <1>1, <1>2, <1>5, <1>10, <2>2, <2>3 DEF ScanInv
<1> QED
  BY <1>9, <1>10

LEMMA TableScanKeeps ==
    ASSUME FlushInv, TableScan
    PROVE  FlushInv'
<1>1. /\ phase = "readable" /\ UNCHANGED fileVars
      /\ UNCHANGED <<memVars, phase, smallest, largest>> /\ readerOpen' = readerOpen
  BY DEF TableScan, SSTNewIterator, SSTSeekToFirst, SSTSeek, SSTNext, SSTIterClose
<1>2. UNCHANGED <<memVars, fileVars, phase, smallest, largest>>
  BY <1>1
<1>3. /\ ListInv' /\ InMemtable' = InMemtable /\ WriterInv' /\ PackedInv' /\ PhaseInv'
      /\ ~locked' /\ Held(blocks) = InMemtable /\ Sorted(blocks) /\ Indexed(index, blocks)
      /\ Linked /\ InMemtable \subseteq Entry /\ Unique(InMemtable)
      /\ \A i \in 1..Len(blocks) : Len(blocks[i]) <= MaxPuts
  BY <1>1, <1>2, TableKeeps
<1>4. PICK n \in Nat : n = Len(index) /\ n = Len(blocks)
  BY <1>3 DEF Indexed
<1>5. blocks' = blocks /\ index' = index
  BY <1>1 DEF fileVars
<1>6. it \in Iterators /\ it.block \in Nat /\ it.idx \in Nat /\ it.block <= n + 1
  BY <1>4 DEF FlushInv, IterInv, Iterators
<1>7. \A e \in InMemtable : IsKey(e)
  BY <1>3, EntryFacts
<1>8. ASSUME it' \in Iterators, it'.block <= n + 1, ScanInv',
             it'.valid => /\ it'.open /\ it'.err = "nil"
                          /\ it'.block \in 1..n /\ it'.idx \in 1..Len(blocks[it'.block])
      PROVE  FlushInv'
  <2>1. IterInv'
    <3>1. readerOpen' \in BOOLEAN /\ phase' = "readable"
      BY <1>1 DEF FlushInv, IterInv
    <3> QED
      BY <1>4, <1>5, <1>8, <3>1 DEF IterInv
  <2> QED
    BY <1>3, <1>8, <2>1 DEF FlushInv
<1>9. ASSUME Forget, ~it'.open \/ (~it'.valid /\ it'.err = "nil"), ~it'.valid
      PROVE  ScanInv'
  <2>1. target' = {} /\ seen' = <<>>
    BY <1>9 DEF Forget
  <2>2. Wanted' = {}
    BY <2>1 DEF Wanted
  <2> QED
    BY <1>3, <1>9, <2>1, <2>2, ScanNone DEF ScanInv
<1>10. CASE SSTNewIterator /\ Forget
  <2>1. it' = Fresh
    BY <1>10 DEF SSTNewIterator
  <2>2. it' \in Iterators /\ ~it'.valid /\ it'.err = "nil" /\ it'.block = 0
    BY <2>1, NoIterFacts
  <2>3. it'.block <= n + 1
    BY <2>2
  <2> QED
    BY <1>8, <1>9, <1>10, <2>2, <2>3
<1>11. CASE SSTIterClose /\ Forget
  <2>1. it' = NoIter
    BY <1>11 DEF SSTIterClose
  <2>2. it' \in Iterators /\ ~it'.valid /\ ~it'.open /\ it'.block = 0
    BY <2>1, NoIterFacts
  <2>3. it'.block <= n + 1
    BY <2>2
  <2> QED
    BY <1>8, <1>9, <1>11, <2>2, <2>3
<1>12. CASE SSTSeekToFirst /\ Restart(FromStart, TableEntry)
  <2>1. PICK W : W = {e \in InMemtable : e.key >= FromStart}
    OBVIOUS
  <2>2. W = InMemtable /\ FromStart \in Nat
    BY <1>7, <2>1 DEF FromStart, IsKey
  <2>3. it.open
    BY <1>12 DEF SSTSeekToFirst
  <2>4. CASE index = <<>> /\ it' = Exhausted
    <3>1. it' \in Iterators /\ ~it'.valid /\ it'.err = "nil" /\ it'.block = it.block /\ it'.open
      BY <1>6, <2>3, <2>4, PositionFacts
    <3>2. W = {}
      <4>1. n = 0
        BY <1>4, <2>4
      <4>2. Held(blocks) = {}
        BY <1>4, <4>1 DEF Held
      <4> QED
        BY <1>3, <2>2, <4>2
    <3>3. ScanInv'
      BY <1>1, <1>2, <1>12, <2>1, <2>2, <3>1, <3>2, TableStarts
    <3> QED
      BY <1>6, <1>8, <3>1, <3>3
  <2>5. CASE index # <<>> /\ it' = At(1, 1)
    <3>1. /\ it' \in Iterators /\ it'.valid /\ it'.err = "nil" /\ it'.block = 1 /\ it'.idx = 1
          /\ it'.open
      BY <1>6, <2>3, <2>5, PositionFacts
    <3>2. Len(blocks) # 0
      <4>1. index \in Seq(Entry)
        BY <1>3 DEF Indexed
      <4> QED
        BY <1>4, <2>5, <4>1, EmptySeq
    <3>3. /\ 1 \in 1..n /\ 1 \in 1..Len(blocks[1]) /\ blocks[1][1] \in InMemtable
          /\ \A x \in InMemtable : ~Less(x, blocks[1][1])
      BY <1>3, <1>4, <3>2, FirstEntry
    <3>4. First(W, blocks[it'.block][it'.idx])
      BY <2>2, <3>1, <3>3 DEF First
    <3>5. ScanInv'
      BY <1>1, <1>2, <1>12, <2>1, <2>2, <3>1, <3>4, TableStarts
    <3>6. it'.block <= n + 1
      BY <3>1
    <3> QED
      BY <1>8, <3>1, <3>3, <3>5, <3>6
  <2>6. CASE it' = LoadFailed(1)
    <3>1. /\ it' \in Iterators /\ ~it'.valid /\ it'.err # "nil" /\ it'.block = 1 /\ it'.open
      BY <1>6, <2>3, <2>6, PositionFacts
    <3>2. ScanInv'
      BY <1>1, <1>2, <1>12, <2>1, <2>2, <3>1, TableStarts
    <3>3. it'.block <= n + 1
      BY <3>1
    <3> QED
      BY <1>8, <3>1, <3>2, <3>3
  <2> QED
    BY <1>12, <2>4, <2>5, <2>6 DEF SSTSeekToFirst
<1>13. ASSUME NEW k \in UserKeys, SSTSeek(k), Restart(k, TableEntry)
       PROVE  FlushInv'
  <2>0. k \in Nat
    BY KeysAssumption
  <2>1. PICK W : W = {e \in InMemtable : e.key >= k}
    OBVIOUS
  <2>2. it.open
    BY <1>13 DEF SSTSeek
  <2>3. PICK P : P = Places(SeekBlock(k), k)
    OBVIOUS
  <2>4. /\ P = {} => \A x \in InMemtable : ~(x.key >= k)
        /\ P # {} => LET p == FirstPlace(P) IN
             /\ p[1] \in 1..n /\ p[2] \in 1..Len(blocks[p[1]])
             /\ blocks[p[1]][p[2]].key >= k
             /\ \A x \in InMemtable : x.key >= k => ~Less(x, blocks[p[1]][p[2]])
    BY <1>3, <1>4, <2>0, <2>3, SeekPlace
  <2>5. CASE P = {} /\ it' = Exhausted
    <3>1. it' \in Iterators /\ ~it'.valid /\ it'.err = "nil" /\ it'.block = it.block /\ it'.open
      BY <1>6, <2>2, <2>5, PositionFacts
    <3>2. W = {}
      BY <2>1, <2>4, <2>5
    <3>3. ScanInv'
      BY <1>1, <1>2, <1>13, <2>0, <2>1, <3>1, <3>2, TableStarts
    <3> QED
      BY <1>6, <1>8, <3>1, <3>3
  <2>6. CASE P # {} /\ it' = At(FirstPlace(P)[1], FirstPlace(P)[2])
    <3>1. PICK i, j : i = FirstPlace(P)[1] /\ j = FirstPlace(P)[2]
      OBVIOUS
    <3>2. /\ i \in 1..n /\ j \in 1..Len(blocks[i]) /\ blocks[i][j].key >= k
          /\ \A x \in InMemtable : x.key >= k => ~Less(x, blocks[i][j])
      BY <2>4, <2>6, <3>1
    <3>3. i \in Nat /\ j \in Nat /\ i <= n + 1 /\ blocks[i][j] \in InMemtable
      BY <1>3, <1>4, <3>2, HeldFacts
    <3>4. /\ it' \in Iterators /\ it'.valid /\ it'.err = "nil" /\ it'.block = i /\ it'.idx = j
          /\ it'.open
      BY <1>6, <2>2, <2>6, <3>1, <3>3, PositionFacts
    <3>5. First(W, blocks[it'.block][it'.idx])
      BY <2>1, <3>2, <3>3, <3>4 DEF First
    <3>6. ScanInv'
      BY <1>1, <1>2, <1>13, <2>0, <2>1, <3>4, <3>5, TableStarts
    <3> QED
      BY <1>8, <3>2, <3>3, <3>4, <3>6
  <2>7. CASE it' = LoadFailed(it.block)
    <3>1. /\ it' \in Iterators /\ ~it'.valid /\ it'.err # "nil" /\ it'.block = it.block /\ it'.open
      BY <1>6, <2>2, <2>7, PositionFacts
    <3>2. ScanInv'
      BY <1>1, <1>2, <1>13, <2>0, <2>1, <3>1, TableStarts
    <3> QED
      BY <1>6, <1>8, <3>1, <3>2
  <2> QED
    BY <1>13, <2>3, <2>5, <2>6, <2>7 DEF SSTSeek
<1>14. CASE SSTNext /\ Advance(TableEntry)
  <2>1. it.open /\ it.valid
    BY <1>14 DEF SSTNext
  <2>2. /\ it.err = "nil" /\ it.block \in 1..n /\ it.idx \in 1..Len(blocks[it.block])
    BY <1>4, <2>1 DEF FlushInv, IterInv
  <2>3. PICK a \in 1..n, i \in Nat : a = it.block /\ i = it.idx /\ i \in 1..Len(blocks[a])
    BY <1>6, <2>2
  <2>4. PICK c : c = blocks[it.block][it.idx] /\ c = blocks[a][i]
    BY <2>3
  <2>5. PICK d : d = blocks[it'.block][it'.idx]
    OBVIOUS
  <2>6. Len(blocks[a]) \in Nat
    BY <1>3, <1>4, HeldFacts
  <2>7. ASSUME NEW b \in 1..n, NEW j \in 1..Len(blocks[b]), it'.valid, it'.open,
               it'.err = "nil", it' \in Iterators, it'.block = b, it'.idx = j,
               (a = b /\ j = i + 1) \/ (i = Len(blocks[a]) /\ b = a + 1 /\ j = 1)
        PROVE  FlushInv'
    <3>1. d = blocks[b][j]
      BY <2>5, <2>7
    <3>2. /\ d \in InMemtable /\ Less(c, d)
          /\ \A x \in InMemtable : Less(c, x) => ~Less(x, d)
      <4>1. /\ Sorted(blocks) /\ a \in 1..Len(blocks) /\ i \in 1..Len(blocks[a])
            /\ b \in 1..Len(blocks) /\ j \in 1..Len(blocks[b])
        BY <1>3, <1>4, <2>3, <2>7
      <4>2. /\ blocks[b][j] \in Held(blocks) /\ Less(blocks[a][i], blocks[b][j])
            /\ \A x \in Held(blocks) : Less(blocks[a][i], x) => ~Less(x, blocks[b][j])
        BY <2>7, <4>1, NextEntry
      <4> QED
        BY <1>3, <2>4, <3>1, <4>2
    <3>3. ScanInv'
      BY <1>1, <1>2, <1>14, <2>1, <2>4, <2>5, <2>7, <3>2, TableMoves
    <3> QED
      BY <1>8, <2>7, <3>3
  <2>8. CASE it.idx < Len(blocks[it.block]) /\ it' = [it EXCEPT !.idx = @ + 1]
    <3>1. i + 1 \in Nat /\ i + 1 \in 1..Len(blocks[a])
      BY <2>3, <2>6, <2>8
    <3>2. it' = [it EXCEPT !.idx = i + 1]
      BY <2>3, <2>8
    <3>3. it' \in Iterators
      BY <1>6, <3>1, <3>2, IteratorUpdates
    <3>4. it'.valid /\ it'.open /\ it'.err = "nil" /\ it'.block = a /\ it'.idx = i + 1
      <4>1. PICK r \in Iterators : r = it
        BY <1>6
      <4>2. /\ [r EXCEPT !.idx = i + 1].valid = r.valid /\ [r EXCEPT !.idx = i + 1].open = r.open
            /\ [r EXCEPT !.idx = i + 1].err = r.err /\ [r EXCEPT !.idx = i + 1].block = r.block
            /\ [r EXCEPT !.idx = i + 1].idx = i + 1
        BY SMT DEF Iterators
      <4> QED
        BY <2>1, <2>2, <2>3, <3>2, <4>1, <4>2
    <3> QED
      BY <2>7, <3>1, <3>3, <3>4
  <2>9. CASE it.idx = Len(blocks[it.block]) /\ NextBlock
    <3>1. PICK b \in Nat : b = it.block + 1 /\ b = a + 1
      BY <2>3
    <3>2. i = Len(blocks[a])
      BY <2>3, <2>9
    <3>3. CASE b > Len(index) /\ it' = [it EXCEPT !.block = b, !.idx = 1, !.valid = FALSE]
      <4>1. PICK z \in BOOLEAN : z = FALSE
        OBVIOUS
      <4>2. [it EXCEPT !.block = b, !.idx = 1, !.valid = z] \in Iterators
        BY <1>6, IteratorUpdates
      <4>3. it' \in Iterators
        BY <3>3, <4>1, <4>2, Zenon
      <4>4. ~it'.valid /\ it'.open /\ it'.err = "nil" /\ it'.block = b
        BY <1>6, <2>1, <2>2, <3>3 DEF Iterators
      <4>5. a = Len(blocks) /\ b <= n + 1
        BY <1>4, <3>1, <3>3
      <4>6. \A x \in InMemtable : ~Less(c, x)
        BY <1>3, <1>4, <2>4, <3>2, <4>5, LastEntry
      <4>7. ScanInv'
        BY <1>1, <1>2, <1>14, <2>1, <2>4, <2>5, <4>4, <4>6, TableMoves
      <4> QED
        BY <1>8, <4>3, <4>4, <4>5, <4>7
    <3>4. CASE b <= Len(index) /\ it' = [it EXCEPT !.block = b, !.idx = 1]
      <4>1. it' \in Iterators
        BY <1>6, <3>4, IteratorUpdates
      <4>2. it'.valid /\ it'.open /\ it'.err = "nil" /\ it'.block = b /\ it'.idx = 1
        BY <1>6, <2>1, <2>2, <3>4 DEF Iterators
      <4>3. b \in 1..n
        BY <1>4, <3>1, <3>4
      <4>4. 1 \in 1..Len(blocks[b])
        BY <1>3, <1>4, <4>3, HeldFacts
      <4> QED
        BY <2>7, <3>1, <3>2, <4>1, <4>2, <4>3, <4>4
    <3>5. CASE b <= Len(index) /\ it' = LoadFailed(b)
      <4>1. /\ it' \in Iterators /\ ~it'.valid /\ it'.err # "nil" /\ it'.block = b /\ it'.open
        BY <1>6, <2>1, <3>5, PositionFacts
      <4>2. ScanInv'
        BY <1>1, <1>2, <1>14, <2>1, <2>4, <2>5, <4>1, TableMoves
      <4>3. it'.block <= n + 1
        BY <1>4, <3>5, <4>1
      <4> QED
        BY <1>8, <4>1, <4>2, <4>3
    <3> QED
      BY <2>9, <3>1, <3>3, <3>4, <3>5 DEF NextBlock
  <2> QED
    BY <1>14, <2>8, <2>9 DEF SSTNext
<1> QED
  BY <1>10, <1>11, <1>12, <1>13, <1>14 DEF TableScan

LEMMA ReaderCloseKeeps ==
    ASSUME FlushInv, ReaderClose
    PROVE  FlushInv'
<1>1. /\ phase = "readable" /\ readerOpen' = FALSE /\ it' = it /\ UNCHANGED fileVars
      /\ UNCHANGED <<memVars, phase, smallest, largest, scanVars>>
  BY DEF ReaderClose, SSTReaderClose
<1>2. /\ ListInv' /\ InMemtable' = InMemtable /\ WriterInv' /\ PackedInv' /\ PhaseInv'
  BY <1>1, TableKeeps
<1>3. IterInv'
  BY <1>1 DEF FlushInv, IterInv, fileVars
<1>4. ScanInv'
  <2>1. UNCHANGED <<cursor, locked, target, seen, blocks>>
    BY <1>1 DEF memVars, iterVars, scanVars, fileVars
  <2>2. Wanted' = Wanted
    BY <1>2, <2>1 DEF Wanted
  <2> QED
    BY <1>1, <2>1, <2>2 DEF FlushInv, ScanInv
<1> QED
  BY <1>2, <1>3, <1>4 DEF FlushInv

LEMMA StutterKeeps ==
    ASSUME FlushInv, UNCHANGED vars
    PROVE  FlushInv'
<1> USE DEF FlushInv
<1>1. UNCHANGED <<listVars, iterVars, fileVars, readVars, phase, smallest, largest, scanVars>>
  BY DEF vars, memVars, sstVars
<1>2. ListInv' /\ InMemtable' = InMemtable
  BY <1>1, KeepList
<1>3. WriterInv' /\ PackedInv' /\ Written' = Written
  BY <1>1, <1>2, KeepFile
<1>4. WriteInv => WriteInv'
  BY <1>1, <1>2, <1>3 DEF WriteInv, iterVars, fileVars
<1>5. ReadInv => ReadInv'
  BY <1>1, <1>2 DEF ReadInv, fileVars
<1>6. PhaseInv'
  BY <1>1, <1>2, <1>4, <1>5 DEF PhaseInv, iterVars, fileVars
<1>7. IterInv'
  BY <1>1 DEF IterInv, readVars, fileVars
<1>8. Wanted' = Wanted
  BY <1>1, <1>2 DEF Wanted, scanVars
<1>9. ScanInv'
  BY <1>1, <1>8 DEF ScanInv, iterVars, fileVars, readVars, scanVars
<1> QED
  BY <1>2, <1>3, <1>6, <1>7, <1>9

(* FlushInv is inductive: it holds in every reachable state, for any user  *)
(* keys, value lengths, number of puts, levels and block size.             *)
THEOREM FlushCorrect == Spec => []FlushInv
<1>1. FlushInv /\ [Next]_vars => FlushInv'
  <2> SUFFICES ASSUME FlushInv, [Next]_vars PROVE FlushInv'
    OBVIOUS
  <2>1. CASE UNCHANGED vars
    BY <2>1, StutterKeeps
  <2>2. ASSUME NEW k \in UserKeys, NEW len \in Lengths, NEW h \in Levels, Put(k, "put", len, h)
        PROVE  FlushInv'
    BY <2>2, PutKeeps
  <2>3. ASSUME NEW k \in UserKeys, NEW h \in Levels, Put(k, "delete", 0, h)
        PROVE  FlushInv'
    BY <2>3, PutKeeps
  <2>4. CASE MemScan
    BY <2>4, MemScanKeeps
  <2>5. CASE FlushStart
    BY <2>5, FlushStartKeeps
  <2>6. CASE WriteEntry
    BY <2>6, WriteEntryKeeps
  <2>7. CASE WriteFails
    BY <2>7, WriteFailsKeeps
  <2>8. CASE WriteDone
    BY <2>8, WriteDoneKeeps
  <2>9. CASE TableScan
    BY <2>9, TableScanKeeps
  <2>10. CASE ReaderClose
    BY <2>10, ReaderCloseKeeps
  <2> QED
    BY <2>1, <2>2, <2>3, <2>4, <2>5, <2>6, <2>7, <2>8, <2>9, <2>10 DEF Next
<1> QED
  BY <1>1, FlushInit, PTL DEF Spec

-----------------------------------------------------------------------------
(* What follows from it. *)

(* Towers stay within the list's levels, pointers within a level, and both *)
(* iterators on entries of what they read.                                 *)
THEOREM TypeCorrect == Spec => []TypeOK
<1>1. FlushInv => TypeOK
  <2> SUFFICES ASSUME FlushInv PROVE TypeOK
    OBVIOUS
  <2> USE DEF FlushInv
  <2>1. Linked /\ InMemtable \subseteq Entry
    BY MemtableFacts DEF ListInv
  <2>2. ASSUME NEW l \in Levels, NEW n \in DOMAIN next[l]
        PROVE  next[l][n] \in DOMAIN next[l] \cup {NoNode}
    <3>1. Leads(next[l], n)
      BY <2>1, <2>2 DEF Linked, Chain
    <3> QED
      BY <3>1 DEF Leads, Behind, Nodes
  <2>3. index \in Seq(Entry)
    BY DEF WriterInv, Indexed
  <2>4. it.block \in 0..(Len(index) + 1) /\ (it.valid => it.idx \in 1..Len(blocks[it.block]))
    BY <2>3 DEF IterInv, Iterators
  <2> QED
    BY <2>1, <2>2, <2>4 DEF TypeOK, ListInv, PhaseInv, IterInv
<1> QED
  BY <1>1, FlushCorrect, PTL

(* Get of the skip list answers with the newest visible version, whatever  *)
(* heights randomLevel chose; and Get of the open table gives the same     *)
(* answer, wherever the blocks were cut.                                   *)
THEOREM AnswersCorrect == Spec => []SameAnswers
<1>1. FlushInv => SameAnswers
  <2> SUFFICES ASSUME FlushInv, NEW k \in UserKeys, NEW s \in 0..MaxSeqno
               PROVE  /\ MemGet(k, s) = Lookup(InMemtable, k, s)
                      /\ phase = "readable" /\ readerOpen =>
                           SSTGet(k, s) = Lookup(InMemtable, k, s)
    BY DEF SameAnswers
  <2>1. Linked
    BY DEF FlushInv, ListInv
  <2>2. MemGet(k, s) = Lookup(InMemtable, k, s)
    BY <2>1, MemGetAnswers
  <2>3. ASSUME phase = "readable", readerOpen PROVE SSTGet(k, s) = Lookup(InMemtable, k, s)
    <3>1. Sorted(blocks) /\ Indexed(index, blocks) /\ Held(blocks) = InMemtable
      BY <2>3 DEF FlushInv, WriterInv, PhaseInv, ReadInv
    <3>2. Unique(Held(blocks))
      BY <2>1, <3>1, MemtableFacts
    <3> QED
      BY <2>3, <3>1, <3>2, SSTGetAnswers
  <2> QED
    BY <2>2, <2>3
<1> QED
  BY <1>1, FlushCorrect, PTL

(* Put relinks every level it reaches: each chain stays ascending and      *)
(* complete, each level is contained in the one below, and sl.level is     *)
(* neither below nor above the tallest tower.                              *)
THEOREM TowersCorrect == Spec => []TowersLinked
<1>1. FlushInv => TowersLinked
  <2> SUFFICES ASSUME FlushInv PROVE TowersLinked
    OBVIOUS
  <2> USE DEF FlushInv
  <2>1. Linked
    BY DEF ListInv
  <2>2. ASSUME NEW l \in Levels
        PROVE  LET nodes == DOMAIN next[l] \ {ListHead}
                   after(n) == {m \in nodes : n = ListHead \/ Less(n, m)}
               IN  /\ l > 1 => nodes \subseteq DOMAIN next[l - 1]
                   /\ l > 1 => (nodes # {} <=> l <= level)
                   /\ \A n \in DOMAIN next[l] :
                        IF after(n) = {} THEN next[l][n] = NoNode
                        ELSE /\ next[l][n] \in after(n)
                             /\ \A m \in after(n) : ~Less(m, next[l][n])
    <3>1. l > 1 => Nodes(next[l]) \subseteq DOMAIN next[l - 1]
      <4> SUFFICES ASSUME l > 1 PROVE Nodes(next[l]) \subseteq DOMAIN next[l - 1]
        OBVIOUS
      <4>1. l - 1 \in Levels /\ l - 1 <= l
        BY LevelAssumption DEF Levels
      <4>2. DOMAIN next[l] \subseteq DOMAIN next[l - 1]
        BY <2>1, <4>1 DEF Linked
      <4> QED
        BY <4>2 DEF Nodes
    <3>2. l > 1 => (Nodes(next[l]) # {} <=> l <= level)
      <4>1. l \in Nat /\ (Nodes(next[l]) # {} => l <= level)
        BY OneIsLevel DEF ListInv
      <4>2. 1 < l /\ l <= level => Nodes(next[l]) # {}
        BY DEF ListInv
      <4> QED
        BY ONLY <4>1, <4>2
    <3>3. \A n \in DOMAIN next[l] : Leads(next[l], n)
      BY <2>1 DEF Linked, Chain
    <3> QED
      BY <3>1, <3>2, <3>3 DEF Leads, Behind, Nodes
  <2> QED
    BY <2>2 DEF TowersLinked
<1> QED
  BY <1>1, FlushCorrect, PTL

(* The writer never refuses an entry of the memtable as out of order, and  *)
(* the key range and the footer that a finished flush reports are those of *)
(* the memtable.                                                           *)
THEOREM TableDescribed == Spec => []TableDescribesMemtable
<1>1. FlushInv => TableDescribesMemtable
  <2> SUFFICES ASSUME FlushInv PROVE TableDescribesMemtable
    OBVIOUS
  <2>1. ASSUME phase = "write", cursor # NoNode PROVE InOrder(cursor)
    <3>1. WriteInv
      BY <2>1 DEF FlushInv, PhaseInv
    <3>2. lastKey # NoKey => lastKey \in Written
      BY <3>1 DEF WriteInv, Last
    <3>3. \A e \in Written : Less(e, cursor)
      BY <2>1, <3>1 DEF WriteInv
    <3> QED
      BY <3>2, <3>3 DEF InOrder
  <2>2. phase = "readable" => ReadInv
    BY DEF FlushInv, PhaseInv
  <2> QED
    BY <2>1, <2>2 DEF TableDescribesMemtable, ReadInv, First, Last
<1> QED
  BY <1>1, FlushCorrect, PTL

(* However entries and their sizes come, no block with two entries is over *)
(* the target and none is closed early.                                    *)
THEOREM PackingCorrect == Spec => []BlocksPacked
<1>1. FlushInv => BlocksPacked
  BY DEF FlushInv, PackedInv
<1> QED
  BY <1>1, FlushCorrect, PTL

(* Neither iterator skips or repeats an entry, and one that stops without  *)
(* an error has shown everything from its target on.                       *)
THEOREM ScansCorrect == Spec => []ScansComplete
<1>1. FlushInv => ScansComplete
  <2> SUFFICES ASSUME FlushInv PROVE ScansComplete
    OBVIOUS
  <2>1. /\ Elems(seen) \subseteq Wanted /\ Ascending(seen)
        /\ Precedes(Elems(seen), Wanted \ Elems(seen))
    BY DEF FlushInv, ScanInv, Scans
  <2>2. (locked /\ cursor = NoNode) \/ (it.open /\ ~it.valid /\ it.err = "nil")
          => Elems(seen) = Wanted
    BY DEF FlushInv, ScanInv
  <2> QED
    BY <2>1, <2>2 DEF ScansComplete, Elems, Wanted, Ascending, Precedes
<1> QED
  BY <1>1, FlushCorrect, PTL

=============================================================================
