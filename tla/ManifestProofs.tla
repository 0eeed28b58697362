--------------------------- MODULE ManifestProofs ---------------------------
(***************************************************************************)
(* Theorems about Manifest, for any user keys, limit on a field and number *)
(* of edits.                                                               *)
(***************************************************************************)
EXTENDS Manifest, NaturalFacts, SequenceTheorems, TLAPS

-----------------------------------------------------------------------------
(* Folds over the files of an edit, of which there is at most one. *)

LEMMA OneIsMax == Max({1}) = 1
  BY DEF Max

(* Encode writes the deletion, if there is one.                            *)
LEMMA FoldDeleted ==
    ASSUME NEW b, NEW ds, ds = <<>> \/ \E x : ds = <<x>>
    PROVE  FoldLeft(LAMBDA buf, d : buf \o EncodeDeleted(d), b, ds) = IF ds = <<>> THEN b ELSE b \o EncodeDeleted(ds[1])
<1> DEFINE Step(g, S) == IF S = {} THEN b ELSE g[S \ {Max(S)}] \o EncodeDeleted(ds[Max(S)])
           F(g) == [S \in SUBSET (DOMAIN ds) |-> Step(g, S)]
           chosen == CHOOSE g : g = F(g)
           once == b \o EncodeDeleted(ds[1])
<1>1. FoldLeft(LAMBDA buf, d : buf \o EncodeDeleted(d), b, ds) = chosen[DOMAIN ds]
  BY DEF FoldLeft, MapThenFoldSet
<1>2. DOMAIN ds = IF ds = <<>> THEN {} ELSE {1}
  OBVIOUS
<1>3. \A S \in SUBSET (DOMAIN ds) : S = {} \/ (S = {1} /\ ds # <<>>)
  BY <1>2
<1>4. PICK g : g = [S \in SUBSET (DOMAIN ds) |-> IF S = {} THEN b ELSE once]
  OBVIOUS
<1>5. g[{}] = b /\ {} \in SUBSET (DOMAIN ds) /\ {1} \ {1} = {} /\ {1} # {}
  BY <1>4
<1>6. ASSUME NEW S \in SUBSET (DOMAIN ds) PROVE g[S] = Step(g, S)
  <2>1. CASE S = {}
    BY <1>5, <2>1
  <2>2. CASE S = {1}
    <3>1. g[S] = once
      BY <1>4, <1>5, <2>2
    <3>2. Step(g, S) = once
      BY <1>5, <2>2, OneIsMax
    <3> QED
      BY <3>1, <3>2
  <2> QED
    BY <1>3, <2>1, <2>2
<1>7. g = F(g)
  <2> HIDE DEF Step
  <2> QED
    BY <1>4, <1>6
<1>8. chosen = F(chosen)
  <2> HIDE DEF F
  <2> QED
    BY <1>7
<1>9. PICK f : f = F(f) /\ FoldLeft(LAMBDA buf, d : buf \o EncodeDeleted(d), b, ds) = f[DOMAIN ds]
  <2> HIDE DEF F, chosen
  <2> QED
    BY <1>1, <1>8
<1>10. \A S \in SUBSET (DOMAIN ds) : f[S] = Step(f, S)
  <2> HIDE DEF Step
  <2> QED
    BY <1>9
<1>11. f[{}] = b
  BY <1>5, <1>10
<1>12. CASE ds = <<>>
  BY <1>2, <1>9, <1>11, <1>12
<1>13. CASE ds # <<>>
  <2>1. f[{1}] = once
    <3>1. f[{1}] = Step(f, {1})
      BY <1>2, <1>10, <1>13
    <3> QED
      BY <1>5, <1>11, <3>1, OneIsMax
  <2> QED
    BY <1>2, <1>9, <1>13, <2>1
<1> QED
  BY <1>12, <1>13

(* Encode writes the addition.                                             *)
LEMMA FoldAdded ==
    ASSUME NEW b, NEW fs, fs = <<>> \/ \E x : fs = <<x>>
    PROVE  FoldLeft(LAMBDA buf, f : buf \o EncodeAdded(f), b, fs) = IF fs = <<>> THEN b ELSE b \o EncodeAdded(fs[1])
<1> DEFINE Step(g, S) == IF S = {} THEN b ELSE g[S \ {Max(S)}] \o EncodeAdded(fs[Max(S)])
           F(g) == [S \in SUBSET (DOMAIN fs) |-> Step(g, S)]
           chosen == CHOOSE g : g = F(g)
           once == b \o EncodeAdded(fs[1])
<1>1. FoldLeft(LAMBDA buf, f : buf \o EncodeAdded(f), b, fs) = chosen[DOMAIN fs]
  BY DEF FoldLeft, MapThenFoldSet
<1>2. DOMAIN fs = IF fs = <<>> THEN {} ELSE {1}
  OBVIOUS
<1>3. \A S \in SUBSET (DOMAIN fs) : S = {} \/ (S = {1} /\ fs # <<>>)
  BY <1>2
<1>4. PICK g : g = [S \in SUBSET (DOMAIN fs) |-> IF S = {} THEN b ELSE once]
  OBVIOUS
<1>5. g[{}] = b /\ {} \in SUBSET (DOMAIN fs) /\ {1} \ {1} = {} /\ {1} # {}
  BY <1>4
<1>6. ASSUME NEW S \in SUBSET (DOMAIN fs) PROVE g[S] = Step(g, S)
  <2>1. CASE S = {}
    BY <1>5, <2>1
  <2>2. CASE S = {1}
    <3>1. g[S] = once
      BY <1>4, <1>5, <2>2
    <3>2. Step(g, S) = once
      BY <1>5, <2>2, OneIsMax
    <3> QED
      BY <3>1, <3>2
  <2> QED
    BY <1>3, <2>1, <2>2
<1>7. g = F(g)
  <2> HIDE DEF Step
  <2> QED
    BY <1>4, <1>6
<1>8. chosen = F(chosen)
  <2> HIDE DEF F
  <2> QED
    BY <1>7
<1>9. PICK h : h = F(h) /\ FoldLeft(LAMBDA buf, f : buf \o EncodeAdded(f), b, fs) = h[DOMAIN fs]
  <2> HIDE DEF F, chosen
  <2> QED
    BY <1>1, <1>8
<1>10. \A S \in SUBSET (DOMAIN fs) : h[S] = Step(h, S)
  <2> HIDE DEF Step
  <2> QED
    BY <1>9
<1>11. h[{}] = b
  BY <1>5, <1>10
<1>12. CASE fs = <<>>
  BY <1>2, <1>9, <1>11, <1>12
<1>13. CASE fs # <<>>
  <2>1. h[{1}] = once
    <3>1. h[{1}] = Step(h, {1})
      BY <1>2, <1>10, <1>13
    <3> QED
      BY <1>5, <1>11, <3>1, OneIsMax
  <2> QED
    BY <1>2, <1>9, <1>13, <2>1
<1> QED
  BY <1>12, <1>13

(* Apply deletes a file.                                                   *)
LEMMA FoldDelete ==
    ASSUME NEW v, NEW ds, ds = <<>> \/ \E x : ds = <<x>>
    PROVE  FoldLeft(DeleteFile, v, ds) = IF ds = <<>> THEN v ELSE DeleteFile(v, ds[1])
<1> DEFINE Step(g, S) == IF S = {} THEN v ELSE DeleteFile(g[S \ {Max(S)}], ds[Max(S)])
           F(g) == [S \in SUBSET (DOMAIN ds) |-> Step(g, S)]
           chosen == CHOOSE g : g = F(g)
           once == DeleteFile(v, ds[1])
<1>1. FoldLeft(DeleteFile, v, ds) = chosen[DOMAIN ds]
  BY DEF FoldLeft, MapThenFoldSet
<1>2. DOMAIN ds = IF ds = <<>> THEN {} ELSE {1}
  OBVIOUS
<1>3. \A S \in SUBSET (DOMAIN ds) : S = {} \/ (S = {1} /\ ds # <<>>)
  BY <1>2
<1>4. PICK g : g = [S \in SUBSET (DOMAIN ds) |-> IF S = {} THEN v ELSE once]
  OBVIOUS
<1>5. g[{}] = v /\ {} \in SUBSET (DOMAIN ds) /\ {1} \ {1} = {} /\ {1} # {}
  BY <1>4
<1>6. ASSUME NEW S \in SUBSET (DOMAIN ds) PROVE g[S] = Step(g, S)
  <2>1. CASE S = {}
    BY <1>5, <2>1
  <2>2. CASE S = {1}
    <3>1. g[S] = once
      BY <1>4, <1>5, <2>2
    <3>2. Step(g, S) = once
      BY <1>5, <2>2, OneIsMax
    <3> QED
      BY <3>1, <3>2
  <2> QED
    BY <1>3, <2>1, <2>2
<1>7. g = F(g)
  <2> HIDE DEF Step
  <2> QED
    BY <1>4, <1>6
<1>8. chosen = F(chosen)
  <2> HIDE DEF F
  <2> QED
    BY <1>7
<1>9. PICK f : f = F(f) /\ FoldLeft(DeleteFile, v, ds) = f[DOMAIN ds]
  <2> HIDE DEF F, chosen
  <2> QED
    BY <1>1, <1>8
<1>10. \A S \in SUBSET (DOMAIN ds) : f[S] = Step(f, S)
  <2> HIDE DEF Step
  <2> QED
    BY <1>9
<1>11. f[{}] = v
  BY <1>5, <1>10
<1>12. CASE ds = <<>>
  BY <1>2, <1>9, <1>11, <1>12
<1>13. CASE ds # <<>>
  <2>1. f[{1}] = once
    <3>1. f[{1}] = Step(f, {1})
      BY <1>2, <1>10, <1>13
    <3> QED
      BY <1>5, <1>11, <3>1, OneIsMax
  <2> QED
    BY <1>2, <1>9, <1>13, <2>1
<1> QED
  BY <1>12, <1>13

(* Apply adds a file.                                                      *)
LEMMA FoldAdd ==
    ASSUME NEW v, NEW fs, fs = <<>> \/ \E x : fs = <<x>>
    PROVE  FoldLeft(AddFile, v, fs) = IF fs = <<>> THEN v ELSE AddFile(v, fs[1])
<1> DEFINE Step(g, S) == IF S = {} THEN v ELSE AddFile(g[S \ {Max(S)}], fs[Max(S)])
           F(g) == [S \in SUBSET (DOMAIN fs) |-> Step(g, S)]
           chosen == CHOOSE g : g = F(g)
           once == AddFile(v, fs[1])
<1>1. FoldLeft(AddFile, v, fs) = chosen[DOMAIN fs]
  BY DEF FoldLeft, MapThenFoldSet
<1>2. DOMAIN fs = IF fs = <<>> THEN {} ELSE {1}
  OBVIOUS
<1>3. \A S \in SUBSET (DOMAIN fs) : S = {} \/ (S = {1} /\ fs # <<>>)
  BY <1>2
<1>4. PICK g : g = [S \in SUBSET (DOMAIN fs) |-> IF S = {} THEN v ELSE once]
  OBVIOUS
<1>5. g[{}] = v /\ {} \in SUBSET (DOMAIN fs) /\ {1} \ {1} = {} /\ {1} # {}
  BY <1>4
<1>6. ASSUME NEW S \in SUBSET (DOMAIN fs) PROVE g[S] = Step(g, S)
  <2>1. CASE S = {}
    BY <1>5, <2>1
  <2>2. CASE S = {1}
    <3>1. g[S] = once
      BY <1>4, <1>5, <2>2
    <3>2. Step(g, S) = once
      BY <1>5, <2>2, OneIsMax
    <3> QED
      BY <3>1, <3>2
  <2> QED
    BY <1>3, <2>1, <2>2
<1>7. g = F(g)
  <2> HIDE DEF Step
  <2> QED
    BY <1>4, <1>6
<1>8. chosen = F(chosen)
  <2> HIDE DEF F
  <2> QED
    BY <1>7
<1>9. PICK f : f = F(f) /\ FoldLeft(AddFile, v, fs) = f[DOMAIN fs]
  <2> HIDE DEF F, chosen
  <2> QED
    BY <1>1, <1>8
<1>10. \A S \in SUBSET (DOMAIN fs) : f[S] = Step(f, S)
  <2> HIDE DEF Step
  <2> QED
    BY <1>9
<1>11. f[{}] = v
  BY <1>5, <1>10
<1>12. CASE fs = <<>>
  BY <1>2, <1>9, <1>11, <1>12
<1>13. CASE fs # <<>>
  <2>1. f[{1}] = once
    <3>1. f[{1}] = Step(f, {1})
      BY <1>2, <1>10, <1>13
    <3> QED
      BY <1>5, <1>11, <3>1, OneIsMax
  <2> QED
    BY <1>2, <1>9, <1>13, <2>1
<1> QED
  BY <1>12, <1>13

-----------------------------------------------------------------------------
(* The fold of the replay, which takes the records one after the other. *)

LEMMA ReplayFolds ==
    ASSUME NEW recs, NEW n \in Nat, DOMAIN recs = 1..n
    PROVE  \E g : /\ g[{}] = ReplayStart
                  /\ \A k \in 1..n : g[1..k] = ReplayRecord(g[1..(k - 1)], recs[k])
                  /\ FoldLeft(ReplayRecord, ReplayStart, recs) = g[1..n]
<1> DEFINE Step(g, S) == IF S = {} THEN ReplayStart
                         ELSE ReplayRecord(g[S \ {Max(S)}], recs[Max(S)])
           F(g, k) == [S \in SUBSET (1..k) |-> Step(g, S)]
           T == {k \in Nat : \E g : g = F(g, k)}
           chosen == CHOOSE g : g = F(g, n)
<1>1. 0 \in T
  <2>1. PICK g : g = [S \in SUBSET (1..0) |-> ReplayStart]
    OBVIOUS
  <2>2. \A S \in SUBSET (1..0) : S = {}
    OBVIOUS
  <2>3. \A S \in SUBSET (1..0) : g[S] = Step(g, S)
    BY <2>1, <2>2
  <2> HIDE DEF Step
  <2>4. g = F(g, 0)
    BY <2>1, <2>3
  <2> QED
    BY <2>4
<1>2. ASSUME NEW k \in T PROVE k + 1 \in T
  <2>1. k \in Nat /\ k + 1 \in Nat /\ k + 1 \in 1..(k + 1)
    OBVIOUS
  <2>2. PICK g : g = F(g, k)
    BY k \in T
  <2>a. \A S \in SUBSET (1..k) : g[S] = Step(g, S)
    <3> HIDE DEF Step
    <3> QED
      BY <2>2
  <2>3. PICK e : e = [S \in SUBSET (1..(k + 1)) |->
                        IF k + 1 \in S THEN ReplayRecord(g[S \ {k + 1}], recs[k + 1]) ELSE g[S]]
    OBVIOUS
  <2>4. \A S \in SUBSET (1..(k + 1)) :
          S \ {k + 1} \in SUBSET (1..k) /\ (k + 1 \notin S => S \in SUBSET (1..k))
    BY <2>1
  <2>6. \A S \in SUBSET (1..k) : S \in SUBSET (1..(k + 1)) /\ k + 1 \notin S /\ e[S] = g[S]
    <3>1. \A S \in SUBSET (1..k) : S \in SUBSET (1..(k + 1)) /\ k + 1 \notin S
      BY <2>1
    <3> QED
      BY <2>3, <3>1
  <2>7. ASSUME NEW S \in SUBSET (1..(k + 1)) PROVE e[S] = Step(e, S)
    <3>1. CASE k + 1 \in S
      <4>1. Max(S) \in S /\ Max(S) >= k + 1 /\ Max(S) \in 1..(k + 1)
        BY <2>1, <3>1, MaxFacts
      <4>2. Max(S) = k + 1 /\ S # {}
        BY <2>1, <3>1, <4>1
      <4>3. e[S] = ReplayRecord(g[S \ {k + 1}], recs[k + 1])
        BY <2>3, <3>1
      <4>4. e[S \ {k + 1}] = g[S \ {k + 1}]
        BY <2>4, <2>6
      <4> QED
        BY <4>2, <4>3, <4>4
    <3>2. CASE k + 1 \notin S
      <4>1. S \in SUBSET (1..k) /\ e[S] = g[S] /\ g[S] = Step(g, S)
        BY <2>a, <2>4, <2>6, <3>2
      <4>2. S \ {Max(S)} \in SUBSET (1..k)
        BY <4>1
      <4>3. e[S \ {Max(S)}] = g[S \ {Max(S)}]
        BY <2>6, <4>2
      <4> QED
        BY <4>1, <4>3
    <3> QED
      BY <3>1, <3>2
  <2> HIDE DEF Step
  <2>8. e = F(e, k + 1)
    BY <2>3, <2>7
  <2> QED
    BY <2>1, <2>8
<1>3. T = Nat
  <2>1. T \in SUBSET Nat
    OBVIOUS
  <2> HIDE DEF T
  <2> QED
    BY ONLY <1>1, <1>2, <2>1, Induction
<1>4. \E g : g = F(g, n)
  <2>1. n \in T
    BY ONLY <1>3, n \in Nat
  <2> HIDE DEF F
  <2> QED
    BY <2>1
<1>5. chosen = F(chosen, n)
  <2> HIDE DEF F
  <2> QED
    BY <1>4
<1>6. FoldLeft(ReplayRecord, ReplayStart, recs) = chosen[1..n]
  BY DEF FoldLeft, MapThenFoldSet
<1>7. PICK g : g = F(g, n) /\ FoldLeft(ReplayRecord, ReplayStart, recs) = g[1..n]
  <2> HIDE DEF F, chosen
  <2> QED
    BY <1>5, <1>6
<1>8. \A S \in SUBSET (1..n) : g[S] = Step(g, S)
  <2> HIDE DEF Step
  <2> QED
    BY <1>7
<1>9. g[{}] = ReplayStart
  BY <1>8
<1>10. ASSUME NEW k \in 1..n PROVE g[1..k] = ReplayRecord(g[1..(k - 1)], recs[k])
  <2>1. /\ 1..k \in SUBSET (1..n) /\ 1..k # {} /\ Max(1..k) = k
        /\ (1..k) \ {Max(1..k)} = 1..(k - 1)
    BY InitialSegment
  <2> QED
    BY <1>8, <2>1
<1> QED
  BY <1>7, <1>9, <1>10

(* One more record is replayed behind the others.                          *)
LEMMA ReplayAppend ==
    ASSUME NEW recs, NEW more, NEW n \in Nat, DOMAIN recs = 1..n, DOMAIN more = 1..(n + 1),
           \A k \in 1..n : more[k] = recs[k]
    PROVE  FoldLeft(ReplayRecord, ReplayStart, more) =
             ReplayRecord(FoldLeft(ReplayRecord, ReplayStart, recs), more[n + 1])
<1>1. PICK g : /\ g[{}] = ReplayStart
               /\ \A k \in 1..n : g[1..k] = ReplayRecord(g[1..(k - 1)], recs[k])
               /\ FoldLeft(ReplayRecord, ReplayStart, recs) = g[1..n]
  BY ReplayFolds
<1>0. n + 1 \in Nat
  OBVIOUS
<1>2. PICK h : /\ h[{}] = ReplayStart
               /\ \A k \in 1..(n + 1) : h[1..k] = ReplayRecord(h[1..(k - 1)], more[k])
               /\ FoldLeft(ReplayRecord, ReplayStart, more) = h[1..(n + 1)]
  BY <1>0, ReplayFolds
<1> DEFINE U == {k \in Nat : k <= n => g[1..k] = h[1..k]}
<1>3. 0 \in U
  <2>1. 1..0 = {}
    OBVIOUS
  <2> QED
    BY <1>1, <1>2, <2>1
<1>4. ASSUME NEW k \in U PROVE k + 1 \in U
  <2>1. k \in Nat /\ k + 1 \in Nat
    BY ONLY k \in U
  <2>2. ASSUME k + 1 <= n PROVE g[1..(k + 1)] = h[1..(k + 1)]
    <3>1. PICK j \in 1..n : j = k + 1 /\ j - 1 = k /\ j \in 1..(n + 1) /\ k <= n
      BY ONLY <2>1, <2>2, n \in Nat
    <3>2. g[1..k] = h[1..k]
      BY ONLY k \in U, <2>1, <3>1
    <3>3. g[1..j] = ReplayRecord(g[1..(j - 1)], recs[j])
      BY <1>1, <3>1
    <3>4. h[1..j] = ReplayRecord(h[1..(j - 1)], more[j])
      BY <1>2, <3>1
    <3> QED
      BY <3>1, <3>2, <3>3, <3>4
  <2> QED
    BY ONLY <2>1, <2>2
<1>5. U = Nat
  <2>1. U \in SUBSET Nat
    OBVIOUS
  <2> HIDE DEF U
  <2> QED
    BY ONLY <1>3, <1>4, <2>1, Induction
<1>6. g[1..n] = h[1..n]
  <2>1. n \in U
    <3> HIDE DEF U
    <3> QED
      BY ONLY <1>5, n \in Nat
  <2> QED
    BY ONLY <2>1, n \in Nat
<1>7. n + 1 \in 1..(n + 1) /\ (n + 1) - 1 = n
  OBVIOUS
<1>8. h[1..(n + 1)] = ReplayRecord(h[1..((n + 1) - 1)], more[n + 1])
  BY <1>2, <1>7
<1> QED
  BY <1>1, <1>2, <1>6, <1>7, <1>8

(* The first record is replayed on its own.                                *)
LEMMA ReplayFirst ==
    ASSUME NEW recs, DOMAIN recs = 1..1
    PROVE  FoldLeft(ReplayRecord, ReplayStart, recs) = ReplayRecord(ReplayStart, recs[1])
<1>1. PICK g : /\ g[{}] = ReplayStart
               /\ \A k \in 1..1 : g[1..k] = ReplayRecord(g[1..(k - 1)], recs[k])
               /\ FoldLeft(ReplayRecord, ReplayStart, recs) = g[1..1]
  BY ReplayFolds
<1>2. 1 \in 1..1 /\ 1..(1 - 1) = {}
  OBVIOUS
<1> QED
  BY <1>1, <1>2

-----------------------------------------------------------------------------
(* Decoding what was encoded. *)

(* The decoder goes through the tags one by one.                           *)
Decodes(f, data, n) ==
    /\ f[0] = Decoding(0, EmptyEdit)
    /\ \A i \in 1..n : f[i] = DecodeTag(data, f[i - 1])

LEMMA DecoderSteps ==
    ASSUME NEW data, NEW n \in Nat, n = Len(data)
    PROVE  \E f : Decodes(f, data, n) /\ DecodeVersionEdit(data) = f[n]
<1> DEFINE Step(f, i) == IF i = 0 THEN Decoding(0, EmptyEdit)
                         ELSE DecodeTag(data, f[i - 1])
           F(f, k) == [i \in 0..k |-> Step(f, i)]
           T == {k \in Nat : \E f : f = F(f, k)}
           chosen == CHOOSE f : f = F(f, n)
<1>1. 0 \in T
  <2>1. PICK f : f = [i \in 0..0 |-> Decoding(0, EmptyEdit)]
    OBVIOUS
  <2>2. \A i \in 0..0 : Step(f, i) = Decoding(0, EmptyEdit)
    OBVIOUS
  <2> HIDE DEF Step
  <2>3. f = F(f, 0)
    BY <2>1, <2>2
  <2> QED
    BY <2>3
<1>2. ASSUME NEW k \in T PROVE k + 1 \in T
  <2>1. k \in Nat /\ k + 1 \in Nat
    OBVIOUS
  <2>2. PICK f : f = F(f, k)
    BY k \in T
  <2>3. PICK g : g = [i \in 0..(k + 1) |-> IF i = k + 1 THEN DecodeTag(data, f[k]) ELSE f[i]]
    OBVIOUS
  <2>4. ASSUME NEW i \in 0..(k + 1) PROVE g[i] = Step(g, i)
    <3>1. CASE i = k + 1
      <4>1. g[i] = DecodeTag(data, f[k]) /\ k \in 0..(k + 1) /\ k # k + 1 /\ i - 1 = k /\ i # 0
        BY <2>1, <2>3, <3>1
      <4>2. g[k] = f[k]
        BY <2>3, <4>1
      <4> QED
        BY <4>1, <4>2
    <3>2. CASE i # k + 1
      <4>1. i \in 0..k /\ g[i] = f[i] /\ f[i] = Step(f, i)
        BY <2>1, <2>2, <2>3, <3>2
      <4>2. CASE i = 0
        BY <4>1, <4>2
      <4>3. CASE i # 0
        <5>1. i - 1 \in 0..(k + 1) /\ i - 1 # k + 1
          BY <2>1, <4>1, <4>3
        <5>2. g[i - 1] = f[i - 1]
          BY <2>3, <5>1
        <5> QED
          BY <4>1, <4>3, <5>2
      <4> QED
        BY <4>2, <4>3
    <3> QED
      BY <3>1, <3>2
  <2> HIDE DEF Step
  <2>5. g = F(g, k + 1)
    BY <2>3, <2>4
  <2> QED
    BY <2>1, <2>5
<1>3. T = Nat
  <2>1. T \in SUBSET Nat
    OBVIOUS
  <2> HIDE DEF T
  <2> QED
    BY ONLY <1>1, <1>2, <2>1, Induction
<1>4. \E f : f = F(f, n)
  <2>1. n \in T
    BY ONLY <1>3, n \in Nat
  <2> HIDE DEF F
  <2> QED
    BY <2>1
<1>5. chosen = F(chosen, n)
  <2> HIDE DEF F
  <2> QED
    BY <1>4
<1>6. DecodeVersionEdit(data) = chosen[n]
  BY DEF DecodeVersionEdit
<1>7. PICK f : f = F(f, n) /\ DecodeVersionEdit(data) = f[n]
  <2> HIDE DEF F, chosen
  <2> QED
    BY <1>5, <1>6
<1>8. f[0] = Decoding(0, EmptyEdit)
  BY <1>7
<1>9. ASSUME NEW i \in 1..n PROVE f[i] = DecodeTag(data, f[i - 1])
  <2>1. i \in 0..n /\ i # 0
    OBVIOUS
  <2> QED
    BY <1>7, <2>1
<1> QED
  BY <1>7, <1>8, <1>9 DEF Decodes

(* It stands behind pos fields, of which it has made the edit.             *)
Reaches(f, pos, edit) == \E i \in 0..pos : f[i] = Decoding(pos, edit)

LEMMA ReachesNext ==
    ASSUME NEW data, NEW n \in Nat, NEW f, Decodes(f, data, n),
           NEW pos \in Nat, NEW edit, Reaches(f, pos, edit), pos < n,
           NEW to \in Nat, pos < to, NEW more, DecodeTag(data, Decoding(pos, edit)) = Decoding(to, more)
    PROVE  Reaches(f, to, more)
<1>1. PICK i \in 0..pos : f[i] = Decoding(pos, edit)
  BY DEF Reaches
<1>2. PICK j \in 1..n : j = i + 1 /\ j - 1 = i /\ j \in 0..to
  BY <1>1
<1>3. f[j] = DecodeTag(data, f[j - 1])
  BY <1>2 DEF Decodes
<1>4. f[j] = Decoding(to, more)
  BY <1>1, <1>2, <1>3
<1> QED
  BY <1>2, <1>4 DEF Reaches

(* The end of the data and an error are final.                             *)
LEMMA Stalls ==
    ASSUME NEW data, NEW n \in Nat, NEW f, Decodes(f, data, n), NEW i \in 0..n, NEW r,
           f[i] = r, DecodeTag(data, r) = r
    PROVE  f[n] = r
<1> DEFINE U == {k \in Nat : i + k <= n => f[i + k] = r}
<1>1. 0 \in U
  OBVIOUS
<1>2. ASSUME NEW k \in U PROVE k + 1 \in U
  <2>1. k \in Nat /\ k + 1 \in Nat
    BY ONLY k \in U
  <2>2. ASSUME i + (k + 1) <= n PROVE f[i + (k + 1)] = r
    <3>1. PICK j \in 1..n : j = i + (k + 1) /\ j - 1 = i + k /\ i + k <= n
      BY ONLY <2>1, <2>2, n \in Nat, i \in 0..n
    <3>2. f[i + k] = r
      BY ONLY k \in U, <3>1
    <3>3. f[j] = DecodeTag(data, f[j - 1])
      BY <3>1 DEF Decodes
    <3> QED
      BY ONLY <3>1, <3>2, <3>3, DecodeTag(data, r) = r
  <2> QED
    BY ONLY <2>1, <2>2
<1>3. U = Nat
  <2>1. U \in SUBSET Nat
    OBVIOUS
  <2> HIDE DEF U
  <2> QED
    BY ONLY <1>1, <1>2, <2>1, Induction
<1>4. n - i \in U /\ n - i \in Nat /\ i + (n - i) = n
  <2>1. n - i \in Nat /\ i + (n - i) = n
    OBVIOUS
  <2> HIDE DEF U
  <2> QED
    BY ONLY <1>3, <2>1
<1>5. i + (n - i) <= n
  BY ONLY <1>4, n \in Nat
<1>6. f[i + (n - i)] = r
  BY ONLY <1>4, <1>5
<1> QED
  BY ONLY <1>4, <1>6

Counters == {c \in Seq(Nat) : Len(c) <= 1}
KeySet   == [user : Nat, seq : Nat, kind : {KindPut, KindDelete}]
FileSet  == [level : 0..1, id : Nat, size : Nat, smallest : KeySet, largest : KeySet]
DelSet   == [level : 0..1, id : Nat]
DelSeqs  == {d \in Seq(DelSet) : Len(d) <= 1}
FileSeqs == {a \in Seq(FileSet) : Len(a) <= 1}
EditSet  == [next : Counters, last : Counters, log : Counters,
             deleted : DelSeqs, added : FileSeqs]

(* A sequence of at most one element.                                      *)
LEMMA AtMostOne ==
    ASSUME NEW S, NEW s \in Seq(S), Len(s) <= 1
    PROVE  s = <<>> \/ (Len(s) = 1 /\ s = <<s[1]>> /\ s[1] \in S)
<1>1. CASE s = <<>>
  BY <1>1
<1>2. CASE s # <<>>
  <2>a. PICK m \in Nat : m = Len(s)
    OBVIOUS
  <2>b. m # 0
    BY <1>2, <2>a, EmptySeq
  <2>1. Len(s) = 1 /\ s[1] \in S
    <3>1. m = 1
      BY <2>a, <2>b
    <3>2. 1 \in 1..Len(s)
      BY <2>a, <3>1
    <3> QED
      BY <2>a, <3>1, <3>2, ElementOfSeq
  <2>2. <<s[1]>> \in Seq(S) /\ Len(<<s[1]>>) = 1 /\ <<s[1]>>[1] = s[1]
    BY <2>1
  <2>3. \A i \in 1..1 : i = 1
    OBVIOUS
  <2>4. s = <<s[1]>>
    BY <2>1, <2>2, <2>3, SeqEqual
  <2> QED
    BY <2>1, <2>4
<1> QED
  BY <1>1, <1>2

LEMMA EncodedCounter ==
    ASSUME NEW tag \in Nat, NEW c \in Counters
    PROVE  \/ c = <<>> /\ EncodeCounter(tag, c) = <<>>
           \/ c # <<>> /\ c = <<c[1]>> /\ c[1] \in Nat /\ EncodeCounter(tag, c) = <<tag, c[1]>>
<1>1. c \in Seq(Nat) /\ Len(c) <= 1
  BY DEF Counters
<1>2. CASE c = <<>>
  BY <1>2 DEF EncodeCounter
<1>3. CASE c # <<>>
  <2>1. c = <<c[1]>> /\ c[1] \in Nat
    BY <1>1, <1>3, AtMostOne
  <2>2. PICK x \in Nat : x = c[1] /\ c = <<x>>
    BY <2>1
  <2>3. <<tag>> \o <<x>> = <<tag, x>>
    <3>a. <<tag>> \in Seq(Nat) /\ <<x>> \in Seq(Nat) /\ <<tag, x>> \in Seq(Nat)
      OBVIOUS
    <3>b. Len(<<tag>>) = 1 /\ Len(<<x>>) = 1 /\ Len(<<tag, x>>) = 2
      OBVIOUS
    <3>c. <<tag, x>>[1] = tag /\ <<tag, x>>[2] = x
      OBVIOUS
    <3>0. PICK a \in Seq(Nat) : a = <<tag>>
      BY <3>a
    <3>d. PICK b \in Seq(Nat) : b = <<x>>
      BY <3>a
    <3>1. a = <<tag>> /\ b = <<x>> /\ Len(a) = 1 /\ Len(b) = 1
      BY <3>0, <3>d, <3>b
    <3>e. PICK t \in Seq(Nat) : t = <<tag, x>>
      BY <3>a
    <3>2. t = <<tag, x>> /\ Len(t) = 2 /\ t[1] = tag /\ t[2] = x
      BY <3>b, <3>c, <3>e
    <3>3. a[1] = tag /\ b[1] = x
      BY <3>1
    <3>4. a \o b \in Seq(Nat) /\ Len(a \o b) = 2 /\ (a \o b)[1] = tag /\ (a \o b)[2] = x
      BY <3>1, <3>3, ConcatProperties
    <3>5. \A i \in 1..2 : i = 1 \/ i = 2
      OBVIOUS
    <3>6. a \o b = t
      BY <3>2, <3>4, <3>5, SeqEqual
    <3> QED
      BY <3>1, <3>2, <3>6
  <2>4. EncodeCounter(tag, c) = <<tag>> \o <<x>>
    BY <1>3, <2>2 DEF EncodeCounter
  <2> QED
    BY <1>3, <2>1, <2>2, <2>3, <2>4
<1> QED
  BY <1>2, <1>3

(* The fields w are in the data, behind pos others.                        *)
Placed(data, n, pos, w) ==
    /\ data \in Seq(Nat) /\ n = Len(data) /\ pos + Len(w) <= n
    /\ \A x \in 1..Len(w) : data[pos + x] = w[x]

(* A counter that is there is set.                                         *)
WithNext(edit, c)    == [edit EXCEPT !.next = c]
WithLast(edit, c)    == [edit EXCEPT !.last = c]
WithLog(edit, c)     == [edit EXCEPT !.log = c]
WithDeleted(edit, d) == [edit EXCEPT !.deleted = d]
WithAdded(edit, a)   == [edit EXCEPT !.added = a]
Sets(tag, c, edit, more) ==
    /\ c = <<>> => more = edit
    /\ c # <<>> => /\ tag = 3 => more = WithNext(edit, c)
                   /\ tag = 4 => more = WithLast(edit, c)
                   /\ tag = 5 => more = WithLog(edit, c)

LEMMA EditUpdates ==
    ASSUME NEW n, NEW l, NEW g, NEW d, NEW a, NEW x
    PROVE  /\ WithNext(VersionEdit(n, l, g, d, a), x) = VersionEdit(x, l, g, d, a)
           /\ WithLast(VersionEdit(n, l, g, d, a), x) = VersionEdit(n, x, g, d, a)
           /\ WithLog(VersionEdit(n, l, g, d, a), x) = VersionEdit(n, l, x, d, a)
           /\ WithDeleted(VersionEdit(n, l, g, d, a), x) = VersionEdit(n, l, g, x, a)
           /\ WithAdded(VersionEdit(n, l, g, d, a), x) = VersionEdit(n, l, g, d, x)
<1>1. WithNext(VersionEdit(n, l, g, d, a), x) = VersionEdit(x, l, g, d, a)
  BY DEF VersionEdit, WithNext
<1>2. WithLast(VersionEdit(n, l, g, d, a), x) = VersionEdit(n, x, g, d, a)
  BY DEF VersionEdit, WithLast
<1>3. WithLog(VersionEdit(n, l, g, d, a), x) = VersionEdit(n, l, x, d, a)
  BY DEF VersionEdit, WithLog
<1>4. WithDeleted(VersionEdit(n, l, g, d, a), x) = VersionEdit(n, l, g, x, a)
  BY DEF VersionEdit, WithDeleted
<1>5. WithAdded(VersionEdit(n, l, g, d, a), x) = VersionEdit(n, l, g, d, x)
  BY DEF VersionEdit, WithAdded
<1> QED
  BY <1>1, <1>2, <1>3, <1>4, <1>5

LEMMA CounterStep ==
    ASSUME NEW data, NEW n \in Nat, NEW f, Decodes(f, data, n),
           NEW pos \in Nat, NEW edit, Reaches(f, pos, edit),
           NEW tag \in 3..5, NEW c \in Counters, NEW w, w = EncodeCounter(tag, c),
           Placed(data, n, pos, w), NEW more, Sets(tag, c, edit, more)
    PROVE  Reaches(f, pos + Len(w), more)
<1> USE DEF Placed, Sets, WithNext, WithLast, WithLog
<1>0. tag \in Nat
  OBVIOUS
<1>1. CASE c = <<>>
  <2>1. w = <<>> /\ Len(w) = 0
    BY <1>0, <1>1, EncodedCounter
  <2> QED
    BY <1>1, <2>1
<1>2. CASE c # <<>>
  <2>1. c = <<c[1]>> /\ c[1] \in Nat /\ w = <<tag, c[1]>>
    BY <1>0, <1>2, EncodedCounter
  <2>2. Len(w) = 2 /\ w[1] = tag /\ w[2] = c[1]
    BY <2>1
  <2>3. data[pos + 1] = tag /\ data[pos + 2] = c[1] /\ pos + 2 <= n
    BY <2>2
  <2>4. PICK r : r = Decoding(pos, edit)
    OBVIOUS
  <2>5. r.err = "nil" /\ r.pos = pos /\ r.edit = edit
    BY <2>4 DEF Decoding
  <2>6. r.pos # Len(data) /\ tag # tagAddFile /\ tag # tagDeleteFile
        /\ tag \in {tagNextFileID, tagLastSequence, tagLogNumber} /\ ~((pos + 1) + 1 > Len(data))
        /\ (pos + 1) + 1 = pos + 2
    BY <2>3, <2>5 DEF tagAddFile, tagDeleteFile, tagNextFileID, tagLastSequence, tagLogNumber
  <2>7. DecodeTag(data, r) = Decoding(pos + 2, more)
    <3>a. PICK q : q = pos + 1 /\ q + 1 = pos + 2
      BY <2>6
    <3>b. /\ r.err = "nil" /\ r.pos # Len(data) /\ r.pos + 1 = q /\ data[q] = tag
          /\ tag # tagAddFile /\ tag # tagDeleteFile
          /\ tag \in {tagNextFileID, tagLastSequence, tagLogNumber} /\ ~(q + 1 > Len(data))
          /\ <<data[q + 1]>> = c /\ r.edit = edit
      BY <2>1, <2>3, <2>5, <2>6, <3>a
    <3>c. DecodeTag(data, r) =
            Decoding(q + 1,
              CASE tag = tagNextFileID   -> [edit EXCEPT !.next = c]
                [] tag = tagLastSequence -> [edit EXCEPT !.last = c]
                [] tag = tagLogNumber    -> [edit EXCEPT !.log = c])
      BY <3>b DEF DecodeTag
    <3>d. (CASE tag = tagNextFileID   -> [edit EXCEPT !.next = c]
             [] tag = tagLastSequence -> [edit EXCEPT !.last = c]
             [] tag = tagLogNumber    -> [edit EXCEPT !.log = c]) = more
      BY <1>2 DEF tagNextFileID, tagLastSequence, tagLogNumber
    <3> QED
      BY <3>a, <3>c, <3>d
  <2>8. pos < n /\ pos + 2 \in Nat /\ pos < pos + 2
    BY <2>3
  <2> QED
    BY <2>2, <2>4, <2>7, <2>8, ReachesNext
<1> QED
  BY <1>1, <1>2

(* A deletion is read back.                                                *)
LEMMA DeletionStep ==
    ASSUME NEW data, NEW n \in Nat, NEW f, Decodes(f, data, n),
           NEW pos \in Nat, NEW edit, Reaches(f, pos, edit), edit.deleted = <<>>,
           NEW d \in DelSet, NEW w, w = EncodeDeleted(d), Placed(data, n, pos, w)
    PROVE  Reaches(f, pos + Len(w), WithDeleted(edit, <<d>>))
<1> USE DEF Placed, WithDeleted
<1>1. d.level \in Nat /\ d.id \in Nat /\ d = [level |-> d.level, id |-> d.id]
  BY DEF DelSet
<1>2. Len(w) = 3 /\ w[1] = 2 /\ w[2] = d.level /\ w[3] = d.id
  BY <1>1 DEF EncodeDeleted, tagDeleteFile
<1>3. data[pos + 1] = 2 /\ data[pos + 2] = d.level /\ data[pos + 3] = d.id /\ pos + 3 <= n
  BY <1>2
<1>4. PICK r : r = Decoding(pos, edit)
  OBVIOUS
<1>5. r.err = "nil" /\ r.pos = pos /\ r.edit = edit
  BY <1>4 DEF Decoding
<1>6. r.pos # Len(data) /\ ~((pos + 1) + 2 > Len(data))
      /\ (pos + 1) + 1 = pos + 2 /\ (pos + 1) + 2 = pos + 3
  BY <1>3, <1>5
<1>7. Append(<<>>, d) = <<d>>
  OBVIOUS
<1>8. DecodeDeletedFile(data, r) = Decoding(pos + 3, [edit EXCEPT !.deleted = <<d>>])
  BY <1>1, <1>3, <1>5, <1>6, <1>7 DEF DecodeDeletedFile
<1>9. DecodeTag(data, r) = DecodeDeletedFile(data, r)
  BY <1>3, <1>5, <1>6 DEF DecodeTag, tagAddFile, tagDeleteFile
<1>10. pos < n /\ pos + 3 \in Nat /\ pos < pos + 3
  BY <1>3
<1> QED
  BY <1>2, <1>4, <1>8, <1>9, <1>10, ReachesNext

LEMMA EncodedFile ==
    ASSUME NEW f \in FileSet, NEW w, w = EncodeAdded(f)
    PROVE  /\ w \in Seq(Nat) /\ Len(w) = 12 /\ w[1] = 1
           /\ w[2] = f.level /\ w[3] = f.id /\ w[4] = f.size
           /\ w[5] = KeyLen(f.smallest) /\ w[6] = f.smallest.user
           /\ w[7] = f.smallest.seq /\ w[8] = f.smallest.kind
           /\ w[9] = KeyLen(f.largest) /\ w[10] = f.largest.user
           /\ w[11] = f.largest.seq /\ w[12] = f.largest.kind
<1> DEFINE head == <<tagAddFile, f.level, f.id, f.size>>
<1>1. head \in Seq(Nat) /\ Len(head) = 4 /\ head[1] = 1 /\ head[2] = f.level
      /\ head[3] = f.id /\ head[4] = f.size
  BY DEF FileSet, tagAddFile
<1>2. ASSUME NEW k \in KeySet
      PROVE  /\ EncodeKey(k) \in Seq(Nat) /\ Len(EncodeKey(k)) = 4 /\ EncodeKey(k)[1] = KeyLen(k)
             /\ EncodeKey(k)[2] = k.user /\ EncodeKey(k)[3] = k.seq /\ EncodeKey(k)[4] = k.kind
  <2>1. k.user \in Nat /\ k.seq \in Nat /\ k.kind \in Nat /\ KeyLen(k) \in Nat
    BY DEF KeySet, KeyLen, KeyTrailer, KindPut, KindDelete
  <2> QED
    BY <2>1 DEF EncodeKey
<1>3. f.smallest \in KeySet /\ f.largest \in KeySet
  BY DEF FileSet
<1>4. w = (head \o EncodeKey(f.smallest)) \o EncodeKey(f.largest)
  BY DEF EncodeAdded
<1> HIDE DEF head
<1>5. PICK a \in Seq(Nat) : a = head /\ Len(a) = 4 /\ a[1] = 1 /\ a[2] = f.level
                            /\ a[3] = f.id /\ a[4] = f.size
  BY <1>1
<1>6. PICK b \in Seq(Nat) : /\ b = EncodeKey(f.smallest) /\ Len(b) = 4 /\ b[1] = KeyLen(f.smallest)
                            /\ b[2] = f.smallest.user /\ b[3] = f.smallest.seq /\ b[4] = f.smallest.kind
  BY <1>2, <1>3
<1>7. PICK c \in Seq(Nat) : /\ c = EncodeKey(f.largest) /\ Len(c) = 4 /\ c[1] = KeyLen(f.largest)
                            /\ c[2] = f.largest.user /\ c[3] = f.largest.seq /\ c[4] = f.largest.kind
  BY <1>2, <1>3
<1>8a. PICK ab \in Seq(Nat) : ab = a \o b
  BY ConcatProperties
<1>8. Len(ab) = 8 /\ \A i \in 1..8 : ab[i] = IF i <= 4 THEN a[i] ELSE b[i - 4]
  <2>1. /\ Len(ab) = Len(a) + Len(b)
        /\ \A i \in 1..(Len(a) + Len(b)) : ab[i] = IF i <= Len(a) THEN a[i] ELSE b[i - Len(a)]
    BY <1>8a, ConcatProperties
  <2>2. Len(a) = 4 /\ Len(b) = 4
    BY <1>5, <1>6
  <2> QED
    BY ONLY <2>1, <2>2
<1>9. /\ w \in Seq(Nat) /\ Len(w) = 12
      /\ \A i \in 1..12 : w[i] = IF i <= 8 THEN ab[i] ELSE c[i - 8]
  <2>1. /\ w \in Seq(Nat) /\ Len(w) = Len(ab) + Len(c)
        /\ \A i \in 1..(Len(ab) + Len(c)) : w[i] = IF i <= Len(ab) THEN ab[i] ELSE c[i - Len(ab)]
    <3>1. w = ab \o c
      BY <1>4, <1>5, <1>6, <1>7, <1>8a
    <3> QED
      BY <3>1, ConcatProperties
  <2>2. Len(ab) = 8 /\ Len(c) = 4
    BY <1>7, <1>8
  <2> QED
    BY ONLY <2>1, <2>2
<1>10. /\ ab[1] = a[1] /\ ab[2] = a[2] /\ ab[3] = a[3] /\ ab[4] = a[4]
       /\ ab[5] = b[1] /\ ab[6] = b[2] /\ ab[7] = b[3] /\ ab[8] = b[4]
  BY ONLY <1>8
<1>11. /\ w[1] = ab[1] /\ w[2] = ab[2] /\ w[3] = ab[3] /\ w[4] = ab[4]
       /\ w[5] = ab[5] /\ w[6] = ab[6] /\ w[7] = ab[7] /\ w[8] = ab[8]
       /\ w[9] = c[1] /\ w[10] = c[2] /\ w[11] = c[3] /\ w[12] = c[4]
  BY ONLY <1>9
<1> QED
  BY ONLY <1>5, <1>6, <1>7, <1>9, <1>10, <1>11

(* An addition is read back, unless a key of it is too long to be read.    *)
LEMMA AdditionStep ==
    ASSUME NEW data, NEW n \in Nat, NEW h, Decodes(h, data, n),
           NEW pos \in Nat, NEW edit, Reaches(h, pos, edit), edit.added = <<>>,
           NEW f \in FileSet, NEW w, w = EncodeAdded(f), Placed(data, n, pos, w)
    PROVE  IF TooLong(f)
           THEN h[n] = Failed("ErrEditFieldTooLarge")
           ELSE Reaches(h, pos + Len(w), WithAdded(edit, <<f>>))
<1> USE DEF WithAdded
<1>h. /\ data \in Seq(Nat) /\ n = Len(data) /\ pos + Len(w) <= n
      /\ \A x \in 1..Len(w) : data[pos + x] = w[x]
  BY DEF Placed
<1> USE <1>h
<1>1. /\ w \in Seq(Nat) /\ Len(w) = 12 /\ w[1] = 1
      /\ w[2] = f.level /\ w[3] = f.id /\ w[4] = f.size
      /\ w[5] = KeyLen(f.smallest) /\ w[6] = f.smallest.user
      /\ w[7] = f.smallest.seq /\ w[8] = f.smallest.kind
      /\ w[9] = KeyLen(f.largest) /\ w[10] = f.largest.user
      /\ w[11] = f.largest.seq /\ w[12] = f.largest.kind
  BY EncodedFile
<1>a. pos + 12 <= n
  BY <1>1
<1>b. \A x \in 1..12 : data[pos + x] = w[x]
  BY <1>1
<1>c. /\ data[pos + 1] = w[1] /\ data[pos + 2] = w[2] /\ data[pos + 3] = w[3]
      /\ data[pos + 4] = w[4] /\ data[pos + 5] = w[5] /\ data[pos + 6] = w[6]
      /\ data[pos + 7] = w[7] /\ data[pos + 8] = w[8] /\ data[pos + 9] = w[9]
      /\ data[pos + 10] = w[10] /\ data[pos + 11] = w[11] /\ data[pos + 12] = w[12]
  BY ONLY <1>b
<1>2. /\ data[pos + 1] = 1 /\ data[pos + 2] = f.level /\ data[pos + 3] = f.id
      /\ data[pos + 4] = f.size /\ data[pos + 5] = KeyLen(f.smallest)
      /\ data[pos + 6] = f.smallest.user /\ data[pos + 7] = f.smallest.seq
      /\ data[pos + 8] = f.smallest.kind /\ data[pos + 9] = KeyLen(f.largest)
      /\ data[pos + 10] = f.largest.user /\ data[pos + 11] = f.largest.seq
      /\ data[pos + 12] = f.largest.kind
  BY ONLY <1>1, <1>c
<1>3. PICK p \in Nat : p = pos + 1
  OBVIOUS
<1>4. /\ p + 1 = pos + 2 /\ p + 2 = pos + 3 /\ p + 3 = pos + 4 /\ p + 7 = pos + 8
      /\ p + 11 = pos + 12 /\ ~(p + 3 > Len(data))
  BY <1>3, <1>a
<1>5. /\ (p + 3) + 1 = pos + 5 /\ (p + 3) + 2 = pos + 6 /\ (p + 3) + 3 = pos + 7
      /\ (p + 3) + 4 = pos + 8 /\ ~(p + 3 >= Len(data)) /\ ~((p + 3) + 4 > Len(data))
  BY ONLY <1>3, <1>a, n \in Nat, pos \in Nat, n = Len(data)
<1>6. /\ (p + 7) + 1 = pos + 9 /\ (p + 7) + 2 = pos + 10 /\ (p + 7) + 3 = pos + 11
      /\ (p + 7) + 4 = pos + 12 /\ ~(p + 7 >= Len(data)) /\ ~((p + 7) + 4 > Len(data))
  BY ONLY <1>3, <1>a, n \in Nat, pos \in Nat, n = Len(data)
<1>7. /\ f.smallest \in KeySet /\ f.largest \in KeySet
      /\ f = [level |-> f.level, id |-> f.id, size |-> f.size,
              smallest |-> f.smallest, largest |-> f.largest]
  BY DEF FileSet
<1>8. ASSUME NEW k \in KeySet
      PROVE  /\ k = InternalKey(k.user, k.seq, k.kind) /\ KeyLen(k) \in Nat
             /\ KeyLen(k) >= KeyTrailer /\ k.kind \in {KindPut, KindDelete}
             /\ TooLarge(KeyLen(k)) <=> KeyLen(k) > MaxField
  BY MaxFieldAssumption DEF KeySet, InternalKey, KeyLen, KeyTrailer, TooLarge
<1>9. TooLong(f) <=> TooLarge(KeyLen(f.smallest)) \/ TooLarge(KeyLen(f.largest))
  BY <1>7, <1>8 DEF TooLong
<1>10. ReadKeyError(data, p + 3) = IF TooLarge(KeyLen(f.smallest)) THEN "ErrEditFieldTooLarge" ELSE "nil"
  BY <1>2, <1>5 DEF ReadKeyError
<1>11. ReadKeyError(data, p + 7) = IF TooLarge(KeyLen(f.largest)) THEN "ErrEditFieldTooLarge" ELSE "nil"
  BY <1>2, <1>6 DEF ReadKeyError
<1>12. KeyValid(data, p + 3) /\ KeyDecoded(data, p + 3) = f.smallest
  <2>1. KeyValid(data, p + 3)
    BY <1>2, <1>5, <1>7, <1>8 DEF KeyValid
  <2>2. KeyDecoded(data, p + 3) = InternalKey(f.smallest.user, f.smallest.seq, f.smallest.kind)
    BY ONLY <1>2, <1>5 DEF KeyDecoded
  <2> QED
    BY <1>7, <1>8, <2>1, <2>2
<1>13. KeyValid(data, p + 7) /\ KeyDecoded(data, p + 7) = f.largest
  <2>1. KeyValid(data, p + 7)
    BY <1>2, <1>6, <1>7, <1>8 DEF KeyValid
  <2>2. KeyDecoded(data, p + 7) = InternalKey(f.largest.user, f.largest.seq, f.largest.kind)
    BY ONLY <1>2, <1>6 DEF KeyDecoded
  <2> QED
    BY <1>7, <1>8, <2>1, <2>2
<1>14. PICK r : r = Decoding(pos, edit)
  OBVIOUS
<1>15. r.err = "nil" /\ r.pos = pos /\ r.edit = edit /\ r.pos # Len(data) /\ r.pos + 1 = p
  BY <1>3, <1>14, <1>a DEF Decoding
<1>16. DecodeTag(data, r) = DecodeAddedFile(data, r)
  BY <1>2, <1>3, <1>15 DEF DecodeTag, tagAddFile
<1>17. CASE TooLong(f)
  <2>1. DecodeAddedFile(data, r) = Failed("ErrEditFieldTooLarge")
    <3>1. CASE TooLarge(KeyLen(f.smallest))
      BY <1>4, <1>10, <1>15, <3>1 DEF DecodeAddedFile
    <3>2. CASE ~TooLarge(KeyLen(f.smallest))
      <4>1. ReadKeyError(data, p + 3) = "nil" /\ ReadKeyError(data, p + 7) = "ErrEditFieldTooLarge"
        BY <1>9, <1>10, <1>11, <1>17, <3>2
      <4> QED
        BY <1>4, <1>15, <4>1 DEF DecodeAddedFile
    <3> QED
      BY <3>1, <3>2
  <2>2. PICK i \in 0..pos : h[i] = Decoding(pos, edit)
    BY DEF Reaches
  <2>3. PICK j \in 1..n : j = i + 1 /\ j - 1 = i
    BY ONLY <2>2, <1>a, n \in Nat, pos \in Nat
  <2>4. h[j] = DecodeTag(data, h[j - 1])
    BY <2>3 DEF Decodes
  <2>5. PICK q : q = Failed("ErrEditFieldTooLarge")
    OBVIOUS
  <2>6. h[j] = q /\ j \in 0..n
    BY <1>14, <1>16, <2>1, <2>2, <2>3, <2>4, <2>5
  <2>7. DecodeTag(data, q) = q
    BY <2>5 DEF DecodeTag, Failed
  <2>8. h[n] = q
    BY <2>6, <2>7, Stalls
  <2> QED
    BY <1>17, <2>5, <2>8
<1>18. CASE ~TooLong(f)
  <2>1. ReadKeyError(data, p + 3) = "nil" /\ ReadKeyError(data, p + 7) = "nil"
    BY <1>9, <1>10, <1>11, <1>18
  <2>2. [level |-> data[p + 1], id |-> data[p + 2], size |-> data[p + 3],
         smallest |-> KeyDecoded(data, p + 3), largest |-> KeyDecoded(data, p + 7)] = f
    BY <1>2, <1>4, <1>7, <1>12, <1>13
  <2>3. Append(<<>>, f) = <<f>>
    OBVIOUS
  <2>4. DecodeAddedFile(data, r) = Decoding(p + 11, [edit EXCEPT !.added = <<f>>])
    <3>1. DecodeAddedFile(data, r) =
            Decoding(p + 11, [edit EXCEPT !.added = Append(@,
              [level |-> data[p + 1], id |-> data[p + 2], size |-> data[p + 3],
               smallest |-> KeyDecoded(data, p + 3), largest |-> KeyDecoded(data, p + 7)])])
      BY <1>4, <1>12, <1>13, <1>15, <2>1 DEF DecodeAddedFile
    <3> QED
      BY <2>2, <2>3, <3>1
  <2>5. pos < n /\ pos + 12 \in Nat /\ pos < pos + 12
    BY <1>a
  <2>6. DecodeTag(data, Decoding(pos, edit)) = Decoding(pos + 12, [edit EXCEPT !.added = <<f>>])
    BY <1>4, <1>14, <1>16, <2>4
  <2>7. Reaches(h, pos + 12, [edit EXCEPT !.added = <<f>>])
    BY <2>5, <2>6, ReachesNext
  <2> QED
    BY <1>1, <1>18, <2>7
<1> QED
  BY <1>17, <1>18

(* Where the parts of an encoding are in it.                               *)
LEMMA LastPart ==
    ASSUME NEW s \in Seq(Nat), NEW t \in Seq(Nat)
    PROVE  /\ s \o t \in Seq(Nat) /\ Len(s \o t) = Len(s) + Len(t)
           /\ \A x \in 1..Len(s) : (s \o t)[x] = s[x]
           /\ \A x \in 1..Len(t) : (s \o t)[Len(s) + x] = t[x]
<1>1. PICK m \in Nat : m = Len(s)
  OBVIOUS
<1>2. PICK n \in Nat : n = Len(t)
  OBVIOUS
<1>3. /\ s \o t \in Seq(Nat) /\ Len(s \o t) = m + n
      /\ \A i \in 1..(m + n) : (s \o t)[i] = IF i <= m THEN s[i] ELSE t[i - m]
  BY <1>1, <1>2, ConcatProperties
<1>4. ASSUME NEW x \in 1..m PROVE (s \o t)[x] = s[x]
  BY <1>3
<1>5. ASSUME NEW x \in 1..n PROVE (s \o t)[m + x] = t[x]
  <2>1. m + x \in 1..(m + n) /\ ~(m + x <= m) /\ (m + x) - m = x
    OBVIOUS
  <2> QED
    BY <1>3, <2>1
<1> QED
  BY <1>1, <1>2, <1>3, <1>4, <1>5

LengthsAdd(a, b, c, d, g, p, q, r, s, n) ==
    /\ p = Len(a) /\ q = p + Len(b) /\ r = q + Len(c) /\ s = r + Len(d) /\ n = s + Len(g)
    /\ p <= n /\ q <= n /\ r <= n /\ s <= n
LaidOut(data, a, b, c, d, g, p, q, r, s) ==
    /\ \A x \in 1..Len(a) : data[0 + x] = a[x]
    /\ \A x \in 1..Len(b) : data[p + x] = b[x]
    /\ \A x \in 1..Len(c) : data[q + x] = c[x]
    /\ \A x \in 1..Len(d) : data[r + x] = d[x]
    /\ \A x \in 1..Len(g) : data[s + x] = g[x]

LEMMA Parts ==
    ASSUME NEW a \in Seq(Nat), NEW b \in Seq(Nat), NEW c \in Seq(Nat),
           NEW d \in Seq(Nat), NEW g \in Seq(Nat), NEW data, data = a \o b \o c \o d \o g
    PROVE  \E p, q, r, s, n \in Nat :
             /\ LengthsAdd(a, b, c, d, g, p, q, r, s, n)
             /\ data \in Seq(Nat) /\ n = Len(data) /\ LaidOut(data, a, b, c, d, g, p, q, r, s)
<1>0. /\ Len(a) \in Nat /\ Len(b) \in Nat /\ Len(c) \in Nat
      /\ Len(d) \in Nat /\ Len(g) \in Nat
  OBVIOUS
<1>1. PICK p \in Nat : p = Len(a)
  BY <1>0
<1>2. PICK q \in Nat : q = p + Len(b)
  BY <1>0, <1>1
<1>3. PICK r \in Nat : r = q + Len(c)
  BY <1>0, <1>2
<1>4. PICK s \in Nat : s = r + Len(d)
  BY <1>0, <1>3
<1>5. PICK n \in Nat : n = s + Len(g)
  BY <1>0, <1>4
<1>6. PICK ab \in Seq(Nat) : ab = a \o b
  BY LastPart
<1>7. PICK abc \in Seq(Nat) : abc = ab \o c
  BY LastPart
<1>8. PICK abcd \in Seq(Nat) : abcd = abc \o d
  BY LastPart
<1>9. data = abcd \o g
  BY <1>6, <1>7, <1>8
<1>10. /\ Len(ab) = q /\ \A x \in 1..p : ab[x] = a[x]
       /\ \A x \in 1..Len(b) : ab[p + x] = b[x]
  <2>1. /\ Len(ab) = Len(a) + Len(b) /\ \A x \in 1..Len(a) : ab[x] = a[x]
        /\ \A x \in 1..Len(b) : ab[Len(a) + x] = b[x]
    BY <1>6, LastPart
  <2> QED
    BY ONLY <1>1, <1>2, <2>1
<1>11. /\ Len(abc) = r /\ \A x \in 1..q : abc[x] = ab[x]
       /\ \A x \in 1..Len(c) : abc[q + x] = c[x]
  <2>1. /\ Len(abc) = Len(ab) + Len(c) /\ \A x \in 1..Len(ab) : abc[x] = ab[x]
        /\ \A x \in 1..Len(c) : abc[Len(ab) + x] = c[x]
    BY <1>7, LastPart
  <2> QED
    BY ONLY <1>3, <1>10, <2>1
<1>12. /\ Len(abcd) = s /\ \A x \in 1..r : abcd[x] = abc[x]
       /\ \A x \in 1..Len(d) : abcd[r + x] = d[x]
  <2>1. /\ Len(abcd) = Len(abc) + Len(d) /\ \A x \in 1..Len(abc) : abcd[x] = abc[x]
        /\ \A x \in 1..Len(d) : abcd[Len(abc) + x] = d[x]
    BY <1>8, LastPart
  <2> QED
    BY ONLY <1>4, <1>11, <2>1
<1>13. /\ data \in Seq(Nat) /\ Len(data) = n /\ \A x \in 1..s : data[x] = abcd[x]
       /\ \A x \in 1..Len(g) : data[s + x] = g[x]
  <2>1. /\ data \in Seq(Nat) /\ Len(data) = Len(abcd) + Len(g)
        /\ \A x \in 1..Len(abcd) : data[x] = abcd[x]
        /\ \A x \in 1..Len(g) : data[Len(abcd) + x] = g[x]
    BY <1>9, LastPart
  <2> QED
    BY ONLY <1>5, <1>12, <2>1
<1>14. p <= q /\ q <= r /\ r <= s /\ s <= n /\ p <= n /\ q <= n /\ r <= n
  BY ONLY <1>0, <1>1, <1>2, <1>3, <1>4, <1>5
<1>15. ASSUME NEW x \in 1..Len(a) PROVE data[0 + x] = a[x]
  <2>1. x \in 1..p /\ x \in 1..q /\ x \in 1..r /\ x \in 1..s /\ 0 + x = x
    BY ONLY <1>1, <1>14, x \in 1..Len(a), p \in Nat, q \in Nat, r \in Nat, s \in Nat
  <2> QED
    BY ONLY <1>10, <1>11, <1>12, <1>13, <2>1
<1>16. ASSUME NEW x \in 1..Len(b) PROVE data[p + x] = b[x]
  <2>1. p + x \in 1..q /\ p + x \in 1..r /\ p + x \in 1..s
    BY ONLY <1>0, <1>2, <1>14, x \in 1..Len(b), p \in Nat, q \in Nat, r \in Nat, s \in Nat
  <2>2. data[p + x] = abcd[p + x] /\ abcd[p + x] = abc[p + x] /\ abc[p + x] = ab[p + x]
    BY ONLY <1>11, <1>12, <1>13, <2>1
  <2>3. ab[p + x] = b[x]
    BY ONLY <1>10, x \in 1..Len(b)
  <2> QED
    BY ONLY <2>2, <2>3
<1>17. ASSUME NEW x \in 1..Len(c) PROVE data[q + x] = c[x]
  <2>1. q + x \in 1..r /\ q + x \in 1..s
    BY ONLY <1>0, <1>3, <1>14, x \in 1..Len(c), q \in Nat, r \in Nat, s \in Nat
  <2> QED
    BY ONLY <1>11, <1>12, <1>13, <2>1, x \in 1..Len(c)
<1>18. ASSUME NEW x \in 1..Len(d) PROVE data[r + x] = d[x]
  <2>1. r + x \in 1..s
    BY ONLY <1>0, <1>4, x \in 1..Len(d), r \in Nat, s \in Nat
  <2> QED
    BY ONLY <1>12, <1>13, <2>1, x \in 1..Len(d)
<1>19. LengthsAdd(a, b, c, d, g, p, q, r, s, n)
  BY ONLY <1>1, <1>2, <1>3, <1>4, <1>5, <1>14 DEF LengthsAdd
<1>20. LaidOut(data, a, b, c, d, g, p, q, r, s)
  BY ONLY <1>13, <1>15, <1>16, <1>17, <1>18 DEF LaidOut
<1> QED
  BY <1>13, <1>19, <1>20

(* What each part of the encoding of an edit is.                           *)
ConsistsOf(e, a, b, c, d, g) ==
    /\ Encode(e) = a \o b \o c \o d \o g
    /\ a = EncodeCounter(3, e.next) /\ b = EncodeCounter(4, e.last)
    /\ c = EncodeCounter(5, e.log)
    /\ d = IF e.deleted = <<>> THEN <<>> ELSE EncodeDeleted(e.deleted[1])
    /\ g = IF e.added = <<>> THEN <<>> ELSE EncodeAdded(e.added[1])

LEMMA EncodedParts ==
    ASSUME NEW e \in EditSet
    PROVE  \E a, b, c, d, g \in Seq(Nat) : ConsistsOf(e, a, b, c, d, g)
<1>1. /\ e.next \in Counters /\ e.last \in Counters /\ e.log \in Counters
      /\ e.deleted \in Seq(DelSet) /\ Len(e.deleted) <= 1
      /\ e.added \in Seq(FileSet) /\ Len(e.added) <= 1
  BY DEF EditSet, DelSeqs, FileSeqs
<1>2. ASSUME NEW t \in Nat, NEW k \in Counters PROVE EncodeCounter(t, k) \in Seq(Nat)
  <2>1. CASE k = <<>>
    <3>1. EncodeCounter(t, k) = <<>>
      BY <2>1 DEF EncodeCounter
    <3> QED
      BY <3>1, EmptySeq
  <2>2. CASE k # <<>>
    <3>1. k[1] \in Nat /\ EncodeCounter(t, k) = <<t, k[1]>>
      BY <2>2, EncodedCounter
    <3> QED
      BY <3>1
  <2> QED
    BY <2>1, <2>2
<1>3. e.deleted = <<>> \/ (e.deleted = <<e.deleted[1]>> /\ e.deleted[1] \in DelSet)
  BY <1>1, AtMostOne
<1>4. e.added = <<>> \/ (e.added = <<e.added[1]>> /\ e.added[1] \in FileSet)
  BY <1>1, AtMostOne
<1>5. PICK d \in Seq(Nat) : d = IF e.deleted = <<>> THEN <<>> ELSE EncodeDeleted(e.deleted[1])
  <2>1. <<>> \in Seq(Nat)
    OBVIOUS
  <2>2. ASSUME NEW x \in DelSet PROVE EncodeDeleted(x) \in Seq(Nat)
    <3>1. x.level \in Nat /\ x.id \in Nat /\ tagDeleteFile \in Nat
      BY DEF DelSet, tagDeleteFile
    <3> QED
      BY <3>1 DEF EncodeDeleted
  <2> QED
    BY <1>3, <2>1, <2>2
<1>6. PICK g \in Seq(Nat) : g = IF e.added = <<>> THEN <<>> ELSE EncodeAdded(e.added[1])
  <2>1. <<>> \in Seq(Nat)
    OBVIOUS
  <2>2. ASSUME NEW x \in FileSet PROVE EncodeAdded(x) \in Seq(Nat)
    BY EncodedFile
  <2> QED
    BY <1>4, <2>1, <2>2
<1>7. ASSUME NEW t \in Seq(Nat) PROVE <<>> \o t = t
  BY ConcatEmptySeq
<1>8. FoldLeft(LAMBDA buf, x : buf \o EncodeDeleted(x), <<>>, e.deleted) = d
  <2>1. e.deleted = <<>> \/ \E x : e.deleted = <<x>>
    BY <1>3
  <2>2. FoldLeft(LAMBDA buf, x : buf \o EncodeDeleted(x), <<>>, e.deleted) =
          IF e.deleted = <<>> THEN <<>> ELSE <<>> \o EncodeDeleted(e.deleted[1])
    BY <2>1, FoldDeleted
  <2> QED
    BY <1>5, <1>7, <2>2
<1>9. FoldLeft(LAMBDA buf, x : buf \o EncodeAdded(x), <<>>, e.added) = g
  <2>1. e.added = <<>> \/ \E x : e.added = <<x>>
    BY <1>4
  <2>2. FoldLeft(LAMBDA buf, x : buf \o EncodeAdded(x), <<>>, e.added) =
          IF e.added = <<>> THEN <<>> ELSE <<>> \o EncodeAdded(e.added[1])
    BY <2>1, FoldAdded
  <2> QED
    BY <1>6, <1>7, <2>2
<1>10. PICK a \in Seq(Nat) : a = EncodeCounter(3, e.next)
  BY <1>1, <1>2
<1>11. PICK b \in Seq(Nat) : b = EncodeCounter(4, e.last)
  BY <1>1, <1>2
<1>12. PICK c \in Seq(Nat) : c = EncodeCounter(5, e.log)
  BY <1>1, <1>2
<1>13. Encode(e) = a \o b \o c \o d \o g
  <2>1. Encode(e) = EncodeCounter(3, e.next) \o EncodeCounter(4, e.last) \o EncodeCounter(5, e.log)
          \o FoldLeft(LAMBDA buf, x : buf \o EncodeDeleted(x), <<>>, e.deleted)
          \o FoldLeft(LAMBDA buf, x : buf \o EncodeAdded(x), <<>>, e.added)
    BY DEF Encode, tagNextFileID, tagLastSequence, tagLogNumber
  <2> QED
    BY <1>8, <1>9, <1>10, <1>11, <1>12, <2>1
<1>14. ConsistsOf(e, a, b, c, d, g)
  BY ONLY <1>5, <1>6, <1>10, <1>11, <1>12, <1>13 DEF ConsistsOf
<1> QED
  BY <1>14

(* The decoder gives back the edit that was encoded, or refuses a key that *)
(* is too long; and no encoding is taken for a torn record.                *)
LEMMA DecodesEncoded ==
    ASSUME NEW e \in EditSet, NEW r, r = DecodeVersionEdit(Encode(e))
    PROVE  /\ Encode(e) # Torn
           /\ \/ r.err = "nil" /\ r.edit = e
              \/ r.err # "nil" /\ e.added # <<>> /\ TooLong(e.added[1])
<1>1. /\ e.next \in Counters /\ e.last \in Counters /\ e.log \in Counters
      /\ e.deleted \in Seq(DelSet) /\ Len(e.deleted) <= 1
      /\ e.added \in Seq(FileSet) /\ Len(e.added) <= 1
      /\ e = VersionEdit(e.next, e.last, e.log, e.deleted, e.added)
  BY DEF EditSet, DelSeqs, FileSeqs, VersionEdit
<1>2. e.deleted = <<>> \/ (e.deleted # <<>> /\ e.deleted = <<e.deleted[1]>> /\ e.deleted[1] \in DelSet)
  BY <1>1, AtMostOne
<1>3. e.added = <<>> \/ (e.added # <<>> /\ e.added = <<e.added[1]>> /\ e.added[1] \in FileSet)
  BY <1>1, AtMostOne
<1>4. PICK a, b, c, d, g \in Seq(Nat) : ConsistsOf(e, a, b, c, d, g)
  BY EncodedParts
<1>5. /\ a = EncodeCounter(3, e.next) /\ b = EncodeCounter(4, e.last)
      /\ c = EncodeCounter(5, e.log)
      /\ d = IF e.deleted = <<>> THEN <<>> ELSE EncodeDeleted(e.deleted[1])
      /\ g = IF e.added = <<>> THEN <<>> ELSE EncodeAdded(e.added[1])
  BY <1>4 DEF ConsistsOf
<1>6. PICK data : data = Encode(e) /\ data = a \o b \o c \o d \o g
  BY <1>4 DEF ConsistsOf
<1>z. PICK p, q, s, t, n \in Nat :
        /\ LengthsAdd(a, b, c, d, g, p, q, s, t, n)
        /\ data \in Seq(Nat) /\ n = Len(data) /\ LaidOut(data, a, b, c, d, g, p, q, s, t)
  BY <1>6, Parts
<1>7. /\ p = Len(a) /\ q = p + Len(b) /\ s = q + Len(c) /\ t = s + Len(d) /\ n = t + Len(g)
      /\ p <= n /\ q <= n /\ s <= n /\ t <= n /\ p \in Nat
  BY <1>z DEF LengthsAdd
<1>y. /\ \A x \in 1..Len(a) : data[0 + x] = a[x]
      /\ \A x \in 1..Len(b) : data[p + x] = b[x]
      /\ \A x \in 1..Len(c) : data[q + x] = c[x]
      /\ \A x \in 1..Len(d) : data[s + x] = d[x]
      /\ \A x \in 1..Len(g) : data[t + x] = g[x]
  BY <1>z DEF LaidOut
<1>9. data \in Seq(Nat) /\ n = Len(data) /\ 0 + p = p
  BY ONLY <1>z, p \in Nat
<1>8. PICK f : Decodes(f, data, n) /\ r = f[n]
  BY <1>6, <1>9, DecoderSteps
<1>x. PICK z : z = <<>>
  OBVIOUS
<1> DEFINE e0 == VersionEdit(z, z, z, z, z)
           e1 == VersionEdit(e.next, z, z, z, z)
           e2 == VersionEdit(e.next, e.last, z, z, z)
           e3 == VersionEdit(e.next, e.last, e.log, z, z)
           e4 == VersionEdit(e.next, e.last, e.log, e.deleted, z)
<1>10. Reaches(f, 0, e0)
  <2>1. f[0] = Decoding(0, e0) /\ 0 \in 0..0
    BY <1>8, <1>x DEF Decodes, EmptyEdit
  <2> QED
    BY <2>1 DEF Reaches
<1>a. Sets(3, e.next, e0, e1)
  <2>1. WithNext(e0, e.next) = e1
    BY EditUpdates
  <2>2. e.next = <<>> => e1 = e0
    BY <1>x
  <2> HIDE DEF e0, e1
  <2> QED
    BY <2>1, <2>2 DEF Sets
<1>b. Sets(4, e.last, e1, e2)
  <2>1. WithLast(e1, e.last) = e2
    BY EditUpdates
  <2>2. e.last = <<>> => e2 = e1
    BY <1>x
  <2> HIDE DEF e1, e2
  <2> QED
    BY <2>1, <2>2 DEF Sets
<1>c. Sets(5, e.log, e2, e3)
  <2>1. WithLog(e2, e.log) = e3
    BY EditUpdates
  <2>2. e.log = <<>> => e3 = e2
    BY <1>x
  <2> HIDE DEF e2, e3
  <2> QED
    BY <2>1, <2>2 DEF Sets
<1>d. /\ e4 = WithDeleted(e3, e.deleted) /\ e3.deleted = <<>>
      /\ e.deleted = <<>> => e4 = e3
  <2>1. WithDeleted(e3, e.deleted) = e4
    BY EditUpdates
  <2>2. e3.deleted = <<>>
    BY <1>x DEF VersionEdit
  <2>3. e.deleted = <<>> => e4 = e3
    BY <1>x
  <2> HIDE DEF e3, e4
  <2> QED
    BY <2>1, <2>2, <2>3
<1>e. /\ VersionEdit(e.next, e.last, e.log, e.deleted, e.added) = WithAdded(e4, e.added)
      /\ e4.added = <<>>
  <2>1. VersionEdit(e.next, e.last, e.log, e.deleted, e.added) = WithAdded(e4, e.added)
    BY EditUpdates
  <2>2. e4.added = <<>>
    BY <1>x DEF VersionEdit
  <2> QED
    BY <2>1, <2>2
<1>f. e = WithAdded(e4, e.added) /\ (e.added = <<>> => e4 = e)
  <2>1. e.added = <<>> => e4 = VersionEdit(e.next, e.last, e.log, e.deleted, e.added)
    BY <1>x
  <2> HIDE DEF e4
  <2> QED
    BY <1>1, <1>e, <2>1
<1>g. Placed(data, n, 0, a) /\ Placed(data, n, p, b) /\ Placed(data, n, q, c)
      /\ Placed(data, n, s, d) /\ Placed(data, n, t, g)
  <2>1. /\ 0 + Len(a) <= n /\ p + Len(b) <= n /\ q + Len(c) <= n /\ s + Len(d) <= n
        /\ t + Len(g) <= n
    BY ONLY <1>7, n \in Nat
  <2> QED
    BY ONLY <1>9, <1>y, <2>1 DEF Placed
<1>h. 0 \in Nat /\ 3 \in 3..5 /\ 4 \in 3..5 /\ 5 \in 3..5
  OBVIOUS
<1> HIDE DEF e0, e1, e2, e3, e4
<1>12. Reaches(f, p, e1)
  <2>1. Reaches(f, 0 + Len(a), e1)
    BY <1>1, <1>5, <1>8, <1>10, <1>a, <1>g, <1>h, CounterStep
  <2> QED
    BY <1>7, <1>9, <2>1
<1>13. Reaches(f, q, e2)
  <2>1. Reaches(f, p + Len(b), e2)
    BY <1>1, <1>5, <1>8, <1>12, <1>b, <1>g, <1>h, CounterStep
  <2> QED
    BY <1>7, <2>1
<1>14. Reaches(f, s, e3)
  <2>1. Reaches(f, q + Len(c), e3)
    BY <1>1, <1>5, <1>8, <1>13, <1>c, <1>g, <1>h, CounterStep
  <2> QED
    BY <1>7, <2>1
<1>15. Reaches(f, t, e4)
  <2>1. CASE e.deleted = <<>>
    <3>1. d = <<>> /\ Len(d) = 0 /\ t = s
      BY <1>5, <1>7, <2>1
    <3> QED
      BY <1>d, <1>14, <2>1, <3>1
  <2>2. CASE e.deleted # <<>>
    <3>2. PICK y \in DelSet : e.deleted = <<y>> /\ d = EncodeDeleted(y)
      BY <1>2, <1>5, <2>2
    <3>3. Reaches(f, s + Len(d), WithDeleted(e3, <<y>>))
      BY <1>8, <1>d, <1>g, <1>14, <3>2, DeletionStep
    <3> QED
      BY <1>7, <1>d, <3>2, <3>3
  <2> QED
    BY <2>1, <2>2
<1>16. \/ Reaches(f, n, e)
       \/ e.added # <<>> /\ TooLong(e.added[1]) /\ f[n] = Failed("ErrEditFieldTooLarge")
  <2>1. CASE e.added = <<>>
    <3>1. g = <<>> /\ Len(g) = 0 /\ n = t
      BY <1>5, <1>7, <2>1
    <3> QED
      BY <1>f, <1>15, <2>1, <3>1
  <2>2. CASE e.added # <<>>
    <3>2. PICK y \in FileSet : e.added = <<y>> /\ g = EncodeAdded(y) /\ y = e.added[1]
      BY <1>3, <1>5, <2>2
    <3>3. IF TooLong(y)
          THEN f[n] = Failed("ErrEditFieldTooLarge")
          ELSE Reaches(f, t + Len(g), WithAdded(e4, <<y>>))
      BY <1>8, <1>e, <1>g, <1>15, <3>2, AdditionStep
    <3> QED
      BY <1>7, <1>f, <2>2, <3>2, <3>3
  <2> QED
    BY <2>1, <2>2
<1>17. \/ r.err = "nil" /\ r.edit = e
       \/ r.err # "nil" /\ e.added # <<>> /\ TooLong(e.added[1])
  <2>1. CASE Reaches(f, n, e)
    <3>1. PICK i \in 0..n : f[i] = Decoding(n, e)
      BY <2>1 DEF Reaches
    <3>2. PICK res : res = Decoding(n, e)
      OBVIOUS
    <3>3. DecodeTag(data, res) = res /\ res.err = "nil" /\ res.edit = e
      BY <1>9, <3>2 DEF DecodeTag, Decoding
    <3>4. f[i] = res /\ Decodes(f, data, n)
      BY <1>8, <3>1, <3>2
    <3>5. f[n] = res
      BY <3>3, <3>4, Stalls
    <3> QED
      BY <1>8, <3>3, <3>5
  <2>2. CASE e.added # <<>> /\ TooLong(e.added[1]) /\ f[n] = Failed("ErrEditFieldTooLarge")
    <3>1. Failed("ErrEditFieldTooLarge").err = "ErrEditFieldTooLarge"
      BY DEF Failed
    <3> QED
      BY <1>8, <2>2, <3>1
  <2> QED
    BY <1>16, <2>1, <2>2
<1>18. Len(data) # 1
  <2>1. ASSUME NEW tag \in Nat, NEW k \in Counters
        PROVE  Len(EncodeCounter(tag, k)) \in {0, 2}
    <3>1. CASE k = <<>>
      BY <3>1 DEF EncodeCounter
    <3>2. CASE k # <<>>
      <4>1. k[1] \in Nat /\ EncodeCounter(tag, k) = <<tag, k[1]>>
        BY <3>2, EncodedCounter
      <4> QED
        BY <4>1
    <3> QED
      BY <3>1, <3>2
  <2>2. Len(a) \in {0, 2} /\ Len(b) \in {0, 2} /\ Len(c) \in {0, 2}
    BY <1>1, <1>5, <2>1
  <2>3. Len(d) \in {0, 3}
    BY <1>5 DEF EncodeDeleted
  <2>4. Len(g) \in {0, 12}
    BY <1>3, <1>5, EncodedFile
  <2> QED
    <3>1. n = (((Len(a) + Len(b)) + Len(c)) + Len(d)) + Len(g)
      BY ONLY <1>7
    <3>2. ASSUME NEW i \in {0, 2}, NEW j \in {0, 2}, NEW k \in {0, 2}, NEW l \in {0, 3},
                 NEW m \in {0, 12}
          PROVE  (((i + j) + k) + l) + m # 1
      <4>1. /\ i = 0 \/ i = 2
            /\ j = 0 \/ j = 2
            /\ k = 0 \/ k = 2
            /\ l = 0 \/ l = 3
            /\ m = 0 \/ m = 12
        OBVIOUS
      <4> QED
        BY ONLY <4>1
    <3>3. (((Len(a) + Len(b)) + Len(c)) + Len(d)) + Len(g) # 1
      BY <2>2, <2>3, <2>4, <3>2
    <3> QED
      BY <1>9, <3>1, <3>3
<1>19. Encode(e) # Torn
  <2>1. Len(Torn) = 1
    BY DEF Torn
  <2> QED
    BY <1>6, <1>18, <2>1
<1> QED
  BY <1>17, <1>19

-----------------------------------------------------------------------------
(* Replaying the records of a sequence of edits. *)

Recs(es)     == [i \in 1..Len(es) |-> Encode(es[i])]
ReplayOf(es) == FoldLeft(ReplayRecord, ReplayStart, Recs(es))

LEMMA EncodeType ==
    ASSUME NEW e \in EditSet
    PROVE  Encode(e) \in Seq(Nat)
<1>1. PICK a, b, c, d, g \in Seq(Nat) : ConsistsOf(e, a, b, c, d, g)
  BY EncodedParts
<1>2. Encode(e) = a \o b \o c \o d \o g
  BY <1>1 DEF ConsistsOf
<1> QED
  BY <1>2, Parts

LEMMA RecsType ==
    ASSUME NEW es \in Seq(EditSet), NEW D, D = Seq(Nat)
    PROVE  /\ Len(es) \in Nat /\ Recs(es) \in Seq(D) /\ Len(Recs(es)) = Len(es)
           /\ DOMAIN Recs(es) = 1..Len(es)
           /\ \A i \in 1..Len(es) : Recs(es)[i] = Encode(es[i]) /\ es[i] \in EditSet
<1>1. PICK n \in Nat : n = Len(es)
  OBVIOUS
<1>2. \A i \in 1..n : es[i] \in EditSet
  BY <1>1
<1>3. \A i \in 1..n : Encode(es[i]) \in D
  BY <1>2, EncodeType
<1>4. PICK r : r = [i \in 1..n |-> Encode(es[i])]
  OBVIOUS
<1>5. r \in [1..n -> D]
  BY <1>3, <1>4
<1>6. r \in Seq(D) /\ Len(r) = n /\ DOMAIN r = 1..n
  BY ONLY <1>5, n \in Nat
<1>7. r = Recs(es)
  BY <1>1, <1>4 DEF Recs
<1>8. \A i \in 1..n : r[i] = Encode(es[i])
  BY ONLY <1>4
<1> QED
  BY ONLY <1>1, <1>2, <1>6, <1>7, <1>8

LEMMA RecsAppend ==
    ASSUME NEW es \in Seq(EditSet), NEW e \in EditSet
    PROVE  /\ Append(es, e) \in Seq(EditSet) /\ Len(Append(es, e)) = Len(es) + 1
           /\ \A i \in 1..Len(es) : Append(es, e)[i] = es[i]
           /\ Append(es, e)[Len(es) + 1] = e
           /\ Recs(Append(es, e)) = Append(Recs(es), Encode(e))
           /\ ReplayOf(Append(es, e)) = ReplayRecord(ReplayOf(es), Encode(e))
<1>1. PICK D : D = Seq(Nat)
  OBVIOUS
<1>2. PICK n \in Nat : n = Len(es)
  OBVIOUS
<1>3. PICK more \in Seq(EditSet) : more = Append(es, e)
  BY AppendProperties
<1>4. Len(more) = n + 1 /\ (\A i \in 1..n : more[i] = es[i]) /\ more[n + 1] = e
  BY <1>2, <1>3, AppendProperties
<1>5. /\ Recs(es) \in Seq(D) /\ Len(Recs(es)) = n /\ DOMAIN Recs(es) = 1..n
      /\ \A i \in 1..n : Recs(es)[i] = Encode(es[i])
  BY <1>1, <1>2, RecsType
<1>6. /\ Recs(more) \in Seq(D) /\ Len(Recs(more)) = n + 1 /\ DOMAIN Recs(more) = 1..(n + 1)
      /\ \A i \in 1..(n + 1) : Recs(more)[i] = Encode(more[i])
  BY <1>1, <1>4, RecsType
<1>7. PICK x \in D : x = Encode(e)
  BY <1>1, EncodeType
<1>8. /\ Append(Recs(es), x) \in Seq(D) /\ Len(Append(Recs(es), x)) = n + 1
      /\ \A i \in 1..n : Append(Recs(es), x)[i] = Recs(es)[i]
      /\ Append(Recs(es), x)[n + 1] = x
  BY <1>5, AppendProperties
<1>9. \A i \in 1..n : i \in 1..(n + 1)
  OBVIOUS
<1>10. n + 1 \in 1..(n + 1) /\ \A i \in 1..(n + 1) : i \in 1..n \/ i = n + 1
  OBVIOUS
<1>11. \A i \in 1..n : Recs(more)[i] = Recs(es)[i]
  BY ONLY <1>4, <1>5, <1>6, <1>9
<1>12. Recs(more)[n + 1] = x
  BY ONLY <1>4, <1>6, <1>7, <1>10
<1>13. \A i \in 1..(n + 1) : Recs(more)[i] = Append(Recs(es), x)[i]
  BY ONLY <1>8, <1>10, <1>11, <1>12
<1>14. Recs(more) = Append(Recs(es), x)
  BY ONLY <1>6, <1>8, <1>13, SeqEqual
<1>15. ReplayOf(more) = ReplayRecord(ReplayOf(es), x)
  <2>1. FoldLeft(ReplayRecord, ReplayStart, Recs(more)) =
          ReplayRecord(FoldLeft(ReplayRecord, ReplayStart, Recs(es)), Recs(more)[n + 1])
    BY <1>5, <1>6, <1>11, ReplayAppend
  <2> QED
    BY <1>12, <2>1 DEF ReplayOf
<1> QED
  BY <1>2, <1>3, <1>4, <1>7, <1>14, <1>15

(* An edit that adds at most one file is a duplicate only of a live one.   *)
LEMMA OneAdded ==
    ASSUME NEW e \in EditSet, NEW live
    PROVE  DuplicateAdd(live, e.added) <=> IDs(e.added) \cap live # {}
<1>1. e.added \in Seq(FileSet) /\ Len(e.added) <= 1
  BY DEF EditSet, DelSeqs, FileSeqs
<1>2. ASSUME NEW i \in DOMAIN e.added PROVE IDs(SubSeq(e.added, 1, i - 1)) = {}
  <2>1. i = 1
    BY <1>1, <1>2
  <2>2. SubSeq(e.added, 1, 0) = <<>>
    BY <1>1
  <2>3. SubSeq(e.added, 1, i - 1) = <<>> /\ DOMAIN <<>> = {}
    BY <2>1, <2>2
  <2> QED
    BY ONLY <2>3 DEF IDs
<1> QED
  BY <1>2 DEF DuplicateAdd, IDs

(* What one more record does.                                              *)
LEMMA ReplayStep ==
    ASSUME NEW e \in EditSet, NEW res, NEW r, r = ReplayRecord(res, Encode(e))
    PROVE  /\ res.err # "nil" => r = res
           /\ res.err = "nil" =>
                \/ r.err # "nil" /\ e.added # <<>> /\ TooLong(e.added[1])
                \/ r.err # "nil" /\ IDs(e.added) \cap res.live # {}
                \/ /\ r.err = "nil" /\ r.version = Apply(res.version, e)
                   /\ r.next = IF e.next = <<>> THEN res.next ELSE e.next
                   /\ r.seqno = Counter(res.seqno, e.last)
                   /\ r.logno = Counter(res.logno, e.log)
                   /\ r.live = (res.live \cup IDs(e.added)) \ IDs(e.deleted)
<1>1. PICK d : d = DecodeVersionEdit(Encode(e))
  OBVIOUS
<1>2. \/ d.err = "nil" /\ d.edit = e
      \/ d.err # "nil" /\ e.added # <<>> /\ TooLong(e.added[1])
  BY <1>1, DecodesEncoded
<1>3. r = IF res.err # "nil" THEN res
          ELSE IF d.err # "nil" THEN Refused(d.err)
          ELSE ApplyEditToReplay(res, d.edit)
  BY <1>1 DEF ReplayRecord
<1>4. ASSUME NEW x PROVE Refused(x).err = x
  BY DEF Refused, ReplayStart, Replaying
<1>5. CASE res.err # "nil"
  BY <1>3, <1>5
<1>6. CASE res.err = "nil" /\ d.err # "nil"
  BY <1>2, <1>3, <1>4, <1>6
<1>7. CASE res.err = "nil" /\ d.err = "nil"
  <2>1. r = ApplyEditToReplay(res, e)
    BY <1>2, <1>3, <1>7
  <2>2. CASE IDs(e.added) \cap res.live # {}
    <3>1. r = Refused("duplicate AddFile")
      BY <2>1, <2>2, OneAdded DEF ApplyEditToReplay
    <3> QED
      BY <1>4, <1>7, <2>2, <3>1
  <2>3. CASE IDs(e.added) \cap res.live = {}
    <3>1. PICK v, n, s, l, live :
            /\ v = Apply(res.version, e) /\ n = (IF e.next = <<>> THEN res.next ELSE e.next)
            /\ s = Counter(res.seqno, e.last) /\ l = Counter(res.logno, e.log)
            /\ live = (res.live \cup IDs(e.added)) \ IDs(e.deleted)
      OBVIOUS
    <3>2. r = Replaying(v, n, s, l, live)
      BY <2>1, <2>3, <3>1, OneAdded DEF ApplyEditToReplay
    <3>3. r.version = v /\ r.next = n /\ r.seqno = s /\ r.logno = l /\ r.live = live
          /\ r.err = "nil"
      BY <3>2 DEF Replaying
    <3> QED
      BY ONLY <1>7, <3>1, <3>3
  <2> QED
    BY <2>2, <2>3
<1> QED
  BY <1>5, <1>6, <1>7

(* Facts about an edit history: the ids it knows, those it left live, and  *)
(* an edit in it that Open may refuse.                                     *)
KnownOf(es) == UNION {IDs(es[i].added) : i \in DOMAIN es}
LiveIDOf(es, id) ==
    \E h \in 1..Len(es) :
      id \in IDs(es[h].added) /\ \A j \in h..Len(es) : id \notin IDs(es[j].deleted)
ReAdds(es, i) ==
    \E f \in ToSet(es[i].added) : \E h \in 1..(i - 1) :
      f.id \in IDs(es[h].added) /\ \A j \in h..(i - 1) : f.id \notin IDs(es[j].deleted)
Refusable(es) ==
    \E i \in 1..Len(es) : ReAdds(es, i) \/ \E f \in ToSet(es[i].added) : TooLong(f)

LEMMA OneFile ==
    ASSUME NEW S, NEW s \in Seq(S), Len(s) <= 1
    PROVE  /\ s = <<>> => ToSet(s) = {} /\ IDs(s) = {}
           /\ s # <<>> => s[1] \in S /\ ToSet(s) = {s[1]} /\ IDs(s) = {s[1].id}
<1>1. CASE s = <<>>
  <2>1. DOMAIN s = {}
    BY <1>1
  <2> QED
    BY <1>1, <2>1 DEF ToSet, IDs
<1>2. CASE s # <<>>
  <2>1. Len(s) = 1 /\ s[1] \in S
    BY <1>2, AtMostOne
  <2>2. DOMAIN s = {1}
    BY <2>1
  <2> QED
    BY <1>2, <2>1, <2>2 DEF ToSet, IDs
<1> QED
  BY <1>1, <1>2

LEMMA KnownAppend ==
    ASSUME NEW es \in Seq(EditSet), NEW e \in EditSet
    PROVE  KnownOf(Append(es, e)) = KnownOf(es) \cup IDs(e.added)
<1>1. PICK n \in Nat : n = Len(es)
  OBVIOUS
<1>2. PICK m \in Seq(EditSet) : m = Append(es, e)
  BY RecsAppend
<1>3. Len(m) = n + 1 /\ (\A i \in 1..n : m[i] = es[i]) /\ m[n + 1] = e
  BY <1>1, <1>2, RecsAppend
<1>4. DOMAIN es = 1..n /\ DOMAIN m = 1..(n + 1)
  BY <1>1, <1>3
<1>5. \A i : i \in 1..(n + 1) <=> (i \in 1..n \/ i = n + 1)
  OBVIOUS
<1>6. KnownOf(m) = KnownOf(es) \cup IDs(e.added)
  <2>1. ASSUME NEW x PROVE x \in KnownOf(m) <=> \E i \in 1..(n + 1) : x \in IDs(m[i].added)
    BY <1>4 DEF KnownOf
  <2>2. ASSUME NEW x PROVE x \in KnownOf(es) <=> \E i \in 1..n : x \in IDs(es[i].added)
    BY <1>4 DEF KnownOf
  <2>3. ASSUME NEW x PROVE x \in KnownOf(m) <=> x \in KnownOf(es) \/ x \in IDs(e.added)
    BY ONLY <2>1, <2>2, <1>3, <1>5
  <2> QED
    BY ONLY <2>3
<1> QED
  BY <1>2, <1>6

(* An edit that may be refused stays in the history.                       *)
LEMMA RefusableStays ==
    ASSUME NEW es \in Seq(EditSet), NEW e \in EditSet, Refusable(es)
    PROVE  Refusable(Append(es, e))
<1>1. PICK n \in Nat : n = Len(es)
  OBVIOUS
<1>2. PICK m \in Seq(EditSet) : m = Append(es, e)
  BY RecsAppend
<1>3. Len(m) = n + 1 /\ (\A i \in 1..n : m[i] = es[i]) /\ m[n + 1] = e
  BY <1>1, <1>2, RecsAppend
<1>4. PICK i \in 1..n : ReAdds(es, i) \/ \E f \in ToSet(es[i].added) : TooLong(f)
  BY <1>1 DEF Refusable
<1>5. m[i] = es[i] /\ i \in 1..Len(m)
  BY <1>3, <1>4
<1>6. CASE ReAdds(es, i)
  <2>1. PICK f \in ToSet(es[i].added), h \in 1..(i - 1) :
          f.id \in IDs(es[h].added) /\ \A j \in h..(i - 1) : f.id \notin IDs(es[j].deleted)
    BY <1>6 DEF ReAdds
  <2>2. h \in 1..n /\ \A j \in h..(i - 1) : j \in 1..n
    OBVIOUS
  <2>3. m[h] = es[h] /\ \A j \in h..(i - 1) : m[j] = es[j]
    BY ONLY <1>3, <2>2
  <2>4. f \in ToSet(m[i].added) /\ f.id \in IDs(m[h].added)
    BY <1>5, <2>1, <2>3
  <2>5. \A j \in h..(i - 1) : f.id \notin IDs(m[j].deleted)
    BY <2>1, <2>3
  <2>6. ReAdds(m, i)
    BY <2>4, <2>5 DEF ReAdds
  <2> QED
    BY <1>2, <1>5, <2>6 DEF Refusable
<1>7. CASE \E f \in ToSet(es[i].added) : TooLong(f)
  <2>1. \E f \in ToSet(m[i].added) : TooLong(f)
    BY <1>5, <1>7
  <2> QED
    BY <1>2, <1>5, <2>1 DEF Refusable
<1> QED
  BY <1>4, <1>6, <1>7

(* The last edit is refusable if it adds a live id or has a long key.      *)
LEMMA RefusableNow ==
    ASSUME NEW es \in Seq(EditSet), NEW e \in EditSet, e.added # <<>>,
           TooLong(e.added[1]) \/ LiveIDOf(es, e.added[1].id)
    PROVE  Refusable(Append(es, e))
<1>1. PICK n \in Nat : n = Len(es)
  OBVIOUS
<1>2. PICK m \in Seq(EditSet) : m = Append(es, e)
  BY RecsAppend
<1>3. Len(m) = n + 1 /\ (\A i \in 1..n : m[i] = es[i]) /\ m[n + 1] = e
  BY <1>1, <1>2, RecsAppend
<1>4. e.added \in Seq(FileSet) /\ Len(e.added) <= 1
  BY DEF EditSet, DelSeqs, FileSeqs
<1>5. ToSet(e.added) = {e.added[1]}
  BY <1>4, OneFile
<1>6. n + 1 \in 1..Len(m) /\ (n + 1) - 1 = n
  BY <1>3
<1>7. CASE TooLong(e.added[1])
  <2>1. \E f \in ToSet(m[n + 1].added) : TooLong(f)
    BY <1>3, <1>5, <1>7
  <2> QED
    BY <1>2, <1>6, <2>1 DEF Refusable
<1>8. CASE LiveIDOf(es, e.added[1].id)
  <2>1. PICK h \in 1..n : /\ e.added[1].id \in IDs(es[h].added)
                          /\ \A j \in h..n : e.added[1].id \notin IDs(es[j].deleted)
    BY <1>1, <1>8 DEF LiveIDOf
  <2>2. \A j \in h..n : j \in 1..n
    OBVIOUS
  <2>3. m[h] = es[h] /\ \A j \in h..n : m[j] = es[j]
    BY ONLY <1>3, <2>2, h \in 1..n
  <2>4. e.added[1] \in ToSet(m[n + 1].added)
    BY <1>3, <1>5
  <2>5. /\ e.added[1].id \in IDs(m[h].added)
        /\ \A j \in h..n : e.added[1].id \notin IDs(m[j].deleted)
    BY ONLY <2>1, <2>3
  <2>6. ReAdds(m, n + 1)
    BY ONLY <1>6, <2>4, <2>5, h \in 1..n DEF ReAdds
  <2> QED
    BY <1>2, <1>6, <2>6 DEF Refusable
<1> QED
  BY <1>7, <1>8

(* The ids that an edit leaves live.                                       *)
LEMMA LiveIDAppend ==
    ASSUME NEW es \in Seq(EditSet), NEW e \in EditSet, NEW id, id \notin IDs(e.deleted),
           LiveIDOf(es, id) \/ id \in IDs(e.added)
    PROVE  LiveIDOf(Append(es, e), id)
<1>1. PICK n \in Nat : n = Len(es)
  OBVIOUS
<1>2. PICK m \in Seq(EditSet) : m = Append(es, e)
  BY RecsAppend
<1>3. Len(m) = n + 1 /\ (\A i \in 1..n : m[i] = es[i]) /\ m[n + 1] = e
  BY <1>1, <1>2, RecsAppend
<1>4. CASE id \in IDs(e.added)
  <2>1. n + 1 \in 1..(n + 1) /\ \A j \in (n + 1)..(n + 1) : j = n + 1
    OBVIOUS
  <2>2. id \in IDs(m[n + 1].added) /\ \A j \in (n + 1)..(n + 1) : id \notin IDs(m[j].deleted)
    BY <1>3, <1>4, <2>1
  <2> QED
    BY <1>2, <1>3, <2>1, <2>2 DEF LiveIDOf
<1>5. CASE LiveIDOf(es, id)
  <2>1. PICK h \in 1..n : id \in IDs(es[h].added) /\ \A j \in h..n : id \notin IDs(es[j].deleted)
    BY <1>1, <1>5 DEF LiveIDOf
  <2>2. h \in 1..(n + 1) /\ \A j \in h..(n + 1) : j = n + 1 \/ (j \in h..n /\ j \in 1..n)
    OBVIOUS
  <2>3. id \in IDs(m[h].added)
    BY ONLY <1>3, <2>1
  <2>4. ASSUME NEW j \in h..(n + 1) PROVE id \notin IDs(m[j].deleted)
    BY <1>3, <2>1, <2>2
  <2> QED
    BY <1>2, <1>3, <2>2, <2>3, <2>4 DEF LiveIDOf
<1> QED
  BY <1>4, <1>5

-----------------------------------------------------------------------------
(* The inductive invariant. *)

(* Replaying a history succeeds, with a next id above all others and only  *)
(* live ids in use, or the history has an edit that may be refused.        *)
Replays(es, res) ==
    IF res.err = "nil"
    THEN /\ res.next \in Counters /\ res.next # <<>>
         /\ \A id \in KnownOf(es) : id < res.next[1]
         /\ \A id \in res.live : LiveIDOf(es, id)
    ELSE Refusable(es)

(* The edit keeps the next id above all others.                            *)
Allots(e, next) ==
    /\ e.next = <<>> \/ (e.next # <<>> /\ e.next[1] >= next)
    /\ \A id \in IDs(e.added) : id < Counter(next, e.next)

LEMMA ReplaysAppend ==
    ASSUME NEW es \in Seq(EditSet), NEW e \in EditSet, NEW res, NEW r,
           res = ReplayOf(es), r = ReplayOf(Append(es, e)), Replays(es, res),
           res.err = "nil" => Allots(e, res.next[1])
    PROVE  Replays(Append(es, e), r)
<1>0. PICK m : m = Append(es, e)
  OBVIOUS
<1>1. r = ReplayRecord(res, Encode(e))
  BY RecsAppend
<1>2. CASE res.err # "nil"
  <2>1. r = res
    BY <1>1, <1>2, ReplayStep
  <2>2. Refusable(es)
    BY <1>2 DEF Replays
  <2>3. Refusable(m)
    BY <1>0, <2>2, RefusableStays
  <2> QED
    BY <1>0, <1>2, <2>1, <2>3 DEF Replays
<1>3. CASE res.err = "nil"
  <2>1. /\ res.next \in Counters /\ res.next # <<>>
        /\ \A id \in KnownOf(es) : id < res.next[1]
        /\ \A id \in res.live : LiveIDOf(es, id)
    BY <1>3 DEF Replays
  <2>2. e.added \in Seq(FileSet) /\ Len(e.added) <= 1 /\ e.next \in Counters
    BY DEF EditSet, DelSeqs, FileSeqs
  <2>3. \/ r.err # "nil" /\ e.added # <<>> /\ TooLong(e.added[1])
        \/ r.err # "nil" /\ IDs(e.added) \cap res.live # {}
        \/ /\ r.err = "nil" /\ r.next = (IF e.next = <<>> THEN res.next ELSE e.next)
           /\ r.live = (res.live \cup IDs(e.added)) \ IDs(e.deleted)
    BY <1>1, <1>3, ReplayStep
  <2>4. CASE r.err # "nil" /\ e.added # <<>> /\ TooLong(e.added[1])
    <3>1. Refusable(m)
      BY <1>0, <2>4, RefusableNow
    <3> QED
      BY <1>0, <2>4, <3>1 DEF Replays
  <2>5. CASE r.err # "nil" /\ IDs(e.added) \cap res.live # {}
    <3>1. e.added # <<>> /\ IDs(e.added) = {e.added[1].id}
      BY <2>2, <2>5, OneFile
    <3>2. LiveIDOf(es, e.added[1].id)
      BY <2>1, <2>5, <3>1
    <3>3. Refusable(m)
      BY <1>0, <3>1, <3>2, RefusableNow
    <3> QED
      BY <1>0, <2>5, <3>3 DEF Replays
  <2>6. CASE /\ r.err = "nil" /\ r.next = (IF e.next = <<>> THEN res.next ELSE e.next)
             /\ r.live = (res.live \cup IDs(e.added)) \ IDs(e.deleted)
    <3>1. r.next \in Counters /\ r.next # <<>>
      BY <2>1, <2>2, <2>6
    <3>2. r.next[1] = Counter(res.next[1], e.next)
      BY <2>6 DEF Counter
    <3>3. Allots(e, res.next[1])
      BY <1>3
    <3>4. /\ e.next = <<>> \/ (e.next # <<>> /\ e.next[1] >= res.next[1])
          /\ \A id \in IDs(e.added) : id < Counter(res.next[1], e.next)
      BY <3>3 DEF Allots
    <3>5. res.next[1] \in Nat /\ r.next[1] \in Nat
      <4>1. ASSUME NEW c \in Counters, c # <<>> PROVE c[1] \in Nat
        BY <4>1, AtMostOne DEF Counters
      <4> QED
        BY <2>1, <3>1, <4>1
    <3>6. r.next[1] >= res.next[1]
      BY <2>6, <3>4, <3>5
    <3>7. ASSUME NEW id \in KnownOf(m) PROVE id < r.next[1]
      <4>1. id \in KnownOf(es) \/ id \in IDs(e.added)
        BY <1>0, KnownAppend
      <4>2. CASE id \in KnownOf(es)
        <5>1. id \in Nat
          <6>1. PICK i \in DOMAIN es : id \in IDs(es[i].added)
            BY <4>2 DEF KnownOf
          <6>2. es[i] \in EditSet
            BY <6>1
          <6>3. es[i].added \in Seq(FileSet) /\ Len(es[i].added) <= 1
            BY <6>2 DEF EditSet, DelSeqs, FileSeqs
          <6>4. es[i].added # <<>> /\ IDs(es[i].added) = {es[i].added[1].id}
                /\ es[i].added[1] \in FileSet
            BY <6>1, <6>3, OneFile
          <6> QED
            BY <6>1, <6>4 DEF FileSet
        <5>2. id < res.next[1]
          BY <2>1, <4>2
        <5> QED
          BY ONLY <3>5, <3>6, <5>1, <5>2
      <4>3. CASE id \in IDs(e.added)
        BY <3>2, <3>4, <4>3
      <4> QED
        BY <4>1, <4>2, <4>3
    <3>8. ASSUME NEW id \in r.live PROVE LiveIDOf(m, id)
      <4>1. id \notin IDs(e.deleted) /\ (id \in res.live \/ id \in IDs(e.added))
        BY <2>6
      <4>2. LiveIDOf(es, id) \/ id \in IDs(e.added)
        BY <2>1, <4>1
      <4> QED
        BY <1>0, <4>1, <4>2, LiveIDAppend
    <3> QED
      BY <1>0, <2>6, <3>1, <3>7, <3>8 DEF Replays
  <2> QED
    BY <2>3, <2>4, <2>5, <2>6
<1> QED
  BY <1>2, <1>3

LogInv ==
    /\ edits \in Seq(EditSet) /\ Len(edits) >= 1
    /\ mode \in {"open", "down", "refused"} /\ flushErr \in BOOLEAN
    /\ file = Recs(edits) \/ (~InStep /\ file = Append(Recs(edits), Torn))
    /\ mode = "refused" => Refusable(edits)

(* The DB has what replaying the file gives.                               *)
Rebuilds(res) ==
    /\ res.version = version /\ res.next = <<nextSSTID>>
    /\ res.seqno = seqno /\ res.logno = logno
ReplayInv ==
    /\ InStep => nextSSTID \in Nat /\ \A id \in KnownOf(edits) : id < nextSSTID
    /\ Replays(edits, ReplayOf(edits))
    /\ InStep /\ ReplayOf(edits).err = "nil" => Rebuilds(ReplayOf(edits))

(* What is read back: a torn tail is dropped, and nothing else is.         *)
LEMMA ValidRecordsAre ==
    ASSUME LogInv
    PROVE  ValidRecords = Recs(edits)
<1>1. edits \in Seq(EditSet) /\ Len(edits) >= 1
  BY DEF LogInv
<1>2. PICK D : D = Seq(Nat)
  OBVIOUS
<1>3. PICK n \in Nat : n = Len(edits) /\ n >= 1
  BY <1>1
<1>4. PICK r \in Seq(D) : r = Recs(edits)
  BY <1>1, <1>2, RecsType
<1>5. Len(r) = n /\ r[n] = Encode(edits[n]) /\ edits[n] \in EditSet
  BY <1>1, <1>2, <1>3, <1>4, RecsType
<1>6. CASE file = r
  <2>1. Last(file) = Encode(edits[n])
    BY <1>5, <1>6 DEF Last
  <2>2. Last(file) # Torn
    BY <1>5, <2>1, DecodesEncoded
  <2> QED
    BY <1>4, <1>6, <2>2 DEF ValidRecords
<1>7. CASE file = Append(r, Torn)
  <2>1. Torn \in D
    BY <1>2 DEF Torn
  <2>2. PICK s \in Seq(D) : s = file
    BY <1>7, <2>1, AppendProperties
  <2>3. Len(s) = n + 1 /\ (\A i \in 1..n : s[i] = r[i]) /\ s[n + 1] = Torn
    BY <1>5, <1>7, <2>1, <2>2, AppendProperties
  <2>4. Last(file) = Torn
    BY <2>2, <2>3 DEF Last
  <2>5. Front(file) = SubSeq(s, 1, n)
    <3>1. Len(s) - 1 = n
      BY <2>3
    <3> QED
      BY <2>2, <3>1 DEF Front
  <2>6. \A i \in 1..n : r[i] \in D
    BY <1>5
  <2>7. \A i \in 1..n : s[i] \in D
    BY <2>3, <2>6
  <2>8. /\ SubSeq(s, 1, n) \in Seq(D)
        /\ Len(SubSeq(s, 1, n)) = (IF 1 <= n THEN (n - 1) + 1 ELSE 0)
        /\ \A i \in 1..((n - 1) + 1) : SubSeq(s, 1, n)[i] = s[(1 + i) - 1]
    BY <2>7, SubSeqProperties
  <2>9. (n - 1) + 1 = n /\ 1 <= n /\ \A i \in 1..n : (1 + i) - 1 = i
    BY <1>3
  <2>10. Len(SubSeq(s, 1, n)) = n /\ \A i \in 1..n : SubSeq(s, 1, n)[i] = r[i]
    BY ONLY <2>3, <2>8, <2>9
  <2>11. SubSeq(s, 1, n) = r
    BY ONLY <1>5, <2>8, <2>10, SeqEqual, r \in Seq(D)
  <2> QED
    BY <1>4, <2>4, <2>5, <2>11 DEF ValidRecords
<1> QED
  BY <1>4, <1>6, <1>7 DEF LogInv

(* What the edits are like.                                                *)
Shape(e) ==
    /\ e \in EditSet
    /\ \/ e.added = <<>> /\ e.next = <<>>
       \/ \E f \in FileSet :
            /\ e.added = <<f>> /\ f.smallest.seq = LastSeq
            /\ \/ f.id = nextSSTID /\ e.next = <<nextSSTID + 1>>
               \/ /\ f.level = 1 /\ f.id \in KnownOf(edits) /\ e.next = <<>>
                  /\ f.id \notin IDs(AllFiles(FoldLeft(DeleteFile, version, e.deleted)))

LEMMA CounterType ==
    /\ <<>> \in Counters
    /\ \A x \in Nat : <<x>> \in Counters /\ <<x>> # <<>> /\ <<x>>[1] = x
<1>1. <<>> \in Seq(Nat) /\ Len(<<>>) = 0
  OBVIOUS
<1>2. ASSUME NEW x \in Nat PROVE <<x>> \in Counters /\ <<x>> # <<>> /\ <<x>>[1] = x
  <2>1. <<x>> \in Seq(Nat) /\ Len(<<x>>) = 1
    OBVIOUS
  <2>2. <<x>> # <<>> /\ <<x>>[1] = x
    OBVIOUS
  <2> QED
    BY <2>1, <2>2 DEF Counters
<1> QED
  BY <1>1, <1>2 DEF Counters

LEMMA MetadataType ==
    ASSUME LogInv, NEW level \in 0..1, NEW id \in Nat, NEW u \in UserKeys, NEW v \in UserKeys,
           NEW f, f = FileMetadata(level, id, u, v)
    PROVE  f \in FileSet /\ f.level = level /\ f.id = id /\ f.smallest.seq = LastSeq
           /\ f.smallest.user = u /\ f.largest.user = v
<1>1. u \in Nat /\ v \in Nat
  BY ManifestAssumption
<1>2. PICK n \in Nat : n = Len(edits) /\ n >= 1
  BY DEF LogInv
<1>3. LastSeq \in Nat /\ LastSeq - 1 \in Nat
  BY <1>2 DEF LastSeq
<1>4. PICK j : j = InternalKey(u, LastSeq, KindPut)
  OBVIOUS
<1>5. j \in KeySet /\ j.seq = LastSeq /\ j.user = u
  BY <1>1, <1>3, <1>4 DEF InternalKey, KeySet
<1>6. PICK k : k = InternalKey(v, LastSeq - 1, KindDelete)
  OBVIOUS
<1>7. k \in KeySet /\ k.user = v
  BY <1>1, <1>3, <1>6 DEF InternalKey, KeySet
<1>8. 10 + id \in Nat
  OBVIOUS
<1>9. f = [level |-> level, id |-> id, size |-> 10 + id, smallest |-> j, largest |-> k]
  BY <1>4, <1>6 DEF FileMetadata
<1> QED
  BY <1>5, <1>7, <1>8, <1>9 DEF FileSet

LEMMA EditType ==
    ASSUME NEW n \in Counters, NEW l \in Counters, NEW g \in Counters,
           NEW d \in DelSeqs, NEW a \in FileSeqs, NEW e, e = VersionEdit(n, l, g, d, a)
    PROVE  /\ e \in EditSet /\ e.next = n /\ e.last = l /\ e.log = g
           /\ e.deleted = d /\ e.added = a
  BY DEF VersionEdit, EditSet

LEMMA EditShape ==
    ASSUME LogInv, ReplayInv, InStep, NEW e \in Edits
    PROVE  Shape(e)
<1>1. /\ nextSSTID \in Nat /\ nextSSTID + 1 \in Nat
      /\ \A id \in KnownOf(edits) : id < nextSSTID
  BY DEF ReplayInv
<1>2. PICK n \in Nat : n = Len(edits) /\ n >= 1
  BY DEF LogInv
<1>3. LastSeq \in Nat
  BY <1>2 DEF LastSeq
<1>4. <<nextSSTID + 1>> \in Counters /\ <<LastSeq>> \in Counters /\ <<n>> \in Counters
      /\ <<>> \in Counters
  BY <1>1, <1>3, CounterType
<1>5. <<>> \in Seq(DelSet) /\ Len(<<>>) = 0 /\ <<>> \in Seq(FileSet)
  BY EmptySeq
<1>z. PICK z : z = <<>>
  OBVIOUS
<1>y. z \in Counters /\ z \in Seq(DelSet) /\ z \in Seq(FileSet) /\ Len(z) = 0
  BY <1>4, <1>5, <1>z, Zenon
<1>a. z = <<>> /\ z \in Counters /\ z \in DelSeqs /\ z \in FileSeqs
  BY ONLY <1>y, <1>z DEF DelSeqs, FileSeqs
<1>b. PICK nn \in Counters : nn = <<nextSSTID + 1>>
  BY <1>4
<1>c. PICK ll \in Counters : ll = <<LastSeq>>
  BY <1>4
<1>6. ASSUME NEW f \in FileSet PROVE <<f>> \in Seq(FileSet) /\ Len(<<f>>) = 1 /\ <<f>> # <<>>
  OBVIOUS
<1>7. ASSUME NEW d \in DelSet PROVE <<d>> \in Seq(DelSet) /\ Len(<<d>>) = 1
  OBVIOUS
<1>8. KnownIDs = KnownOf(edits)
  BY DEF KnownIDs, KnownOf
<1>9. ASSUME NEW id \in KnownOf(edits) PROVE id \in Nat
  <2>1. PICK i \in DOMAIN edits : id \in IDs(edits[i].added)
    BY DEF KnownOf
  <2>2. edits[i] \in EditSet
    BY <2>1 DEF LogInv
  <2>3. edits[i].added \in Seq(FileSet) /\ Len(edits[i].added) <= 1
    BY <2>2 DEF EditSet, DelSeqs, FileSeqs
  <2>4. edits[i].added # <<>> /\ IDs(edits[i].added) = {edits[i].added[1].id}
        /\ edits[i].added[1] \in FileSet
    BY <2>1, <2>3, OneFile
  <2> QED
    BY <2>1, <2>4 DEF FileSet
<1>10. CASE e \in FlushEdits
  <2>1. PICK r \in UserKeys \X UserKeys :
          e = VersionEdit(<<nextSSTID + 1>>, <<LastSeq>>, <<>>, <<>>,
                          <<FileMetadata(0, nextSSTID, r[1], r[2])>>)
    BY <1>10 DEF FlushEdits
  <2>2. r[1] \in UserKeys /\ r[2] \in UserKeys /\ 0 \in 0..1
    OBVIOUS
  <2>3. PICK f : f = FileMetadata(0, nextSSTID, r[1], r[2])
    OBVIOUS
  <2>4. f \in FileSet /\ f.id = nextSSTID /\ f.smallest.seq = LastSeq
    BY <1>1, <2>2, <2>3, MetadataType
  <2>z. PICK a : a = <<f>>
    OBVIOUS
  <2>y. a \in Seq(FileSet) /\ Len(a) = 1
    BY <1>6, <2>4, <2>z, Zenon
  <2>5. a = <<f>> /\ a \in FileSeqs
    BY ONLY <2>y, <2>z DEF FileSeqs
  <2>6. e = VersionEdit(nn, ll, z, z, a)
    BY <1>a, <1>b, <1>c, <2>1, <2>3, <2>5
  <2>7. e \in EditSet /\ e.next = nn /\ e.added = a
    BY <1>a, <2>5, <2>6, EditType
  <2> QED
    BY <1>b, <2>4, <2>5, <2>7 DEF Shape
<1>11. CASE e \in OtherEdits
  <2> DEFINE Deletions == {<<>>} \cup {<<[level |-> l, id |-> i]>> : l \in 0..1, i \in KnownIDs}
             Free(d)   == KnownIDs \ IDs(AllFiles(FoldLeft(DeleteFile, version, d)))
             Added(d)  == {<<FileMetadata(1, i, u, u)>> :
                             i \in Free(d) \cup {nextSSTID}, u \in UserKeys}
  <2>1. PICK d, a, log :
          /\ d \in Deletions
          /\ a \in {<<>>} \cup Added(d) /\ log \in {<<>>, <<Len(edits)>>}
          /\ e = VersionEdit(IF IDs(a) = {nextSSTID} THEN <<nextSSTID + 1>> ELSE <<>>,
                             <<>>, log, d, a)
    <3> DEFINE As(d) == {<<>>} \cup Added(d)
               Logs == {<<>>, <<Len(edits)>>}
               Edit(d, a, log) ==
                 VersionEdit(IF IDs(a) = {nextSSTID} THEN <<nextSSTID + 1>> ELSE <<>>,
                             <<>>, log, d, a)
    <3>1. e \in UNION {{Edit(d, a, log) : a \in As(d), log \in Logs} : d \in Deletions}
      BY <1>11 DEF OtherEdits
    <3> HIDE DEF Edit, As, Logs, Added, Deletions
    <3>2. PICK d \in Deletions : e \in {Edit(d, a, log) : a \in As(d), log \in Logs}
      BY <3>1
    <3>3. PICK a \in As(d), log \in Logs : e = Edit(d, a, log)
      BY <3>2
    <3> QED
      BY <3>2, <3>3 DEF As, Logs, Edit
  <2>2. d \in Seq(DelSet) /\ Len(d) <= 1
    <3>1. CASE d = <<>>
      BY <1>5, <3>1
    <3>2. CASE d # <<>>
      <4>1. PICK l \in 0..1, i \in KnownIDs : d = <<[level |-> l, id |-> i]>>
        BY <2>1, <3>2
      <4>2. [level |-> l, id |-> i] \in DelSet
        BY <1>8, <1>9 DEF DelSet
      <4> QED
        BY <1>7, <4>1, <4>2
    <3> QED
      BY <3>1, <3>2
  <2>a. d \in DelSeqs
    BY <2>2 DEF DelSeqs
  <2>3. log \in Counters
    BY <1>2, <1>4, <2>1
  <2>4. CASE a = <<>>
    <3>1. IDs(a) = {}
      <4>1. DOMAIN a = {}
        BY <2>4
      <4> QED
        BY <4>1 DEF IDs
    <3>2. e = VersionEdit(z, z, log, d, z)
      BY <1>a, <2>1, <2>4, <3>1
    <3>3. e \in EditSet /\ e.next = z /\ e.added = z
      BY <1>a, <2>a, <2>3, <3>2, EditType
    <3> QED
      BY <1>a, <3>3 DEF Shape
  <2>5. CASE a # <<>>
    <3>1. PICK i \in Free(d) \cup {nextSSTID}, u \in UserKeys : a = <<FileMetadata(1, i, u, u)>>
      BY <2>1, <2>5
    <3>2. PICK f : f = FileMetadata(1, i, u, u)
      OBVIOUS
    <3>3. i \in Nat /\ 1 \in 0..1
      BY <1>1, <1>8, <1>9, <3>1
    <3>4. f \in FileSet /\ f.level = 1 /\ f.id = i /\ f.smallest.seq = LastSeq
      BY <3>2, <3>3, MetadataType
    <3>5. a \in Seq(FileSet) /\ Len(a) <= 1 /\ a[1] = f
      BY <1>6, <3>1, <3>2, <3>4
    <3>a. a \in FileSeqs
      BY <3>5 DEF FileSeqs
    <3>6. IDs(a) = {i}
      BY <2>5, <3>4, <3>5, OneFile
    <3>7. CASE i = nextSSTID
      <4>1. e = VersionEdit(nn, z, log, d, a)
        BY <1>a, <1>b, <2>1, <3>6, <3>7
      <4>2. e \in EditSet /\ e.next = nn /\ e.added = a
        BY <1>a, <2>a, <2>3, <3>a, <4>1, EditType
      <4> QED
        BY <1>b, <3>1, <3>2, <3>4, <3>7, <4>2 DEF Shape
    <3>8. CASE i # nextSSTID
      <4>1. e = VersionEdit(z, z, log, d, a)
        BY <1>a, <2>1, <3>6, <3>8
      <4>2. e \in EditSet /\ e.next = <<>> /\ e.added = a /\ e.deleted = d
        BY <1>a, <2>a, <2>3, <3>a, <4>1, EditType
      <4>3. i \in KnownOf(edits) /\ i \notin IDs(AllFiles(FoldLeft(DeleteFile, version, d)))
        BY <1>8, <3>1, <3>8
      <4> QED
        BY <3>1, <3>2, <3>4, <4>2, <4>3 DEF Shape
    <3> QED
      BY <3>7, <3>8
  <2> QED
    BY <2>4, <2>5
<1> QED
  BY <1>10, <1>11 DEF Edits

(* The next id after an edit is above all ids again.                       *)
LEMMA EditAllots ==
    ASSUME LogInv, ReplayInv, InStep, NEW e, Shape(e)
    PROVE  /\ Allots(e, nextSSTID) /\ Counter(nextSSTID, e.next) \in Nat
           /\ \A id \in KnownOf(Append(edits, e)) : id < Counter(nextSSTID, e.next)
           /\ e.next # <<>> => e.next = <<Counter(nextSSTID, e.next)>>
<1>1. nextSSTID \in Nat /\ \A id \in KnownOf(edits) : id < nextSSTID
  BY DEF ReplayInv
<1>2. e \in EditSet /\ edits \in Seq(EditSet)
  BY DEF Shape, LogInv
<1>3. KnownOf(Append(edits, e)) = KnownOf(edits) \cup IDs(e.added)
  BY <1>2, KnownAppend
<1>4. e.added \in Seq(FileSet) /\ Len(e.added) <= 1
  BY <1>2 DEF EditSet, FileSeqs
<1>5. ASSUME NEW id \in KnownOf(edits) PROVE id \in Nat
  <2>1. PICK i \in DOMAIN edits : id \in IDs(edits[i].added)
    BY DEF KnownOf
  <2>2. edits[i] \in EditSet
    BY <2>1 DEF LogInv
  <2>3. edits[i].added \in Seq(FileSet) /\ Len(edits[i].added) <= 1
    BY <2>2 DEF EditSet, FileSeqs
  <2>4. edits[i].added # <<>> /\ IDs(edits[i].added) = {edits[i].added[1].id}
        /\ edits[i].added[1] \in FileSet
    BY <2>1, <2>3, OneFile
  <2> QED
    BY <2>1, <2>4 DEF FileSet
<1>6. CASE e.added = <<>> /\ e.next = <<>>
  <2>1. IDs(e.added) = {} /\ Counter(nextSSTID, e.next) = nextSSTID
    BY <1>4, <1>6, OneFile DEF Counter
  <2> QED
    BY <1>1, <1>3, <1>6, <2>1 DEF Allots
<1>7. ASSUME NEW f \in FileSet, e.added = <<f>>, f.id = nextSSTID, e.next = <<nextSSTID + 1>>
      PROVE  /\ Allots(e, nextSSTID) /\ Counter(nextSSTID, e.next) \in Nat
             /\ \A id \in KnownOf(Append(edits, e)) : id < Counter(nextSSTID, e.next)
             /\ e.next # <<>> => e.next = <<Counter(nextSSTID, e.next)>>
  <2>1. e.added # <<>> /\ e.added[1] = f
    BY <1>7
  <2>2. IDs(e.added) = {nextSSTID}
    BY <1>4, <1>7, <2>1, OneFile
  <2>3. nextSSTID + 1 \in Nat
    BY <1>1
  <2>4. e.next # <<>> /\ e.next[1] = nextSSTID + 1
    BY <1>7, <2>3, CounterType
  <2>5. Counter(nextSSTID, e.next) = nextSSTID + 1
    BY <2>4 DEF Counter
  <2>6. nextSSTID < nextSSTID + 1 /\ nextSSTID + 1 >= nextSSTID
    BY <1>1
  <2>7. Allots(e, nextSSTID)
    BY <2>2, <2>4, <2>5, <2>6 DEF Allots
  <2>8. ASSUME NEW id \in KnownOf(Append(edits, e)) PROVE id < nextSSTID + 1
    <3>1. id \in KnownOf(edits) \/ id = nextSSTID
      BY <1>3, <2>2
    <3>2. CASE id \in KnownOf(edits)
      <4>1. id \in Nat /\ id < nextSSTID
        BY <1>1, <1>5, <3>2
      <4> QED
        BY <1>1, <4>1
    <3> QED
      BY <2>6, <3>1, <3>2
  <2> QED
    BY <1>7, <2>3, <2>5, <2>7, <2>8
<1>8. ASSUME NEW f \in FileSet, e.added = <<f>>, f.id \in KnownOf(edits), e.next = <<>>
      PROVE  /\ Allots(e, nextSSTID) /\ Counter(nextSSTID, e.next) \in Nat
             /\ \A id \in KnownOf(Append(edits, e)) : id < Counter(nextSSTID, e.next)
             /\ e.next # <<>> => e.next = <<Counter(nextSSTID, e.next)>>
  <2>1. e.added # <<>> /\ e.added[1] = f
    BY <1>8
  <2>2. IDs(e.added) = {f.id}
    BY <1>4, <1>8, <2>1, OneFile
  <2>3. Counter(nextSSTID, e.next) = nextSSTID
    BY <1>8 DEF Counter
  <2> QED
    BY <1>1, <1>3, <1>8, <2>2, <2>3 DEF Allots
<1> QED
  BY <1>6, <1>7, <1>8 DEF Shape

(* Logging an edit.                                                        *)
LEMMA Logged ==
    ASSUME LogInv, ReplayInv, InStep, NEW e, Shape(e), NEW es, es = Append(edits, e),
           NEW r, r = ReplayOf(es)
    PROVE  /\ es \in Seq(EditSet) /\ Len(es) >= 1
           /\ file = Recs(edits) /\ Recs(es) = Append(file, Encode(e))
           /\ Replays(es, r)
           /\ r.err = "nil" => /\ r.version = Apply(version, e)
                               /\ r.next = <<Counter(nextSSTID, e.next)>>
                               /\ r.seqno = Counter(seqno, e.last)
                               /\ r.logno = Counter(logno, e.log)
<1>1. e \in EditSet /\ edits \in Seq(EditSet)
  BY DEF Shape, LogInv
<1>2. /\ es \in Seq(EditSet) /\ Len(es) = Len(edits) + 1
      /\ Recs(es) = Append(Recs(edits), Encode(e))
      /\ r = ReplayRecord(ReplayOf(edits), Encode(e))
  BY <1>1, RecsAppend
<1>3. Len(es) >= 1
  BY <1>1, <1>2
<1>4. file = Recs(edits)
  BY DEF LogInv
<1>5. PICK res : res = ReplayOf(edits)
  OBVIOUS
<1>6. Replays(edits, res) /\ nextSSTID \in Nat
  BY <1>5 DEF ReplayInv
<1>7. res.err = "nil" => Rebuilds(res)
  BY <1>5 DEF ReplayInv
<1>8. res.err = "nil" => res.next[1] = nextSSTID
  BY <1>6, <1>7, CounterType DEF Rebuilds
<1>9. res.err = "nil" => Allots(e, res.next[1])
  BY <1>8, EditAllots
<1>10. Replays(es, r)
  BY <1>1, <1>5, <1>6, <1>9, ReplaysAppend
<1>11. ASSUME r.err = "nil"
       PROVE  /\ r.version = Apply(version, e)
              /\ r.next = <<Counter(nextSSTID, e.next)>>
              /\ r.seqno = Counter(seqno, e.last)
              /\ r.logno = Counter(logno, e.log)
  <2>1. res.err = "nil"
    BY <1>1, <1>2, <1>5, <1>11, ReplayStep
  <2>2. /\ r.version = Apply(res.version, e)
        /\ r.next = IF e.next = <<>> THEN res.next ELSE e.next
        /\ r.seqno = Counter(res.seqno, e.last)
        /\ r.logno = Counter(res.logno, e.log)
    BY <1>1, <1>2, <1>5, <1>11, <2>1, ReplayStep
  <2>3. /\ res.version = version /\ res.next = <<nextSSTID>>
        /\ res.seqno = seqno /\ res.logno = logno
    BY <1>7, <2>1 DEF Rebuilds
  <2>4. r.next = <<Counter(nextSSTID, e.next)>>
    <3>1. CASE e.next = <<>>
      BY <2>2, <2>3, <3>1 DEF Counter
    <3>2. CASE e.next # <<>>
      BY <2>2, <3>2, EditAllots
    <3> QED
      BY <3>1, <3>2
  <2> QED
    BY <2>2, <2>3, <2>4
<1> QED
  BY <1>2, <1>3, <1>4, <1>10, <1>11

LEMMA LogInit ==
    ASSUME Init
    PROVE  LogInv /\ ReplayInv
<1>1. /\ file = <<Encode(InitialEdit)>> /\ edits = <<InitialEdit>>
      /\ mode = "open" /\ flushErr = FALSE
      /\ version = Apply(NewVersion, InitialEdit)
      /\ nextSSTID = 1 /\ seqno = 0 /\ logno = 0
  BY DEF Init
<1>2. <<1>> \in Counters /\ <<0>> \in Counters /\ <<>> \in DelSeqs /\ <<>> \in FileSeqs
      /\ <<1>> # <<>> /\ <<0>> # <<>> /\ <<1>>[1] = 1 /\ <<0>>[1] = 0
  <2>1. 1 \in Nat /\ 0 \in Nat
    OBVIOUS
  <2>2. <<>> \in Seq(DelSet) /\ <<>> \in Seq(FileSet) /\ Len(<<>>) = 0
    BY EmptySeq
  <2>3. <<>> \in DelSeqs /\ <<>> \in FileSeqs
    BY <2>2 DEF DelSeqs, FileSeqs
  <2> QED
    BY <2>1, <2>3, CounterType
<1>3. PICK e : e = InitialEdit
  OBVIOUS
<1>4. PICK one, zero, none : one = <<1>> /\ zero = <<0>> /\ none = <<>>
  OBVIOUS
<1>5. e = VersionEdit(one, zero, zero, none, none)
  BY <1>3, <1>4 DEF InitialEdit
<1>6. /\ one \in Counters /\ zero \in Counters /\ none \in DelSeqs /\ none \in FileSeqs
      /\ one # none /\ zero # none /\ one[1] = 1 /\ zero[1] = 0
  BY <1>2, <1>4, Zenon
<1>7. /\ e \in EditSet /\ e.next = one /\ e.last = zero /\ e.log = zero
      /\ e.deleted = none /\ e.added = none
  BY <1>5, <1>6, EditType
<1>8. edits \in Seq(EditSet) /\ Len(edits) = 1 /\ edits[1] = e /\ DOMAIN edits = 1..1
  BY <1>1, <1>3, <1>7
<1>9. file = Recs(edits)
  <2>1. \A i \in 1..1 : i = 1
    OBVIOUS
  <2>2. PICK x : x = Encode(e)
    OBVIOUS
  <2>3. <<x>> = [i \in 1..1 |-> x]
    OBVIOUS
  <2>4. [i \in 1..1 |-> Encode(edits[i])] = [i \in 1..1 |-> x]
    BY <1>8, <2>1, <2>2
  <2> QED
    BY <1>1, <1>3, <1>8, <2>2, <2>3, <2>4 DEF Recs
<1>10. LogInv
  <2>1. Len(edits) >= 1
    BY <1>8
  <2>2. flushErr \in BOOLEAN
    BY <1>1, Zenon
  <2>3. mode \in {"open", "down", "refused"} /\ mode # "refused"
    BY <1>1
  <2> QED
    BY <1>8, <1>9, <2>1, <2>2, <2>3, Zenon DEF LogInv
<1>11. e.added = <<>> /\ IDs(e.added) = {} /\ e.next # <<>> /\ e.last # <<>> /\ e.log # <<>>
  <2>1. DOMAIN none = {}
    BY <1>4
  <2> QED
    BY <1>4, <1>6, <1>7, <2>1 DEF IDs
<1>12. PICK r : r = ReplayOf(edits)
  OBVIOUS
<1>13. r = ReplayRecord(ReplayStart, Encode(e))
  <2>1. DOMAIN Recs(edits) = 1..1 /\ Recs(edits)[1] = Encode(e)
    BY <1>8 DEF Recs
  <2> QED
    BY <1>12, <2>1, ReplayFirst DEF ReplayOf
<1>14. /\ ReplayStart.err = "nil" /\ ReplayStart.version = NewVersion /\ ReplayStart.live = {}
  BY DEF ReplayStart, Replaying
<1>15. /\ r.err = "nil" /\ r.version = Apply(NewVersion, e) /\ r.next = one
       /\ r.seqno = Counter(ReplayStart.seqno, e.last)
       /\ r.logno = Counter(ReplayStart.logno, e.log)
       /\ r.live = ({} \cup {}) \ IDs(e.deleted)
  BY <1>7, <1>11, <1>13, <1>14, ReplayStep
<1>16. r.seqno = 0 /\ r.logno = 0 /\ r.live = {}
  BY <1>6, <1>7, <1>11, <1>15 DEF Counter
<1>17. KnownOf(edits) = {}
  <2>1. \A i \in DOMAIN edits : IDs(edits[i].added) = {}
    BY <1>8, <1>11
  <2> QED
    BY <2>1 DEF KnownOf
<1>18. Replays(edits, r)
  BY <1>4, <1>6, <1>15, <1>16, <1>17 DEF Replays
<1>19. Rebuilds(r)
  BY <1>1, <1>3, <1>4, <1>15, <1>16 DEF Rebuilds
<1> QED
  BY <1>1, <1>10, <1>12, <1>17, <1>18, <1>19 DEF ReplayInv

(* Each step preserves the invariant.                                      *)
LEMMA LogNext ==
    ASSUME LogInv, ReplayInv, [Next]_vars
    PROVE  LogInv' /\ ReplayInv'
<1>0. edits \in Seq(EditSet) /\ Len(edits) >= 1
  BY DEF LogInv
<1>1. ASSUME NEW e \in Edits, LogAndApply(e)
      PROVE  LogInv' /\ ReplayInv'
  <2>1. /\ mode = "open" /\ ~flushErr
        /\ file' = Append(file, Encode(e)) /\ edits' = Append(edits, e)
        /\ version' = Apply(version, e)
        /\ nextSSTID' = Counter(nextSSTID, e.next)
        /\ seqno' = Counter(seqno, e.last) /\ logno' = Counter(logno, e.log)
        /\ mode' = mode /\ flushErr' = flushErr
    BY <1>1 DEF LogAndApply
  <2>2. InStep
    BY <2>1 DEF InStep
  <2>3. Shape(e)
    BY <2>2, EditShape
  <2>4. PICK r : r = ReplayOf(edits')
    OBVIOUS
  <2>5. /\ edits' \in Seq(EditSet) /\ Len(edits') >= 1
        /\ Recs(edits') = Append(file, Encode(e))
        /\ Replays(edits', r)
        /\ r.err = "nil" => /\ r.version = Apply(version, e)
                            /\ r.next = <<Counter(nextSSTID, e.next)>>
                            /\ r.seqno = Counter(seqno, e.last)
                            /\ r.logno = Counter(logno, e.log)
    BY <2>1, <2>2, <2>3, <2>4, Logged
  <2>6. /\ Counter(nextSSTID, e.next) \in Nat
        /\ \A id \in KnownOf(edits') : id < Counter(nextSSTID, e.next)
    BY <2>1, <2>2, <2>3, EditAllots
  <2>7. file' = Recs(edits') /\ mode' \in {"open", "down", "refused"} /\ mode' # "refused"
        /\ flushErr' \in BOOLEAN
    BY <2>1, <2>5 DEF LogInv
  <2>8. LogInv'
    BY <2>5, <2>7 DEF LogInv
  <2>9. r.err = "nil" => Rebuilds(r)'
    BY <2>1, <2>5 DEF Rebuilds
  <2>10. ReplayInv'
    BY <2>1, <2>4, <2>5, <2>6, <2>9 DEF ReplayInv
  <2> QED
    BY <2>8, <2>10
<1>2. ASSUME NEW e \in Edits, LogFails(e)
      PROVE  LogInv' /\ ReplayInv'
  <2>1. /\ mode = "open" /\ ~flushErr
        /\ \/ file' = file /\ edits' = edits
           \/ file' = Append(file, Torn) /\ edits' = edits
           \/ file' = Append(file, Encode(e)) /\ edits' = Append(edits, e)
        /\ \/ mode' = "down" /\ flushErr' = flushErr
           \/ flushErr' = TRUE /\ mode' = mode
    BY <1>2 DEF LogFails
  <2>2. InStep
    BY <2>1 DEF InStep
  <2>3. Shape(e)
    BY <2>2, EditShape
  <2>4. ~InStep' /\ mode' \in {"open", "down"} /\ mode' # "refused" /\ flushErr' \in BOOLEAN
    <3>1. CASE mode' = "down" /\ flushErr' = flushErr
      BY <3>1 DEF InStep, LogInv
    <3>2. CASE flushErr' = TRUE /\ mode' = mode
      <4>1. flushErr' \in BOOLEAN
        BY <3>2, Zenon
      <4> QED
        BY <2>1, <3>2, <4>1 DEF InStep
    <3> QED
      BY <2>1, <3>1, <3>2
  <2>5. file = Recs(edits)
    BY <2>2 DEF LogInv
  <2>6. CASE edits' = edits
    <3>1. file' = Recs(edits') \/ file' = Append(Recs(edits'), Torn)
      <4>1. CASE file' = Append(file, Encode(e)) /\ edits' = Append(edits, e)
        <5>1. Len(edits') = Len(edits) + 1 /\ Len(edits) \in Nat
          BY <1>0, <2>3, <4>1, RecsAppend DEF Shape
        <5> QED
          BY <2>6, <5>1
      <4> QED
        BY <2>1, <2>5, <2>6, <4>1
    <3>2. LogInv'
      BY <1>0, <2>4, <2>6, <3>1 DEF LogInv
    <3>3. ReplayInv'
      BY <2>4, <2>6 DEF ReplayInv
    <3> QED
      BY <3>2, <3>3
  <2>7. CASE file' = Append(file, Encode(e)) /\ edits' = Append(edits, e)
    <3>1. PICK r : r = ReplayOf(edits')
      OBVIOUS
    <3>2. /\ edits' \in Seq(EditSet) /\ Len(edits') >= 1
          /\ Recs(edits') = Append(file, Encode(e))
          /\ Replays(edits', r)
      BY <2>2, <2>3, <2>7, <3>1, Logged
    <3>3. LogInv'
      BY <2>4, <2>7, <3>2 DEF LogInv
    <3>4. ReplayInv'
      BY <2>4, <3>1, <3>2 DEF ReplayInv
    <3> QED
      BY <3>3, <3>4
  <2> QED
    BY <2>1, <2>6, <2>7
<1>3. CASE Stop
  <2>1. /\ mode = "open" /\ mode' = "down" /\ file' = file /\ edits' = edits
        /\ flushErr' = flushErr
    BY <1>3 DEF Stop
  <2>2. ~InStep' /\ mode' \in {"open", "down", "refused"} /\ mode' # "refused"
    BY <2>1 DEF InStep
  <2>3. LogInv'
    BY <2>1, <2>2 DEF LogInv
  <2>4. ReplayInv'
    BY <2>1, <2>2 DEF ReplayInv
  <2> QED
    BY <2>3, <2>4
<1>4. CASE Open
  <2>1. mode = "down" /\ edits' = edits
    BY <1>4 DEF Open
  <2>2. PICK r : r = ReplayOf(edits)
    OBVIOUS
  <2>3. Replays(edits, r)
    BY <2>2 DEF ReplayInv
  <2>4. FoldLeft(ReplayRecord, ReplayStart, ValidRecords) = r /\ ValidRecords = Recs(edits)
    BY <2>2, ValidRecordsAre DEF ReplayOf
  <2>5. ReplayManifestStream = r
    <3>1. ~(r.err = "nil" /\ r.next = <<>>)
      BY <2>3 DEF Replays
    <3> QED
      BY <2>4, <3>1 DEF ReplayManifestStream
  <2>6. CASE r.err # "nil"
    <3>1. mode' = "refused" /\ file' = file /\ flushErr' = flushErr
      BY <1>4, <2>5, <2>6 DEF Open
    <3>2. Refusable(edits)
      BY <2>3, <2>6 DEF Replays
    <3>3. ~InStep' /\ mode' \in {"open", "down", "refused"}
      BY <3>1 DEF InStep
    <3>4. LogInv'
      BY <2>1, <3>1, <3>2, <3>3 DEF LogInv
    <3>5. ReplayInv'
      BY <2>1, <3>3 DEF ReplayInv
    <3> QED
      BY <3>4, <3>5
  <2>7. CASE r.err = "nil"
    <3>1. /\ mode' = "open" /\ flushErr' = FALSE /\ file' = Recs(edits)
          /\ version' = r.version /\ nextSSTID' = r.next[1]
          /\ seqno' = r.seqno /\ logno' = r.logno
      BY <1>4, <2>4, <2>5, <2>7 DEF Open
    <3>2. /\ r.next \in Counters /\ r.next # <<>>
          /\ \A id \in KnownOf(edits) : id < r.next[1]
      BY <2>3, <2>7 DEF Replays
    <3>3. r.next[1] \in Nat /\ r.next = <<r.next[1]>>
      BY <3>2, AtMostOne DEF Counters
    <3>4. flushErr' \in BOOLEAN
      BY <3>1, Zenon
    <3>5. mode' \in {"open", "down", "refused"} /\ mode' # "refused"
      BY <3>1
    <3>6. LogInv'
      BY <1>0, <2>1, <3>1, <3>4, <3>5 DEF LogInv
    <3>7. Rebuilds(r)'
      BY <3>1, <3>3 DEF Rebuilds
    <3>8. ReplayInv'
      BY <2>1, <2>2, <2>3, <3>1, <3>2, <3>3, <3>7 DEF ReplayInv
    <3> QED
      BY <3>6, <3>8
  <2> QED
    BY <2>6, <2>7
<1>5. CASE UNCHANGED vars
  <2>1. /\ file' = file /\ mode' = mode /\ version' = version /\ nextSSTID' = nextSSTID
        /\ seqno' = seqno /\ logno' = logno /\ flushErr' = flushErr /\ edits' = edits
    BY <1>5 DEF vars, dbVars
  <2>2. LogInv'
    BY <2>1 DEF LogInv, InStep
  <2>3. ReplayInv'
    BY <2>1 DEF ReplayInv, Rebuilds, InStep
  <2> QED
    BY <2>2, <2>3
<1> QED
  BY <1>1, <1>2, <1>3, <1>4, <1>5 DEF Next

(* The MANIFEST holds the records of the edits that were logged, whole,    *)
(* and one torn record behind them only while nothing more is logged;      *)
(* replaying them gives the state of the open DB, or refuses for an edit   *)
(* that re-adds a live id or has a key beyond the limit.                   *)
THEOREM LogCorrect == Spec => [](LogInv /\ ReplayInv)
<1>1. Init => LogInv /\ ReplayInv
  BY LogInit
<1>2. LogInv /\ ReplayInv /\ [Next]_vars => LogInv' /\ ReplayInv'
  BY LogNext
<1> QED
  BY <1>1, <1>2, PTL DEF Spec

LEMMA StreamIsReplay ==
    ASSUME LogInv, ReplayInv
    PROVE  ReplayManifestStream = ReplayOf(edits)
<1>1. PICK r : r = ReplayOf(edits)
  OBVIOUS
<1>2. Replays(edits, r)
  BY <1>1 DEF ReplayInv
<1>3. FoldLeft(ReplayRecord, ReplayStart, ValidRecords) = r
  BY <1>1, ValidRecordsAre DEF ReplayOf
<1>4. ~(r.err = "nil" /\ r.next = <<>>)
  BY <1>2 DEF Replays
<1> QED
  BY <1>1, <1>3, <1>4 DEF ReplayManifestStream

(* Replaying the MANIFEST at any time rebuilds the Version and the         *)
(* counters that the open DB has (replayExistingManifest against           *)
(* logAndApply), whatever failed, tore or was trimmed before.              *)
THEOREM ReplayCorrect == Spec => []ReplayRebuilds
<1>1. ASSUME LogInv, ReplayInv PROVE ReplayRebuilds
  <2>1. PICK r : r = ReplayManifestStream
    OBVIOUS
  <2>2. r = ReplayOf(edits)
    BY <1>1, <2>1, StreamIsReplay
  <2>3. InStep /\ r.err = "nil" => Rebuilds(r)
    BY <1>1, <2>2 DEF ReplayInv
  <2> QED
    BY <2>1, <2>3 DEF ReplayRebuilds, Rebuilds
<1> QED
  BY <1>1, LogCorrect, PTL

(* Open refuses a MANIFEST only for an edit that re-adds a live id or has  *)
(* a key that the decoder does not accept (applyEditToReplay,              *)
(* readLengthPrefixedBytes), never for a crash or a failed append.         *)
THEOREM RefusalsCorrect == Spec => []OpenRefusesOnly
<1>1. ASSUME LogInv, ReplayInv PROVE OpenRefusesOnly
  <2>1. mode = "refused" => Refusable(edits)
    BY <1>1 DEF LogInv
  <2>2. DOMAIN edits = 1..Len(edits)
    BY <1>1 DEF LogInv
  <2>3. \A i \in 1..Len(edits) : ReAdds(edits, i) <=> AddsLiveID(i)
    BY DEF ReAdds, AddsLiveID
  <2> QED
    BY <2>1, <2>2, <2>3 DEF OpenRefusesOnly, Refusable
<1> QED
  BY <1>1, LogCorrect, PTL

-----------------------------------------------------------------------------
(* The levels of a Version. *)

Before(l, f, g) ==
    f.id # g.id /\ IF l = 1 THEN f.id < g.id ELSE KeyLess(f.smallest, g.smallest)

(* A level: its own files, no id twice, in its order.                      *)
Level(s, l) ==
    /\ s \in Seq(FileSet)
    /\ \A i \in 1..Len(s) : s[i].level = l - 1
    /\ \A i, j \in 1..Len(s) : i < j => Before(l, s[i], s[j])

(* r is s without its k-th element.                                        *)
Drops(r, s, k) ==
    /\ r \in Seq(FileSet) /\ k \in 1..Len(s) /\ Len(r) = Len(s) - 1
    /\ \A i \in 1..Len(r) : r[i] = IF i < k THEN s[i] ELSE s[i + 1]

LEMMA RemoveAtDrops ==
    ASSUME NEW s \in Seq(FileSet), NEW k \in 1..Len(s)
    PROVE  Drops(RemoveAt(s, k), s, k)
<1>1. PICK n \in Nat : n = Len(s) /\ k \in 1..n
  OBVIOUS
<1>2. PICK a : a = SubSeq(s, 1, k - 1)
  OBVIOUS
<1>3. PICK b : b = SubSeq(s, k + 1, n)
  OBVIOUS
<1>4. \A i \in 1..n : s[i] \in FileSet
  BY <1>1
<1>5. 1 \in Int /\ k - 1 \in Int /\ k + 1 \in Int /\ n \in Int
  BY <1>1
<1>6. (\A i \in 1..(k - 1) : s[i] \in FileSet) /\ (\A i \in (k + 1)..n : s[i] \in FileSet)
  BY <1>1, <1>4
<1>7. /\ a \in Seq(FileSet) /\ Len(a) = (IF 1 <= k - 1 THEN ((k - 1) - 1) + 1 ELSE 0)
      /\ \A i \in 1..(((k - 1) - 1) + 1) : a[i] = s[(1 + i) - 1]
  BY <1>2, <1>5, <1>6, SubSeqProperties
<1>8. /\ b \in Seq(FileSet) /\ Len(b) = (IF k + 1 <= n THEN (n - (k + 1)) + 1 ELSE 0)
      /\ \A i \in 1..((n - (k + 1)) + 1) : b[i] = s[((k + 1) + i) - 1]
  BY <1>3, <1>5, <1>6, SubSeqProperties
<1>9. /\ Len(a) = k - 1
      /\ \A i \in 1..(k - 1) : a[i] = s[i]
  <2>1. ((k - 1) - 1) + 1 = k - 1 /\ \A i \in 1..(k - 1) : (1 + i) - 1 = i
    BY <1>1
  <2>2. ~(1 <= k - 1) => k - 1 = 0
    BY <1>1
  <2> QED
    BY ONLY <1>7, <2>1, <2>2
<1>10. /\ Len(b) = n - k
       /\ \A i \in 1..(n - k) : b[i] = s[k + i]
  <2>1. (n - (k + 1)) + 1 = n - k /\ \A i \in 1..(n - k) : ((k + 1) + i) - 1 = k + i
    BY <1>1
  <2>2. ~(k + 1 <= n) => n - k = 0
    BY <1>1
  <2> QED
    BY ONLY <1>8, <2>1, <2>2
<1>11. PICK r : r = a \o b
  OBVIOUS
<1>12. /\ r \in Seq(FileSet) /\ Len(r) = (k - 1) + (n - k)
       /\ \A i \in 1..((k - 1) + (n - k)) : r[i] = IF i <= k - 1 THEN a[i] ELSE b[i - (k - 1)]
  <2>0. a \in Seq(FileSet) /\ b \in Seq(FileSet)
    BY ONLY <1>7, <1>8
  <2>1. /\ r \in Seq(FileSet) /\ Len(r) = Len(a) + Len(b)
        /\ \A i \in 1..(Len(a) + Len(b)) : r[i] = IF i <= Len(a) THEN a[i] ELSE b[i - Len(a)]
    BY ONLY <2>0, <1>11, ConcatProperties
  <2> QED
    BY ONLY <1>9, <1>10, <2>1
<1>13. (k - 1) + (n - k) = n - 1
  BY <1>1
<1>14. ASSUME NEW i \in 1..(n - 1) PROVE r[i] = IF i < k THEN s[i] ELSE s[i + 1]
  <2>1. i \in 1..((k - 1) + (n - k))
    BY <1>13
  <2>2. CASE i < k
    <3>1. i <= k - 1 /\ i \in 1..(k - 1)
      BY <1>1, <2>2
    <3> QED
      BY <1>9, <1>12, <2>1, <2>2, <3>1
  <2>3. CASE ~(i < k)
    <3>1. ~(i <= k - 1) /\ i - (k - 1) \in 1..(n - k) /\ k + (i - (k - 1)) = i + 1
      BY <1>1, <2>3
    <3> QED
      BY <1>10, <1>12, <2>1, <2>3, <3>1
  <2> QED
    BY <2>2, <2>3
<1>15. RemoveAt(s, k) = r
  BY <1>1, <1>2, <1>3, <1>11 DEF RemoveAt
<1> QED
  BY <1>1, <1>12, <1>13, <1>14, <1>15 DEF Drops

(* DeleteFile takes the first file of the id out of its level.             *)
Without(s, x) == RemoveFirstMatch(s, LAMBDA f : f.id = x)

LEMMA WithoutDrops ==
    ASSUME NEW s \in Seq(FileSet), NEW x
    PROVE  \/ Without(s, x) = s /\ \A i \in 1..Len(s) : s[i].id # x
           \/ \E k \in 1..Len(s) : s[k].id = x /\ Drops(Without(s, x), s, k)
<1> DEFINE I == {i \in 1..Len(s) : s[i].id = x}
<1>1. CASE I = {}
  <2>1. ~\E i \in 1..Len(s) : s[i].id = x
    BY <1>1
  <2> QED
    BY <2>1 DEF Without, RemoveFirstMatch
<1>2. CASE I # {}
  <2>1. I \in SUBSET Nat
    OBVIOUS
  <2>2. \E k \in I : \A y \in I : k <= y
    <3> HIDE DEF I
    <3> QED
      BY <1>2, <2>1, LeastNat
  <2>3. Min(I) \in I
    BY <2>2 DEF Min
  <2>4. SelectInSeq(s, LAMBDA f : f.id = x) = Min(I)
    BY <1>2 DEF SelectInSeq
  <2>5. \E i \in 1..Len(s) : s[i].id = x
    BY <1>2
  <2>6. Without(s, x) = RemoveAt(s, Min(I))
    BY <2>4, <2>5 DEF Without, RemoveFirstMatch
  <2>7. Min(I) \in 1..Len(s) /\ s[Min(I)].id = x
    BY <2>3
  <2> HIDE DEF I
  <2>8. Drops(RemoveAt(s, Min(I)), s, Min(I))
    BY <2>7, RemoveAtDrops
  <2> QED
    BY <2>6, <2>7, <2>8
<1> QED
  BY <1>1, <1>2

(* A level without a file is a level.                                      *)
LEMMA LevelWithout ==
    ASSUME NEW l \in 1..2, NEW s, Level(s, l), NEW x, NEW r, r = Without(s, x)
    PROVE  Level(r, l) /\ \A f : f \in ToSet(r) <=> f \in ToSet(s) /\ f.id # x
<1>1. s \in Seq(FileSet)
  BY DEF Level
<1>2. PICK n \in Nat : n = Len(s)
  BY <1>1
<1>3. DOMAIN s = 1..n
  BY <1>1, <1>2
<1>4. CASE r = s /\ \A i \in 1..n : s[i].id # x
  <2>1. \A f \in ToSet(s) : f.id # x
    BY <1>3, <1>4 DEF ToSet
  <2> QED
    BY <1>4, <2>1
<1>5. ASSUME NEW k \in 1..n, s[k].id = x, Drops(r, s, k)
      PROVE  Level(r, l) /\ \A f : f \in ToSet(r) <=> f \in ToSet(s) /\ f.id # x
  <2>1. /\ r \in Seq(FileSet) /\ Len(r) = n - 1 /\ DOMAIN r = 1..(n - 1)
        /\ \A i \in 1..(n - 1) : r[i] = IF i < k THEN s[i] ELSE s[i + 1]
    BY <1>2, <1>5 DEF Drops
  <2>2. /\ \A i \in 1..n : s[i].level = l - 1
        /\ \A i, j \in 1..n : i < j => Before(l, s[i], s[j])
    BY <1>2 DEF Level
  <2>3. PICK p : p = [i \in 1..(n - 1) |-> IF i < k THEN i ELSE i + 1]
    OBVIOUS
  <2>4. \A i \in 1..(n - 1) : p[i] \in 1..n /\ p[i] # k /\ r[i] = s[p[i]]
    BY <2>1, <2>3
  <2>5. \A i, j \in 1..(n - 1) : i < j => p[i] < p[j]
    BY <2>3
  <2>6. \A j \in 1..n : j # k => \E i \in 1..(n - 1) : p[i] = j
    <3> TAKE j \in 1..n
    <3> HAVE j # k
    <3>1. CASE j < k
      <4>1. j \in 1..(n - 1) /\ p[j] = j
        BY <2>3, <3>1
      <4> QED
        BY <4>1
    <3>2. CASE ~(j < k)
      <4>1. j - 1 \in 1..(n - 1) /\ ~(j - 1 < k) /\ (j - 1) + 1 = j
        BY <3>2
      <4>2. p[j - 1] = j
        BY <2>3, <4>1
      <4> QED
        BY <4>1, <4>2
    <3> QED
      BY <3>1, <3>2
  <2>7. Level(r, l)
    <3>1. \A i \in 1..(n - 1) : r[i].level = l - 1
      BY ONLY <2>2, <2>4
    <3>2. \A i, j \in 1..(n - 1) : i < j => Before(l, r[i], r[j])
      BY ONLY <2>2, <2>4, <2>5
    <3> QED
      BY <2>1, <3>1, <3>2 DEF Level
  <2>8. \A i \in 1..n : i # k => s[i].id # x
    <3> TAKE i \in 1..n
    <3> HAVE i # k
    <3>1. i < k \/ k < i
      OBVIOUS
    <3>2. Before(l, s[i], s[k]) \/ Before(l, s[k], s[i])
      BY <2>2, <3>1
    <3> QED
      BY <1>5, <3>2 DEF Before
  <2>9. ASSUME NEW f PROVE f \in ToSet(r) <=> f \in ToSet(s) /\ f.id # x
    <3>1. f \in ToSet(r) <=> \E i \in 1..(n - 1) : r[i] = f
      BY <2>1 DEF ToSet
    <3>2. f \in ToSet(s) <=> \E i \in 1..n : s[i] = f
      BY <1>3 DEF ToSet
    <3>3. ASSUME f \in ToSet(r) PROVE f \in ToSet(s) /\ f.id # x
      BY ONLY <3>1, <3>2, <3>3, <2>4, <2>8
    <3>4. ASSUME f \in ToSet(s), f.id # x PROVE f \in ToSet(r)
      <4>1. PICK j \in 1..n : s[j] = f
        BY <3>2, <3>4
      <4>2. j # k
        BY <1>5, <3>4, <4>1
      <4>3. PICK i \in 1..(n - 1) : p[i] = j
        BY <2>6, <4>2
      <4> QED
        BY <2>4, <3>1, <4>1, <4>3
    <3> QED
      BY <3>3, <3>4
  <2> QED
    BY <2>7, <2>9
<1> QED
  BY <1>1, <1>2, <1>4, <1>5, WithoutDrops

(* Sorting. *)

Perms(n) == Bijection(1..n, 1..n)
Sorts(p, s, n) ==
    \A i, j \in 1..n : i < j => ~KeyLess(s[p[j]].smallest, s[p[i]].smallest)

LEMMA PermFacts ==
    ASSUME NEW n \in Nat, NEW p
    PROVE  p \in Perms(n) <=>
             /\ p \in [1..n -> 1..n]
             /\ \A i, j \in 1..n : p[i] = p[j] => i = j
             /\ \A k \in 1..n : \E i \in 1..n : p[i] = k
  BY DEF Perms, Bijection, Injection, Surjection, IsInjective

(* The sort returns an ordering if there is one.                           *)
LEMMA SortFinds ==
    ASSUME NEW n \in Nat, NEW s, DOMAIN s = 1..n, NEW q \in Perms(n), Sorts(q, s, n)
    PROVE  \E p \in Perms(n) : Sorts(p, s, n) /\ SortFiles(s) = [i \in 1..n |-> s[p[i]]]
<1> DEFINE S(p) == \A i, j \in DOMAIN s : i < j => ~KeyLess(s[p[j]].smallest, s[p[i]].smallest)
           perm == CHOOSE p \in Bijection(DOMAIN s, DOMAIN s) : S(p)
<1>1. q \in Bijection(DOMAIN s, DOMAIN s) /\ S(q)
  BY DEF Perms, Sorts
<1>2. perm \in Bijection(DOMAIN s, DOMAIN s) /\ S(perm)
  BY <1>1, Zenon
<1>3. SortFiles(s) = [i \in DOMAIN s |-> s[perm[i]]]
  BY DEF SortFiles
<1>4. perm \in Perms(n) /\ Sorts(perm, s, n)
  BY <1>2 DEF Perms, Sorts
<1> HIDE DEF perm
<1> QED
  BY <1>3, <1>4

(* Files of one level, any two of which the keys order.                    *)
Comparable(s, n) ==
    /\ s \in Seq(FileSet) /\ Len(s) = n /\ DOMAIN s = 1..n
    /\ \A i \in 1..n : s[i].level = 1
    /\ \A i, j \in 1..n : i # j =>
         Before(2, s[i], s[j]) \/ Before(2, s[j], s[i])

LEMMA SortedLevel ==
    ASSUME NEW n \in Nat, NEW s, Comparable(s, n), NEW q \in Perms(n), Sorts(q, s, n),
           NEW r, r = SortFiles(s)
    PROVE  Level(r, 2) /\ ToSet(r) = ToSet(s)
<1>1. /\ s \in Seq(FileSet) /\ Len(s) = n /\ DOMAIN s = 1..n
      /\ \A i \in 1..n : s[i].level = 1 /\ s[i] \in FileSet
      /\ \A i, j \in 1..n : i # j => Before(2, s[i], s[j]) \/ Before(2, s[j], s[i])
  BY DEF Comparable
<1>2. PICK p \in Perms(n) : Sorts(p, s, n) /\ r = [i \in 1..n |-> s[p[i]]]
  BY <1>1, SortFinds
<1>3. /\ p \in [1..n -> 1..n]
      /\ \A i, j \in 1..n : p[i] = p[j] => i = j
      /\ \A k \in 1..n : \E i \in 1..n : p[i] = k
  BY <1>2, PermFacts
<1>4. \A i \in 1..n : r[i] = s[p[i]] /\ p[i] \in 1..n
  BY <1>2, <1>3
<1>5. r \in Seq(FileSet) /\ Len(r) = n /\ DOMAIN r = 1..n
  <2>1. \A i \in 1..n : s[p[i]] \in FileSet
    BY ONLY <1>1, <1>4
  <2> QED
    BY <1>2, <2>1
<1>6. ASSUME NEW i \in 1..n, NEW j \in 1..n, i < j PROVE Before(2, r[i], r[j])
  <2>1. p[i] # p[j]
    BY <1>3, <1>6
  <2>2. Before(2, s[p[i]], s[p[j]]) \/ Before(2, s[p[j]], s[p[i]])
    BY <1>1, <1>4, <2>1
  <2>3. ~KeyLess(s[p[j]].smallest, s[p[i]].smallest)
    BY <1>2, <1>6 DEF Sorts
  <2>4. ~Before(2, s[p[j]], s[p[i]])
    BY <2>3 DEF Before
  <2> QED
    BY ONLY <1>4, <2>2, <2>4, i \in 1..n, j \in 1..n
<1>7. \A i \in 1..n : r[i].level = 2 - 1
  BY ONLY <1>1, <1>4, 2 - 1 = 1
<1>8. Level(r, 2)
  BY <1>5, <1>6, <1>7 DEF Level
<1>9. ASSUME NEW f PROVE f \in ToSet(r) <=> f \in ToSet(s)
  <2>1. f \in ToSet(r) <=> \E i \in 1..n : r[i] = f
    BY <1>5 DEF ToSet
  <2>2. f \in ToSet(s) <=> \E i \in 1..n : s[i] = f
    BY <1>1 DEF ToSet
  <2>3. ASSUME NEW k \in 1..n, s[k] = f PROVE \E i \in 1..n : r[i] = f
    <3>1. PICK i \in 1..n : p[i] = k
      BY <1>3
    <3> QED
      BY <1>4, <2>3, <3>1
  <2> QED
    BY ONLY <1>4, <2>1, <2>2, <2>3
<1> QED
  BY <1>8, <1>9

(* The keys are ordered.                                                   *)
LEMMA KeyOrder ==
    /\ \A f, g, h \in FileSet : KeyLess(f.smallest, g.smallest) /\ KeyLess(g.smallest, h.smallest)
                                  => KeyLess(f.smallest, h.smallest)
    /\ \A f, g \in FileSet : ~(KeyLess(f.smallest, g.smallest) /\ KeyLess(g.smallest, f.smallest))
    /\ \A f, g \in FileSet : f.smallest.seq # g.smallest.seq =>
         KeyLess(f.smallest, g.smallest) \/ KeyLess(g.smallest, f.smallest)
<1>1. \A f \in FileSet : f.smallest.user \in Nat /\ f.smallest.seq \in Nat
  BY DEF FileSet, KeySet
<1> QED
  BY <1>1 DEF KeyLess

(* Sorting a level again keeps its files.                                  *)
LEMMA SortAgain ==
    ASSUME NEW s, Level(s, 2), NEW r, r = SortFiles(s)
    PROVE  Level(r, 2) /\ ToSet(r) = ToSet(s)
<1>1. s \in Seq(FileSet)
  BY DEF Level
<1>2. PICK n \in Nat : n = Len(s)
  BY <1>1
<1>3. /\ \A i \in 1..n : s[i].level = 1 /\ s[i] \in FileSet
      /\ \A i, j \in 1..n : i < j => Before(2, s[i], s[j])
  BY <1>1, <1>2 DEF Level
<1>4. Comparable(s, n)
  <2>1. \A i, j \in 1..n : i # j => i < j \/ j < i
    OBVIOUS
  <2>2. \A i, j \in 1..n : i # j => Before(2, s[i], s[j]) \/ Before(2, s[j], s[i])
    BY ONLY <1>3, <2>1
  <2>3. Len(s) = n /\ DOMAIN s = 1..n
    BY <1>1, <1>2
  <2> QED
    BY <1>1, <1>3, <2>2, <2>3 DEF Comparable
<1>5. PICK q : q = [i \in 1..n |-> i]
  OBVIOUS
<1>6. q \in Perms(n) /\ \A i \in 1..n : q[i] = i
  BY <1>5, PermFacts
<1>7. ASSUME NEW i \in 1..n, NEW j \in 1..n, i < j
      PROVE  ~KeyLess(s[j].smallest, s[i].smallest)
  <2>1. KeyLess(s[i].smallest, s[j].smallest)
    BY <1>3, <1>7 DEF Before
  <2> QED
    BY <1>3, <2>1, KeyOrder
<1>8. Sorts(q, s, n)
  BY <1>6, <1>7 DEF Sorts
<1> QED
  BY <1>4, <1>6, <1>8, SortedLevel

(* A file behind those of t, of another id and another sequence number.    *)
Behind(s, t, n, f) ==
    /\ Level(t, 2) /\ Len(t) = n /\ f \in FileSet /\ f.level = 1
    /\ \A i \in 1..n : t[i].id # f.id /\ t[i].smallest.seq # f.smallest.seq
    /\ s \in Seq(FileSet) /\ Len(s) = n + 1 /\ DOMAIN s = 1..(n + 1)
    /\ s[n + 1] = f /\ \A i \in 1..n : s[i] = t[i]

(* It is comparable to them, and there is a place for it.                  *)
LEMMA BehindComparable ==
    ASSUME NEW n \in Nat, NEW s, NEW t, NEW f, Behind(s, t, n, f)
    PROVE  Comparable(s, n + 1)
<1>1. /\ t \in Seq(FileSet) /\ Len(t) = n /\ f \in FileSet /\ f.level = 1
      /\ \A i \in 1..n : t[i].level = 1 /\ t[i] \in FileSet
      /\ \A i, j \in 1..n : i < j => Before(2, t[i], t[j])
  BY DEF Behind, Level
<1>2. /\ s \in Seq(FileSet) /\ Len(s) = n + 1 /\ DOMAIN s = 1..(n + 1)
      /\ s[n + 1] = f /\ \A i \in 1..n : s[i] = t[i]
      /\ \A i \in 1..n : t[i].id # f.id /\ t[i].smallest.seq # f.smallest.seq
  BY DEF Behind
<1>3. \A i \in 1..(n + 1) : i \in 1..n \/ i = n + 1
  OBVIOUS
<1>4. \A i \in 1..(n + 1) : s[i].level = 1
  BY ONLY <1>1, <1>2, <1>3
<1>5. \A i \in 1..n : Before(2, t[i], f) \/ Before(2, f, t[i])
  <2> TAKE i \in 1..n
  <2>1. KeyLess(t[i].smallest, f.smallest) \/ KeyLess(f.smallest, t[i].smallest)
    BY <1>1, <1>2, KeyOrder
  <2> QED
    BY <1>2, <2>1 DEF Before
<1>6. ASSUME NEW i \in 1..(n + 1), NEW j \in 1..(n + 1), i # j
      PROVE  Before(2, s[i], s[j]) \/ Before(2, s[j], s[i])
  <2>1. CASE i \in 1..n /\ j \in 1..n
    <3>1. i < j \/ j < i
      BY <1>6, <2>1
    <3> QED
      BY <1>1, <1>2, <2>1, <3>1
  <2>2. CASE i = n + 1 /\ j \in 1..n
    BY ONLY <1>2, <1>5, <2>2
  <2>3. CASE i \in 1..n /\ j = n + 1
    BY ONLY <1>2, <1>5, <2>3
  <2> QED
    BY <1>3, <1>6, <2>1, <2>2, <2>3
<1> QED
  BY <1>2, <1>4, <1>6 DEF Comparable

(* The permutation that moves the last of n + 1 elements to place k.       *)
Moves(q, n, k) ==
    q = [i \in 1..(n + 1) |-> IF i < k THEN i ELSE IF i = k THEN n + 1 ELSE i - 1]

LEMMA MovesPermutes ==
    ASSUME NEW n \in Nat, NEW k \in 1..(n + 1), NEW q, Moves(q, n, k)
    PROVE  q \in Perms(n + 1)
<1>1. q = [i \in 1..(n + 1) |-> IF i < k THEN i ELSE IF i = k THEN n + 1 ELSE i - 1]
  BY DEF Moves
<1>2. q \in [1..(n + 1) -> 1..(n + 1)]
  BY <1>1
<1>3. ASSUME NEW i \in 1..(n + 1), NEW j \in 1..(n + 1), q[i] = q[j] PROVE i = j
  BY <1>1, <1>3
<1>4. ASSUME NEW m \in 1..(n + 1) PROVE \E i \in 1..(n + 1) : q[i] = m
  <2>1. CASE m < k
    <3>1. q[m] = m
      BY <1>1, <2>1
    <3> QED
      BY <3>1
  <2>2. CASE m = n + 1
    <3>1. q[k] = n + 1
      BY <1>1
    <3> QED
      BY <2>2, <3>1
  <2>3. CASE m >= k /\ m # n + 1
    <3>1. m + 1 \in 1..(n + 1) /\ ~(m + 1 < k) /\ m + 1 # k /\ (m + 1) - 1 = m
      BY <2>3
    <3>2. q[m + 1] = m
      BY ONLY <1>1, <3>1
    <3> QED
      BY <3>1, <3>2
  <2> QED
    BY <2>1, <2>2, <2>3
<1>5. n + 1 \in Nat
  OBVIOUS
<1> QED
  BY <1>2, <1>3, <1>4, <1>5, PermFacts

LEMMA BehindSorts ==
    ASSUME NEW n \in Nat, NEW s, NEW t, NEW f, Behind(s, t, n, f)
    PROVE  \E q \in Perms(n + 1) : Sorts(q, s, n + 1)
<1>1. /\ f \in FileSet
      /\ \A i \in 1..n : t[i] \in FileSet
      /\ \A i, j \in 1..n : i < j => Before(2, t[i], t[j])
  BY DEF Behind, Level
<1>2. s[n + 1] = f /\ \A i \in 1..n : s[i] = t[i]
  BY DEF Behind
<1> DEFINE P == {i \in 1..(n + 1) : i = n + 1 \/ KeyLess(f.smallest, t[i].smallest)}
<1>3. \E k \in P : \A y \in P : k <= y
  <2>1. P \in SUBSET Nat /\ n + 1 \in P
    OBVIOUS
  <2> HIDE DEF P
  <2> QED
    BY <2>1, LeastNat
<1>4. PICK k \in 1..(n + 1) :
        /\ k = n + 1 \/ KeyLess(f.smallest, t[k].smallest)
        /\ \A i \in 1..n : i < k => ~KeyLess(f.smallest, t[i].smallest)
  <2>1. PICK k \in P : \A y \in P : k <= y
    BY <1>3
  <2>2. k \in 1..(n + 1) /\ (k = n + 1 \/ KeyLess(f.smallest, t[k].smallest))
    BY <2>1
  <2>3. ASSUME NEW i \in 1..n, i < k, KeyLess(f.smallest, t[i].smallest) PROVE FALSE
    <3>1. i \in P
      BY <2>3
    <3>2. k <= i
      BY <2>1, <3>1
    <3> QED
      BY <2>2, <2>3, <3>2
  <2> QED
    BY <2>2, <2>3
<1> HIDE DEF P
<1>5. \A i \in 1..n : i >= k => ~KeyLess(t[i].smallest, f.smallest)
  <2> TAKE i \in 1..n
  <2> HAVE i >= k
  <2>1. k \in 1..n /\ k # n + 1
    OBVIOUS
  <2>2. KeyLess(f.smallest, t[k].smallest)
    BY <1>4, <2>1
  <2>3. KeyLess(f.smallest, t[i].smallest)
    <3>1. CASE i = k
      BY <2>2, <3>1
    <3>2. CASE k < i
      <4>1. KeyLess(t[k].smallest, t[i].smallest)
        BY <1>1, <2>1, <3>2 DEF Before
      <4> QED
        BY <1>1, <2>1, <2>2, <4>1, KeyOrder
    <3> QED
      BY <2>1, <3>1, <3>2
  <2> QED
    BY <1>1, <2>3, KeyOrder
<1>6. \A i, j \in 1..n : i < j => ~KeyLess(t[j].smallest, t[i].smallest)
  <2> TAKE i, j \in 1..n
  <2> HAVE i < j
  <2>1. KeyLess(t[i].smallest, t[j].smallest)
    BY <1>1 DEF Before
  <2> QED
    BY <1>1, <2>1, KeyOrder
<1>7. PICK q : Moves(q, n, k)
  BY DEF Moves
<1>8. /\ \A i \in 1..(n + 1) : i < k => q[i] = i /\ i \in 1..n
      /\ q[k] = n + 1
      /\ \A i \in 1..(n + 1) : i > k => q[i] = i - 1 /\ i - 1 \in 1..n /\ i - 1 >= k
  BY <1>7 DEF Moves
<1>9. ASSUME NEW i \in 1..(n + 1), NEW j \in 1..(n + 1), i < j
      PROVE  ~KeyLess(s[q[j]].smallest, s[q[i]].smallest)
  <2>1. CASE j < k
    <3>1. i < k
      BY <1>9, <2>1
    <3>2. s[q[i]] = t[i] /\ s[q[j]] = t[j] /\ i \in 1..n /\ j \in 1..n
      BY ONLY <1>2, <1>8, <2>1, <3>1, i \in 1..(n + 1), j \in 1..(n + 1)
    <3> QED
      BY <1>6, <1>9, <3>2
  <2>2. CASE j = k
    <3>1. i < k
      BY <1>9, <2>2
    <3>2. s[q[i]] = t[i] /\ s[q[j]] = f /\ i \in 1..n
      BY ONLY <1>2, <1>8, <2>2, <3>1, i \in 1..(n + 1)
    <3> QED
      BY <1>4, <3>1, <3>2
  <2>3. CASE j > k
    <3>0. s[q[j]] = t[j - 1] /\ j - 1 \in 1..n /\ j - 1 >= k
      BY ONLY <1>2, <1>8, <2>3, j \in 1..(n + 1)
    <3>1. CASE i < k
      <4>1. s[q[i]] = t[i] /\ i \in 1..n
        BY ONLY <1>2, <1>8, <3>1, i \in 1..(n + 1)
      <4>2. i < j - 1
        BY <3>0, <3>1
      <4> QED
        BY <1>6, <3>0, <4>1, <4>2
    <3>2. CASE i = k
      <4>1. s[q[i]] = f
        BY ONLY <1>2, <1>8, <3>2
      <4> QED
        BY <1>5, <3>0, <4>1
    <3>3. CASE i > k
      <4>1. s[q[i]] = t[i - 1] /\ i - 1 \in 1..n
        BY ONLY <1>2, <1>8, <3>3, i \in 1..(n + 1)
      <4>2. i - 1 < j - 1
        BY <1>9
      <4> QED
        BY <1>6, <3>0, <4>1, <4>2
    <3> QED
      BY <3>1, <3>2, <3>3
  <2> QED
    BY <2>1, <2>2, <2>3
<1>10. q \in Perms(n + 1)
  BY <1>7, MovesPermutes
<1> QED
  BY <1>9, <1>10 DEF Sorts

(* A new file goes to its place in a sorted level.                         *)
LEMMA SortInsert ==
    ASSUME NEW t, Level(t, 2), NEW f \in FileSet, f.level = 1,
           \A g \in ToSet(t) : g.id # f.id /\ g.smallest.seq # f.smallest.seq,
           NEW r, r = SortFiles(Append(t, f))
    PROVE  Level(r, 2) /\ ToSet(r) = ToSet(t) \cup {f}
<1>1. t \in Seq(FileSet)
  BY DEF Level
<1>2. PICK n \in Nat : n = Len(t)
  BY <1>1
<1>3. PICK s : s = Append(t, f)
  OBVIOUS
<1>4. /\ s \in Seq(FileSet) /\ Len(s) = n + 1 /\ DOMAIN s = 1..(n + 1) /\ DOMAIN t = 1..n
      /\ s[n + 1] = f /\ \A i \in 1..n : s[i] = t[i]
  BY <1>1, <1>2, <1>3, AppendProperties
<1>5. Behind(s, t, n, f)
  <2>1. \A i \in 1..n : t[i] \in ToSet(t)
    BY <1>4 DEF ToSet
  <2> QED
    BY <1>2, <1>4, <2>1 DEF Behind
<1>6. PICK q \in Perms(n + 1) : Sorts(q, s, n + 1)
  BY <1>5, BehindSorts
<1>7. Comparable(s, n + 1) /\ n + 1 \in Nat
  BY <1>5, BehindComparable
<1>8. Level(r, 2) /\ ToSet(r) = ToSet(s)
  BY <1>3, <1>6, <1>7, SortedLevel
<1>9. ToSet(s) = ToSet(t) \cup {f}
  <2>1. \A x : x \in ToSet(s) <=> \E i \in 1..(n + 1) : s[i] = x
    BY <1>4 DEF ToSet
  <2>2. \A x : x \in ToSet(t) <=> \E i \in 1..n : t[i] = x
    BY <1>4 DEF ToSet
  <2>3. \A i : i \in 1..(n + 1) <=> i \in 1..n \/ i = n + 1
    OBVIOUS
  <2>4. \A x : x \in ToSet(s) <=> x \in ToSet(t) \/ x = f
    BY ONLY <1>4, <2>1, <2>2, <2>3
  <2> QED
    BY ONLY <2>4
<1> QED
  BY <1>8, <1>9

(* The order of the flushes: a new file of level 0 goes behind the others. *)
LEMMA LevelAppend ==
    ASSUME NEW t, Level(t, 1), NEW f \in FileSet, f.level = 0,
           \A g \in ToSet(t) : g.id < f.id, NEW s, s = Append(t, f)
    PROVE  Level(s, 1) /\ ToSet(s) = ToSet(t) \cup {f}
<1>1. t \in Seq(FileSet)
  BY DEF Level
<1>2. PICK n \in Nat : n = Len(t)
  BY <1>1
<1>3. /\ s \in Seq(FileSet) /\ Len(s) = n + 1 /\ DOMAIN s = 1..(n + 1) /\ DOMAIN t = 1..n
      /\ s[n + 1] = f /\ \A i \in 1..n : s[i] = t[i]
  BY <1>1, <1>2, AppendProperties
<1>4. \A i : i \in 1..(n + 1) <=> i \in 1..n \/ i = n + 1
  OBVIOUS
<1>5. /\ \A i \in 1..n : t[i].level = 0 /\ t[i] \in ToSet(t) /\ t[i] \in FileSet
      /\ \A i, j \in 1..n : i < j => Before(1, t[i], t[j])
  BY <1>1, <1>2, <1>3 DEF Level, ToSet
<1>6. \A i \in 1..n : Before(1, t[i], f)
  <2> TAKE i \in 1..n
  <2>1. t[i].id < f.id /\ t[i].id \in Nat /\ f.id \in Nat
    BY <1>5 DEF FileSet
  <2>2. t[i].id # f.id
    BY <2>1
  <2> QED
    BY <2>1, <2>2 DEF Before
<1>7. ASSUME NEW i \in 1..(n + 1), NEW j \in 1..(n + 1), i < j PROVE Before(1, s[i], s[j])
  <2>1. i \in 1..n
    BY <1>7
  <2>2. CASE j \in 1..n
    BY <1>3, <1>5, <1>7, <2>1, <2>2
  <2>3. CASE j = n + 1
    BY ONLY <1>3, <1>6, <2>1, <2>3
  <2> QED
    BY <1>4, <2>2, <2>3
<1>8. \A i \in 1..(n + 1) : s[i].level = 1 - 1
  BY ONLY <1>3, <1>4, <1>5, 1 - 1 = 0, f.level = 0
<1>9. Level(s, 1)
  BY <1>3, <1>7, <1>8 DEF Level
<1>10. ToSet(s) = ToSet(t) \cup {f}
  <2>1. \A x : x \in ToSet(s) <=> \E i \in 1..(n + 1) : s[i] = x
    BY <1>3 DEF ToSet
  <2>2. \A x : x \in ToSet(t) <=> \E i \in 1..n : t[i] = x
    BY <1>3 DEF ToSet
  <2>3. \A x : x \in ToSet(s) <=> x \in ToSet(t) \/ x = f
    BY ONLY <1>3, <1>4, <2>1, <2>2
  <2> QED
    BY ONLY <2>3
<1> QED
  BY <1>9, <1>10

-----------------------------------------------------------------------------
(* Versions. *)

VersionOf(v, n) ==
    /\ n \in 0..2 /\ v \in Seq(Seq(FileSet)) /\ Len(v) = n /\ DOMAIN v = 1..n
    /\ \A l \in 1..n : Level(v[l], l)
IsVersion(v) == \E n \in 0..2 : VersionOf(v, n)
HasFile(v, f) == \E l \in DOMAIN v : f \in ToSet(v[l])

(* A function on 1..n whose values are levels is a Version.                *)
LEMMA LevelsMake ==
    ASSUME NEW n \in 0..2, NEW v, v = [l \in 1..n |-> v[l]],
           \A l \in 1..n : Level(v[l], l)
    PROVE  VersionOf(v, n)
<1>1. PICK D : D = Seq(FileSet)
  OBVIOUS
<1>2. \A l \in 1..n : v[l] \in D
  BY <1>1 DEF Level
<1>3. v \in [1..n -> D] /\ n \in Nat
  BY <1>2
<1>4. v \in Seq(D) /\ Len(v) = n
  BY <1>3
<1> QED
  BY <1>1, <1>4 DEF VersionOf

(* The files of level l are those with that level.                         *)
LEMMA FileAt ==
    ASSUME NEW n, NEW v, VersionOf(v, n), NEW f, NEW l \in 1..n, f \in ToSet(v[l])
    PROVE  f \in FileSet /\ f.level = l - 1
<1>1. Level(v[l], l)
  BY DEF VersionOf
<1>2. v[l] \in Seq(FileSet) /\ \A i \in 1..Len(v[l]) : v[l][i].level = l - 1
  BY <1>1 DEF Level
<1>3. PICK i \in DOMAIN v[l] : f = v[l][i]
  BY DEF ToSet
<1>4. i \in 1..Len(v[l])
  BY <1>2, <1>3
<1> QED
  BY <1>2, <1>3, <1>4

LEMMA DeletesFile ==
    ASSUME NEW n, NEW v, VersionOf(v, n), NEW d \in DelSet, NEW w, w = DeleteFile(v, d)
    PROVE  /\ VersionOf(w, n)
           /\ \A f : HasFile(w, f) <=> HasFile(v, f) /\ ~(f.level = d.level /\ f.id = d.id)
<1>1. /\ n \in 0..2 /\ Len(v) = n /\ DOMAIN v = 1..n /\ \A l \in 1..n : Level(v[l], l)
  BY DEF VersionOf
<1>2. d.level \in 0..1 /\ d.id \in Nat
  BY DEF DelSet
<1>3. \A f : \A l \in 1..n : f \in ToSet(v[l]) => f.level = l - 1
  BY FileAt
<1>4. CASE d.level >= n
  <2>1. w = v
    BY <1>1, <1>4 DEF DeleteFile
  <2>2. \A l \in 1..n : l - 1 # d.level
    BY <1>1, <1>2, <1>4
  <2>3. \A f : HasFile(v, f) => f.level # d.level
    BY ONLY <1>1, <1>3, <2>2 DEF HasFile
  <2> QED
    BY <2>1, <2>3
<1>5. CASE ~(d.level >= n)
  <2>1. PICK k \in 1..n : k = d.level + 1
    BY <1>1, <1>2, <1>5
  <2>2. PICK t : t = Without(v[k], d.id)
    OBVIOUS
  <2>3. w = [v EXCEPT ![k] = t]
    BY <1>1, <1>5, <2>1, <2>2 DEF DeleteFile, Without
  <2>4. DOMAIN w = 1..n /\ w[k] = t /\ \A l \in 1..n : l # k => w[l] = v[l]
    BY <1>1, <2>3
  <2>5. Level(t, k) /\ \A f : f \in ToSet(t) <=> f \in ToSet(v[k]) /\ f.id # d.id
    <3>1. k \in 1..2 /\ Level(v[k], k)
      BY <1>1
    <3> QED
      BY <2>2, <3>1, LevelWithout
  <2>6. \A l \in 1..n : Level(w[l], l)
    BY ONLY <1>1, <2>4, <2>5
  <2>7. VersionOf(w, n)
    <3>1. w = [l \in 1..n |-> w[l]]
      BY <1>1, <2>3, <2>4
    <3> QED
      BY <1>1, <2>6, <3>1, LevelsMake
  <2>8. \A l \in 1..n : (l - 1 = d.level) <=> (l = k)
    BY <1>1, <1>2, <2>1
  <2>9. ASSUME NEW f, NEW l \in 1..n
        PROVE  f \in ToSet(w[l]) <=> f \in ToSet(v[l]) /\ ~(f.level = d.level /\ f.id = d.id)
    <3>1. CASE l = k
      BY ONLY <1>3, <2>4, <2>5, <2>8, <3>1, l \in 1..n
    <3>2. CASE l # k
      BY ONLY <1>3, <2>4, <2>8, <3>2, l \in 1..n
    <3> QED
      BY <3>1, <3>2
  <2>10. \A f : HasFile(w, f) <=> HasFile(v, f) /\ ~(f.level = d.level /\ f.id = d.id)
    BY ONLY <1>1, <2>4, <2>9 DEF HasFile
  <2> QED
    BY <2>7, <2>10
<1> QED
  BY <1>4, <1>5

LEMMA Grows ==
    ASSUME NEW n, NEW v, VersionOf(v, n), NEW k \in 1..2, NEW w, w = Grown(v, k)
    PROVE  /\ \E m \in 0..2 : VersionOf(w, m) /\ k \in 1..m
           /\ \A f : HasFile(w, f) <=> HasFile(v, f)
<1>1. /\ n \in 0..2 /\ Len(v) = n /\ DOMAIN v = 1..n /\ \A l \in 1..n : Level(v[l], l)
  BY DEF VersionOf
<1>2. PICK m \in 0..2 : m = IF k > n THEN k ELSE n
  BY <1>1
<1>3. k \in 1..m /\ \A l \in 1..n : l \in 1..m
  BY <1>1, <1>2
<1>4. PICK z : z = <<>>
  OBVIOUS
<1>5. Level(z, 1) /\ Level(z, 2) /\ ToSet(z) = {}
  <2>1. z \in Seq(FileSet) /\ Len(z) = 0 /\ DOMAIN z = {}
    BY <1>4
  <2>2. 1..Len(z) = {}
    BY <2>1
  <2> QED
    BY <2>1, <2>2 DEF Level, ToSet
<1>6. w = [i \in 1..m |-> IF i <= n THEN v[i] ELSE z]
  BY <1>1, <1>2, <1>4 DEF Grown
<1>7. /\ DOMAIN w = 1..m
      /\ \A l \in 1..m : IF l \in 1..n THEN w[l] = v[l] ELSE w[l] = z
  BY <1>1, <1>6
<1>8. \A l \in 1..m : Level(w[l], l)
  <2>1. \A l \in 1..m : l = 1 \/ l = 2
    OBVIOUS
  <2> QED
    BY ONLY <1>1, <1>5, <1>7, <2>1
<1>9. VersionOf(w, m)
  <2>1. w = [l \in 1..m |-> w[l]]
    BY <1>6, <1>7
  <2> QED
    BY <1>8, <2>1, LevelsMake
<1>10. \A f : HasFile(w, f) <=> HasFile(v, f)
  BY ONLY <1>1, <1>3, <1>5, <1>7 DEF HasFile
<1> QED
  BY <1>3, <1>9, <1>10

(* The file of an edit: its id is not in use, its keys are new, and at     *)
(* level 0 it is the youngest.                                             *)
Fresh(v, f) ==
    \A g : HasFile(v, g) => /\ g.id # f.id /\ g.smallest.seq # f.smallest.seq
                            /\ f.level = 0 => g.id < f.id

(* The sort that ends Apply.                                               *)
Sorted(w, T) ==
    [i \in DOMAIN w |-> IF i > 1 /\ i - 1 \in T THEN SortFiles(w[i]) ELSE w[i]]

LEMMA SortedVersion ==
    ASSUME NEW n, NEW v, VersionOf(v, n), NEW T, NEW w, w = Sorted(v, T)
    PROVE  VersionOf(w, n) /\ \A f : HasFile(w, f) <=> HasFile(v, f)
<1>1. n \in 0..2 /\ DOMAIN v = 1..n /\ \A l \in 1..n : Level(v[l], l)
  BY DEF VersionOf
<1>2. w = [i \in 1..n |-> IF i > 1 /\ i - 1 \in T THEN SortFiles(v[i]) ELSE v[i]]
  BY <1>1 DEF Sorted
<1>3. DOMAIN w = 1..n /\ \A i \in 1..n : w[i] = v[i] \/ (i = 2 /\ w[i] = SortFiles(v[i]))
  BY <1>1, <1>2
<1>4. ASSUME NEW l \in 1..n PROVE Level(w[l], l) /\ ToSet(w[l]) = ToSet(v[l])
  <2>1. CASE w[l] = v[l]
    BY <1>1, <2>1
  <2>2. CASE l = 2 /\ w[l] = SortFiles(v[l])
    <3>1. Level(v[l], 2)
      BY <1>1, <2>2
    <3>2. Level(w[l], 2) /\ ToSet(w[l]) = ToSet(v[l])
      BY <2>2, <3>1, SortAgain
    <3> QED
      BY <2>2, <3>2
  <2> QED
    BY <1>3, <2>1, <2>2
<1>5. VersionOf(w, n)
  <2>1. w = [l \in 1..n |-> w[l]]
    BY <1>2, <1>3
  <2> QED
    BY <1>1, <1>4, <2>1, LevelsMake
<1>6. \A f : HasFile(w, f) <=> HasFile(v, f)
  BY ONLY <1>1, <1>3, <1>4 DEF HasFile
<1> QED
  BY <1>5, <1>6

LEMMA AddedVersion ==
    ASSUME NEW n, NEW v, VersionOf(v, n), NEW f \in FileSet, Fresh(v, f),
           NEW T, f.level \in T, NEW w, w = Sorted(AddFile(v, f), T)
    PROVE  IsVersion(w) /\ \A h : HasFile(w, h) <=> HasFile(v, h) \/ h = f
<1>0. f.level \in 0..1
  BY DEF FileSet
<1>1. PICK k \in 1..2 : k = f.level + 1 /\ f.level = k - 1
  BY <1>0
<1>2. PICK g : g = Grown(v, k)
  OBVIOUS
<1>3. PICK m \in 0..2 : VersionOf(g, m) /\ k \in 1..m
  BY <1>2, Grows
<1>4. \A h : HasFile(g, h) <=> HasFile(v, h)
  BY <1>2, Grows
<1>5. DOMAIN g = 1..m /\ \A l \in 1..m : Level(g[l], l)
  BY <1>3 DEF VersionOf
<1>6. PICK a : a = Append(g[k], f)
  OBVIOUS
<1>7. PICK u : u = AddFile(v, f)
  OBVIOUS
<1>8. u = [g EXCEPT ![k] = a]
  BY <1>1, <1>2, <1>6, <1>7 DEF AddFile
<1>9. DOMAIN u = 1..m /\ u[k] = a /\ \A l \in 1..m : l # k => u[l] = g[l]
  BY <1>3, <1>5, <1>8
<1>10. w = [i \in 1..m |-> IF i > 1 /\ i - 1 \in T THEN SortFiles(u[i]) ELSE u[i]]
  BY <1>7, <1>9 DEF Sorted
<1>11. \A h \in ToSet(g[k]) : /\ h.id # f.id /\ h.smallest.seq # f.smallest.seq
                              /\ f.level = 0 => h.id < f.id
  <2> TAKE h \in ToSet(g[k])
  <2>1. HasFile(g, h)
    BY <1>3, <1>5 DEF HasFile
  <2>2. HasFile(v, h)
    BY <1>4, <2>1
  <2> QED
    BY <2>2 DEF Fresh
<1>12. Level(w[k], k) /\ ToSet(w[k]) = ToSet(g[k]) \cup {f}
  <2>1. CASE k = 1
    <3>1. w[k] = a
      <4>1. ~(k > 1)
        BY <2>1
      <4> QED
        BY <1>3, <1>9, <1>10, <4>1
    <3>2. Level(g[k], 1) /\ f.level = 0
      <4>1. f.level = 0
        BY <1>0, <1>1, <2>1
      <4>2. Level(g[k], k)
        BY <1>3, <1>5
      <4> QED
        BY ONLY <2>1, <4>1, <4>2
    <3>3. \A h \in ToSet(g[k]) : h.id < f.id
      BY <1>11, <3>2
    <3>4. Level(a, 1) /\ ToSet(a) = ToSet(g[k]) \cup {f}
      BY <1>6, <3>2, <3>3, LevelAppend
    <3> QED
      BY <2>1, <3>1, <3>4
  <2>2. CASE k = 2
    <3>1. w[k] = SortFiles(a)
      <4>1. k > 1 /\ k - 1 \in T
        BY <1>1, <2>2
      <4> QED
        BY <1>3, <1>9, <1>10, <4>1
    <3>2. Level(g[k], 2) /\ f.level = 1
      <4>1. f.level = 1
        BY <1>0, <1>1, <2>2
      <4>2. Level(g[k], k)
        BY <1>3, <1>5
      <4> QED
        BY ONLY <2>2, <4>1, <4>2
    <3>3. \A h \in ToSet(g[k]) : h.id # f.id /\ h.smallest.seq # f.smallest.seq
      BY <1>11
    <3>4. Level(w[k], 2) /\ ToSet(w[k]) = ToSet(g[k]) \cup {f}
      BY <1>6, <3>1, <3>2, <3>3, SortInsert
    <3> QED
      BY <2>2, <3>4
  <2> QED
    BY <2>1, <2>2
<1>13. ASSUME NEW l \in 1..m, l # k PROVE Level(w[l], l) /\ ToSet(w[l]) = ToSet(g[l])
  <2>0. u[l] = g[l] /\ Level(g[l], l)
    BY <1>5, <1>9, <1>13
  <2>1. w[l] = g[l] \/ (l = 2 /\ w[l] = SortFiles(g[l]))
    BY <1>10, <2>0
  <2>2. CASE w[l] = g[l]
    BY <2>0, <2>2
  <2>3. CASE l = 2 /\ w[l] = SortFiles(g[l])
    <3>1. Level(w[l], 2) /\ ToSet(w[l]) = ToSet(g[l])
      BY <2>0, <2>3, SortAgain
    <3> QED
      BY <2>3, <3>1
  <2> QED
    BY <2>1, <2>2, <2>3
<1>14. VersionOf(w, m)
  <2>1. w = [l \in 1..m |-> w[l]]
    BY <1>10
  <2>2. \A l \in 1..m : Level(w[l], l)
    BY ONLY <1>12, <1>13
  <2> QED
    BY <2>1, <2>2, LevelsMake
<1>15. DOMAIN w = 1..m
  BY <1>10
<1>16. \A h : HasFile(w, h) <=> HasFile(g, h) \/ h = f
  BY ONLY <1>3, <1>5, <1>12, <1>13, <1>15 DEF HasFile
<1> QED
  BY <1>4, <1>14, <1>16 DEF IsVersion

(* Apply: a Version, with the files that the edit does not delete from     *)
(* their level and those it adds.                                          *)
Deletes(e, f) == \E k \in DOMAIN e.deleted : e.deleted[k] = [level |-> f.level, id |-> f.id]

LEMMA AppliedDeletes ==
    ASSUME NEW n, NEW v, VersionOf(v, n), NEW e \in EditSet,
           NEW u, u = FoldLeft(DeleteFile, v, e.deleted)
    PROVE  VersionOf(u, n) /\ \A f : HasFile(u, f) <=> HasFile(v, f) /\ ~Deletes(e, f)
<1>1. PICK d : d = e.deleted
  OBVIOUS
<1>2. d \in Seq(DelSet) /\ Len(d) <= 1
  BY <1>1 DEF EditSet, DelSeqs
<1>3. CASE d = <<>>
  <2>1. u = v
    BY <1>1, <1>3, FoldDelete
  <2>2. DOMAIN d = {}
    BY <1>3
  <2>3. \A f : ~Deletes(e, f)
    BY <1>1, <2>2 DEF Deletes
  <2> QED
    BY <2>1, <2>3
<1>4. CASE d # <<>>
  <2>1. Len(d) = 1 /\ d = <<d[1]>> /\ d[1] \in DelSet
    BY <1>2, <1>4, AtMostOne
  <2>2. DOMAIN d = {1}
    BY <1>2, <2>1
  <2>3. PICK x \in DelSet : x = d[1] /\ d = <<x>>
    BY <2>1
  <2>4. u = DeleteFile(v, x)
    BY <1>1, <1>4, <2>3, FoldDelete
  <2>5. /\ VersionOf(u, n)
        /\ \A f : HasFile(u, f) <=> HasFile(v, f) /\ ~(f.level = x.level /\ f.id = x.id)
    BY <2>4, DeletesFile
  <2>6. \A f : Deletes(e, f) <=> x = [level |-> f.level, id |-> f.id]
    BY <1>1, <2>2, <2>3 DEF Deletes
  <2>7. \A f : x = [level |-> f.level, id |-> f.id] <=> (f.level = x.level /\ f.id = x.id)
    BY DEF DelSet
  <2> QED
    BY ONLY <2>5, <2>6, <2>7
<1> QED
  BY <1>3, <1>4

LEMMA Applied ==
    ASSUME NEW n, NEW v, VersionOf(v, n), NEW e \in EditSet,
           NEW u, u = FoldLeft(DeleteFile, v, e.deleted),
           \A f \in ToSet(e.added) : Fresh(u, f), NEW w, w = Apply(v, e)
    PROVE  /\ IsVersion(w)
           /\ \A f : HasFile(w, f) <=> (HasFile(v, f) /\ ~Deletes(e, f)) \/ f \in ToSet(e.added)
<1>1. VersionOf(u, n) /\ \A f : HasFile(u, f) <=> HasFile(v, f) /\ ~Deletes(e, f)
  BY AppliedDeletes
<1>2. PICK a : a = e.added
  OBVIOUS
<1>3. a \in Seq(FileSet) /\ Len(a) <= 1
  BY <1>2 DEF EditSet, FileSeqs
<1>4. PICK T : T = TouchedLevels(e)
  OBVIOUS
<1>5. w = Sorted(FoldLeft(AddFile, u, a), T)
  BY <1>2, <1>4 DEF Apply, Sorted
<1>6. CASE a = <<>>
  <2>1. FoldLeft(AddFile, u, a) = u
    BY <1>6, FoldAdd
  <2>2. VersionOf(w, n) /\ \A f : HasFile(w, f) <=> HasFile(u, f)
    BY <1>1, <1>5, <2>1, SortedVersion
  <2>3. ToSet(a) = {}
    BY <1>3, <1>6, OneFile
  <2>4. n \in 0..2
    BY <1>1 DEF VersionOf
  <2> QED
    BY <1>1, <1>2, <2>2, <2>3, <2>4 DEF IsVersion
<1>7. CASE a # <<>>
  <2>1. Len(a) = 1 /\ a = <<a[1]>> /\ a[1] \in FileSet
    BY <1>3, <1>7, AtMostOne
  <2>2. PICK f \in FileSet : f = a[1] /\ a = <<f>>
    BY <2>1
  <2>3. ToSet(a) = {f}
    BY <1>3, <1>7, <2>2, OneFile
  <2>4. FoldLeft(AddFile, u, a) = AddFile(u, f)
    BY <1>7, <2>2, FoldAdd
  <2>5. f.level \in T
    <3>1. 1 \in DOMAIN a
      BY <1>3, <2>1
    <3> QED
      BY <1>2, <1>4, <2>2, <3>1 DEF TouchedLevels
  <2>6. Fresh(u, f)
    BY <1>2, <2>3
  <2>7. IsVersion(w) /\ \A h : HasFile(w, h) <=> HasFile(u, h) \/ h = f
    BY <1>1, <1>5, <2>4, <2>5, <2>6, AddedVersion
  <2> QED
    BY <1>1, <1>2, <2>3, <2>7
<1> QED
  BY <1>6, <1>7

LEMMA ConcatFiles ==
    ASSUME NEW a \in Seq(FileSet), NEW b \in Seq(FileSet), NEW f
    PROVE  f \in ToSet(a \o b) <=> f \in ToSet(a) \/ f \in ToSet(b)
<1>1. PICK n \in Nat : n = Len(a)
  OBVIOUS
<1>2. PICK m \in Nat : m = Len(b)
  OBVIOUS
<1>3. PICK r : r = a \o b
  OBVIOUS
<1>4. /\ r \in Seq(FileSet) /\ Len(r) = Len(a) + Len(b)
      /\ \A i \in 1..(Len(a) + Len(b)) : r[i] = IF i <= Len(a) THEN a[i] ELSE b[i - Len(a)]
  BY ONLY <1>3, ConcatProperties, a \in Seq(FileSet), b \in Seq(FileSet)
<1>5. /\ Len(r) = n + m
      /\ \A i \in 1..(n + m) : r[i] = IF i <= n THEN a[i] ELSE b[i - n]
  BY ONLY <1>1, <1>2, <1>4
<1>6. DOMAIN r = 1..(n + m) /\ DOMAIN a = 1..n /\ DOMAIN b = 1..m
  BY <1>1, <1>2, <1>4, <1>5
<1>7. /\ f \in ToSet(r) <=> \E i \in 1..(n + m) : r[i] = f
      /\ f \in ToSet(a) <=> \E i \in 1..n : a[i] = f
      /\ f \in ToSet(b) <=> \E i \in 1..m : b[i] = f
  BY <1>6 DEF ToSet
<1>8. ASSUME NEW i \in 1..(n + m), r[i] = f PROVE f \in ToSet(a) \/ f \in ToSet(b)
  <2>1. CASE i <= n
    <3>1. i \in 1..n /\ a[i] = f
      BY <1>5, <1>8, <2>1
    <3> QED
      BY <1>7, <3>1
  <2>2. CASE ~(i <= n)
    <3>1. i - n \in 1..m /\ b[i - n] = f
      BY <1>5, <1>8, <2>2
    <3> QED
      BY <1>7, <3>1
  <2> QED
    BY <2>1, <2>2
<1>9. ASSUME NEW i \in 1..n, a[i] = f PROVE f \in ToSet(r)
  <2>1. i \in 1..(n + m) /\ i <= n
    OBVIOUS
  <2> QED
    BY <1>5, <1>7, <1>9, <2>1
<1>10. ASSUME NEW i \in 1..m, b[i] = f PROVE f \in ToSet(r)
  <2>1. PICK j \in 1..(n + m) : j = n + i
    OBVIOUS
  <2>2. ~(j <= n) /\ j - n = i
    BY <2>1
  <2> QED
    BY <1>5, <1>7, <1>10, <2>1, <2>2
<1> QED
  BY <1>3, <1>7, <1>8, <1>9, <1>10

(* AllFiles lists the files of all levels.                                 *)
LEMMA AllFilesListed ==
    ASSUME NEW n, NEW v, VersionOf(v, n), NEW f
    PROVE  f \in ToSet(AllFiles(v)) <=> HasFile(v, f)
<1>1. n \in 0..2 /\ Len(v) = n /\ DOMAIN v = 1..n /\ \A l \in 1..n : Level(v[l], l)
  BY DEF VersionOf
<1>2. \A l \in 1..n : v[l] \in Seq(FileSet)
  BY <1>1 DEF Level
<1> DEFINE F(g) == [i \in 1..n |-> IF i = 1 THEN v[i] ELSE g[i - 1] \o v[i]]
           chosen == CHOOSE g : g = F(g)
<1>3. n # 0 => AllFiles(v) = chosen[n]
  BY <1>1 DEF AllFiles, FlattenSeq
<1>4. HasFile(v, f) <=> \E l \in 1..n : f \in ToSet(v[l])
  BY <1>1 DEF HasFile
<1>5. CASE n = 0
  <2>1. AllFiles(v) = v /\ DOMAIN v = {}
    BY <1>1, <1>5 DEF AllFiles, FlattenSeq
  <2>2. ToSet(v) = {}
    BY <2>1 DEF ToSet
  <2>3. 1..n = {}
    BY <1>5
  <2> QED
    BY ONLY <1>4, <2>1, <2>2, <2>3
<1>6. CASE n = 1
  <2>1. PICK h : h = [i \in 1..1 |-> v[1]]
    OBVIOUS
  <2>2. \A i \in 1..1 : i = 1
    OBVIOUS
  <2>3. h = F(h)
    BY <1>6, <2>1, <2>2
  <2>4. chosen = F(chosen)
    BY <2>3, Zenon
  <2>5. chosen[1] = v[1]
    <3> HIDE DEF chosen
    <3>1. 1 \in 1..n
      BY <1>6
    <3> QED
      BY ONLY <2>4, <3>1 DEF F
  <2>6. AllFiles(v) = v[1]
    BY <1>3, <1>6, <2>5
  <2>7. \A l : l \in 1..n <=> l = 1
    BY <1>6
  <2> QED
    BY ONLY <1>4, <2>6, <2>7
<1>7. CASE n = 2
  <2>0. PICK c : c = v[1] \o v[2]
    OBVIOUS
  <2>1. PICK h : h = [i \in 1..2 |-> IF i = 1 THEN v[1] ELSE c]
    OBVIOUS
  <2>2. (\A i \in 1..2 : i = 1 \/ (i = 2 /\ i - 1 = 1 /\ i # 1)) /\ 1 \in 1..2 /\ 2 \in 1..2
    OBVIOUS
  <2>3. h = F(h)
    <3>1. h[1] = v[1]
      BY <2>1, <2>2
    <3>2. \A i \in 1..2 : (IF i = 1 THEN v[1] ELSE c) = (IF i = 1 THEN v[i] ELSE h[i - 1] \o v[i])
      BY ONLY <2>0, <2>2, <3>1
    <3> QED
      BY <1>7, <2>1, <3>2
  <2>4. chosen = F(chosen)
    BY <2>3, Zenon
  <2>5. chosen[2] = v[1] \o v[2]
    <3> HIDE DEF chosen
    <3>1. 1 \in 1..n /\ 2 \in 1..n /\ 2 # 1 /\ 2 - 1 = 1
      BY <1>7
    <3>2. chosen[1] = v[1]
      BY ONLY <2>4, <3>1 DEF F
    <3>3. chosen[2] = chosen[2 - 1] \o v[2]
      BY ONLY <2>4, <3>1 DEF F
    <3> QED
      BY ONLY <3>1, <3>2, <3>3
  <2>6. AllFiles(v) = v[1] \o v[2]
    <3> HIDE DEF chosen
    <3>1. n # 0
      BY <1>7
    <3> QED
      BY ONLY <1>3, <1>7, <2>5, <3>1
  <2>7. \A l : l \in 1..n <=> l = 1 \/ l = 2
    BY <1>7
  <2>8. v[1] \in Seq(FileSet) /\ v[2] \in Seq(FileSet)
    BY ONLY <1>2, <2>7
  <2>9. f \in ToSet(AllFiles(v)) <=> f \in ToSet(v[1]) \/ f \in ToSet(v[2])
    BY <2>6, <2>8, ConcatFiles
  <2> QED
    BY ONLY <1>4, <2>7, <2>9
<1> QED
  BY <1>1, <1>5, <1>6, <1>7

-----------------------------------------------------------------------------
(* The Version against the edit history. *)

LiveIn(es, f) ==
    \E i \in 1..Len(es) :
      f \in ToSet(es[i].added) /\ \A j \in (i + 1)..Len(es) : ~Deletes(es[j], f)

LEMMA LiveAppend ==
    ASSUME NEW es \in Seq(EditSet), NEW e \in EditSet, NEW m, m = Append(es, e), NEW f
    PROVE  LiveIn(m, f) <=> (LiveIn(es, f) /\ ~Deletes(e, f)) \/ f \in ToSet(e.added)
<1>1. PICK n \in Nat : n = Len(es)
  OBVIOUS
<1>2. Len(m) = n + 1 /\ (\A i \in 1..n : m[i] = es[i]) /\ m[n + 1] = e
  BY <1>1, RecsAppend
<1>3. ASSUME LiveIn(m, f)
      PROVE  (LiveIn(es, f) /\ ~Deletes(e, f)) \/ f \in ToSet(e.added)
  <2>1. PICK i \in 1..(n + 1) :
          f \in ToSet(m[i].added) /\ \A j \in (i + 1)..(n + 1) : ~Deletes(m[j], f)
    BY <1>2, <1>3 DEF LiveIn
  <2>2. CASE i = n + 1
    BY <1>2, <2>1, <2>2
  <2>3. CASE i \in 1..n
    <3>1. n + 1 \in (i + 1)..(n + 1)
      BY <2>3
    <3>2. ~Deletes(e, f)
      BY <1>2, <2>1, <3>1
    <3>3. \A j \in (i + 1)..n : j \in 1..n /\ j \in (i + 1)..(n + 1)
      BY <2>3
    <3>4. \A j \in (i + 1)..n : ~Deletes(es[j], f)
      BY ONLY <1>2, <2>1, <3>3
    <3>5. f \in ToSet(es[i].added)
      BY <1>2, <2>1, <2>3
    <3> QED
      BY <1>1, <2>3, <3>2, <3>4, <3>5 DEF LiveIn
  <2> QED
    BY <2>2, <2>3
<1>4. ASSUME LiveIn(es, f), ~Deletes(e, f) PROVE LiveIn(m, f)
  <2>1. PICK i \in 1..n : f \in ToSet(es[i].added) /\ \A j \in (i + 1)..n : ~Deletes(es[j], f)
    BY <1>1, <1>4 DEF LiveIn
  <2>2. \A j \in (i + 1)..(n + 1) : j = n + 1 \/ (j \in 1..n /\ j \in (i + 1)..n)
    OBVIOUS
  <2>3. \A j \in (i + 1)..(n + 1) : ~Deletes(m[j], f)
    BY ONLY <1>2, <1>4, <2>1, <2>2
  <2>4. i \in 1..(n + 1) /\ f \in ToSet(m[i].added)
    BY <1>2, <2>1
  <2> QED
    BY <1>2, <2>3, <2>4 DEF LiveIn
<1>5. ASSUME f \in ToSet(e.added) PROVE LiveIn(m, f)
  <2>1. n + 1 \in 1..(n + 1) /\ f \in ToSet(m[n + 1].added)
    BY <1>2, <1>5
  <2>2. ((n + 1) + 1)..(n + 1) = {}
    OBVIOUS
  <2> QED
    BY <1>2, <2>1, <2>2 DEF LiveIn
<1> QED
  BY <1>3, <1>4, <1>5

(* The Version holds the live files, whose keys are older than the next.   *)
Stands(v, es) == IsVersion(v) /\ \A f : HasFile(v, f) <=> LiveIn(es, f)
SeqsBelow(es) ==
    \A i \in 1..Len(es) : \A f \in ToSet(es[i].added) : f.smallest.seq < 2 * Len(es)

LevelInv ==
    /\ SeqsBelow(edits)
    /\ InStep => Stands(version, edits)
    /\ ReplayOf(edits).err = "nil" => Stands(ReplayOf(edits).version, edits)

LEMMA AddedFile ==
    ASSUME NEW es \in Seq(EditSet), NEW i \in 1..Len(es), NEW f \in ToSet(es[i].added)
    PROVE  f \in FileSet /\ f.id \in KnownOf(es)
<1>1. es[i] \in EditSet /\ i \in DOMAIN es
  OBVIOUS
<1>2. es[i].added \in Seq(FileSet)
  BY <1>1 DEF EditSet, FileSeqs
<1>3. PICK k \in DOMAIN es[i].added : f = es[i].added[k]
  BY DEF ToSet
<1>4. f \in FileSet
  BY <1>2, <1>3
<1>5. f.id \in IDs(es[i].added)
  BY <1>3 DEF IDs
<1> QED
  BY <1>1, <1>4, <1>5 DEF KnownOf

(* Applying an edit that Edits offers.                                     *)
LEMMA EditFresh ==
    ASSUME LogInv, ReplayInv, LevelInv, InStep, NEW e, Shape(e),
           NEW n, VersionOf(version, n), NEW u, u = FoldLeft(DeleteFile, version, e.deleted),
           NEW f \in ToSet(e.added)
    PROVE  Fresh(u, f)
<1>1. edits \in Seq(EditSet) /\ e \in EditSet
  BY DEF LogInv, Shape
<1>2. PICK k \in Nat : k = Len(edits)
  BY <1>1
<1>3. VersionOf(u, n) /\ \A g : HasFile(u, g) <=> HasFile(version, g) /\ ~Deletes(e, g)
  BY <1>1, AppliedDeletes
<1>4. e.added \in Seq(FileSet) /\ Len(e.added) <= 1
  BY <1>1 DEF EditSet, FileSeqs
<1>5. e.added # <<>> /\ f = e.added[1]
  BY <1>4, OneFile
<1>6. /\ f \in FileSet /\ f.smallest.seq = LastSeq
      /\ \/ f.id = nextSSTID
         \/ f.level = 1 /\ f.id \notin IDs(AllFiles(u))
  <2>1. PICK h \in FileSet :
            /\ e.added = <<h>> /\ h.smallest.seq = LastSeq
            /\ \/ h.id = nextSSTID
               \/ h.level = 1 /\ h.id \notin IDs(AllFiles(u))
    BY <1>5 DEF Shape
  <2>2. h = f
    BY <1>5, <2>1
  <2> QED
    BY <2>1, <2>2
<1>7. ASSUME NEW g, HasFile(u, g)
      PROVE  /\ g.id # f.id /\ g.smallest.seq # f.smallest.seq
             /\ f.level = 0 => g.id < f.id
  <2>1. LiveIn(edits, g)
    BY <1>3, <1>7 DEF LevelInv, Stands
  <2>2. PICK i \in 1..k : g \in ToSet(edits[i].added)
    BY <1>2, <2>1 DEF LiveIn
  <2>3. g \in FileSet /\ g.id \in KnownOf(edits)
    BY <1>1, <1>2, <2>2, AddedFile
  <2>4. g.smallest.seq < 2 * k
    BY <1>2, <2>2 DEF LevelInv, SeqsBelow
  <2>5. g.id \in Nat /\ g.smallest.seq \in Nat /\ f.id \in Nat /\ f.level \in 0..1
    BY <1>6, <2>3 DEF FileSet, KeySet
  <2>6. g.smallest.seq # f.smallest.seq
    BY <1>2, <1>6, <2>4, <2>5 DEF LastSeq
  <2>7. CASE f.id = nextSSTID
    <3>1. g.id < f.id
      BY <2>3, <2>7 DEF ReplayInv
    <3> QED
      BY <2>5, <2>6, <3>1
  <2>8. CASE f.level = 1 /\ f.id \notin IDs(AllFiles(u))
    <3>1. g \in ToSet(AllFiles(u))
      BY <1>3, <1>7, AllFilesListed
    <3>2. g.id \in IDs(AllFiles(u))
      BY <3>1 DEF ToSet, IDs
    <3> QED
      BY <2>6, <2>8, <3>2
  <2> QED
    BY <1>6, <2>7, <2>8
<1> QED
  BY <1>7 DEF Fresh

LEMMA Stood ==
    ASSUME LogInv, ReplayInv, LevelInv, InStep, NEW e, Shape(e), NEW es, es = Append(edits, e)
    PROVE  SeqsBelow(es) /\ Stands(Apply(version, e), es)
<1>1. edits \in Seq(EditSet) /\ e \in EditSet
  BY DEF LogInv, Shape
<1>2. PICK k \in Nat : k = Len(edits)
  BY <1>1
<1>3. Len(es) = k + 1 /\ (\A i \in 1..k : es[i] = edits[i]) /\ es[k + 1] = e
  BY <1>1, <1>2, RecsAppend
<1>4. Stands(version, edits)
  BY DEF LevelInv
<1>5. PICK n \in 0..2 : VersionOf(version, n)
  BY <1>4 DEF Stands, IsVersion
<1>6. PICK w : w = Apply(version, e)
  OBVIOUS
<1>7. PICK u : u = FoldLeft(DeleteFile, version, e.deleted)
  OBVIOUS
<1>8. \A f \in ToSet(e.added) : Fresh(u, f)
  BY <1>5, <1>7, EditFresh
<1>9. /\ IsVersion(w)
      /\ \A f : HasFile(w, f) <=>
                  (HasFile(version, f) /\ ~Deletes(e, f)) \/ f \in ToSet(e.added)
  BY <1>1, <1>5, <1>6, <1>7, <1>8, Applied
<1>10. \A f : LiveIn(es, f) <=> (LiveIn(edits, f) /\ ~Deletes(e, f)) \/ f \in ToSet(e.added)
  BY <1>1, LiveAppend
<1>11. \A f : HasFile(version, f) <=> LiveIn(edits, f)
  BY <1>4 DEF Stands
<1>12. Stands(w, es)
  <2>1. \A f : HasFile(w, f) <=> LiveIn(es, f)
    BY ONLY <1>9, <1>10, <1>11
  <2> QED
    BY <1>9, <2>1 DEF Stands
<1>13. ASSUME NEW i \in 1..(k + 1), NEW f \in ToSet(es[i].added)
       PROVE  f.smallest.seq < 2 * (k + 1)
  <2>1. CASE i \in 1..k
    <3>1. f \in ToSet(edits[i].added)
      BY <1>3, <1>13, <2>1
    <3>2. f.smallest.seq < 2 * k
      BY <1>2, <2>1, <3>1 DEF LevelInv, SeqsBelow
    <3>3. f \in FileSet
      BY <1>1, <1>2, <2>1, <3>1, AddedFile
    <3>4. f.smallest.seq \in Nat
      BY <3>3 DEF FileSet, KeySet
    <3> QED
      BY <3>2, <3>4
  <2>2. CASE i = k + 1
    <3>1. f \in ToSet(e.added)
      BY <1>3, <1>13, <2>2
    <3>2. e.added \in Seq(FileSet) /\ Len(e.added) <= 1
      BY <1>1 DEF EditSet, FileSeqs
    <3>3. e.added # <<>> /\ f = e.added[1]
      BY <3>1, <3>2, OneFile
    <3>4. f.smallest.seq = LastSeq
      BY <3>3 DEF Shape
    <3>5. f.smallest.seq = 2 * k
      BY <1>2, <3>4 DEF LastSeq
    <3> QED
      BY <3>5
  <2> QED
    BY <2>1, <2>2
<1>14. SeqsBelow(es)
  BY <1>3, <1>13 DEF SeqsBelow
<1> QED
  BY <1>6, <1>12, <1>14

LEMMA LevelInit ==
    ASSUME Init, LogInv, ReplayInv
    PROVE  LevelInv
<1>1. /\ edits = <<InitialEdit>> /\ mode = "open" /\ flushErr = FALSE
      /\ version = Apply(NewVersion, InitialEdit)
  BY DEF Init
<1>2. PICK e : e = InitialEdit
  OBVIOUS
<1>3. edits \in Seq(EditSet) /\ Len(edits) = 1 /\ edits[1] = e
  BY <1>1, <1>2 DEF LogInv
<1>4. e \in EditSet
  <2>1. 1 \in 1..Len(edits)
    BY <1>3
  <2> QED
    BY <1>3, <2>1
<1>5. e.added = <<>> /\ e.deleted = <<>>
  BY <1>2 DEF InitialEdit, VersionEdit
<1>6. ToSet(e.added) = {}
  <2>1. e.added \in Seq(FileSet) /\ Len(e.added) <= 1
    BY <1>4 DEF EditSet, FileSeqs
  <2> QED
    BY <1>5, <2>1, OneFile
<1>7. PICK z : z = NewVersion
  OBVIOUS
<1>8. z = <<>> /\ DOMAIN z = {} /\ Len(z) = 0
  BY <1>7 DEF NewVersion
<1>9. VersionOf(z, 0)
  <2>1. PICK D : D = Seq(FileSet)
    OBVIOUS
  <2>2. z \in Seq(D)
    BY <1>8
  <2>3. 1..0 = {} /\ 0 \in 0..2
    OBVIOUS
  <2> QED
    BY <1>8, <2>1, <2>2, <2>3 DEF VersionOf
<1>10. PICK u : u = FoldLeft(DeleteFile, z, e.deleted)
  OBVIOUS
<1>11. /\ IsVersion(version)
       /\ \A f : HasFile(version, f) <=> (HasFile(z, f) /\ ~Deletes(e, f)) \/ f \in ToSet(e.added)
  <2>1. version = Apply(z, e)
    BY <1>1, <1>2, <1>7
  <2>2. \A f \in ToSet(e.added) : Fresh(u, f)
    BY <1>6
  <2> QED
    BY <1>4, <1>9, <1>10, <2>1, <2>2, Applied
<1>12. \A f : ~HasFile(version, f)
  <2>1. \A f : ~HasFile(z, f)
    BY <1>8 DEF HasFile
  <2> QED
    BY <1>6, <1>11, <2>1
<1>13. \A f : ~LiveIn(edits, f)
  <2>1. \A i \in 1..Len(edits) : i = 1
    BY <1>3
  <2> QED
    BY <1>3, <1>6, <2>1 DEF LiveIn
<1>14. Stands(version, edits)
  BY <1>11, <1>12, <1>13 DEF Stands
<1>15. SeqsBelow(edits)
  <2>1. \A i \in 1..Len(edits) : i = 1
    BY <1>3
  <2> QED
    BY <1>3, <1>6, <2>1 DEF SeqsBelow
<1>16. InStep
  BY <1>1 DEF InStep
<1>17. ReplayOf(edits).err = "nil" => ReplayOf(edits).version = version
  BY <1>16 DEF ReplayInv, Rebuilds
<1> QED
  BY <1>14, <1>15, <1>17 DEF LevelInv

LEMMA LevelNext ==
    ASSUME LogInv, ReplayInv, LevelInv, [Next]_vars
    PROVE  LevelInv'
<1>1. ASSUME NEW e \in Edits, InStep, edits' = Append(edits, e),
             InStep' => version' = Apply(version, e)
      PROVE  LevelInv'
  <2>1. Shape(e)
    BY <1>1, EditShape
  <2>2. SeqsBelow(edits') /\ Stands(Apply(version, e), edits')
    BY <1>1, <2>1, Stood
  <2>3. PICK r : r = ReplayOf(edits')
    OBVIOUS
  <2>4. r.err = "nil" => r.version = Apply(version, e)
    BY <1>1, <2>1, <2>3, Logged
  <2> QED
    BY <1>1, <2>2, <2>3, <2>4 DEF LevelInv
<1>2. ASSUME NEW e \in Edits, LogAndApply(e) PROVE LevelInv'
  <2>1. InStep /\ edits' = Append(edits, e) /\ version' = Apply(version, e)
    BY <1>2 DEF LogAndApply, InStep
  <2> QED
    BY <1>1, <2>1
<1>3. ASSUME NEW e \in Edits, LogFails(e) PROVE LevelInv'
  <2>1. /\ mode = "open" /\ ~flushErr
        /\ edits' = edits \/ edits' = Append(edits, e)
        /\ \/ mode' = "down" /\ flushErr' = flushErr
           \/ flushErr' = TRUE /\ mode' = mode
    BY <1>3 DEF LogFails
  <2>2. InStep
    BY <2>1 DEF InStep
  <2>3. ~InStep'
    BY <2>1 DEF InStep
  <2>4. CASE edits' = edits
    BY <2>3, <2>4 DEF LevelInv
  <2>5. CASE edits' = Append(edits, e)
    BY <1>1, <2>2, <2>3, <2>5
  <2> QED
    BY <2>1, <2>4, <2>5
<1>4. CASE Stop
  <2>1. edits' = edits /\ ~InStep'
    BY <1>4 DEF Stop, InStep
  <2> QED
    BY <2>1 DEF LevelInv
<1>5. CASE Open
  <2>1. edits' = edits
    BY <1>5 DEF Open
  <2>2. PICK r : r = ReplayOf(edits)
    OBVIOUS
  <2>3. ReplayManifestStream = r
    BY <2>2, StreamIsReplay
  <2>4. CASE r.err # "nil"
    <3>1. ~InStep'
      BY <1>5, <2>3, <2>4 DEF Open, InStep
    <3> QED
      BY <2>1, <3>1 DEF LevelInv
  <2>5. CASE r.err = "nil"
    <3>1. version' = r.version
      BY <1>5, <2>3, <2>5 DEF Open
    <3>2. Stands(r.version, edits)
      BY <2>2, <2>5 DEF LevelInv
    <3> QED
      BY <2>1, <2>2, <3>1, <3>2 DEF LevelInv
  <2> QED
    BY <2>4, <2>5
<1>6. CASE UNCHANGED vars
  <2>1. edits' = edits /\ version' = version /\ mode' = mode /\ flushErr' = flushErr
    BY <1>6 DEF vars, dbVars
  <2> QED
    BY <2>1 DEF LevelInv, InStep
<1> QED
  BY <1>2, <1>3, <1>4, <1>5, <1>6 DEF Next

(* The Version of an open DB holds exactly the files that the logged edits *)
(* left live, each at its level, level 0 in the order of the flushes and   *)
(* the other levels in that of their smallest keys (Version.Apply), also   *)
(* after failed appends and restarts.                                      *)
THEOREM LevelsCorrect == Spec => []LevelsOrdered
<1>1. Init => LogInv /\ ReplayInv /\ LevelInv
  BY LogInit, LevelInit
<1>2. LogInv /\ ReplayInv /\ LevelInv /\ [Next]_vars => LogInv' /\ ReplayInv' /\ LevelInv'
  BY LogNext, LevelNext
<1>3. ASSUME LogInv, LevelInv PROVE LevelsOrdered
  <2> SUFFICES ASSUME InStep
               PROVE  /\ ToSet(AllFiles(version)) = UNION {Live(i) : i \in DOMAIN edits}
                      /\ \A l \in DOMAIN version : \A i, j \in DOMAIN version[l] :
                           /\ version[l][i].level = l - 1
                           /\ i < j => IF l = 1 THEN version[l][i].id < version[l][j].id
                                       ELSE KeyLess(version[l][i].smallest, version[l][j].smallest)
      BY DEF LevelsOrdered
  <2>1. Stands(version, edits)
    BY <1>3 DEF LevelInv
  <2>2. PICK n \in 0..2 : VersionOf(version, n)
    BY <2>1 DEF Stands, IsVersion
  <2>3. DOMAIN version = 1..n /\ \A l \in 1..n : Level(version[l], l)
    BY <2>2 DEF VersionOf
  <2>4. ASSUME NEW l \in 1..n, NEW i \in DOMAIN version[l], NEW j \in DOMAIN version[l]
        PROVE  /\ version[l][i].level = l - 1
               /\ i < j => IF l = 1 THEN version[l][i].id < version[l][j].id
                           ELSE KeyLess(version[l][i].smallest, version[l][j].smallest)
    <3>1. PICK s : s = version[l]
      OBVIOUS
    <3>2. Level(s, l)
      BY <2>3, <3>1
    <3>3. s \in Seq(FileSet)
      BY <3>2 DEF Level
    <3>4. i \in 1..Len(s) /\ j \in 1..Len(s)
      BY <3>1, <3>3
    <3>5. s[i].level = l - 1 /\ (i < j => Before(l, s[i], s[j]))
      BY <3>2, <3>4 DEF Level
    <3> QED
      BY <3>1, <3>5 DEF Before
  <2>5. \A f : f \in ToSet(AllFiles(version)) <=> LiveIn(edits, f)
    BY <2>1, <2>2, AllFilesListed DEF Stands
  <2>6. DOMAIN edits = 1..Len(edits)
    BY <1>3 DEF LogInv
  <2>7. ASSUME NEW f, NEW i \in 1..Len(edits)
        PROVE  f \in Live(i) <=> /\ f \in ToSet(edits[i].added)
                                 /\ \A j \in (i + 1)..Len(edits) : ~Deletes(edits[j], f)
    BY DEF Live, Deletes
  <2>8. \A f : f \in UNION {Live(i) : i \in DOMAIN edits} <=> LiveIn(edits, f)
    <3>1. \A f : f \in UNION {Live(i) : i \in DOMAIN edits} <=> \E i \in 1..Len(edits) : f \in Live(i)
      BY <2>6
    <3> QED
      BY ONLY <2>7, <3>1 DEF LiveIn
  <2>9. ToSet(AllFiles(version)) = UNION {Live(i) : i \in DOMAIN edits}
    BY ONLY <2>5, <2>8
  <2> QED
    BY <2>3, <2>4, <2>9
<1> QED
  BY <1>1, <1>2, <1>3, PTL DEF Spec

=============================================================================
