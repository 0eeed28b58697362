--------------------------- MODULE HarnessProofs ---------------------------
(***************************************************************************)
(* Theorems about Harness, for any workload, any number of cycles and any  *)
(* capacity of the event channel: whenever the controller verifies, its    *)
(* oracle has every acknowledgement that a worker wrote, and the database  *)
(* has at most one operation more; verification never raises a false       *)
(* alarm; and the payloads of the WAL decode to their batches and nothing  *)
(* shorter or longer does.                                                 *)
(***************************************************************************)
EXTENDS Harness, SequenceTheorems, NaturalFacts, TLAPS

-----------------------------------------------------------------------------
(* The inductive invariant. *)

(* The events of a run of n operations.                                    *)
Events(n) == [kind : {"ready", "start", "ack", "fail"}, id : 0..n]
IsEvents(q, n) ==
    /\ q \in Seq(Events(n))
    /\ \A j \in 1..Len(q) : q[j].kind # "ready" => q[j].id # 0

Running == {"executing", "appended", "applied", "failing"}

Types ==
    /\ ops \in Seq(Seq(Items)) /\ cfg \in Configs
    /\ pc \in {"cycle", "await", "send", "terminal", "closing", "waiting",
               "joining", "drain", "verify", "done", "failed", "alarm"}
    /\ wpc \in Running \cup {"opening", "idle", "dead"}
    /\ readerErr \in {"none", "nil", "closed"} /\ stdoutOpen \in BOOLEAN
    /\ queueIndex \in 0..Len(ops) /\ retryIndex \in 0..queueIndex
    /\ wop \in 0..Len(ops) /\ (wpc \in Running => wop # 0)
    /\ stdin \in Seq(1..Len(ops))
    /\ IsEvents(stdout, Len(ops)) /\ IsEvents(eventCh, Len(ops))

(* Which pipes are open, and what the end of the reader means.             *)
PipeInv ==
    /\ pc \in {"await", "send", "terminal", "closing", "waiting"} => stdoutOpen
    /\ pc \in {"cycle", "drain", "verify", "done", "alarm"} => readerErr = "nil"
    /\ readerErr = "nil" => wpc = "dead" /\ stdout = <<>>
    /\ readerErr = "closed" => ~stdoutOpen

(* The run ends in an error: events were lost with the pipe.               *)
Doomed == pc = "failed" \/ (~stdoutOpen /\ readerErr # "nil")

Quiet          == eventCh = <<>> /\ stdout = <<>>
None(q, kinds) == \A j \in 1..Len(q) : q[j].kind \notin kinds
Terminal       == {"ack", "fail"}

(* Controller, pipes and worker agree on the operation under way.          *)
StageInv ==
    /\ pc \in {"cycle", "verify", "done", "alarm"} => wpc = "dead" /\ Quiet
    /\ pc = "await" =>
         /\ stdin = <<>> /\ wpc \in {"opening", "idle", "dead"}
         /\ None(eventCh, {"start", "ack", "fail"}) /\ None(stdout, {"start", "ack", "fail"})
         /\ Quiet \/ (Len(eventCh) + Len(stdout) = 1 /\ wpc # "opening")
    /\ pc # "await" => None(eventCh, {"ready"}) /\ None(stdout, {"ready"})
    /\ pc = "send" => stdin = <<>> /\ wpc \in {"idle", "dead"} /\ Quiet
    /\ pc = "terminal" =>
         \/ Len(stdin) = 1 /\ wpc \in {"idle", "dead"} /\ Quiet
         \/ stdin = <<>> /\ wpc \in Running /\ None(eventCh, Terminal) /\ None(stdout, Terminal)
         \/ stdin = <<>> /\ wpc \in {"idle", "dead"}
    /\ pc \in {"closing", "waiting", "joining", "drain"} =>
         wpc = "dead" \/ (wpc = "idle" /\ stdin = <<>>)

(* The event that ends an operation is the last one under way.             *)
LastInv ==
    /\ \A j \in 1..Len(eventCh) :
         eventCh[j].kind \in Terminal => j = Len(eventCh) /\ stdout = <<>>
    /\ \A j \in 1..Len(stdout) : stdout[j].kind \in Terminal => j = Len(stdout)

(* With the acknowledgements in q the oracle has all that were written.    *)
Completes(q) ==
    \A j \in 1..Len(q) :
      q[j].kind = "ack" => promised = ApplyItems(oracle.state, ops[q[j].id])

(* The oracle lacks at most the acknowledgement under way.                 *)
OracleInv ==
    /\ Completes(eventCh) /\ Completes(stdout)
    /\ None(eventCh, {"ack"}) /\ None(stdout, {"ack"}) => promised = oracle.state

AckInv ==
    /\ Types /\ PipeInv
    /\ ~Doomed => StageInv /\ LastInv /\ OracleInv

(* Every other variable is within its bounds.                              *)
BoundInv ==
    /\ cycle \in 0..Cycles
    /\ pc \in {"await", "send", "terminal", "closing", "waiting", "joining", "drain", "verify"} =>
         cycle < Cycles
    /\ statuses \in [DOMAIN ops -> {"planned", "started", "acked", "failed"}]
    /\ oracle.state \in [Keys -> Nat] /\ oracle.touched \subseteq Keys
    /\ Len(stdin) <= 1 /\ Len(eventCh) <= EventChCap

-----------------------------------------------------------------------------
(* Folds. *)

(* Key states and what an operation makes of them.                         *)
States == [Keys -> Nat]

LEMMA ApplyItemType ==
    ASSUME NEW s \in States, NEW item \in Items
    PROVE  ApplyItem(s, item) \in States
<1>1. item.key \in Keys /\ item.value \in Nat
  BY DEF Items
<1>2. (IF item.type = OpTypePut THEN Present(item.value) ELSE Missing) \in Nat
  BY <1>1 DEF Missing, Present
<1> QED
  BY <1>1, <1>2 DEF ApplyItem, States

(* ApplyItems applies the items one after the other.                       *)
LEMMA ItemsInOrder ==
    ASSUME NEW s \in States, NEW items \in Seq(Items)
    PROVE  \E h : /\ h \in [0..Len(items) -> States] /\ h[0] = s
                  /\ \A k \in 1..Len(items) : h[k] = ApplyItem(h[k - 1], items[k])
                  /\ ApplyItems(s, items) = h[Len(items)]
<1>1. PICK n \in Nat : n = Len(items)
  OBVIOUS
<1>2. DOMAIN items = 1..n /\ \A i \in 1..n : items[i] \in Items
  BY <1>1
<1>3. PICK G : G = [p \in States \X (1..n) |-> ApplyItem(p[1], items[p[2]])]
  OBVIOUS
<1>4. \A x \in States, i \in 1..n : G[x, i] = ApplyItem(x, items[i])
  BY <1>3
<1>t. G \in [States \X (1..n) -> States]
  BY <1>2, <1>3, ApplyItemType
<1> DEFINE Step(g, S) == IF S = {} THEN s ELSE ApplyItem(g[S \ {Max(S)}], items[Max(S)])
           F(g) == [S \in SUBSET (1..n) |-> Step(g, S)]
           chosen == CHOOSE g : g = F(g)
<1>5. \E g : g = F(g)
  <2>0. PICK g \in [SUBSET (1..n) -> States] : FoldsOver(g, n, s, G)
    BY <1>t, FoldExists
  <2>1. \A S \in SUBSET (1..n) : g[S] = IF S = {} THEN s ELSE G[g[S \ {Max(S)}], Max(S)]
    BY <2>0 DEF FoldsOver
  <2>2. ASSUME NEW S \in SUBSET (1..n) PROVE g[S] = Step(g, S)
    <3>1. CASE S = {}
      BY <2>1, <3>1
    <3>2. CASE S # {}
      <4>1. Max(S) \in 1..n /\ g[S \ {Max(S)}] \in States
        BY <2>1, <3>2, MaxFacts
      <4> QED
        BY <1>4, <2>1, <3>2, <4>1
    <3> QED
      BY <3>1, <3>2
  <2> HIDE DEF Step
  <2>3. g = F(g)
    BY <2>1, <2>2
  <2> QED
    BY <2>3
<1>6. chosen = F(chosen)
  <2> HIDE DEF F
  <2> QED
    BY <1>5
<1>7. ApplyItems(s, items) = chosen[1..n]
  <2>1. ApplyItems(s, items)
          = (CHOOSE g : g = [S \in SUBSET (DOMAIN items) |-> Step(g, S)])[DOMAIN items]
    BY DEF ApplyItems, FoldLeft, MapThenFoldSet
  <2> QED
    BY <1>2, <2>1
<1>f. PICK f : f = F(f) /\ ApplyItems(s, items) = f[1..n]
  <2> HIDE DEF F, chosen
  <2> QED
    BY <1>6, <1>7
<1>8. f[1..0] = s
  <2>1. 1..0 = {} /\ 1..0 \in SUBSET (1..n)
    OBVIOUS
  <2> QED
    BY <1>f, <2>1
<1>9. ASSUME NEW k \in 1..n, f[1..(k - 1)] \in States
      PROVE  f[1..k] = G[f[1..(k - 1)], k]
  <2>1. f[1..k] = Step(f, 1..k)
    BY <1>f, InitialSegment
  <2>2. f[1..k] = ApplyItem(f[1..(k - 1)], items[k])
    BY <2>1, InitialSegment
  <2> QED
    BY <1>4, <1>9, <2>2
<1>a. UnfoldsOver(f, n, States, s, G)
  <2>1. \A k \in 1..n : f[1..(k - 1)] \in States => f[1..k] = G[f[1..(k - 1)], k]
    BY ONLY <1>9
  <2> QED
    BY <1>t, <1>8, <2>1 DEF UnfoldsOver
<1>10. PICK h : Iterates(h, n, States, s, G) /\ h[n] = f[1..n]
  BY <1>a, FoldIterates
<1>11. /\ h \in [0..n -> States] /\ h[0] = s
       /\ \A k \in 1..n : h[k] = ApplyItem(h[k - 1], items[k])
  <2>1. h \in [0..n -> States] /\ h[0] = s /\ \A k \in 1..n : h[k] = G[h[k - 1], k]
    BY <1>10 DEF Iterates
  <2>2. ASSUME NEW k \in 1..n PROVE h[k - 1] \in States
    <3>1. k - 1 \in 0..n
      BY ONLY n \in Nat, k \in 1..n
    <3> QED
      BY ONLY <2>1, <3>1
  <2> QED
    BY <1>4, <2>1, <2>2
<1> QED
  BY <1>1, <1>f, <1>10, <1>11

(* A key that an operation touches ends up the same whatever it was, and   *)
(* the others stay.                                                        *)
LEMMA ItemsDecide ==
    ASSUME NEW s \in States, NEW t \in States, NEW items \in Seq(Items), NEW k \in Keys
    PROVE  IF k \in TouchedBy(items)
           THEN ApplyItems(s, items)[k] = ApplyItems(t, items)[k]
           ELSE ApplyItems(s, items)[k] = s[k]
<1>1. PICK n \in Nat : n = Len(items)
  OBVIOUS
<1>2. DOMAIN items = 1..n /\ \A i \in 1..n : items[i].key \in Keys
  <2>1. DOMAIN items = 1..n /\ \A i \in 1..n : items[i] \in Items
    BY <1>1
  <2>2. \A x \in Items : x.key \in Keys
    BY DEF Items
  <2> QED
    BY ONLY <2>1, <2>2
<1>a. ASSUME NEW u \in States
      PROVE  \E g : /\ g \in [0..n -> States] /\ g[0] = u
                    /\ \A j \in 1..n : g[j] = ApplyItem(g[j - 1], items[j])
                    /\ ApplyItems(u, items) = g[n]
  <2>1. PICK g : /\ g \in [0..Len(items) -> States] /\ g[0] = u
                 /\ \A j \in 1..Len(items) : g[j] = ApplyItem(g[j - 1], items[j])
                 /\ ApplyItems(u, items) = g[Len(items)]
    BY ONLY u \in States, items \in Seq(Items), ItemsInOrder
  <2> QED
    BY ONLY <1>1, <2>1
<1>3. PICK g : /\ g \in [0..n -> States] /\ g[0] = s
               /\ \A j \in 1..n : g[j] = ApplyItem(g[j - 1], items[j])
               /\ ApplyItems(s, items) = g[n]
  BY ONLY <1>a, s \in States
<1>4. PICK h : /\ h \in [0..n -> States] /\ h[0] = t
               /\ \A j \in 1..n : h[j] = ApplyItem(h[j - 1], items[j])
               /\ ApplyItems(t, items) = h[n]
  BY ONLY <1>a, t \in States
<1> DEFINE Good(j) == IF \E i \in 1..j : items[i].key = k
                      THEN g[j][k] = h[j][k] ELSE g[j][k] = s[k]
           U == {j \in Nat : j <= n => Good(j)}
<1>5. 0 \in U
  BY <1>3
<1>6. ASSUME NEW j \in U PROVE j + 1 \in U
  <2>0. j \in Nat /\ j + 1 \in Nat
    OBVIOUS
  <2>1. ASSUME j + 1 <= n PROVE Good(j + 1)
    <3>1. j <= n /\ j \in 0..n /\ j + 1 \in 1..n /\ (j + 1) - 1 = j
      BY ONLY <2>0, <2>1, n \in Nat
    <3>2. Good(j)
      BY ONLY <3>1, j \in U
    <3>3. PICK m \in 1..n : m = j + 1 /\ m - 1 = j
      BY ONLY <3>1
    <3>4. /\ g[m] = ApplyItem(g[j], items[m]) /\ h[m] = ApplyItem(h[j], items[m])
          /\ g[j] \in States /\ h[j] \in States
      <4>1. g[m] = ApplyItem(g[m - 1], items[m]) /\ h[m] = ApplyItem(h[m - 1], items[m])
        BY ONLY <1>3, <1>4, <3>3
      <4> QED
        BY ONLY <1>3, <1>4, <3>1, <3>3, <4>1
    <3>5. items[m].key \in Keys
      BY <1>2, <3>3
    <3>6. \A i \in 1..m : i = m \/ i \in 1..j
      BY ONLY <2>0, <3>3
    <3>7. m \in 1..m /\ \A i \in 1..j : i \in 1..m
      BY ONLY <2>0, <3>3
    <3>8. CASE items[m].key = k
      <4>1. g[m][k] = h[m][k]
        BY ONLY <3>4, <3>8, k \in Keys DEF ApplyItem, States
      <4> QED
        BY ONLY <3>3, <3>7, <3>8, <4>1
    <3>9. CASE items[m].key # k
      <4>1. g[m][k] = g[j][k] /\ h[m][k] = h[j][k]
        BY ONLY <3>4, <3>5, <3>9, k \in Keys DEF ApplyItem, States
      <4>2. (\E i \in 1..m : items[i].key = k) <=> \E i \in 1..j : items[i].key = k
        BY ONLY <3>6, <3>7, <3>9
      <4> QED
        BY ONLY <3>2, <3>3, <4>1, <4>2
    <3> QED
      BY ONLY <3>8, <3>9
  <2> HIDE DEF Good
  <2> QED
    BY ONLY <2>0, <2>1
<1>7. U = Nat
  <2>1. U \in SUBSET Nat
    OBVIOUS
  <2> HIDE DEF U
  <2> QED
    BY ONLY <1>5, <1>6, <2>1, Induction
<1>8. Good(n)
  <2> HIDE DEF Good
  <2>1. n \in U
    BY ONLY <1>7, n \in Nat
  <2> QED
    BY ONLY <2>1, n \in Nat
<1>9. k \in TouchedBy(items) <=> \E i \in 1..n : items[i].key = k
  BY <1>2 DEF TouchedBy
<1> QED
  BY ONLY <1>3, <1>4, <1>8, <1>9

LEMMA ApplyItemsType ==
    ASSUME NEW s \in States, NEW items \in Seq(Items)
    PROVE  ApplyItems(s, items) \in States
<1>1. PICK h : /\ h \in [0..Len(items) -> States]
               /\ ApplyItems(s, items) = h[Len(items)]
  BY ItemsInOrder
<1>2. Len(items) \in 0..Len(items)
  OBVIOUS
<1> QED
  BY <1>1, <1>2

(* An operation that is sent again changes nothing.                        *)
LEMMA ApplyTwice ==
    ASSUME NEW s \in States, NEW items \in Seq(Items)
    PROVE  ApplyItems(ApplyItems(s, items), items) = ApplyItems(s, items)
<1>1. PICK t \in States : t = ApplyItems(s, items)
  BY ApplyItemsType
<1>2. ApplyItems(t, items) \in States
  BY ApplyItemsType
<1>3. ASSUME NEW k \in Keys PROVE ApplyItems(t, items)[k] = t[k]
  <2>1. CASE k \in TouchedBy(items)
    BY <1>1, <2>1, ItemsDecide
  <2>2. CASE k \notin TouchedBy(items)
    BY <1>1, <2>2, ItemsDecide
  <2> QED
    BY <2>1, <2>2
<1> QED
  BY <1>1, <1>2, <1>3 DEF States

-----------------------------------------------------------------------------
(* The codec of batches. *)

(* The operation of the batch that an item becomes.                        *)
AsOp(item) ==
    IF item.type = OpTypePut THEN PutOp(item.key, item.value) ELSE DeleteOp(item.key)

LEMMA AsOpFacts ==
    ASSUME NEW item \in Items
    PROVE  /\ AsOp(item) \in Items
           /\ AsOp(item).type = item.type /\ AsOp(item).key = item.key
           /\ item.type = OpTypePut => AsOp(item).value = item.value
           /\ item.type # OpTypePut => AsOp(item) = DeleteOp(item.key)
<1>1. /\ item.type \in {OpTypePut, OpTypeDelete} /\ item.key \in Keys /\ item.value \in Nat
  BY DEF Items
<1>2. OpTypePut # OpTypeDelete /\ NoValue \in Nat
  BY DEF OpTypePut, OpTypeDelete, NoValue
<1>3. CASE item.type = OpTypePut
  BY <1>1, <1>3 DEF AsOp, PutOp, Items
<1>4. CASE item.type # OpTypePut
  BY <1>1, <1>2, <1>4 DEF AsOp, DeleteOp, Items
<1> QED
  BY <1>3, <1>4

(* ToBatch adds one operation per item.                                    *)
LEMMA ToBatchInOrder ==
    ASSUME NEW items \in Seq(Items)
    PROVE  \E h : /\ h \in [0..Len(items) -> Seq(Items)] /\ h[0] = <<>>
                  /\ \A k \in 1..Len(items) : h[k] = Append(h[k - 1], AsOp(items[k]))
                  /\ ToBatch(items) = h[Len(items)]
<1>1. PICK n \in Nat : n = Len(items)
  OBVIOUS
<1>2. DOMAIN items = 1..n /\ \A i \in 1..n : items[i] \in Items /\ AsOp(items[i]) \in Items
  BY <1>1, AsOpFacts
<1>3. PICK G : G = [p \in Seq(Items) \X (1..n) |-> Append(p[1], AsOp(items[p[2]]))]
  OBVIOUS
<1>4. \A x \in Seq(Items), i \in 1..n : G[x, i] = Append(x, AsOp(items[i]))
  BY <1>3
<1>t. G \in [Seq(Items) \X (1..n) -> Seq(Items)]
  BY <1>2, <1>3
<1>s. <<>> \in Seq(Items)
  OBVIOUS
<1> DEFINE Step(g, S) ==
             IF S = {} THEN NewBatch
             ELSE IF items[Max(S)].type = OpTypePut
                  THEN BatchPut(g[S \ {Max(S)}], items[Max(S)].key, items[Max(S)].value)
                  ELSE BatchDelete(g[S \ {Max(S)}], items[Max(S)].key)
           F(g) == [S \in SUBSET (1..n) |-> Step(g, S)]
           chosen == CHOOSE g : g = F(g)
<1>b. \A g, S : Step(g, S) = IF S = {} THEN <<>>
                             ELSE Append(g[S \ {Max(S)}], AsOp(items[Max(S)]))
  BY DEF NewBatch, BatchPut, BatchDelete, AsOp
<1>5. \E g : g = F(g)
  <2>0. PICK g \in [SUBSET (1..n) -> Seq(Items)] : FoldsOver(g, n, <<>>, G)
    BY <1>s, <1>t, FoldExists
  <2>1. \A S \in SUBSET (1..n) : g[S] = IF S = {} THEN <<>> ELSE G[g[S \ {Max(S)}], Max(S)]
    BY <2>0 DEF FoldsOver
  <2> HIDE DEF Step
  <2>2. ASSUME NEW S \in SUBSET (1..n) PROVE g[S] = Step(g, S)
    <3>1. CASE S = {}
      BY <1>b, <2>1, <3>1
    <3>2. CASE S # {}
      <4>1. Max(S) \in 1..n /\ g[S \ {Max(S)}] \in Seq(Items)
        BY <2>0, <3>2, MaxFacts
      <4> QED
        BY <1>4, <1>b, <2>1, <3>2, <4>1
    <3> QED
      BY <3>1, <3>2
  <2>3. g = F(g)
    BY <2>0, <2>2
  <2> QED
    BY <2>3
<1>6. chosen = F(chosen)
  <2> HIDE DEF F
  <2> QED
    BY <1>5
<1>7. ToBatch(items) = chosen[1..n]
  <2>1. ToBatch(items)
          = (CHOOSE g : g = [S \in SUBSET (DOMAIN items) |-> Step(g, S)])[DOMAIN items]
    BY DEF ToBatch, FoldLeft, MapThenFoldSet
  <2> QED
    BY <1>2, <2>1
<1>f. PICK f : f = F(f) /\ ToBatch(items) = f[1..n]
  <2> HIDE DEF F, chosen
  <2> QED
    BY <1>6, <1>7
<1>8. f[1..0] = <<>>
  <2>1. 1..0 = {} /\ 1..0 \in SUBSET (1..n)
    OBVIOUS
  <2> QED
    BY <1>b, <1>f, <2>1
<1>9. ASSUME NEW k \in 1..n, f[1..(k - 1)] \in Seq(Items)
      PROVE  f[1..k] = G[f[1..(k - 1)], k]
  <2> HIDE DEF Step
  <2>1. f[1..k] = Step(f, 1..k)
    BY <1>f, InitialSegment
  <2>2. f[1..k] = Append(f[1..(k - 1)], AsOp(items[k]))
    BY <1>b, <2>1, InitialSegment
  <2> QED
    BY <1>4, <1>9, <2>2
<1>a. UnfoldsOver(f, n, Seq(Items), <<>>, G)
  <2>1. \A k \in 1..n : f[1..(k - 1)] \in Seq(Items) => f[1..k] = G[f[1..(k - 1)], k]
    BY ONLY <1>9
  <2> QED
    BY <1>s, <1>t, <1>8, <2>1 DEF UnfoldsOver
<1>10. PICK h : Iterates(h, n, Seq(Items), <<>>, G) /\ h[n] = f[1..n]
  BY <1>a, FoldIterates
<1>11. /\ h \in [0..n -> Seq(Items)] /\ h[0] = <<>>
       /\ \A k \in 1..n : h[k] = Append(h[k - 1], AsOp(items[k]))
  <2>1. /\ h \in [0..n -> Seq(Items)] /\ h[0] = <<>>
        /\ \A k \in 1..n : h[k] = G[h[k - 1], k]
    BY <1>10 DEF Iterates
  <2>2. ASSUME NEW k \in 1..n PROVE h[k - 1] \in Seq(Items)
    <3>1. k - 1 \in 0..n
      BY ONLY n \in Nat, k \in 1..n
    <3> QED
      BY ONLY <2>1, <3>1
  <2> QED
    BY <1>4, <2>1, <2>2
<1> QED
  BY <1>1, <1>f, <1>10, <1>11

LEMMA ToBatchFacts ==
    ASSUME NEW items \in Seq(Items)
    PROVE  /\ ToBatch(items) \in Seq(Items) /\ Len(ToBatch(items)) = Len(items)
           /\ \A k \in 1..Len(items) : ToBatch(items)[k] = AsOp(items[k])
<1>1. PICK n \in Nat : n = Len(items)
  OBVIOUS
<1>2. \A i \in 1..n : AsOp(items[i]) \in Items
  BY <1>1, AsOpFacts
<1>3. PICK h : /\ h \in [0..n -> Seq(Items)] /\ h[0] = <<>>
               /\ \A k \in 1..n : h[k] = Append(h[k - 1], AsOp(items[k]))
               /\ ToBatch(items) = h[n]
  BY <1>1, ToBatchInOrder
<1> DEFINE Good(j) == Len(h[j]) = j /\ \A k \in 1..j : h[j][k] = AsOp(items[k])
           U == {j \in Nat : j <= n => Good(j)}
<1>4. 0 \in U
  BY <1>3
<1>5. ASSUME NEW j \in U PROVE j + 1 \in U
  <2>0. j \in Nat /\ j + 1 \in Nat
    OBVIOUS
  <2>1. ASSUME j + 1 <= n PROVE Good(j + 1)
    <3>1. j <= n /\ j \in 0..n /\ j + 1 \in 1..n /\ (j + 1) - 1 = j
      BY ONLY <2>0, <2>1, n \in Nat
    <3>2. Good(j)
      BY ONLY <3>1, j \in U
    <3>3. PICK m \in 1..n : m = j + 1 /\ m - 1 = j
      BY ONLY <3>1
    <3>4. h[m] = Append(h[j], AsOp(items[m])) /\ h[j] \in Seq(Items) /\ AsOp(items[m]) \in Items
      <4>1. h[m] = Append(h[m - 1], AsOp(items[m]))
        BY ONLY <1>3, <3>3
      <4> QED
        BY ONLY <1>2, <1>3, <3>1, <3>3, <4>1
    <3>5. /\ Len(h[m]) = Len(h[j]) + 1 /\ h[m][Len(h[j]) + 1] = AsOp(items[m])
          /\ \A k \in 1..Len(h[j]) : h[m][k] = h[j][k]
      BY ONLY <3>4, AppendProperties
    <3>6. \A k \in 1..m : k = m \/ k \in 1..j
      BY ONLY <2>0, <3>3
    <3>7. Good(m)
      BY ONLY <2>0, <3>2, <3>3, <3>5, <3>6
    <3> QED
      BY ONLY <3>3, <3>7
  <2> HIDE DEF Good
  <2> QED
    BY ONLY <2>0, <2>1
<1>6. U = Nat
  <2>1. U \in SUBSET Nat
    OBVIOUS
  <2> HIDE DEF U
  <2> QED
    BY ONLY <1>4, <1>5, <2>1, Induction
<1>7. Good(n)
  <2> HIDE DEF Good
  <2>1. n \in U
    BY ONLY <1>6, n \in Nat
  <2> QED
    BY ONLY <2>1, n \in Nat
<1>8. n \in 0..n
  OBVIOUS
<1> QED
  BY ONLY <1>1, <1>3, <1>7, <1>8

(* The batch of an operation does to the keys what the operation does.     *)
LEMMA ToBatchApplies ==
    ASSUME NEW s \in States, NEW items \in Seq(Items)
    PROVE  ApplyItems(s, ToBatch(items)) = ApplyItems(s, items)
<1>1. PICK n \in Nat : n = Len(items)
  OBVIOUS
<1>2. PICK b \in Seq(Items) : /\ b = ToBatch(items) /\ Len(b) = n
                              /\ \A k \in 1..n : b[k] = AsOp(items[k])
  BY <1>1, ToBatchFacts
<1>3. PICK g : /\ g \in [0..n -> States] /\ g[0] = s
               /\ \A j \in 1..n : g[j] = ApplyItem(g[j - 1], items[j])
               /\ ApplyItems(s, items) = g[n]
  <2>1. PICK g : /\ g \in [0..Len(items) -> States] /\ g[0] = s
                 /\ \A j \in 1..Len(items) : g[j] = ApplyItem(g[j - 1], items[j])
                 /\ ApplyItems(s, items) = g[Len(items)]
    BY ONLY s \in States, items \in Seq(Items), ItemsInOrder
  <2> QED
    BY ONLY <1>1, <2>1
<1>4. PICK h : /\ h \in [0..n -> States] /\ h[0] = s
               /\ \A j \in 1..n : h[j] = ApplyItem(h[j - 1], b[j])
               /\ ApplyItems(s, b) = h[n]
  <2>1. PICK h : /\ h \in [0..Len(b) -> States] /\ h[0] = s
                 /\ \A j \in 1..Len(b) : h[j] = ApplyItem(h[j - 1], b[j])
                 /\ ApplyItems(s, b) = h[Len(b)]
    BY ONLY s \in States, b \in Seq(Items), ItemsInOrder
  <2> QED
    BY ONLY <1>2, <2>1
<1>5. ASSUME NEW x, NEW i \in 1..n PROVE ApplyItem(x, b[i]) = ApplyItem(x, items[i])
  <2>1. items[i] \in Items /\ b[i] = AsOp(items[i])
    BY <1>1, <1>2
  <2>2. /\ b[i].type = items[i].type /\ b[i].key = items[i].key
        /\ items[i].type = OpTypePut => b[i].value = items[i].value
    BY <2>1, AsOpFacts
  <2> QED
    BY ONLY <2>2 DEF ApplyItem
<1> DEFINE U == {j \in Nat : j <= n => g[j] = h[j]}
<1>6. 0 \in U
  BY ONLY <1>3, <1>4
<1>7. ASSUME NEW j \in U PROVE j + 1 \in U
  <2>0. j \in Nat /\ j + 1 \in Nat
    OBVIOUS
  <2>1. ASSUME j + 1 <= n PROVE g[j + 1] = h[j + 1]
    <3>1. j <= n /\ j + 1 \in 1..n /\ (j + 1) - 1 = j
      BY ONLY <2>0, <2>1, n \in Nat
    <3>2. g[j] = h[j]
      BY ONLY <3>1, j \in U
    <3>3. PICK m \in 1..n : m = j + 1 /\ m - 1 = j
      BY ONLY <3>1
    <3>4. g[m] = ApplyItem(g[m - 1], items[m]) /\ h[m] = ApplyItem(h[m - 1], b[m])
      BY ONLY <1>3, <1>4, <3>3
    <3>5. ApplyItem(h[j], b[m]) = ApplyItem(h[j], items[m])
      BY ONLY <1>5, <3>3
    <3> QED
      BY ONLY <3>2, <3>3, <3>4, <3>5
  <2> QED
    BY ONLY <2>0, <2>1
<1>8. U = Nat
  <2>1. U \in SUBSET Nat
    OBVIOUS
  <2> HIDE DEF U
  <2> QED
    BY ONLY <1>6, <1>7, <2>1, Induction
<1>9. n \in U
  BY ONLY <1>8, n \in Nat
<1>10. g[n] = h[n]
  BY ONLY <1>9, n \in Nat
<1> QED
  BY ONLY <1>2, <1>3, <1>4, <1>10

(* What the encoded operations of a batch are, one after the other.        *)
EncodedBy(e, b) ==
    /\ e \in [0..Len(b) -> Seq(Nat)] /\ e[0] = <<>>
    /\ \A k \in 1..Len(b) : e[k] = e[k - 1] \o EncodeOp(b[k])

LEMMA EncodeOpFacts ==
    ASSUME NEW op \in Items
    PROVE  /\ EncodeOp(op) \in Seq(Nat) /\ EncodeOp(op)[1] = op.type /\ EncodeOp(op)[2] = op.key
           /\ op.type = OpTypePut => Len(EncodeOp(op)) = 3 /\ EncodeOp(op)[3] = op.value
           /\ op.type # OpTypePut => Len(EncodeOp(op)) = 2
<1>1. op.type \in Nat /\ op.key \in Nat /\ op.value \in Nat
  <2>1. op.type \in {OpTypePut, OpTypeDelete} /\ op.key \in Keys /\ op.value \in Nat
    BY DEF Items
  <2>2. op.key \in Nat
    BY <2>1, HarnessAssumption
  <2> QED
    BY ONLY <2>1, <2>2 DEF OpTypePut, OpTypeDelete
<1>2. CASE op.type = OpTypePut
  <2>1. EncodeOp(op) = <<op.type, op.key, op.value>>
    BY <1>2 DEF EncodeOp
  <2> QED
    BY <1>1, <1>2, <2>1
<1>3. CASE op.type # OpTypePut
  <2>1. EncodeOp(op) = <<op.type, op.key>>
    BY <1>3 DEF EncodeOp
  <2> QED
    BY <1>1, <1>3, <2>1
<1> QED
  BY <1>2, <1>3

LEMMA EncodeInOrder ==
    ASSUME NEW b \in Seq(Items)
    PROVE  \E e : EncodedBy(e, b) /\ EncodeOperations(b) = <<EncodingVersion, 0, Len(b)>> \o e[Len(b)]
<1>1. PICK n \in Nat : n = Len(b)
  OBVIOUS
<1>2. DOMAIN b = 1..n /\ \A i \in 1..n : b[i] \in Items /\ EncodeOp(b[i]) \in Seq(Nat)
  BY <1>1, EncodeOpFacts
<1>3. PICK G : G = [p \in Seq(Nat) \X (1..n) |-> p[1] \o EncodeOp(b[p[2]])]
  OBVIOUS
<1>4. \A x \in Seq(Nat), i \in 1..n : G[x, i] = x \o EncodeOp(b[i])
  BY <1>3
<1>t. G \in [Seq(Nat) \X (1..n) -> Seq(Nat)]
  BY <1>2, <1>3
<1>s. <<>> \in Seq(Nat)
  OBVIOUS
<1> DEFINE Step(g, S) == IF S = {} THEN <<>> ELSE g[S \ {Max(S)}] \o EncodeOp(b[Max(S)])
           F(g) == [S \in SUBSET (1..n) |-> Step(g, S)]
           chosen == CHOOSE g : g = F(g)
<1>5. \E g : g = F(g)
  <2>0. PICK g \in [SUBSET (1..n) -> Seq(Nat)] : FoldsOver(g, n, <<>>, G)
    BY <1>s, <1>t, FoldExists
  <2>1. \A S \in SUBSET (1..n) : g[S] = IF S = {} THEN <<>> ELSE G[g[S \ {Max(S)}], Max(S)]
    BY <2>0 DEF FoldsOver
  <2>2. ASSUME NEW S \in SUBSET (1..n) PROVE g[S] = Step(g, S)
    <3>1. CASE S = {}
      BY <2>1, <3>1
    <3>2. CASE S # {}
      <4>1. Max(S) \in 1..n /\ g[S \ {Max(S)}] \in Seq(Nat)
        BY <2>0, <3>2, MaxFacts
      <4> QED
        BY <1>4, <2>1, <3>2, <4>1
    <3> QED
      BY <3>1, <3>2
  <2> HIDE DEF Step
  <2>3. g = F(g)
    BY <2>0, <2>2
  <2> QED
    BY <2>3
<1>6. chosen = F(chosen)
  <2> HIDE DEF F
  <2> QED
    BY <1>5
<1>7. EncodeOperations(b) = <<EncodingVersion, 0, Len(b)>> \o chosen[1..n]
  <2>1. EncodeOperations(b)
          = <<EncodingVersion, 0, Len(b)>>
              \o (CHOOSE g : g = [S \in SUBSET (DOMAIN b) |-> Step(g, S)])[DOMAIN b]
    BY DEF EncodeOperations, FoldLeft, MapThenFoldSet
  <2> QED
    BY <1>2, <2>1
<1>f. PICK f : f = F(f) /\ EncodeOperations(b) = <<EncodingVersion, 0, Len(b)>> \o f[1..n]
  <2> HIDE DEF F, chosen
  <2> QED
    BY <1>6, <1>7
<1>8. f[1..0] = <<>>
  <2>1. 1..0 = {} /\ 1..0 \in SUBSET (1..n)
    OBVIOUS
  <2> QED
    BY <1>f, <2>1
<1>9. ASSUME NEW k \in 1..n, f[1..(k - 1)] \in Seq(Nat)
      PROVE  f[1..k] = G[f[1..(k - 1)], k]
  <2>1. f[1..k] = Step(f, 1..k)
    BY <1>f, InitialSegment
  <2>2. f[1..k] = f[1..(k - 1)] \o EncodeOp(b[k])
    BY <2>1, InitialSegment
  <2> QED
    BY <1>4, <1>9, <2>2
<1>a. UnfoldsOver(f, n, Seq(Nat), <<>>, G)
  <2>1. \A k \in 1..n : f[1..(k - 1)] \in Seq(Nat) => f[1..k] = G[f[1..(k - 1)], k]
    BY ONLY <1>9
  <2> QED
    BY <1>s, <1>t, <1>8, <2>1 DEF UnfoldsOver
<1>10. PICK h : Iterates(h, n, Seq(Nat), <<>>, G) /\ h[n] = f[1..n]
  BY <1>a, FoldIterates
<1>11. EncodedBy(h, b)
  <2>1. /\ h \in [0..n -> Seq(Nat)] /\ h[0] = <<>>
        /\ \A k \in 1..n : h[k] = G[h[k - 1], k]
    BY <1>10 DEF Iterates
  <2>2. ASSUME NEW k \in 1..n PROVE h[k - 1] \in Seq(Nat)
    <3>1. k - 1 \in 0..n
      BY ONLY n \in Nat, k \in 1..n
    <3> QED
      BY ONLY <2>1, <3>1
  <2>3. \A k \in 1..n : h[k] = h[k - 1] \o EncodeOp(b[k])
    BY <1>4, <2>1, <2>2
  <2> QED
    BY ONLY <1>1, <2>1, <2>3 DEF EncodedBy
<1> QED
  BY ONLY <1>1, <1>f, <1>10, <1>11

(* What is appended to a sequence of fields leaves it as it was.           *)
LEMMA Continues ==
    ASSUME NEW u \in Seq(Nat), NEW w \in Seq(Nat)
    PROVE  /\ u \o w \in Seq(Nat) /\ Len(u) \in Nat /\ Len(w) \in Nat
           /\ Len(u \o w) = Len(u) + Len(w)
           /\ \A x \in 1..Len(u) : (u \o w)[x] = u[x]
           /\ \A x \in 1..Len(w) : (u \o w)[Len(u) + x] = w[x]
<1>1. PICK m \in Nat : m = Len(u)
  OBVIOUS
<1>2. PICK n \in Nat : n = Len(w)
  OBVIOUS
<1>3. /\ u \o w \in Seq(Nat) /\ Len(u \o w) = m + n
      /\ \A x \in 1..(m + n) : (u \o w)[x] = IF x <= m THEN u[x] ELSE w[x - m]
  BY <1>1, <1>2, ConcatProperties
<1>4. ASSUME NEW x \in 1..m PROVE (u \o w)[x] = u[x]
  <2>1. x \in 1..(m + n) /\ x <= m
    OBVIOUS
  <2> QED
    BY ONLY <1>3, <2>1
<1>5. ASSUME NEW x \in 1..n PROVE (u \o w)[m + x] = w[x]
  <2>1. m + x \in 1..(m + n) /\ ~(m + x <= m) /\ (m + x) - m = x
    OBVIOUS
  <2> QED
    BY ONLY <1>3, <2>1
<1> QED
  BY ONLY <1>1, <1>2, <1>3, <1>4, <1>5

(* Each operation begins where the one before ends, and stays what it is   *)
(* when others follow.                                                     *)
Builds(e, m) ==
    \A j \in 0..m : /\ e[j] \in Seq(Nat) /\ Len(e[j]) \in Nat /\ Len(e[j]) <= Len(e[m])
                    /\ \A x \in 1..Len(e[j]) : e[m][x] = e[j][x]

LEMMA EncodedFacts ==
    ASSUME NEW b \in Seq(Items), NEW e, EncodedBy(e, b), NEW m \in 0..Len(b)
    PROVE  Builds(e, m)
<1>1. PICK n \in Nat : n = Len(b)
  OBVIOUS
<1>2. /\ e \in [0..n -> Seq(Nat)]
      /\ \A k \in 1..n : e[k] = e[k - 1] \o EncodeOp(b[k]) /\ EncodeOp(b[k]) \in Seq(Nat)
  <2>1. e \in [0..n -> Seq(Nat)] /\ \A k \in 1..n : e[k] = e[k - 1] \o EncodeOp(b[k])
    BY ONLY <1>1, EncodedBy(e, b) DEF EncodedBy
  <2>2. \A k \in 1..n : b[k] \in Items
    BY <1>1
  <2>3. \A k \in 1..n : EncodeOp(b[k]) \in Seq(Nat)
    BY <2>2, EncodeOpFacts
  <2> QED
    BY ONLY <2>1, <2>3
<1> DEFINE Good(i) == \A j \in 0..i : /\ Len(e[j]) <= Len(e[i])
                                      /\ \A x \in 1..Len(e[j]) : e[i][x] = e[j][x]
           U == {i \in Nat : i <= n => Good(i)}
<1>3. \A j \in 0..n : e[j] \in Seq(Nat) /\ Len(e[j]) \in Nat
  BY ONLY <1>2
<1>4. 0 \in U
  <2>1. \A j \in 0..0 : j = 0
    OBVIOUS
  <2>2. 0 \in 0..n
    OBVIOUS
  <2>3. Len(e[0]) \in Nat
    BY ONLY <1>3, <2>2
  <2> QED
    BY ONLY <2>1, <2>3
<1>5. ASSUME NEW i \in U PROVE i + 1 \in U
  <2>0. i \in Nat /\ i + 1 \in Nat
    OBVIOUS
  <2>1. ASSUME i + 1 <= n PROVE Good(i + 1)
    <3>1. i <= n /\ i \in 0..n /\ i + 1 \in 1..n /\ i + 1 \in 0..n /\ (i + 1) - 1 = i
      BY ONLY <2>0, <2>1, n \in Nat
    <3>2. Good(i)
      BY ONLY <3>1, i \in U
    <3>3. PICK k \in 1..n : k = i + 1 /\ k - 1 = i /\ k \in 0..n
      BY ONLY <3>1
    <3>4. e[k] = e[i] \o EncodeOp(b[k]) /\ EncodeOp(b[k]) \in Seq(Nat) /\ e[i] \in Seq(Nat)
      <4>1. e[k] = e[k - 1] \o EncodeOp(b[k]) /\ EncodeOp(b[k]) \in Seq(Nat)
        BY ONLY <1>2, <3>3
      <4> QED
        BY ONLY <1>3, <3>1, <3>3, <4>1
    <3>5. PICK w \in Seq(Nat) : w = EncodeOp(b[k])
      BY ONLY <3>4
    <3>6. Len(e[k]) = Len(e[i]) + Len(w) /\ \A x \in 1..Len(e[i]) : e[k][x] = e[i][x]
      <4>1. PICK u \in Seq(Nat) : u = e[i] /\ u \o w = e[k]
        BY ONLY <3>4, <3>5
      <4>2. Len(u \o w) = Len(u) + Len(w) /\ \A x \in 1..Len(u) : (u \o w)[x] = u[x]
        BY ONLY u \in Seq(Nat), w \in Seq(Nat), Continues
      <4> QED
        BY ONLY <4>1, <4>2
    <3>7. Len(w) \in Nat /\ Len(e[i]) \in Nat /\ Len(e[i]) <= Len(e[k])
      <4>1. Len(w) \in Nat /\ Len(e[i]) \in Nat
        BY ONLY <3>4, <3>5, LenProperties
      <4> QED
        BY ONLY <3>6, <4>1
    <3>8. ASSUME NEW j \in 0..k
          PROVE  Len(e[j]) <= Len(e[k]) /\ \A x \in 1..Len(e[j]) : e[k][x] = e[j][x]
      <4>1. CASE j = k
        <5>1. Len(e[k]) \in Nat
          BY ONLY <1>3, <3>3
        <5> QED
          BY ONLY <4>1, <5>1
      <4>2. CASE j # k
        <5>1. j \in 0..i /\ j \in 0..n
          BY ONLY <2>0, <3>1, <3>3, <4>2, j \in 0..k, n \in Nat
        <5>2. /\ Len(e[j]) <= Len(e[i]) /\ Len(e[j]) \in Nat
              /\ \A x \in 1..Len(e[j]) : e[i][x] = e[j][x]
          BY ONLY <1>3, <3>2, <5>1
        <5>3. \A x \in 1..Len(e[j]) : x \in 1..Len(e[i])
          BY ONLY <3>7, <5>2
        <5>4. Len(e[j]) <= Len(e[k])
          BY ONLY <1>3, <3>3, <3>7, <5>2
        <5> QED
          BY ONLY <3>6, <5>2, <5>3, <5>4
      <4> QED
        BY ONLY <4>1, <4>2
    <3>9. Good(k)
      BY ONLY <3>8
    <3> QED
      BY ONLY <3>3, <3>9
  <2> HIDE DEF Good
  <2> QED
    BY ONLY <2>0, <2>1
<1>6. U = Nat
  <2>1. U \in SUBSET Nat
    OBVIOUS
  <2> HIDE DEF U
  <2> QED
    BY ONLY <1>4, <1>5, <2>1, Induction
<1>7. Good(m)
  <2> HIDE DEF Good
  <2>1. m \in Nat /\ m <= n
    BY ONLY <1>1, m \in 0..Len(b)
  <2>2. m \in U
    BY ONLY <1>6, <2>1
  <2> QED
    BY ONLY <2>1, <2>2
<1>8. \A j \in 0..m : j \in 0..n
  BY ONLY <1>1, m \in 0..Len(b), n \in Nat
<1> QED
  BY ONLY <1>3, <1>7, <1>8 DEF Builds

(* The decoder goes through the operations one by one.                     *)
Decodes(f, data, n) ==
    /\ f[0] = Reading(3, <<>>)
    /\ \A i \in 1..n : f[i] = DecodeOperation(data, f[i - 1])

LEMMA DecoderSteps ==
    ASSUME NEW data, NEW n \in Nat
    PROVE  \E f : Decodes(f, data, n) /\ DecodeOperations(data, n) = f[n]
<1> DEFINE Step(f, i) == IF i = 0 THEN Reading(HeaderFields, <<>>)
                         ELSE DecodeOperation(data, f[i - 1])
           F(f, k) == [i \in 0..k |-> Step(f, i)]
           T == {k \in Nat : \E f : f = F(f, k)}
           chosen == CHOOSE f : f = F(f, n)
<1>1. 0 \in T
  <2>1. PICK f : f = [i \in 0..0 |-> Reading(HeaderFields, <<>>)]
    OBVIOUS
  <2>2. \A i \in 0..0 : Step(f, i) = Reading(HeaderFields, <<>>)
    OBVIOUS
  <2> HIDE DEF Step
  <2>3. f = F(f, 0)
    BY <2>1, <2>2
  <2> QED
    BY <2>3
<1>2. ASSUME NEW k \in T PROVE k + 1 \in T
  <2>1. k \in Nat /\ k + 1 \in Nat
    OBVIOUS
  <2>2. PICK f : f = F(f, k)
    BY k \in T
  <2>3. PICK g : g = [i \in 0..(k + 1) |-> IF i = k + 1 THEN DecodeOperation(data, f[k]) ELSE f[i]]
    OBVIOUS
  <2>4. ASSUME NEW i \in 0..(k + 1) PROVE g[i] = Step(g, i)
    <3>1. CASE i = k + 1
      <4>1. g[i] = DecodeOperation(data, f[k]) /\ k \in 0..(k + 1) /\ k # k + 1 /\ i - 1 = k /\ i # 0
        BY <2>1, <2>3, <3>1
      <4>2. g[k] = f[k]
        BY <2>3, <4>1
      <4> QED
        BY <4>1, <4>2
    <3>2. CASE i # k + 1
      <4>1. i \in 0..k /\ g[i] = f[i] /\ f[i] = Step(f, i)
        BY <2>1, <2>2, <2>3, <3>2
      <4>2. CASE i = 0
        BY <4>1, <4>2
      <4>3. CASE i # 0
        <5>1. i - 1 \in 0..(k + 1) /\ i - 1 # k + 1
          BY <2>1, <4>1, <4>3
        <5>2. g[i - 1] = f[i - 1]
          BY <2>3, <5>1
        <5> QED
          BY <4>1, <4>3, <5>2
      <4> QED
        BY <4>2, <4>3
    <3> QED
      BY <3>1, <3>2
  <2> HIDE DEF Step
  <2>5. g = F(g, k + 1)
    BY <2>3, <2>4
  <2> QED
    BY <2>1, <2>5
<1>3. T = Nat
  <2>1. T \in SUBSET Nat
    OBVIOUS
  <2> HIDE DEF T
  <2> QED
    BY ONLY <1>1, <1>2, <2>1, Induction
<1>4. \E f : f = F(f, n)
  <2>1. n \in T
    BY ONLY <1>3, n \in Nat
  <2> HIDE DEF F
  <2> QED
    BY <2>1
<1>5. chosen = F(chosen, n)
  <2> HIDE DEF F
  <2> QED
    BY <1>4
<1>6. DecodeOperations(data, n) = chosen[n]
  BY DEF DecodeOperations
<1>7. PICK f : f = F(f, n) /\ DecodeOperations(data, n) = f[n]
  <2> HIDE DEF F, chosen
  <2> QED
    BY <1>5, <1>6
<1>8. f[0] = Reading(3, <<>>)
  BY <1>7 DEF HeaderFields
<1>9. ASSUME NEW i \in 1..n PROVE f[i] = DecodeOperation(data, f[i - 1])
  <2>1. i \in 0..n /\ i # 0
    OBVIOUS
  <2> QED
    BY <1>7, <2>1
<1> QED
  BY <1>7, <1>8, <1>9 DEF Decodes

(* One operation is read back from its fields, and from nothing less.      *)
Canonical(op) == op.type # OpTypePut => op = DeleteOp(op.key)

LEMMA DecodesOne ==
    ASSUME NEW op \in Items, Canonical(op), NEW d \in Seq(Nat), NEW pos \in Nat, NEW q,
           NEW w, w = EncodeOp(op), pos <= Len(d),
           \A x \in 1..Len(w) : pos + x <= Len(d) => d[pos + x] = w[x]
    PROVE  IF pos + Len(w) <= Len(d)
           THEN DecodeOperation(d, Reading(pos, q)) = Reading(pos + Len(w), Append(q, op))
           ELSE DecodeOperation(d, Reading(pos, q)).err # "nil"
<1>1. PICK m \in Nat : m = Len(d)
  OBVIOUS
<1>2. PICK r : r = DecodeOperation(d, Reading(pos, q))
  OBVIOUS
<1>3. Reading(pos, q).err = "nil" /\ Reading(pos, q).pos = pos /\ Reading(pos, q).ops = q
  BY DEF Reading
<1>4. \A err : Failing(err).err = err
  BY DEF Failing
<1>5. /\ w[1] = op.type /\ w[2] = op.key
      /\ op.type = OpTypePut => Len(w) = 3 /\ w[3] = op.value
      /\ op.type # OpTypePut => Len(w) = 2
  BY EncodeOpFacts
<1>w. PICK l \in {2, 3} : l = Len(w)
  <2>1. CASE op.type = OpTypePut
    BY ONLY <1>5, <2>1
  <2>2. CASE op.type # OpTypePut
    BY ONLY <1>5, <2>2
  <2> QED
    BY ONLY <2>1, <2>2
<1>6. op.type \in {OpTypePut, OpTypeDelete} /\ OpTypePut # OpTypeDelete
  BY DEF Items, OpTypePut, OpTypeDelete
<1>7. CASE pos = m
  <2>1. r.err = "ErrCorruptBatch"
    BY ONLY <1>1, <1>2, <1>3, <1>4, <1>7 DEF DecodeOperation
  <2>2. ~(pos + l <= m)
    BY ONLY <1>7, l \in {2, 3}, m \in Nat
  <2> QED
    BY <1>1, <1>2, <1>w, <2>1, <2>2
<1>8. CASE pos # m
  <2>1. pos + 1 <= m
    BY ONLY <1>1, <1>8, pos <= Len(d), pos \in Nat, m \in Nat
  <2>2. d[pos + 1] = op.type
    <3>1. 1 \in 1..l
      BY ONLY l \in {2, 3}
    <3> QED
      BY <1>1, <1>5, <1>w, <2>1, <3>1
  <2>3. CASE op.type = OpTypePut
    <3>1. r = IF pos + 3 > m THEN Failing("ErrTruncatedBatch")
              ELSE Reading(pos + 3, BatchPut(q, d[pos + 3 - 1], d[pos + 3]))
      BY ONLY <1>1, <1>2, <1>3, <1>6, <1>8, <2>2, <2>3 DEF DecodeOperation
    <3>2. CASE pos + 3 <= m
      <4>1. /\ ~(pos + 3 > m) /\ pos + 2 <= m /\ pos + 3 - 1 = pos + 2
            /\ 2 \in 1..3 /\ 3 \in 1..3
        BY ONLY <3>2, pos \in Nat, m \in Nat
      <4>2. d[pos + 2] = op.key /\ d[pos + 3] = op.value
        BY <1>1, <1>5, <2>3, <3>2, <4>1
      <4>3. op = PutOp(op.key, op.value)
        BY <2>3 DEF Items, PutOp
      <4>4. r = Reading(pos + 3, Append(q, op))
        BY ONLY <3>1, <4>1, <4>2, <4>3 DEF BatchPut
      <4> QED
        BY ONLY <1>1, <1>2, <1>5, <2>3, <3>2, <4>4
    <3>3. CASE ~(pos + 3 <= m)
      <4>1. pos + 3 > m
        BY ONLY <3>3, pos \in Nat, m \in Nat
      <4>2. r.err # "nil"
        BY ONLY <1>4, <3>1, <4>1
      <4> QED
        BY ONLY <1>1, <1>2, <1>5, <2>3, <3>3, <4>2
    <3> QED
      BY ONLY <3>2, <3>3
  <2>4. CASE op.type # OpTypePut
    <3>1. r = IF pos + 2 > m THEN Failing("ErrTruncatedBatch")
              ELSE Reading(pos + 2, BatchDelete(q, d[pos + 2]))
      BY ONLY <1>1, <1>2, <1>3, <1>6, <1>8, <2>2, <2>4 DEF DecodeOperation
    <3>2. CASE pos + 2 <= m
      <4>1. ~(pos + 2 > m) /\ 2 \in 1..2
        BY ONLY <3>2, pos \in Nat, m \in Nat
      <4>2. d[pos + 2] = op.key
        BY <1>1, <1>5, <2>4, <3>2, <4>1
      <4>3. op = DeleteOp(op.key)
        BY <2>4 DEF Canonical
      <4>4. r = Reading(pos + 2, Append(q, op))
        BY ONLY <3>1, <4>1, <4>2, <4>3 DEF BatchDelete
      <4> QED
        BY ONLY <1>1, <1>2, <1>5, <2>4, <3>2, <4>4
    <3>3. CASE ~(pos + 2 <= m)
      <4>1. pos + 2 > m
        BY ONLY <3>3, pos \in Nat, m \in Nat
      <4>2. r.err # "nil"
        BY ONLY <1>4, <3>1, <4>1
      <4> QED
        BY ONLY <1>1, <1>2, <1>5, <2>4, <3>3, <4>2
    <3> QED
      BY ONLY <3>2, <3>3
  <2> QED
    BY ONLY <2>3, <2>4
<1> QED
  BY ONLY <1>7, <1>8

(* p is the payload of batch b: its header and the fields e of all its     *)
(* operations; h are the batches of the first few.                         *)
Lays(p, b, e, h) ==
    /\ b \in Seq(Items) /\ EncodedBy(e, b)
    /\ h[0] = <<>> /\ h[Len(b)] = b
    /\ \A k \in 1..Len(b) : h[k] = Append(h[k - 1], b[k]) /\ Canonical(b[k])
    /\ p \in Seq(Nat) /\ p[1] = EncodingVersion /\ p[2] = 0 /\ p[3] = Len(b)
    /\ Len(p) = 3 + Len(e[Len(b)])
    /\ \A x \in 1..Len(e[Len(b)]) : p[3 + x] = e[Len(b)][x]

(* d and p agree as far as both go.                                        *)
Follows(d, p) == \A x \in 1..Len(d) : x <= Len(p) => d[x] = p[x]

(* As far as the data d agrees with the payload, it is decoded to the same *)
(* operations, up to the one it breaks off in.                             *)
LEMMA DecodesAlong ==
    ASSUME NEW p, NEW b, NEW e, NEW h, Lays(p, b, e, h), NEW n \in Nat, n = Len(b),
           NEW d \in Seq(Nat), Len(d) >= 3,
           Follows(d, p), NEW f, Decodes(f, d, n), NEW k \in 0..n
    PROVE  IF 3 + Len(e[k]) <= Len(d) THEN f[k] = Reading(3 + Len(e[k]), h[k])
           ELSE f[k].err # "nil"
<1>1. PICK m \in Nat : m = Len(d) /\ m >= 3
  OBVIOUS
<1>d. f[0] = Reading(3, <<>>) /\ \A i \in 1..n : f[i] = DecodeOperation(d, f[i - 1])
  BY DEF Decodes
<1>2. /\ b \in Seq(Items) /\ e \in [0..n -> Seq(Nat)] /\ e[0] = <<>> /\ h[0] = <<>>
      /\ \A i \in 1..n : e[i] = e[i - 1] \o EncodeOp(b[i]) /\ h[i] = Append(h[i - 1], b[i])
      /\ \A i \in 1..n : Canonical(b[i])
      /\ Len(p) = 3 + Len(e[n]) /\ \A x \in 1..Len(e[n]) : p[3 + x] = e[n][x]
  BY ONLY Lays(p, b, e, h), n = Len(b) DEF Lays, EncodedBy
<1>3. \A i \in 1..n : b[i] \in Items
  BY <1>2
<1>4. ASSUME NEW i \in 0..n, NEW x \in 1..Len(e[i]), 3 + x <= m PROVE d[3 + x] = e[i][x]
  <2>1. b \in Seq(Items) /\ EncodedBy(e, b) /\ n \in 0..Len(b)
    BY DEF Lays
  <2>2. /\ Len(e[i]) \in Nat /\ Len(e[i]) <= Len(e[n])
        /\ \A y \in 1..Len(e[i]) : e[n][y] = e[i][y]
    <3>1. Builds(e, n)
      BY ONLY <2>1, EncodedFacts
    <3> QED
      BY ONLY <3>1, i \in 0..n DEF Builds
  <2>3. Len(e[n]) \in Nat
    BY <1>2
  <2>4. x \in Nat /\ x \in 1..Len(e[n]) /\ 3 + x \in 1..m /\ 3 + x <= 3 + Len(e[n])
    BY ONLY <1>4, <2>2, <2>3, m \in Nat
  <2>5. d[3 + x] = p[3 + x]
    BY <1>1, <1>2, <2>4 DEF Follows
  <2> QED
    BY ONLY <1>2, <1>4, <2>2, <2>4, <2>5
<1> DEFINE Good(i) == IF 3 + Len(e[i]) <= m THEN f[i] = Reading(3 + Len(e[i]), h[i])
                      ELSE f[i].err # "nil"
           U == {i \in Nat : i <= n => Good(i)}
<1>5. 0 \in U
  <2>1. Len(e[0]) = 0
    BY ONLY <1>2, EmptySeq
  <2>2. 3 + Len(e[0]) = 3
    BY ONLY <2>1
  <2>3. Good(0)
    BY <1>1, <1>2, <1>d, <2>2
  <2> HIDE DEF Good
  <2> QED
    BY ONLY <2>3
<1>6. ASSUME NEW i \in U PROVE i + 1 \in U
  <2>0. i \in Nat /\ i + 1 \in Nat
    OBVIOUS
  <2>1. ASSUME i + 1 <= n PROVE Good(i + 1)
    <3>1. i <= n /\ i \in 0..n /\ i + 1 \in 1..n /\ i + 1 \in 0..n /\ (i + 1) - 1 = i
      BY ONLY <2>0, <2>1, n \in Nat
    <3>2. Good(i)
      BY ONLY <3>1, i \in U
    <3>3. PICK j \in 1..n : j = i + 1 /\ j - 1 = i /\ j \in 0..n
      BY ONLY <3>1
    <3>4. PICK u \in Seq(Nat) : u = e[i]
      BY ONLY <1>2, <3>1
    <3>5. PICK w \in Seq(Nat) : w = EncodeOp(b[j])
      <4>1. PICK op \in Items : op = b[j]
        BY ONLY <1>3, <3>3
      <4> QED
        BY <4>1, EncodeOpFacts
    <3>6. e[j] = u \o w /\ h[j] = Append(h[i], b[j]) /\ f[j] = DecodeOperation(d, f[i])
      <4>1. e[j] = e[j - 1] \o EncodeOp(b[j]) /\ h[j] = Append(h[j - 1], b[j])
        BY ONLY <1>2, <3>3
      <4>2. f[j] = DecodeOperation(d, f[j - 1])
        BY ONLY <1>d, <3>3
      <4> QED
        BY ONLY <3>3, <3>4, <3>5, <4>1, <4>2
    <3>7. PICK lu \in Nat : lu = Len(u)
      BY ONLY u \in Seq(Nat), LenProperties
    <3>8. PICK lw \in Nat : lw = Len(w)
      BY ONLY w \in Seq(Nat), LenProperties
    <3>9. Len(e[j]) = lu + lw /\ \A x \in 1..lw : e[j][lu + x] = w[x]
      <4>1. Len(u \o w) = Len(u) + Len(w) /\ \A x \in 1..Len(w) : (u \o w)[Len(u) + x] = w[x]
        BY ONLY u \in Seq(Nat), w \in Seq(Nat), Continues
      <4> QED
        BY ONLY <3>6, <3>7, <3>8, <4>1
    <3>10. CASE 3 + lu <= m
      <4>1. f[i] = Reading(3 + lu, h[i])
        BY ONLY <3>2, <3>4, <3>7, <3>10
      <4>2. ASSUME NEW x \in 1..lw, (3 + lu) + x <= m PROVE d[(3 + lu) + x] = w[x]
        <5>1. /\ lu + x \in 1..(lu + lw) /\ 3 + (lu + x) <= m
              /\ (3 + lu) + x = 3 + (lu + x)
          BY ONLY <4>2, lu \in Nat, lw \in Nat
        <5>2. d[3 + (lu + x)] = e[j][lu + x]
          BY ONLY <1>4, <3>3, <3>9, <5>1
        <5> QED
          BY ONLY <3>9, <5>1, <5>2
      <4>3. b[j] \in Items /\ Canonical(b[j]) /\ 3 + lu \in Nat
        BY ONLY <1>2, <1>3, lu \in Nat
      <4>4. IF (3 + lu) + lw <= m
            THEN f[j] = Reading((3 + lu) + lw, Append(h[i], b[j])) ELSE f[j].err # "nil"
        <5>1. PICK pos \in Nat : pos = 3 + lu /\ pos <= Len(d)
          BY ONLY <1>1, <3>10, <4>3
        <5>2. \A x \in 1..Len(w) : pos + x <= Len(d) => d[pos + x] = w[x]
          BY ONLY <1>1, <3>8, <4>2, <5>1
        <5>3. IF pos + Len(w) <= Len(d)
              THEN DecodeOperation(d, Reading(pos, h[i])) = Reading(pos + Len(w), Append(h[i], b[j]))
              ELSE DecodeOperation(d, Reading(pos, h[i])).err # "nil"
          BY <3>5, <4>3, <5>1, <5>2, DecodesOne, ZenonT(40)
        <5> QED
          BY ONLY <1>1, <3>6, <3>8, <4>1, <5>1, <5>3
      <4>5. (3 + lu) + lw = 3 + Len(e[j])
        BY ONLY <3>9, lu \in Nat, lw \in Nat
      <4> QED
        BY ONLY <3>3, <3>6, <4>4, <4>5
    <3>11. CASE ~(3 + lu <= m)
      <4>1. f[i].err # "nil"
        BY ONLY <3>2, <3>4, <3>7, <3>11
      <4>2. f[j].err # "nil"
        BY ONLY <3>6, <4>1 DEF DecodeOperation
      <4>3. ~(3 + (lu + lw) <= m)
        BY ONLY <3>11, lu \in Nat, lw \in Nat, m \in Nat
      <4> QED
        BY ONLY <3>3, <3>9, <4>2, <4>3
    <3> QED
      BY ONLY <3>10, <3>11
  <2> HIDE DEF Good
  <2> QED
    BY ONLY <2>0, <2>1
<1>7. U = Nat
  <2>1. U \in SUBSET Nat
    OBVIOUS
  <2> HIDE DEF U
  <2> QED
    BY ONLY <1>5, <1>6, <2>1, Induction
<1>8. Good(k)
  <2> HIDE DEF Good
  <2>1. k \in Nat /\ k <= n
    BY ONLY k \in 0..n, n \in Nat
  <2>2. k \in U
    BY ONLY <1>7, <2>1
  <2> QED
    BY ONLY <2>1, <2>2
<1> QED
  BY ONLY <1>1, <1>8

(* The record that is written for an operation.                            *)
Payload(items) == EncodeOperations(ToBatch(items))

LEMMA PayloadLays ==
    ASSUME NEW items \in Seq(Items)
    PROVE  \E e, h : Lays(Payload(items), ToBatch(items), e, h)
<1>1. PICK n \in Nat : n = Len(items)
  OBVIOUS
<1>2. \A i \in 1..n : items[i] \in Items
  BY <1>1
<1>3. PICK b \in Seq(Items) : /\ b = ToBatch(items) /\ Len(b) = n
                              /\ \A k \in 1..n : b[k] = AsOp(items[k])
  BY <1>1, ToBatchFacts
<1>4. PICK h : /\ h[0] = <<>> /\ h[n] = b
               /\ \A k \in 1..n : h[k] = Append(h[k - 1], b[k])
  <2>1. PICK h : /\ h[0] = <<>> /\ \A k \in 1..Len(items) : h[k] = Append(h[k - 1], AsOp(items[k]))
                 /\ ToBatch(items) = h[Len(items)]
    BY ONLY items \in Seq(Items), ToBatchInOrder
  <2> QED
    BY ONLY <1>1, <1>3, <2>1
<1>5. \A k \in 1..n : Canonical(b[k])
  <2> TAKE k \in 1..n
  <2>1. PICK item \in Items : item = items[k] /\ b[k] = AsOp(item)
    BY ONLY <1>2, <1>3
  <2>2. /\ AsOp(item).type = item.type /\ AsOp(item).key = item.key
        /\ item.type # OpTypePut => AsOp(item) = DeleteOp(item.key)
    BY AsOpFacts
  <2> QED
    BY ONLY <2>1, <2>2 DEF Canonical
<1>6. PICK e : EncodedBy(e, b) /\ EncodeOperations(b) = <<EncodingVersion, 0, Len(b)>> \o e[Len(b)]
  BY ONLY b \in Seq(Items), EncodeInOrder
<1>7. PICK u \in Seq(Nat) : u = <<EncodingVersion, 0, n>>
  <2>1. <<1, 0, n>> \in Seq(Nat)
    BY ONLY n \in Nat
  <2> QED
    BY ONLY <2>1 DEF EncodingVersion
<1>8. PICK w \in Seq(Nat) : w = e[n]
  <2>1. e \in [0..n -> Seq(Nat)] /\ n \in 0..n
    BY <1>3, <1>6 DEF EncodedBy
  <2> QED
    BY ONLY <2>1
<1>9. PICK p : p = Payload(items) /\ p = u \o w
  BY <1>3, <1>6, <1>7, <1>8 DEF Payload
<1>10. Len(u) = 3 /\ u[1] = EncodingVersion /\ u[2] = 0 /\ u[3] = n
  BY ONLY <1>7
<1>11. /\ p \in Seq(Nat) /\ Len(p) = 3 + Len(w)
       /\ \A x \in 1..3 : p[x] = u[x]
       /\ \A x \in 1..Len(w) : p[3 + x] = w[x]
  <2>1. /\ u \o w \in Seq(Nat) /\ Len(u \o w) = Len(u) + Len(w)
        /\ \A x \in 1..Len(u) : (u \o w)[x] = u[x]
        /\ \A x \in 1..Len(w) : (u \o w)[Len(u) + x] = w[x]
    BY ONLY u \in Seq(Nat), w \in Seq(Nat), Continues
  <2> QED
    BY ONLY <1>9, <1>10, <2>1
<1>12. p[1] = EncodingVersion /\ p[2] = 0 /\ p[3] = n
  BY ONLY <1>10, <1>11
<1>13. Lays(p, b, e, h)
  BY ONLY <1>3, <1>4, <1>5, <1>6, <1>8, <1>11, <1>12, b \in Seq(Items) DEF Lays
<1> QED
  BY ONLY <1>3, <1>9, <1>13

(* A payload decodes to its batch; what agrees with it as far as it goes   *)
(* and is shorter or longer does not decode.                               *)
LEMMA DecodesExactly ==
    ASSUME NEW p, NEW b, NEW e, NEW h, Lays(p, b, e, h), NEW d \in Seq(Nat), Follows(d, p)
    PROVE  /\ Len(d) = Len(p) => DecodeBatch(d).err = "nil" /\ DecodeBatch(d).ops = b
           /\ Len(d) # Len(p) => DecodeBatch(d).err # "nil"
<1>1. PICK m \in Nat : m = Len(d)
  OBVIOUS
<1>2. /\ b \in Seq(Items) /\ EncodedBy(e, b) /\ h[Len(b)] = b
      /\ p \in Seq(Nat) /\ p[1] = EncodingVersion /\ p[2] = 0 /\ p[3] = Len(b)
      /\ Len(p) = 3 + Len(e[Len(b)])
  BY DEF Lays
<1>3. PICK n \in Nat : n = Len(b)
  BY <1>2
<1>4. PICK l \in Nat : l = Len(e[n])
  <2>1. e[n] \in Seq(Nat)
    <3>1. e \in [0..n -> Seq(Nat)] /\ n \in 0..n
      BY <1>2, <1>3 DEF EncodedBy
    <3> QED
      BY ONLY <3>1
  <2> QED
    BY ONLY <2>1, LenProperties
<1>5. Len(p) = 3 + l /\ 3 <= Len(p)
  BY ONLY <1>2, <1>3, <1>4
<1>6. \A err : Failing(err).err = err
  BY DEF Failing
<1>7. CASE m < 3
  <2>1. HeaderError(d) # "nil"
    <3>1. d = <<>> \/ Len(d) < 3
      BY ONLY <1>1, <1>7
    <3> QED
      BY ONLY <3>1 DEF HeaderError, HeaderFields
  <2>2. DecodeBatch(d).err # "nil"
    BY ONLY <1>6, <2>1 DEF DecodeBatch
  <2>3. m # 3 + l
    BY ONLY <1>7, m \in Nat, l \in Nat
  <2> QED
    BY ONLY <1>1, <1>5, <2>2, <2>3
<1>8. CASE m >= 3
  <2>1. \A x \in 1..3 : x \in 1..m /\ x <= 3 + l
    BY ONLY <1>8, m \in Nat, l \in Nat
  <2>2. d[1] = EncodingVersion /\ d[2] = 0 /\ d[3] = n
    <3>1. \A x \in 1..3 : d[x] = p[x]
      <4>1. \A x \in 1..m : x <= 3 + l => d[x] = p[x]
        BY <1>1, <1>5 DEF Follows
      <4> QED
        BY ONLY <2>1, <4>1
    <3> QED
      BY ONLY <1>2, <1>3, <3>1
  <2>3. HeaderError(d) = "nil"
    <3>1. d # <<>> /\ ~(Len(d) < 3)
      BY <1>1, <1>8
    <3> QED
      BY ONLY <2>2, <3>1 DEF HeaderError, HeaderFields
  <2>4. PICK f : Decodes(f, d, n) /\ DecodeOperations(d, n) = f[n]
    BY ONLY n \in Nat, DecoderSteps
  <2>5. DecodeBatch(d) = IF f[n].err = "nil" /\ f[n].pos # m
                         THEN Failing("ErrCorruptBatch") ELSE f[n]
    BY ONLY <1>1, <2>2, <2>3, <2>4 DEF DecodeBatch
  <2>6. IF 3 + l <= m THEN f[n] = Reading(3 + l, b) ELSE f[n].err # "nil"
    <3>1. n \in 0..n /\ Len(d) >= 3
      BY ONLY <1>1, <1>8, n \in Nat
    <3>2. IF 3 + Len(e[n]) <= Len(d) THEN f[n] = Reading(3 + Len(e[n]), h[n])
          ELSE f[n].err # "nil"
      BY <1>3, <2>4, <3>1, DecodesAlong
    <3> QED
      BY ONLY <1>1, <1>2, <1>3, <1>4, <3>2
  <2>7. Reading(3 + l, b).err = "nil" /\ Reading(3 + l, b).pos = 3 + l /\ Reading(3 + l, b).ops = b
    BY DEF Reading
  <2>8. CASE m = 3 + l
    <3>1. DecodeBatch(d) = Reading(3 + l, b)
      BY ONLY <2>5, <2>6, <2>7, <2>8, m \in Nat
    <3> QED
      BY ONLY <1>1, <1>5, <2>7, <2>8, <3>1
  <2>9. CASE m # 3 + l
    <3>1. CASE 3 + l <= m
      BY ONLY <1>1, <1>5, <1>6, <2>5, <2>6, <2>7, <2>9, <3>1
    <3>2. CASE ~(3 + l <= m)
      BY ONLY <1>1, <1>5, <2>5, <2>6, <2>9, <3>2
    <3> QED
      BY ONLY <3>1, <3>2
  <2> QED
    BY ONLY <2>8, <2>9
<1> QED
  BY ONLY <1>7, <1>8, m \in Nat

LEMMA PayloadFacts ==
    ASSUME NEW items \in Seq(Items)
    PROVE  LET p == Payload(items) IN
           /\ p \in Seq(Nat) /\ Len(p) \in Nat /\ Len(p) >= 3
           /\ DecodeBatch(p).err = "nil" /\ DecodeBatch(p).ops = ToBatch(items)
           /\ \A n \in 0..(Len(p) - 1) : DecodeBatch(SubSeq(p, 1, n)).err # "nil"
           /\ \A q \in Seq(Nat) : Len(q) >= 3 => DecodeBatch(p \o q).err # "nil"
<1>1. PICK p : p = Payload(items)
  OBVIOUS
<1>2. PICK e, h : Lays(p, ToBatch(items), e, h)
  BY <1>1, PayloadLays
<1>3. p \in Seq(Nat)
  BY <1>2 DEF Lays
<1>4. PICK m \in Nat : m = Len(p)
  BY ONLY <1>3, LenProperties
<1>5. m >= 3
  <2>1. PICK b \in Seq(Items) : b = ToBatch(items)
    BY ToBatchFacts
  <2>2. EncodedBy(e, b) /\ m = 3 + Len(e[Len(b)])
    BY <1>2, <1>4, <2>1 DEF Lays
  <2>3. PICK n \in Nat : n = Len(b)
    BY ONLY b \in Seq(Items), LenProperties
  <2>4. e \in [0..n -> Seq(Nat)] /\ n \in 0..n
    BY ONLY <2>2, <2>3 DEF EncodedBy
  <2>5. PICK l \in Nat : l = Len(e[n])
    BY ONLY <2>4, LenProperties
  <2> QED
    BY ONLY <2>2, <2>3, <2>5
<1>6. \A d \in Seq(Nat) : Follows(d, p) =>
        /\ Len(d) = m => DecodeBatch(d).err = "nil" /\ DecodeBatch(d).ops = ToBatch(items)
        /\ Len(d) # m => DecodeBatch(d).err # "nil"
  BY ONLY <1>2, <1>4, DecodesExactly
<1>7. DecodeBatch(p).err = "nil" /\ DecodeBatch(p).ops = ToBatch(items)
  <2>1. Follows(p, p)
    BY DEF Follows
  <2> QED
    BY ONLY <1>3, <1>4, <1>6, <2>1
<1>8. ASSUME NEW n \in 0..(m - 1) PROVE DecodeBatch(SubSeq(p, 1, n)).err # "nil"
  <2>1. PICK d : d = SubSeq(p, 1, n)
    OBVIOUS
  <2>2. n \in Nat /\ n <= m /\ n # m
    BY ONLY m \in Nat, n \in 0..(m - 1)
  <2>3. d \in Seq(Nat) /\ Len(d) = n /\ \A x \in 1..n : d[x] = p[x]
    BY <1>3, <1>4, <2>1, <2>2
  <2>4. Follows(d, p)
    BY ONLY <2>3 DEF Follows
  <2> QED
    BY ONLY <1>6, <2>1, <2>2, <2>3, <2>4
<1>9. ASSUME NEW q \in Seq(Nat), Len(q) >= 3 PROVE DecodeBatch(p \o q).err # "nil"
  <2>1. PICK l \in Nat : l = Len(q)
    BY ONLY q \in Seq(Nat), LenProperties
  <2>2. p \o q \in Seq(Nat) /\ Len(p \o q) = m + l /\ \A x \in 1..m : (p \o q)[x] = p[x]
    BY ONLY <1>3, <1>4, <2>1, q \in Seq(Nat), Continues
  <2>3. Follows(p \o q, p)
    <3>1. \A x \in 1..(m + l) : x <= m => x \in 1..m
      BY ONLY m \in Nat, l \in Nat
    <3> QED
      BY ONLY <1>4, <2>2, <3>1 DEF Follows
  <2>4. m + l # m
    BY ONLY <1>9, <2>1, m \in Nat, l \in Nat
  <2> QED
    BY ONLY <1>6, <2>2, <2>3, <2>4
<1> QED
  BY ONLY <1>1, <1>3, <1>4, <1>5, <1>7, <1>8, <1>9

-----------------------------------------------------------------------------
(* What is recovered from the records. *)

Records   == {Payload(items) : items \in Seq(Items)}
Replay(q) == FoldLeft(LAMBDA s, p : ApplyItems(s, DecodeBatch(p).ops), Empty, q)
ReplayStep(q) ==
    [x \in States \X (1..Len(q)) |-> ApplyItems(x[1], DecodeBatch(q[x[2]]).ops)]

LEMMA ReplayType ==
    ASSUME NEW q \in Seq(Records), NEW s \in States, NEW i \in 1..Len(q)
    PROVE  ApplyItems(s, DecodeBatch(q[i]).ops) \in States
<1>1. PICK p \in Records : p = q[i]
  OBVIOUS
<1>2. PICK items \in Seq(Items) : p = Payload(items)
  BY DEF Records
<1>3. DecodeBatch(p).ops = ToBatch(items)
  BY <1>2, PayloadFacts
<1>4. ToBatch(items) \in Seq(Items)
  BY ToBatchFacts
<1> QED
  BY <1>1, <1>3, <1>4, ApplyItemsType

LEMMA ReplayInOrder ==
    ASSUME NEW q \in Seq(Records)
    PROVE  \E h : Iterates(h, Len(q), States, Empty, ReplayStep(q)) /\ Replay(q) = h[Len(q)]
<1>1. PICK n \in Nat : n = Len(q)
  BY ONLY q \in Seq(Records), LenProperties
<1>2. DOMAIN q = 1..n
  BY <1>1
<1>3. PICK G : G = ReplayStep(q)
  OBVIOUS
<1>4. \A x \in States, i \in 1..n : G[x, i] = ApplyItems(x, DecodeBatch(q[i]).ops)
  BY <1>1, <1>3 DEF ReplayStep
<1>t. G \in [States \X (1..n) -> States]
  BY <1>1, <1>3, ReplayType DEF ReplayStep
<1>s. Empty \in States
  BY DEF Empty, Missing, States
<1> DEFINE Step(g, S) == IF S = {} THEN Empty
                         ELSE ApplyItems(g[S \ {Max(S)}], DecodeBatch(q[Max(S)]).ops)
           F(g) == [S \in SUBSET (1..n) |-> Step(g, S)]
           chosen == CHOOSE g : g = F(g)
<1>5. \E g : g = F(g)
  <2>0. PICK g \in [SUBSET (1..n) -> States] : FoldsOver(g, n, Empty, G)
    BY ONLY n \in Nat, <1>s, <1>t, FoldExists
  <2>1. \A S \in SUBSET (1..n) : g[S] = IF S = {} THEN Empty ELSE G[g[S \ {Max(S)}], Max(S)]
    BY ONLY <2>0 DEF FoldsOver
  <2>2. ASSUME NEW S \in SUBSET (1..n) PROVE g[S] = Step(g, S)
    <3>1. CASE S = {}
      BY ONLY <2>1, <3>1
    <3>2. CASE S # {}
      <4>1. Max(S) \in 1..n /\ g[S \ {Max(S)}] \in States
        BY <2>0, <3>2, MaxFacts
      <4> QED
        BY ONLY <1>4, <2>1, <3>2, <4>1
    <3> QED
      BY <3>1, <3>2
  <2> HIDE DEF Step
  <2>3. g = F(g)
    BY <2>0, <2>2
  <2> QED
    BY <2>3
<1>6. chosen = F(chosen)
  <2> HIDE DEF F
  <2> QED
    BY <1>5
<1>7. Replay(q) = chosen[1..n]
  <2>1. Replay(q) = (CHOOSE g : g = [S \in SUBSET (DOMAIN q) |-> Step(g, S)])[DOMAIN q]
    BY DEF Replay, FoldLeft, MapThenFoldSet
  <2> QED
    BY <1>2, <2>1
<1>f. PICK f : f = F(f) /\ Replay(q) = f[1..n]
  <2> HIDE DEF F, chosen
  <2> QED
    BY <1>6, <1>7
<1>8. f[1..0] = Empty
  <2>1. 1..0 = {} /\ 1..0 \in SUBSET (1..n)
    OBVIOUS
  <2> QED
    BY <1>f, <2>1
<1>9. ASSUME NEW k \in 1..n, f[1..(k - 1)] \in States
      PROVE  f[1..k] = G[f[1..(k - 1)], k]
  <2>1. f[1..k] = Step(f, 1..k)
    BY <1>f, InitialSegment
  <2>2. f[1..k] = ApplyItems(f[1..(k - 1)], DecodeBatch(q[k]).ops)
    BY <2>1, InitialSegment
  <2> QED
    BY ONLY <1>4, <1>9, <2>2, k \in 1..n
<1>a. UnfoldsOver(f, n, States, Empty, G)
  <2>1. \A k \in 1..n : f[1..(k - 1)] \in States => f[1..k] = G[f[1..(k - 1)], k]
    BY ONLY <1>9
  <2> QED
    BY ONLY n \in Nat, <1>s, <1>t, <1>8, <2>1 DEF UnfoldsOver
<1>10. PICK h : Iterates(h, n, States, Empty, G) /\ h[n] = f[1..n]
  BY ONLY <1>a, FoldIterates
<1> QED
  BY ONLY <1>1, <1>3, <1>f, <1>10

LEMMA ReplayFacts ==
    ASSUME NEW q \in Seq(Records)
    PROVE  Replay(q) \in States
<1>1. PICK n \in Nat : n = Len(q)
  BY ONLY q \in Seq(Records), LenProperties
<1>2. PICK h : Iterates(h, n, States, Empty, ReplayStep(q)) /\ Replay(q) = h[n]
  BY ONLY <1>1, q \in Seq(Records), ReplayInOrder
<1>3. h \in [0..n -> States] /\ n \in 0..n
  <2>1. h \in [0..n -> States]
    BY ONLY <1>2 DEF Iterates
  <2> QED
    BY ONLY <2>1, n \in Nat
<1> QED
  BY ONLY <1>2, <1>3

(* One record more is one operation more.                                  *)
LEMMA ReplayAppend ==
    ASSUME NEW q \in Seq(Records), NEW items \in Seq(Items)
    PROVE  Replay(Append(q, Payload(items))) = ApplyItems(Replay(q), items)
<1>1. PICK n \in Nat : n = Len(q)
  BY ONLY q \in Seq(Records), LenProperties
<1>2. PICK p \in Records : p = Payload(items)
  BY DEF Records
<1>3. PICK r \in Seq(Records) : r = Append(q, p)
  BY ONLY q \in Seq(Records), p \in Records, AppendProperties
<1>4. Len(r) = n + 1 /\ r[n + 1] = p /\ \A i \in 1..n : r[i] = q[i]
  BY <1>1, <1>3
<1>5. PICK m \in Nat : m = n + 1 /\ m - 1 = n /\ n <= m /\ n \in 0..n /\ m \in 1..m
                       /\ \A i \in 1..n : i \in 1..m
  BY ONLY n \in Nat
<1>6. PICK G : G = ReplayStep(q)
  OBVIOUS
<1>7. PICK H : H = ReplayStep(r)
  OBVIOUS
<1>8. PICK g : Iterates(g, n, States, Empty, G) /\ Replay(q) = g[n]
  BY ONLY <1>1, <1>6, q \in Seq(Records), ReplayInOrder
<1>9. PICK h : Iterates(h, m, States, Empty, H) /\ Replay(r) = h[m]
  BY ONLY <1>4, <1>5, <1>7, r \in Seq(Records), ReplayInOrder
<1>10. AgreeOn(G, H, n, States)
  <2> SUFFICES ASSUME NEW x \in States, NEW i \in 1..n PROVE G[x, i] = H[x, i]
      BY DEF AgreeOn
  <2>1. G[x, i] = ApplyItems(x, DecodeBatch(q[i]).ops)
    BY <1>1, <1>6 DEF ReplayStep
  <2>2. H[x, i] = ApplyItems(x, DecodeBatch(r[i]).ops)
    BY <1>4, <1>5, <1>7 DEF ReplayStep
  <2> QED
    BY ONLY <1>4, <2>1, <2>2, i \in 1..n
<1>11. g[n] = h[n]
  <2>1. n <= m /\ n \in 0..n /\ Iterates(g, n, States, Empty, G) /\ Iterates(h, m, States, Empty, H)
    BY ONLY <1>5, <1>8, <1>9
  <2>2. \A k \in 0..n : g[k] = h[k]
    BY ONLY <1>10, <2>1, n \in Nat, m \in Nat, IterationsAgree
  <2> QED
    BY ONLY <2>1, <2>2
<1>12. g[n] \in States
  BY ONLY <1>5, <1>8 DEF Iterates
<1>13. h[m] = H[h[n], m]
  <2>1. \A k \in 1..m : h[k] = H[h[k - 1], k]
    BY ONLY <1>9 DEF Iterates
  <2> QED
    BY ONLY <1>5, <2>1
<1>14. H[h[n], m] = ApplyItems(h[n], DecodeBatch(p).ops)
  <2>1. PICK x \in States : x = h[n]
    BY ONLY <1>11, <1>12
  <2>2. m \in 1..Len(r) /\ r[m] = p
    BY ONLY <1>4, <1>5
  <2>3. H[x, m] = ApplyItems(x, DecodeBatch(r[m]).ops)
    BY ONLY <1>7, <2>2, x \in States DEF ReplayStep
  <2> QED
    BY ONLY <2>1, <2>2, <2>3
<1>15. DecodeBatch(p).ops = ToBatch(items)
  BY <1>2, PayloadFacts
<1>16. ApplyItems(g[n], ToBatch(items)) = ApplyItems(g[n], items)
  BY ONLY <1>12, items \in Seq(Items), ToBatchApplies
<1> QED
  BY ONLY <1>2, <1>3, <1>8, <1>9, <1>11, <1>13, <1>14, <1>15, <1>16

-----------------------------------------------------------------------------
(* Queues of events. *)

LEMMA TailFacts ==
    ASSUME NEW n \in Nat, NEW q, IsEvents(q, n), q # <<>>
    PROVE  /\ IsEvents(Tail(q), n) /\ Len(q) \in Nat \ {0} /\ Len(Tail(q)) = Len(q) - 1
           /\ Head(q) = q[1] /\ q[1] \in Events(n) /\ Len(Tail(q)) \in Nat
           /\ \A j \in 1..Len(Tail(q)) : Tail(q)[j] = q[j + 1] /\ j + 1 \in 1..Len(q)
           /\ \A kinds : None(q, kinds) => None(Tail(q), kinds)
           /\ Len(q) = 1 => Tail(q) = <<>>
<1>1. q \in Seq(Events(n)) /\ Len(q) \in Nat \ {0}
  BY EmptySeq DEF IsEvents
<1>2. /\ Tail(q) \in Seq(Events(n)) /\ Len(Tail(q)) = Len(q) - 1 /\ Head(q) = q[1]
      /\ q[1] \in Events(n) /\ \A j \in 1..(Len(q) - 1) : Tail(q)[j] = q[j + 1]
  BY <1>1
<1>3. \A j \in 1..(Len(q) - 1) : j + 1 \in 1..Len(q)
  BY <1>1
<1>5. PICK t : t = Tail(q)
  OBVIOUS
<1>6. /\ t \in Seq(Events(n)) /\ Len(t) = Len(q) - 1 /\ Len(t) \in Nat
      /\ \A j \in 1..Len(t) : t[j] = q[j + 1] /\ j + 1 \in 1..Len(q)
  BY <1>1, <1>2, <1>3, <1>5
<1>7. IsEvents(t, n) /\ \A kinds : None(q, kinds) => None(t, kinds)
  BY <1>6 DEF IsEvents, None
<1>8. Len(q) = 1 => t = <<>>
  BY <1>6, EmptySeq
<1> QED
  BY <1>1, <1>2, <1>5, <1>6, <1>7, <1>8

LEMMA AppendFacts ==
    ASSUME NEW n \in Nat, NEW q, IsEvents(q, n), NEW e \in Events(n),
           e.kind # "ready" => e.id # 0
    PROVE  /\ IsEvents(Append(q, e), n) /\ Len(q) \in Nat /\ Len(Append(q, e)) = Len(q) + 1
           /\ \A j \in 1..Len(q) : Append(q, e)[j] = q[j]
           /\ Append(q, e)[Len(q) + 1] = e /\ Append(q, e) # <<>>
           /\ \A kinds : None(q, kinds) /\ e.kind \notin kinds => None(Append(q, e), kinds)
           /\ \A kinds : None(Append(q, e), kinds) => None(q, kinds) /\ e.kind \notin kinds
<1>1. q \in Seq(Events(n)) /\ Len(q) \in Nat
  BY DEF IsEvents
<1>2. PICK t : t = Append(q, e)
  OBVIOUS
<1>3. /\ t \in Seq(Events(n)) /\ Len(t) = Len(q) + 1 /\ t[Len(q) + 1] = e /\ t # <<>>
      /\ \A j \in 1..Len(q) : t[j] = q[j]
  BY <1>1, <1>2, AppendProperties
<1>4. \A j \in 1..Len(t) : j \in 1..Len(q) \/ j = Len(q) + 1
  BY <1>1, <1>3
<1>5. (\A j \in 1..Len(q) : j \in 1..Len(t)) /\ Len(q) + 1 \in 1..Len(t)
  BY <1>1, <1>3
<1>6. IsEvents(t, n)
  BY <1>3, <1>4 DEF IsEvents
<1>7. \A kinds : None(q, kinds) /\ e.kind \notin kinds => None(t, kinds)
  BY <1>3, <1>4 DEF None
<1>8. \A kinds : None(t, kinds) => None(q, kinds) /\ e.kind \notin kinds
  BY <1>3, <1>5 DEF None
<1> QED
  BY <1>1, <1>2, <1>3, <1>6, <1>7, <1>8

LEMMA NoEvents ==
    /\ \A n \in Nat : IsEvents(<<>>, n)
    /\ \A kinds : None(<<>>, kinds)
    /\ Len(<<>>) = 0
BY EmptySeq DEF IsEvents, None

LEMMA SingleEvent ==
    ASSUME NEW n \in Nat, NEW q, IsEvents(q, n), Len(q) = 0
    PROVE  q = <<>>
BY EmptySeq DEF IsEvents

-----------------------------------------------------------------------------
(* The steps of the worker. *)

LEMMA OpsLen == Types => Len(ops) \in Nat
BY DEF Types

(* The worker goes on with its operation or dies.                          *)
LEMMA WorkerMoves ==
    ASSUME AckInv,
           UNCHANGED <<ops, cfg, pc, queueIndex, retryIndex, oracle, wop, stdin, stdout,
                       stdoutOpen, eventCh, readerErr, promised>>,
           wpc # "dead", wpc' = "dead" \/ (wpc \in Running /\ wpc' \in Running)
    PROVE  AckInv'
<1>1. Types'
  BY DEF AckInv, Types, Running, IsEvents, Events
<1>2. PipeInv'
  BY DEF AckInv, PipeInv, Running
<1>3. Doomed' = Doomed
  BY DEF Doomed
<1>4. ASSUME ~Doomed PROVE (StageInv /\ LastInv /\ OracleInv)'
  <2>1. StageInv /\ LastInv /\ OracleInv
    BY <1>4 DEF AckInv
  <2>2. LastInv' /\ OracleInv'
    BY <2>1 DEF LastInv, OracleInv, Completes, None
  <2>3. StageInv'
    BY <2>1 DEF StageInv, Quiet, None, Running
  <2> QED
    BY <2>2, <2>3
<1> QED
  BY <1>1, <1>2, <1>3, <1>4 DEF AckInv

LEMMA WorkerStep ==
    ASSUME AckInv,
           WorkerAppends \/ WorkerSyncs \/ WorkerSyncFails \/ WorkerExits \/ WorkerDies
    PROVE  AckInv'
<1>1. /\ UNCHANGED <<ops, cfg, pc, queueIndex, retryIndex, oracle, wop, stdin, stdout,
                     stdoutOpen, eventCh, readerErr, promised>>
      /\ wpc # "dead" /\ (wpc' = "dead" \/ (wpc \in Running /\ wpc' \in Running))
  BY DEF WorkerAppends, WorkerSyncs, WorkerSyncFails, WorkerExits, WorkerDies, Die,
         controlVars, pipeVars, readerVars, histVars, Running
<1> QED
  BY <1>1, WorkerMoves

(* While the worker runs the reader has not come to the end of the pipe,   *)
(* and unless the run ends in an error the controller waits for an event.  *)
LEMMA WorkerAlive ==
    ASSUME AckInv, wpc # "dead"
    PROVE  /\ readerErr # "nil"
           /\ ~Doomed => /\ wpc = "opening" => pc = "await" /\ Quiet
                         /\ wpc \in Running => /\ pc = "terminal" /\ stdin = <<>>
                                               /\ None(eventCh, Terminal) /\ None(stdout, Terminal)
                         /\ wpc = "idle" /\ stdin # <<>> =>
                              pc = "terminal" /\ Len(stdin) = 1 /\ Quiet
<1>1. readerErr # "nil"
  BY DEF AckInv, PipeInv
<1>2. ASSUME ~Doomed
      PROVE  /\ wpc = "opening" => pc = "await" /\ Quiet
             /\ wpc \in Running => /\ pc = "terminal" /\ stdin = <<>>
                                   /\ None(eventCh, Terminal) /\ None(stdout, Terminal)
             /\ wpc = "idle" /\ stdin # <<>> => pc = "terminal" /\ Len(stdin) = 1 /\ Quiet
  <2>1. StageInv /\ pc # "failed" /\ Types
    BY <1>2 DEF AckInv, Doomed
  <2>2. pc \in {"cycle", "await", "send", "terminal", "closing", "waiting",
                "joining", "drain", "verify", "done", "alarm"}
    BY <2>1 DEF Types
  <2>3. Len(<<>>) = 0
    BY NoEvents
  <2>4. pc \notin {"cycle", "verify", "done", "alarm"}
    BY <2>1 DEF StageInv
  <2>5. CASE pc = "await"
    BY <2>1, <2>5 DEF StageInv, Running
  <2>6. CASE pc = "send"
    BY <2>1, <2>6 DEF StageInv, Running
  <2>7. CASE pc = "terminal"
    BY <2>1, <2>3, <2>7 DEF StageInv, Running
  <2>8. CASE pc \in {"closing", "waiting", "joining", "drain"}
    BY <2>1, <2>8 DEF StageInv, Running
  <2> QED
    BY <2>2, <2>4, <2>5, <2>6, <2>7, <2>8
<1> QED
  BY <1>1, <1>2

LEMMA OpensStep ==
    ASSUME AckInv, WorkerOpens
    PROVE  AckInv'
<1>1. /\ UNCHANGED <<ops, cfg, pc, queueIndex, retryIndex, oracle, wop, stdin,
                     stdoutOpen, eventCh, readerErr, promised>>
      /\ wpc = "opening"
      /\ \/ wpc' = "dead" /\ stdout' = stdout
         \/ wpc' = "idle" /\ stdout' = Append(stdout, Event("ready", 0))
  BY DEF WorkerOpens, controlVars, readerVars, dbVars, histVars
<1>2. CASE wpc' = "dead" /\ stdout' = stdout
  BY <1>1, <1>2, WorkerMoves
<1>3. CASE wpc' = "idle" /\ stdout' = Append(stdout, Event("ready", 0))
  <2>1. Types /\ PipeInv /\ Len(ops) \in Nat
    BY OpsLen DEF AckInv
  <2>2. PICK e : e = Event("ready", 0)
    OBVIOUS
  <2>3. e \in Events(Len(ops)) /\ e.kind = "ready"
    BY <2>1, <2>2 DEF Event, Events
  <2>4. /\ IsEvents(stdout', Len(ops)) /\ Len(stdout') = Len(stdout) + 1
        /\ \A kinds : None(stdout, kinds) /\ e.kind \notin kinds => None(stdout', kinds)
    <3>1. IsEvents(stdout, Len(ops))
      BY <2>1 DEF Types
    <3>2. /\ IsEvents(Append(stdout, e), Len(ops))
          /\ Len(Append(stdout, e)) = Len(stdout) + 1
          /\ \A kinds : None(stdout, kinds) /\ e.kind \notin kinds => None(Append(stdout, e), kinds)
      BY ONLY <2>1, <2>3, <3>1, AppendFacts
    <3>3. stdout' = Append(stdout, e)
      BY <1>3, <2>2
    <3> QED
      BY ONLY <3>2, <3>3
  <2>5. Types'
    BY <1>1, <1>3, <2>1, <2>4 DEF Types, Running
  <2>6. readerErr # "nil" /\ (~Doomed => pc = "await" /\ Quiet)
    BY <1>1, WorkerAlive
  <2>7. PipeInv' /\ Doomed' = Doomed
    BY <1>1, <2>1, <2>6 DEF PipeInv, Doomed
  <2>8. ASSUME ~Doomed PROVE (StageInv /\ LastInv /\ OracleInv)'
    <3>1. StageInv /\ LastInv /\ OracleInv /\ pc = "await" /\ eventCh = <<>> /\ stdout = <<>>
      BY <2>6, <2>8 DEF AckInv, Quiet
    <3>2. /\ Len(eventCh') = 0 /\ Len(stdout') = 1 /\ \A kinds : None(eventCh', kinds)
          /\ \A kinds : "ready" \notin kinds => None(stdout', kinds)
      BY <1>1, <2>3, <2>4, <3>1, NoEvents
    <3>3. StageInv'
      BY <1>1, <1>3, <3>1, <3>2 DEF StageInv
    <3>4. None(stdout', Terminal) /\ None(stdout', {"ack"})
      BY <3>2 DEF Terminal
    <3>5. LastInv'
      BY <3>2, <3>4 DEF LastInv, None
    <3>6. promised = oracle.state
      BY <3>1, NoEvents DEF OracleInv
    <3>7. OracleInv'
      BY <1>1, <3>2, <3>4, <3>6 DEF OracleInv, Completes, None
    <3> QED
      BY <3>3, <3>5, <3>7
  <2> QED
    BY <2>5, <2>7, <2>8 DEF AckInv
<1> QED
  BY <1>1, <1>2, <1>3

LEMMA ReceivesStep ==
    ASSUME AckInv, WorkerReceives
    PROVE  AckInv'
<1>1. /\ UNCHANGED <<ops, cfg, pc, queueIndex, retryIndex, oracle,
                     stdoutOpen, eventCh, readerErr, promised>>
      /\ wpc = "idle" /\ wpc' = "executing" /\ stdin # <<>>
      /\ wop' = Head(stdin) /\ stdin' = Tail(stdin)
      /\ stdout' = Append(stdout, Event("start", wop'))
  BY DEF WorkerReceives, controlVars, readerVars, dbVars, histVars
<1>2. Types /\ PipeInv /\ Len(ops) \in Nat /\ stdin \in Seq(1..Len(ops))
  BY OpsLen DEF AckInv, Types
<1>3. wop' \in 1..Len(ops) /\ stdin' \in Seq(1..Len(ops)) /\ Len(stdin') = Len(stdin) - 1
  BY <1>1, <1>2
<1>4. PICK e : e = Event("start", wop')
  OBVIOUS
<1>5. e \in Events(Len(ops)) /\ e.kind = "start" /\ e.id # 0
  BY <1>2, <1>3, <1>4 DEF Event, Events
<1>6. /\ IsEvents(stdout', Len(ops))
      /\ \A kinds : None(stdout, kinds) /\ e.kind \notin kinds => None(stdout', kinds)
  BY <1>1, <1>2, <1>4, <1>5, AppendFacts DEF Types
<1>7. Types'
  BY <1>1, <1>2, <1>3, <1>6 DEF Types, Running
<1>8. readerErr # "nil" /\ (~Doomed => pc = "terminal" /\ Len(stdin) = 1 /\ Quiet)
  BY <1>1, WorkerAlive
<1>9. PipeInv' /\ Doomed' = Doomed
  BY <1>1, <1>2, <1>8 DEF PipeInv, Doomed
<1>10. ASSUME ~Doomed PROVE (StageInv /\ LastInv /\ OracleInv)'
  <2>1. /\ StageInv /\ LastInv /\ OracleInv /\ pc = "terminal" /\ Len(stdin) = 1
        /\ eventCh = <<>> /\ stdout = <<>>
    BY <1>8, <1>10 DEF AckInv, Quiet
  <2>2. /\ \A kinds : None(eventCh', kinds)
        /\ \A kinds : "start" \notin kinds => None(stdout', kinds)
    BY <1>1, <1>5, <1>6, <2>1, NoEvents
  <2>3. stdin' = <<>>
    BY <1>3, <2>1, EmptySeq
  <2>4. None(stdout', Terminal) /\ None(stdout', {"ack"}) /\ None(stdout', {"ready"})
    BY <2>2 DEF Terminal
  <2>5. StageInv'
    BY <1>1, <2>1, <2>2, <2>3, <2>4 DEF StageInv, Running
  <2>6. LastInv'
    BY <2>2, <2>4 DEF LastInv, None
  <2>7. promised = oracle.state
    BY <2>1, NoEvents DEF OracleInv
  <2>8. OracleInv'
    BY <1>1, <2>2, <2>4, <2>7 DEF OracleInv, Completes, None
  <2> QED
    BY <2>5, <2>6, <2>8
<1> QED
  BY <1>7, <1>9, <1>10 DEF AckInv

(* The worker reports how its operation ended.                             *)
LEMMA ReportsStep ==
    ASSUME AckInv, WorkerAcks \/ WorkerReportsFailure
    PROVE  AckInv'
<1>1. /\ UNCHANGED <<ops, cfg, pc, queueIndex, retryIndex, oracle, wop, stdin,
                     stdoutOpen, eventCh, readerErr>>
      /\ wpc \in Running /\ wpc' = "idle"
  BY DEF WorkerAcks, WorkerReportsFailure, controlVars, readerVars, dbVars, Running
<1>2. PICK kind \in Terminal :
        /\ stdout' = Append(stdout, Event(kind, wop))
        /\ promised' = IF kind = "ack" THEN ApplyItems(promised, ops[wop]) ELSE promised
  <2>1. CASE WorkerAcks
    BY <2>1 DEF WorkerAcks, Terminal
  <2>2. CASE WorkerReportsFailure
    BY <2>2 DEF WorkerReportsFailure, Terminal
  <2> QED
    BY <2>1, <2>2
<1>3. Types /\ PipeInv /\ Len(ops) \in Nat /\ wop \in 0..Len(ops) /\ wop # 0
  BY <1>1, OpsLen DEF AckInv, Types
<1>4. PICK e : e = Event(kind, wop)
  OBVIOUS
<1>5. e \in Events(Len(ops)) /\ e.kind = kind /\ e.id = wop
  BY <1>2, <1>3, <1>4 DEF Event, Events, Terminal
<1>6. /\ IsEvents(stdout', Len(ops)) /\ Len(stdout) \in Nat /\ Len(stdout') = Len(stdout) + 1
      /\ \A j \in 1..Len(stdout) : stdout'[j] = stdout[j]
      /\ stdout'[Len(stdout) + 1] = e
      /\ \A kinds : None(stdout, kinds) /\ e.kind \notin kinds => None(stdout', kinds)
      /\ \A kinds : None(stdout', kinds) => e.kind \notin kinds
  BY SMTT(30), <1>2, <1>3, <1>4, <1>5, AppendFacts DEF Types
<1>7. Types'
  BY <1>1, <1>3, <1>6 DEF Types, Running
<1>8. /\ readerErr # "nil"
      /\ ~Doomed => /\ pc = "terminal" /\ stdin = <<>>
                    /\ None(eventCh, Terminal) /\ None(stdout, Terminal)
  BY <1>1, WorkerAlive DEF Running
<1>9. PipeInv' /\ Doomed' = Doomed
  BY <1>1, <1>3, <1>8 DEF PipeInv, Doomed
<1>10. ASSUME ~Doomed PROVE (StageInv /\ LastInv /\ OracleInv)'
  <2>1. /\ StageInv /\ LastInv /\ OracleInv /\ pc = "terminal" /\ stdin = <<>>
        /\ None(eventCh, Terminal) /\ None(stdout, Terminal)
    BY <1>8, <1>10 DEF AckInv
  <2>2. None(eventCh, {"ack"}) /\ None(stdout, {"ack"})
    BY <2>1 DEF None, Terminal
  <2>3. None(eventCh, {"ready"}) /\ None(stdout', {"ready"})
    BY <1>2, <1>5, <1>6, <2>1 DEF StageInv, Terminal
  <2>4. StageInv'
    BY <1>1, <2>1, <2>3 DEF StageInv
  <2>5. \A j \in 1..Len(stdout') : j \in 1..Len(stdout) \/ j = Len(stdout')
    BY <1>6
  <2>6. LastInv'
    BY <1>1, <1>6, <2>1, <2>5 DEF LastInv, None
  <2>7. promised = oracle.state
    BY <2>1, <2>2 DEF OracleInv
  <2>8. Completes(eventCh)'
    BY <1>1, <2>2 DEF Completes, None
  <2>9. Completes(stdout)'
    <3> SUFFICES ASSUME NEW j \in 1..Len(stdout'), stdout'[j].kind = "ack"
                 PROVE  promised' = ApplyItems(oracle.state, ops[stdout'[j].id])
        BY <1>1 DEF Completes
    <3>1. j = Len(stdout) + 1
      BY <1>6, <2>2, <2>5 DEF None
    <3> QED
      BY <1>2, <1>5, <1>6, <2>7, <3>1
  <2>10. None(stdout', {"ack"}) => promised' = oracle.state
    BY <1>2, <1>5, <1>6, <2>7
  <2>11. OracleInv'
    BY <1>1, <2>8, <2>9, <2>10 DEF OracleInv
  <2> QED
    BY <2>4, <2>6, <2>11
<1> QED
  BY <1>7, <1>9, <1>10 DEF AckInv

-----------------------------------------------------------------------------
(* The steps of the reader. *)

LEMMA ForwardsStep ==
    ASSUME AckInv, ReaderForwards
    PROVE  AckInv'
<1>1. /\ UNCHANGED <<ops, cfg, pc, queueIndex, retryIndex, oracle, wpc, wop, stdin,
                     stdoutOpen, readerErr, promised>>
      /\ readerErr = "none" /\ stdout # <<>>
      /\ eventCh' = Append(eventCh, Head(stdout)) /\ stdout' = Tail(stdout)
  BY DEF ReaderForwards, controlVars, workerVars, dbVars, histVars
<1>2. /\ Types /\ PipeInv /\ Len(ops) \in Nat
      /\ IsEvents(stdout, Len(ops)) /\ IsEvents(eventCh, Len(ops))
  BY OpsLen DEF AckInv, Types
<1>3. PICK e : e = Head(stdout)
  OBVIOUS
<1>4. /\ IsEvents(stdout', Len(ops)) /\ Len(stdout) \in Nat \ {0}
      /\ Len(stdout') = Len(stdout) - 1 /\ e = stdout[1] /\ e \in Events(Len(ops))
      /\ \A j \in 1..Len(stdout') : stdout'[j] = stdout[j + 1] /\ j + 1 \in 1..Len(stdout)
      /\ \A kinds : None(stdout, kinds) => None(stdout', kinds)
      /\ Len(stdout) = 1 => stdout' = <<>>
  BY <1>1, <1>2, <1>3, TailFacts
<1>5. 1 \in 1..Len(stdout) /\ (e.kind # "ready" => e.id # 0)
  BY <1>2, <1>4 DEF IsEvents
<1>6. /\ IsEvents(eventCh', Len(ops)) /\ Len(eventCh) \in Nat
      /\ Len(eventCh') = Len(eventCh) + 1
      /\ \A j \in 1..Len(eventCh) : eventCh'[j] = eventCh[j]
      /\ eventCh'[Len(eventCh) + 1] = e
      /\ \A kinds : None(eventCh, kinds) /\ e.kind \notin kinds => None(eventCh', kinds)
      /\ \A kinds : None(eventCh', kinds) => None(eventCh, kinds) /\ e.kind \notin kinds
  BY SMTT(30), <1>1, <1>2, <1>3, <1>4, <1>5, AppendFacts
<1>7. Types'
  BY <1>1, <1>2, <1>4, <1>6 DEF Types, Running
<1>8. PipeInv' /\ Doomed' = Doomed
  BY <1>1, <1>2 DEF PipeInv, Doomed
<1>9. \A kinds : None(eventCh, kinds) /\ None(stdout, kinds)
                   <=> None(eventCh', kinds) /\ None(stdout', kinds)
  <2>1. \A kinds : None(stdout, kinds) => e.kind \notin kinds
    BY <1>4, <1>5 DEF None
  <2>2. \A j \in 1..Len(stdout) : j = 1 \/ (j - 1 \in 1..Len(stdout') /\ stdout'[j - 1] = stdout[j])
    <3> SUFFICES ASSUME NEW j \in 1..Len(stdout), j # 1
                 PROVE  j - 1 \in 1..Len(stdout') /\ stdout'[j - 1] = stdout[j]
        OBVIOUS
    <3>1. j - 1 \in 1..Len(stdout') /\ (j - 1) + 1 = j
      BY <1>4
    <3> QED
      BY <1>4, <3>1
  <2>3. \A kinds : None(stdout', kinds) /\ e.kind \notin kinds => None(stdout, kinds)
    BY <1>4, <2>2 DEF None
  <2> QED
    BY <1>4, <1>6, <2>1, <2>3
<1>10. ASSUME ~Doomed PROVE (StageInv /\ LastInv /\ OracleInv)'
  <2>1. StageInv /\ LastInv /\ OracleInv
    BY <1>10 DEF AckInv
  <2>2. ~Quiet /\ Len(eventCh) + Len(stdout) = Len(eventCh') + Len(stdout')
    BY <1>1, <1>4, <1>6 DEF Quiet
  <2>3. StageInv'
    BY <1>1, <1>9, <2>1, <2>2 DEF StageInv
  <2>4. \A j \in 1..Len(eventCh) : eventCh[j].kind \notin Terminal
    BY <1>1, <2>1 DEF LastInv
  <2>5. \A j \in 1..Len(eventCh') : j \in 1..Len(eventCh) \/ j = Len(eventCh) + 1
    BY <1>6
  <2>6. e.kind \in Terminal => stdout' = <<>>
    BY <1>4, <1>5, <2>1 DEF LastInv
  <2>7. LastInv'
    <3>1. ASSUME NEW j \in 1..Len(eventCh'), eventCh'[j].kind \in Terminal
          PROVE  j = Len(eventCh') /\ stdout' = <<>>
      BY <1>6, <2>4, <2>5, <2>6, <3>1
    <3>2. ASSUME NEW j \in 1..Len(stdout'), stdout'[j].kind \in Terminal
          PROVE  j = Len(stdout')
      <4>1. j + 1 = Len(stdout)
        BY <1>4, <2>1, <3>2 DEF LastInv
      <4> QED
        BY <1>4, <4>1
    <3> QED
      BY <3>1, <3>2 DEF LastInv
  <2>8. Completes(eventCh)'
    <3> SUFFICES ASSUME NEW j \in 1..Len(eventCh'), eventCh'[j].kind = "ack"
                 PROVE  promised = ApplyItems(oracle.state, ops[eventCh'[j].id])
        BY <1>1 DEF Completes
    <3>1. CASE j \in 1..Len(eventCh)
      BY <1>6, <2>4, <3>1 DEF Terminal
    <3>2. CASE j = Len(eventCh) + 1
      BY <1>4, <1>5, <1>6, <2>1, <3>2 DEF OracleInv, Completes
    <3> QED
      BY <2>5, <3>1, <3>2
  <2>9. Completes(stdout)'
    BY <1>1, <1>4, <2>1 DEF OracleInv, Completes
  <2>10. OracleInv'
    BY <1>1, <1>9, <2>1, <2>8, <2>9 DEF OracleInv
  <2> QED
    BY <2>3, <2>7, <2>10
<1> QED
  BY <1>7, <1>8, <1>10 DEF AckInv

LEMMA ReaderEndsStep ==
    ASSUME AckInv, ReaderEnds
    PROVE  AckInv'
<1>1. /\ UNCHANGED <<ops, cfg, pc, queueIndex, retryIndex, oracle, wpc, wop, stdin, stdout,
                     stdoutOpen, eventCh, promised>>
      /\ readerErr = "none" /\ stdout = <<>> /\ (wpc = "dead" \/ ~stdoutOpen)
      /\ readerErr' = IF stdoutOpen THEN "nil" ELSE "closed"
  BY DEF ReaderEnds, controlVars, workerVars, pipeVars, dbVars, histVars
<1>2. Types'
  BY <1>1 DEF AckInv, Types
<1>3. PipeInv'
  BY <1>1 DEF AckInv, PipeInv
<1>4. Doomed' = Doomed
  BY <1>1 DEF Doomed
<1>5. ~Doomed => (StageInv /\ LastInv /\ OracleInv)'
  BY <1>1 DEF AckInv, StageInv, Quiet, None, LastInv, OracleInv, Completes
<1> QED
  BY <1>2, <1>3, <1>4, <1>5 DEF AckInv

-----------------------------------------------------------------------------
(* The steps of the controller. *)

(* A run that fails needs nothing more.                                    *)
LEMMA FailsStep ==
    ASSUME AckInv, pc' = "failed", wpc' \in {wpc, "dead"},
           UNCHANGED <<ops, cfg, queueIndex, wop, stdin, stdout, stdoutOpen, readerErr>>,
           retryIndex' \in {0, retryIndex}, IsEvents(eventCh', Len(ops))
    PROVE  AckInv'
<1>1. Types /\ PipeInv /\ Len(ops) \in Nat
  BY OpsLen DEF AckInv
<1>2. Types'
  BY <1>1 DEF Types, Running
<1>3. PipeInv'
  BY <1>1 DEF PipeInv
<1> QED
  BY <1>2, <1>3 DEF AckInv, Doomed

(* The controller moves on and finds the queues as they were.              *)
LEMMA ControllerMoves ==
    ASSUME AckInv,
           UNCHANGED <<ops, cfg, queueIndex, retryIndex, oracle, wop, stdin, stdout,
                       stdoutOpen, eventCh, readerErr, promised>>,
           \/ /\ pc = "send" \/ (pc = "terminal" /\ wpc' = "dead")
              /\ pc' = "closing" /\ wpc' \in {wpc, "dead"}
           \/ pc = "closing" /\ pc' = "waiting" /\ wpc' = wpc
           \/ pc = "joining" /\ readerErr = "nil" /\ pc' = "drain" /\ wpc' = wpc
           \/ pc = "drain" /\ eventCh = <<>> /\ pc' = "verify" /\ wpc' = wpc
           \/ pc \in {"verify", "cycle"} /\ pc' \in {"cycle", "done", "alarm"} /\ wpc' = wpc
    PROVE  AckInv'
<1>1. Types /\ PipeInv
  BY DEF AckInv
<1>2. Types'
  BY <1>1 DEF Types, Running
<1>3. PipeInv' /\ Doomed' = Doomed
  BY <1>1 DEF PipeInv, Doomed
<1>4. ASSUME ~Doomed PROVE (StageInv /\ LastInv /\ OracleInv)'
  <2>1. StageInv /\ LastInv /\ OracleInv
    BY <1>4 DEF AckInv
  <2>2. LastInv' /\ OracleInv'
    BY <2>1 DEF LastInv, OracleInv, Completes, None
  <2>3. pc # "await" /\ pc' # "await" /\ None(eventCh, {"ready"}) /\ None(stdout, {"ready"})
    BY <2>1 DEF StageInv
  <2>4. StageInv'
    BY <1>1, <2>1, <2>3 DEF StageInv, Quiet, PipeInv
  <2> QED
    BY <2>2, <2>4
<1> QED
  BY <1>2, <1>3, <1>4 DEF AckInv

LEMMA PlainStep ==
    ASSUME AckInv,
           \/ WorkerNotReady \/ NothingToSend \/ ChannelClosed \/ CloseStdin \/ JoinReader
           \/ CycleEnds \/ VerifyCycle \/ VerifyFinalState \/ ReadyTimeout \/ TimerKill
    PROVE  AckInv'
<1>1. UNCHANGED <<ops, cfg, queueIndex, retryIndex, oracle, wop, stdin, stdout,
                  stdoutOpen, eventCh, readerErr, promised>>
  BY DEF WorkerNotReady, NothingToSend, ChannelClosed, CloseStdin, JoinReader, CycleEnds,
         VerifyCycle, VerifyFinalState, ReadyTimeout, TimerKill, Die, controlVars,
         workerVars, pipeVars, readerVars, histVars, dbVars
<1>2. wpc' \in {wpc, "dead"}
  BY DEF WorkerNotReady, NothingToSend, ChannelClosed, CloseStdin, JoinReader, CycleEnds,
         VerifyCycle, VerifyFinalState, ReadyTimeout, TimerKill, Die, workerVars
<1>3. CASE pc' = "failed"
  <2>1. IsEvents(eventCh', Len(ops))
    BY <1>1 DEF AckInv, Types
  <2> QED
    BY <1>1, <1>2, <1>3, <2>1, FailsStep
<1>4. CASE pc' # "failed"
  <2>1. \/ /\ pc = "send" \/ (pc = "terminal" /\ wpc' = "dead")
           /\ pc' = "closing" /\ wpc' \in {wpc, "dead"}
        \/ pc = "closing" /\ pc' = "waiting" /\ wpc' = wpc
        \/ pc = "joining" /\ readerErr = "nil" /\ pc' = "drain" /\ wpc' = wpc
        \/ pc = "drain" /\ eventCh = <<>> /\ pc' = "verify" /\ wpc' = wpc
        \/ pc \in {"verify", "cycle"} /\ pc' \in {"cycle", "done", "alarm"} /\ wpc' = wpc
    <3>1. CASE WorkerNotReady \/ ReadyTimeout
      BY <1>4, <3>1 DEF WorkerNotReady, ReadyTimeout
    <3>2. CASE NothingToSend \/ CloseStdin \/ JoinReader \/ CycleEnds
      BY <1>4, <3>2 DEF NothingToSend, CloseStdin, JoinReader, CycleEnds, workerVars
    <3>3. CASE ChannelClosed
      <4>1. stdoutOpen /\ wpc = "dead"
        BY <3>3 DEF ChannelClosed, AckInv, PipeInv, Types
      <4> QED
        BY <3>3, <4>1 DEF ChannelClosed, workerVars
    <3>4. CASE TimerKill
      BY <3>4 DEF TimerKill, Die
    <3>5. CASE VerifyCycle \/ VerifyFinalState
      BY <1>4, <3>5 DEF VerifyCycle, VerifyFinalState, VerifyDatabaseState, workerVars
    <3> QED
      BY <3>1, <3>2, <3>3, <3>4, <3>5
  <2> QED
    BY <1>1, <2>1, ControllerMoves
<1> QED
  BY <1>3, <1>4

LEMMA StartStep ==
    ASSUME AckInv, StartWorker
    PROVE  AckInv'
<1>1. /\ UNCHANGED <<ops, cfg, queueIndex, retryIndex, oracle, promised>>
      /\ pc = "cycle" /\ pc' = "await" /\ wpc' = "opening" /\ wop' = 0
      /\ stdin' = <<>> /\ stdout' = <<>> /\ eventCh' = <<>> /\ stdoutOpen' = TRUE
      /\ readerErr' = "none"
  BY DEF StartWorker, controlVars, histVars
<1>2. Types /\ PipeInv /\ Len(ops) \in Nat
  BY OpsLen DEF AckInv
<1>3. Types'
  <2>1. IsEvents(<<>>, Len(ops)) /\ <<>> \in Seq(1..Len(ops))
    BY <1>2, NoEvents
  <2> QED
    BY <1>1, <1>2, <2>1 DEF Types, Running
<1>4. PipeInv'
  BY <1>1 DEF PipeInv
<1>5. ~Doomed
  BY <1>1, <1>2 DEF PipeInv, Doomed
<1>6. promised = oracle.state
  <2>1. OracleInv /\ eventCh = <<>> /\ stdout = <<>>
    BY <1>1, <1>5 DEF AckInv, StageInv, Quiet
  <2> QED
    BY <2>1, NoEvents DEF OracleInv
<1>7. (StageInv /\ LastInv /\ OracleInv)'
  BY <1>1, <1>6, NoEvents DEF StageInv, Quiet, LastInv, OracleInv, Completes
<1> QED
  BY <1>3, <1>4, <1>7 DEF AckInv

LEMMA ReadyStep ==
    ASSUME AckInv, WorkerReady
    PROVE  AckInv'
<1>1. /\ UNCHANGED <<ops, cfg, queueIndex, retryIndex, oracle, wpc, wop, stdin, stdout,
                     stdoutOpen, readerErr, promised>>
      /\ pc = "await" /\ eventCh # <<>> /\ eventCh' = Tail(eventCh)
      /\ pc' \in {"send", "failed"}
  BY DEF WorkerReady, controlVars, workerVars, pipeVars, dbVars, histVars
<1>2. Types /\ PipeInv /\ Len(ops) \in Nat
  BY OpsLen DEF AckInv
<1>3. /\ IsEvents(eventCh', Len(ops)) /\ Len(eventCh) \in Nat \ {0}
      /\ Len(eventCh) = 1 => eventCh' = <<>>
  BY <1>1, <1>2, TailFacts DEF Types
<1>4. CASE pc' = "failed"
  BY <1>1, <1>3, <1>4, FailsStep
<1>5. CASE pc' = "send"
  <2>1. ~Doomed /\ ~Doomed'
    BY <1>1, <1>2, <1>5 DEF PipeInv, Doomed
  <2>2. StageInv /\ OracleInv
    BY <2>1 DEF AckInv
  <2>3. /\ stdin = <<>> /\ wpc \in {"opening", "idle", "dead"}
        /\ None(eventCh, {"start", "ack", "fail"}) /\ None(stdout, {"start", "ack", "fail"})
        /\ Len(eventCh) + Len(stdout) = 1 /\ wpc # "opening"
    BY <1>1, <2>2 DEF StageInv, Quiet
  <2>4. Len(eventCh) = 1 /\ stdout = <<>>
    <3>1. Len(stdout) \in Nat
      BY <1>2 DEF Types, IsEvents
    <3>2. Len(eventCh) = 1 /\ Len(stdout) = 0
      BY <1>3, <2>3, <3>1
    <3> QED
      BY <1>2, <3>2, SingleEvent DEF Types
  <2>5. promised = oracle.state
    BY <2>2, <2>3 DEF OracleInv, None
  <2>6. eventCh' = <<>> /\ stdout' = <<>>
    BY <1>1, <1>3, <2>4
  <2>7. Types'
    BY <1>1, <1>2, <1>3, <1>5 DEF Types
  <2>8. PipeInv'
    BY <1>1, <1>2, <1>5, <2>6 DEF PipeInv
  <2>9. (StageInv /\ LastInv /\ OracleInv)'
    <3>1. /\ Len(eventCh') = 0 /\ Len(stdout') = 0
          /\ \A kinds : None(eventCh', kinds) /\ None(stdout', kinds)
      BY <2>6, NoEvents
    <3>2. StageInv'
      BY <1>1, <1>5, <2>3, <2>6, <3>1 DEF StageInv, Quiet
    <3>3. LastInv'
      BY <3>1 DEF LastInv
    <3>4. OracleInv'
      <4>1. Completes(eventCh)' /\ Completes(stdout)'
        BY <3>1 DEF Completes
      <4>2. promised' = oracle'.state
        BY <1>1, <2>5
      <4> QED
        BY <4>1, <4>2 DEF OracleInv
    <3> QED
      BY <3>2, <3>3, <3>4
  <2> QED
    BY <2>7, <2>8, <2>9 DEF AckInv
<1> QED
  BY <1>1, <1>4, <1>5

LEMMA SendStep ==
    ASSUME AckInv, SendOperation
    PROVE  AckInv'
<1>1. /\ UNCHANGED <<ops, cfg, oracle, wpc, wop, stdout, stdoutOpen, eventCh, readerErr, promised>>
      /\ pc = "send" /\ NextOperation # 0
      /\ queueIndex' = IF NextOperation > queueIndex THEN NextOperation ELSE queueIndex
      /\ \/ stdin' = Append(stdin, NextOperation) /\ retryIndex' = NextOperation /\ pc' = "terminal"
         \/ wpc = "dead" /\ pc' = "closing" /\ stdin' = stdin /\ retryIndex' = retryIndex
  BY DEF SendOperation, workerVars, readerVars, dbVars, histVars
<1>2. Types /\ PipeInv /\ Len(ops) \in Nat
  BY OpsLen DEF AckInv
<1>3. /\ NextOperation \in 1..Len(ops) /\ queueIndex' \in 0..Len(ops)
      /\ NextOperation \in 0..queueIndex' /\ retryIndex \in 0..queueIndex'
  BY <1>1, <1>2 DEF NextOperation, Types
<1>4. ~Doomed
  BY <1>1, <1>2 DEF PipeInv, Doomed
<1>5. /\ OracleInv /\ LastInv /\ stdin = <<>> /\ wpc \in {"idle", "dead"} /\ Quiet
      /\ None(eventCh, {"ready"}) /\ None(stdout, {"ready"})
  BY <1>1, <1>4 DEF AckInv, StageInv
<1>6. stdin' \in Seq(1..Len(ops)) /\ (pc' = "terminal" => Len(stdin') = 1)
  <2>1. stdin \in Seq(1..Len(ops)) /\ Len(stdin) = 0
    BY <1>2, <1>5, EmptySeq DEF Types
  <2> QED
    <3>1. PICK x \in 1..Len(ops) : x = NextOperation
      BY <1>3
    <3>2. Append(stdin, x) \in Seq(1..Len(ops)) /\ Len(Append(stdin, x)) = 1
      BY <2>1, AppendProperties
    <3>3. CASE pc' = "terminal"
      BY <1>1, <3>1, <3>2, <3>3
    <3>4. CASE pc' # "terminal"
      BY <1>1, <2>1, <3>4
    <3> QED
      BY <3>3, <3>4
<1>7. Types'
  BY <1>1, <1>2, <1>3, <1>6 DEF Types
<1>8. PipeInv'
  BY <1>1, <1>2 DEF PipeInv
<1>9. (StageInv /\ LastInv /\ OracleInv)'
  <2>1. LastInv' /\ OracleInv'
    BY <1>1, <1>5 DEF LastInv, OracleInv, Completes, None
  <2>2. StageInv'
    BY <1>1, <1>5, <1>6 DEF StageInv, Quiet
  <2> QED
    BY <2>1, <2>2
<1> QED
  BY <1>7, <1>8, <1>9 DEF AckInv

(* An event reaches the controller's records.                              *)
LEMMA EventStep ==
    ASSUME AckInv, TerminalEvent \/ DrainEvent
    PROVE  AckInv'
<1>1. PICK e : /\ e = Head(eventCh)
               /\ oracle' = IF e.kind = "ack" THEN OracleApply(oracle, ops[e.id]) ELSE oracle
               /\ retryIndex' = IF e.kind = "start" THEN retryIndex ELSE 0
  BY DEF TerminalEvent, DrainEvent, Recorded
<1>2. /\ UNCHANGED <<ops, cfg, queueIndex, wpc, wop, stdin, stdout, stdoutOpen, readerErr, promised>>
      /\ eventCh # <<>> /\ eventCh' = Tail(eventCh) /\ pc \in {"terminal", "drain"}
  BY DEF TerminalEvent, DrainEvent, workerVars, pipeVars, dbVars, histVars
<1>3. Types /\ PipeInv /\ Len(ops) \in Nat
  BY OpsLen DEF AckInv
<1>4. /\ IsEvents(eventCh', Len(ops)) /\ Len(eventCh) \in Nat \ {0}
      /\ Len(eventCh') = Len(eventCh) - 1 /\ e = eventCh[1] /\ e \in Events(Len(ops))
      /\ \A j \in 1..Len(eventCh') : eventCh'[j] = eventCh[j + 1] /\ j + 1 \in 1..Len(eventCh)
      /\ \A kinds : None(eventCh, kinds) => None(eventCh', kinds)
      /\ Len(eventCh) = 1 => eventCh' = <<>>
  BY <1>1, <1>2, <1>3, TailFacts DEF Types
<1>5. ~Doomed
  BY <1>2, <1>3 DEF PipeInv, Doomed
<1>6. StageInv /\ LastInv /\ OracleInv
  BY <1>5 DEF AckInv
<1>7. 1 \in 1..Len(eventCh) /\ None(eventCh, {"ready"}) /\ None(stdout, {"ready"})
  BY <1>2, <1>4, <1>6 DEF StageInv
<1>8. e.kind \in {"start", "ack", "fail"}
  BY <1>4, <1>7 DEF None, Events
<1>9. /\ pc' = "failed" \/ pc' = (IF pc = "drain" \/ e.kind = "start" THEN pc ELSE "send")
  <2>1. CASE TerminalEvent
    BY <1>1, <1>8, <2>1 DEF TerminalEvent
  <2>2. CASE DrainEvent
    BY <1>1, <2>2 DEF DrainEvent
  <2> QED
    BY <2>1, <2>2
<1>10. CASE pc' = "failed"
  <2>1. retryIndex' \in {0, retryIndex} /\ wpc' \in {wpc, "dead"}
    BY <1>1, <1>2
  <2> QED
    BY <1>2, <1>4, <1>10, <2>1, FailsStep
<1>11. CASE pc' # "failed"
  <2>1. pc' = IF pc = "drain" \/ e.kind = "start" THEN pc ELSE "send"
    BY <1>9, <1>11
  <2>2. Types'
    BY <1>1, <1>2, <1>3, <1>4, <2>1 DEF Types
  <2>3. PipeInv'
    BY <1>2, <1>3, <2>1 DEF PipeInv
  <2>4. e.kind \in Terminal => eventCh' = <<>> /\ stdout = <<>>
    BY <1>4, <1>6, <1>7 DEF LastInv
  <2>5. LastInv'
    <3>1. ASSUME NEW j \in 1..Len(eventCh'), eventCh'[j].kind \in Terminal
          PROVE  j = Len(eventCh') /\ stdout' = <<>>
      <4>1. j + 1 = Len(eventCh) /\ stdout = <<>>
        BY <1>4, <1>6, <3>1 DEF LastInv
      <4>2. j \in Nat /\ j = Len(eventCh')
        BY <1>4, <4>1
      <4> QED
        BY <1>2, <4>1, <4>2
    <3> QED
      BY <1>2, <1>6, <3>1 DEF LastInv
  <2>6. StageInv'
    <3>1. CASE pc = "drain"
      BY <1>2, <1>4, <1>6, <1>7, <2>1, <3>1 DEF StageInv
    <3>2. CASE pc = "terminal" /\ e.kind = "start"
      BY <1>2, <1>4, <1>6, <1>7, <2>1, <3>2 DEF StageInv, Quiet
    <3>3. CASE pc = "terminal" /\ e.kind # "start"
      <4>1. e.kind \in Terminal /\ ~None(eventCh, Terminal)
        BY <1>4, <1>7, <1>8, <3>3 DEF Terminal, None
      <4>2. stdin = <<>> /\ wpc \in {"idle", "dead"}
        BY <1>2, <1>6, <3>3, <4>1 DEF StageInv, Quiet
      <4> QED
        BY <1>2, <1>4, <1>7, <2>1, <2>4, <3>3, <4>1, <4>2 DEF StageInv, Quiet
    <3> QED
      BY <1>2, <3>1, <3>2, <3>3
  <2>7. OracleInv'
    <3>1. CASE e.kind = "ack"
      <4>1. oracle'.state = ApplyItems(oracle.state, ops[e.id])
        BY <1>1, <3>1 DEF OracleApply
      <4>2. promised = oracle'.state
        BY <1>4, <1>6, <1>7, <3>1, <4>1 DEF OracleInv, Completes
      <4>3. eventCh' = <<>> /\ stdout' = <<>>
        BY <1>2, <2>4, <3>1 DEF Terminal
      <4> QED
        <5>1. Len(eventCh') = 0 /\ Len(stdout') = 0
          BY <4>3, NoEvents
        <5> QED
          <6>1. Completes(eventCh)' /\ Completes(stdout)'
            BY <5>1 DEF Completes
          <6>2. promised' = oracle'.state
            BY <1>2, <4>2
          <6> QED
            BY <6>1, <6>2 DEF OracleInv
    <3>2. CASE e.kind # "ack"
      <4>1. oracle' = oracle
        BY <1>1, <3>2
      <4>2. Completes(eventCh)' /\ Completes(stdout)'
        BY <1>2, <1>4, <1>6, <4>1 DEF OracleInv, Completes
      <4>3. None(eventCh', {"ack"}) => None(eventCh, {"ack"})
        <5> SUFFICES ASSUME None(eventCh', {"ack"}), NEW j \in 1..Len(eventCh)
                     PROVE  eventCh[j].kind # "ack"
            BY DEF None
        <5>1. CASE j = 1
          BY <1>4, <3>2, <5>1
        <5>2. CASE j # 1
          <6>1. j - 1 \in 1..Len(eventCh') /\ (j - 1) + 1 = j
            BY <1>4, <5>2
          <6> QED
            BY <1>4, <6>1 DEF None
        <5> QED
          BY <5>1, <5>2
      <4> QED
        BY <1>2, <1>6, <4>1, <4>2, <4>3 DEF OracleInv
    <3> QED
      BY <3>1, <3>2
  <2> QED
    BY <2>2, <2>3, <2>5, <2>6, <2>7 DEF AckInv
<1> QED
  BY <1>10, <1>11

(* Wait closes the pipe: what the reader has not read is lost, and unless  *)
(* it had come to the end the run fails.                                   *)
LEMMA WaitStep ==
    ASSUME AckInv, WaitWorker
    PROVE  AckInv'
<1>1. /\ UNCHANGED <<ops, cfg, queueIndex, retryIndex, oracle, wpc, wop, stdin, eventCh,
                     readerErr, promised>>
      /\ pc = "waiting" /\ wpc = "dead" /\ pc' = "joining" /\ stdoutOpen' = FALSE
  BY DEF WaitWorker, controlVars, workerVars, readerVars, dbVars, histVars
<1>2. PICK k \in 0..Len(stdout) : stdout' = SubSeq(stdout, 1, k)
  BY DEF WaitWorker
<1>3. Types /\ PipeInv /\ Len(ops) \in Nat /\ IsEvents(stdout, Len(ops)) /\ stdoutOpen
  BY <1>1, OpsLen DEF AckInv, Types, PipeInv
<1>4. IsEvents(stdout', Len(ops)) /\ Len(stdout') = k
  <2>1. /\ Len(stdout) \in Nat /\ k \in Nat
        /\ \A i \in 1..k : stdout[i] \in Events(Len(ops)) /\ i \in 1..Len(stdout)
    BY <1>3 DEF IsEvents
  <2>2. /\ stdout' \in Seq(Events(Len(ops))) /\ Len(stdout') = (IF 1 <= k THEN k - 1 + 1 ELSE 0)
        /\ \A i \in 1..(k - 1 + 1) : stdout'[i] = stdout[1 + i - 1]
    BY <1>2, <2>1, SubSeqProperties
  <2>3. k - 1 + 1 = k /\ (IF 1 <= k THEN k - 1 + 1 ELSE 0) = k /\ \A i \in 1..k : 1 + i - 1 = i
    BY <2>1
  <2>4. Len(stdout') = k /\ \A i \in 1..k : stdout'[i] = stdout[i]
    BY <2>2, <2>3
  <2> QED
    BY <1>3, <2>1, <2>2, <2>4 DEF IsEvents
<1>5. Types'
  BY <1>1, <1>3, <1>4 DEF Types
<1>6. readerErr = "nil" => stdout = <<>> /\ stdout' = <<>>
  <2> SUFFICES ASSUME readerErr = "nil" PROVE stdout = <<>> /\ stdout' = <<>>
      OBVIOUS
  <2>1. stdout = <<>> /\ Len(stdout) = 0
    BY <1>3, NoEvents DEF PipeInv
  <2> QED
    BY <1>3, <1>4, <2>1, SingleEvent
<1>7. PipeInv'
  BY <1>1, <1>3, <1>6 DEF PipeInv
<1>8. ASSUME ~Doomed' PROVE (StageInv /\ LastInv /\ OracleInv)'
  <2>1. readerErr = "nil" /\ ~Doomed /\ stdout' = stdout
    BY <1>1, <1>3, <1>6, <1>8 DEF Doomed
  <2>2. StageInv /\ LastInv /\ OracleInv
    BY <2>1 DEF AckInv
  <2>3. LastInv' /\ OracleInv'
    BY <1>1, <2>1, <2>2 DEF LastInv, OracleInv, Completes, None
  <2>4. StageInv'
    BY <1>1, <2>1, <2>2 DEF StageInv
  <2> QED
    BY <2>3, <2>4
<1> QED
  BY <1>5, <1>7, <1>8 DEF AckInv

-----------------------------------------------------------------------------
(* The invariant holds throughout. *)

LEMMA AckInvInit == Init => AckInv
<1> SUFFICES ASSUME Init PROVE AckInv
    OBVIOUS
<1>1. ops \in Workloads /\ cfg \in Configs
  BY DEF Init
<1>2. ops \in Seq(Seq(Items)) /\ Len(ops) \in Nat
  BY <1>1, HarnessAssumption DEF IsWorkload
<1>3. /\ pc = "cycle" /\ queueIndex = 0 /\ retryIndex = 0 /\ wpc = "dead" /\ wop = 0
      /\ stdin = <<>> /\ stdout = <<>> /\ stdoutOpen = FALSE /\ eventCh = <<>>
      /\ readerErr = "nil" /\ promised = Empty /\ oracle.state = Empty
  BY DEF Init
<1>4. Types
  <2>1. IsEvents(<<>>, Len(ops)) /\ <<>> \in Seq(1..Len(ops))
    BY <1>2, NoEvents
  <2> QED
    <3>1. stdin \in Seq(1..Len(ops)) /\ IsEvents(stdout, Len(ops)) /\ IsEvents(eventCh, Len(ops))
      BY <1>3, <2>1
    <3>2. queueIndex \in 0..Len(ops) /\ retryIndex \in 0..queueIndex /\ wop \in 0..Len(ops)
      BY <1>2, <1>3
    <3> QED
      BY <1>1, <1>2, <1>3, <3>1, <3>2 DEF Types, Running
<1>5. PipeInv
  BY <1>3 DEF PipeInv
<1>6. StageInv /\ LastInv /\ OracleInv
  BY <1>3, NoEvents DEF StageInv, Quiet, LastInv, OracleInv, Completes
<1> QED
  BY <1>4, <1>5, <1>6 DEF AckInv

LEMMA AckInvStep == AckInv /\ [Next]_vars => AckInv'
<1> SUFFICES ASSUME AckInv, [Next]_vars PROVE AckInv'
    OBVIOUS
<1>1. CASE Worker \/ WorkerDies
  BY <1>1, WorkerStep, OpensStep, ReceivesStep, ReportsStep DEF Worker
<1>2. CASE Reader
  BY <1>2, ForwardsStep, ReaderEndsStep DEF Reader
<1>3. CASE Controller \/ ReadyTimeout \/ TimerKill
  BY <1>3, PlainStep, StartStep, ReadyStep, SendStep, EventStep, WaitStep DEF Controller
<1>4. CASE UNCHANGED vars
  <2>1. UNCHANGED <<ops, cfg, pc, queueIndex, retryIndex, oracle, wpc, wop, stdin, stdout,
                    stdoutOpen, eventCh, readerErr, promised>>
    BY <1>4 DEF vars, controlVars, workerVars, pipeVars, readerVars, histVars
  <2>2. Types' /\ PipeInv' /\ Doomed' = Doomed
    BY <2>1 DEF AckInv, Types, PipeInv, Doomed
  <2>3. ~Doomed => (StageInv /\ LastInv /\ OracleInv)'
    BY <2>1 DEF AckInv, StageInv, Quiet, None, LastInv, OracleInv, Completes
  <2> QED
    BY <2>2, <2>3 DEF AckInv
<1> QED
  BY <1>1, <1>2, <1>3, <1>4 DEF Next

LEMMA AckInvariant == Spec => []AckInv
BY AckInvInit, AckInvStep, PTL DEF Spec

-----------------------------------------------------------------------------
(* THEOREMS *)

(* Whenever the controller verifies, its oracle is the state of every      *)
(* operation whose acknowledgement a worker wrote, those included that     *)
(* were still in the pipe or the channel when the worker was killed.       *)
THEOREM AcksCounted == Spec => []AcksRequired
<1>1. AckInv => AcksRequired
  <2> SUFFICES ASSUME AckInv, Verifying PROVE oracle.state = promised
      BY DEF AcksRequired
  <2>1. pc \in {"verify", "cycle"} /\ ~Doomed
    BY DEF Verifying, AckInv, PipeInv, Doomed
  <2>2. OracleInv /\ eventCh = <<>> /\ stdout = <<>>
    BY <2>1 DEF AckInv, StageInv, Quiet
  <2> QED
    BY <2>2, NoEvents DEF OracleInv
<1> QED
  BY <1>1, AckInvariant, PTL

-----------------------------------------------------------------------------
(* The bounds. *)

LEMMA BoundInit == Init => BoundInv
<1> SUFFICES ASSUME Init PROVE BoundInv
    OBVIOUS
<1>1. /\ pc = "cycle" /\ cycle = 0 /\ statuses = [i \in DOMAIN ops |-> "planned"]
      /\ oracle.state = Empty /\ oracle.touched = {} /\ stdin = <<>> /\ eventCh = <<>>
  BY DEF Init
<1>2. Empty \in [Keys -> Nat]
  BY DEF Empty, Missing
<1> QED
  BY <1>1, <1>2, NoEvents, HarnessAssumption DEF BoundInv

LEMMA OperationTyped ==
    ASSUME Types, BoundInv, NEW i \in 1..Len(ops)
    PROVE  /\ ApplyItems(oracle.state, ops[i]) \in [Keys -> Nat]
           /\ TouchedBy(ops[i]) \subseteq Keys
<1>1. PICK items \in Seq(Items) : items = ops[i]
  BY DEF Types
<1>2. oracle.state \in States /\ Len(items) \in Nat
  BY DEF BoundInv, States
<1>3. PICK h : h \in [0..Len(items) -> States] /\ ApplyItems(oracle.state, items) = h[Len(items)]
  BY <1>2, ItemsInOrder
<1>4. ApplyItems(oracle.state, items) \in States
  BY <1>2, <1>3
<1>5. \A j \in DOMAIN items : items[j] \in Items
  OBVIOUS
<1>6. TouchedBy(items) \subseteq Keys
  BY <1>5 DEF TouchedBy, Items
<1> QED
  BY <1>1, <1>4, <1>6 DEF States

(* The events recorded keep statuses and oracle in their types.            *)
LEMMA RecordedTyped ==
    ASSUME AckInv, BoundInv, TerminalEvent \/ DrainEvent
    PROVE  /\ statuses' \in [DOMAIN ops -> {"planned", "started", "acked", "failed"}]
           /\ oracle'.state \in [Keys -> Nat] /\ oracle'.touched \subseteq Keys
<1>1. PICK e : e = Head(eventCh) /\ Recorded(e)
  BY DEF TerminalEvent, DrainEvent
<1>2. eventCh # <<>> /\ pc \in {"terminal", "drain"}
  BY DEF TerminalEvent, DrainEvent
<1>3. Types /\ PipeInv /\ Len(ops) \in Nat
  BY OpsLen DEF AckInv
<1>4. Len(eventCh) \in Nat \ {0} /\ e = eventCh[1] /\ e \in Events(Len(ops))
  BY <1>1, <1>2, <1>3, TailFacts DEF Types
<1>5. None(eventCh, {"ready"}) /\ 1 \in 1..Len(eventCh)
  <2>1. ~Doomed
    BY <1>2, <1>3 DEF PipeInv, Doomed
  <2> QED
    BY <1>2, <1>4, <2>1 DEF AckInv, StageInv
<1>6. e.kind \in {"start", "ack", "fail"} /\ e.id \in 1..Len(ops)
  <2>1. e.kind # "ready" /\ e.kind \in {"ready", "start", "ack", "fail"} /\ e.id \in 0..Len(ops)
    BY <1>4, <1>5 DEF None, Events
  <2>2. e.id # 0
    BY <1>3, <1>4, <1>5, <2>1 DEF Types, IsEvents
  <2> QED
    BY <1>3, <2>1, <2>2
<1>7. statuses' \in [DOMAIN ops -> {"planned", "started", "acked", "failed"}]
  <2>1. PICK st \in {"started", "acked", "failed"} : statuses' = [statuses EXCEPT ![e.id] = st]
    BY <1>1, <1>6 DEF Recorded
  <2> QED
    BY <2>1 DEF BoundInv
<1>8. oracle'.state \in [Keys -> Nat] /\ oracle'.touched \subseteq Keys
  <2>1. CASE e.kind = "ack"
    <3>1. oracle' = [state |-> ApplyItems(oracle.state, ops[e.id]),
                     touched |-> oracle.touched \cup TouchedBy(ops[e.id])]
      BY <1>1, <2>1 DEF Recorded, OracleApply
    <3>2. /\ ApplyItems(oracle.state, ops[e.id]) \in [Keys -> Nat]
          /\ TouchedBy(ops[e.id]) \subseteq Keys
      BY <1>3, <1>6, OperationTyped
    <3>3. /\ oracle'.state = ApplyItems(oracle.state, ops[e.id])
          /\ oracle'.touched = oracle.touched \cup TouchedBy(ops[e.id])
      BY <3>1
    <3> QED
      BY <3>2, <3>3 DEF BoundInv
  <2>2. CASE e.kind # "ack"
    BY <1>1, <2>2 DEF Recorded, BoundInv
  <2> QED
    BY <2>1, <2>2
<1> QED
  BY <1>7, <1>8

LEMMA BoundStep == AckInv /\ BoundInv /\ [Next]_vars => BoundInv'
<1> SUFFICES ASSUME AckInv, BoundInv, [Next]_vars PROVE BoundInv'
    OBVIOUS
<1>1. Types /\ PipeInv /\ Len(ops) \in Nat
  BY OpsLen DEF AckInv
<1>2. Len(stdin) \in Nat /\ Len(eventCh) \in Nat
  BY <1>1 DEF Types, IsEvents
<1>3. CASE Worker \/ WorkerDies \/ UNCHANGED vars
  <2>1. UNCHANGED <<ops, pc, cycle, statuses, oracle, eventCh>>
    BY <1>3 DEF Worker, WorkerOpens, WorkerReceives, WorkerAppends, WorkerSyncs, WorkerSyncFails,
       WorkerAcks, WorkerReportsFailure, WorkerExits, WorkerDies, controlVars, readerVars, vars
  <2>2. Len(stdin') <= 1
    <3>1. CASE WorkerReceives
      <4>1. stdin # <<>> /\ stdin' = Tail(stdin) /\ stdin \in Seq(1..Len(ops))
        BY <1>1, <3>1 DEF WorkerReceives, Types
      <4>2. Len(stdin') = Len(stdin) - 1
        BY <4>1
      <4> QED
        BY <1>2, <4>2 DEF BoundInv
    <3>2. CASE ~WorkerReceives
      <4>1. stdin' = stdin
        BY <1>3, <3>2 DEF Worker, WorkerOpens, WorkerAppends, WorkerSyncs, WorkerSyncFails,
           WorkerAcks, WorkerReportsFailure, WorkerExits, WorkerDies, pipeVars, vars
      <4> QED
        BY <4>1 DEF BoundInv
    <3> QED
      BY <3>1, <3>2
  <2> QED
    BY <2>1, <2>2 DEF BoundInv
<1>4. CASE Reader
  <2>1. UNCHANGED <<ops, pc, cycle, statuses, oracle, stdin>>
    BY <1>4 DEF Reader, ReaderForwards, ReaderEnds, controlVars, pipeVars
  <2>2. Len(eventCh') <= EventChCap
    <3>1. CASE ReaderForwards
      <4>1. /\ eventCh' = Append(eventCh, Head(stdout)) /\ Len(eventCh) < EventChCap
            /\ stdout # <<>>
        BY <3>1 DEF ReaderForwards
      <4>2. Head(stdout) \in Events(Len(ops)) /\ eventCh \in Seq(Events(Len(ops)))
        BY <1>1, <4>1, TailFacts DEF Types, IsEvents
      <4>3. Len(eventCh') = Len(eventCh) + 1
        BY <4>1, <4>2, AppendProperties
      <4> QED
        BY <1>2, <4>1, <4>3, HarnessAssumption
    <3>2. CASE ReaderEnds
      BY <3>2 DEF ReaderEnds, BoundInv
    <3> QED
      BY <1>4, <3>1, <3>2 DEF Reader
  <2> QED
    BY <2>1, <2>2 DEF BoundInv
<1>5. CASE TerminalEvent \/ DrainEvent
  <2>1. /\ UNCHANGED <<ops, cycle, stdin>> /\ eventCh # <<>> /\ eventCh' = Tail(eventCh)
        /\ pc \in {"terminal", "drain"}
    BY <1>5 DEF TerminalEvent, DrainEvent, pipeVars
  <2>2. Len(eventCh') = Len(eventCh) - 1
    BY <1>1, <2>1, TailFacts DEF Types
  <2>3. Len(eventCh') <= EventChCap
    BY <1>2, <2>2, HarnessAssumption DEF BoundInv
  <2> QED
    BY <1>5, <2>1, <2>3, RecordedTyped DEF BoundInv
<1>6. CASE StartWorker
  <2>1. /\ UNCHANGED <<ops, cycle, statuses, oracle>> /\ stdin' = <<>> /\ eventCh' = <<>>
        /\ cycle < Cycles
    BY <1>6 DEF StartWorker, MoreToDo, controlVars
  <2> QED
    BY <2>1, NoEvents, HarnessAssumption DEF BoundInv
<1>7. CASE WorkerReady
  <2>1. /\ UNCHANGED <<ops, cycle, statuses, oracle, stdin>> /\ eventCh # <<>>
        /\ eventCh' = Tail(eventCh) /\ pc = "await"
    BY <1>7 DEF WorkerReady, controlVars, pipeVars
  <2>2. Len(eventCh') = Len(eventCh) - 1
    BY <1>1, <2>1, TailFacts DEF Types
  <2>3. Len(eventCh') <= EventChCap
    BY <1>2, <2>2, HarnessAssumption DEF BoundInv
  <2> QED
    BY <2>1, <2>3 DEF BoundInv
<1>8. CASE SendOperation
  <2>1. /\ UNCHANGED <<ops, cycle, statuses, oracle, eventCh>> /\ pc = "send"
        /\ \/ stdin' = stdin
           \/ stdin' = Append(stdin, NextOperation)
    BY <1>8 DEF SendOperation, readerVars
  <2>2. stdin = <<>>
    <3>1. ~Doomed
      BY <1>1, <2>1 DEF PipeInv, Doomed
    <3> QED
      BY <2>1, <3>1 DEF AckInv, StageInv
  <2>3. Len(stdin') <= 1
    <3>1. CASE stdin' = stdin
      BY <3>1 DEF BoundInv
    <3>2. CASE stdin' = Append(stdin, NextOperation)
      <4>1. NextOperation \in 1..Len(ops)
        BY <1>1, <1>8 DEF SendOperation, NextOperation, Types
      <4>2. stdin \in Seq(1..Len(ops)) /\ Len(stdin) = 0
        BY <1>1, <2>2, EmptySeq DEF Types
      <4>3. PICK x \in 1..Len(ops) : x = NextOperation
        BY <4>1
      <4>4. Len(Append(stdin, x)) = Len(stdin) + 1
        BY <4>2, AppendProperties
      <4> QED
        BY <3>2, <4>2, <4>3, <4>4
    <3> QED
      BY <2>1, <3>1, <3>2
  <2> QED
    BY <2>1, <2>3 DEF BoundInv
<1>9. CASE VerifyCycle
  <2>1. /\ UNCHANGED <<ops, statuses, oracle, stdin, eventCh>> /\ pc = "verify"
        /\ cycle' = cycle + 1 /\ pc' \in {"cycle", "failed", "alarm"}
    BY <1>9 DEF VerifyCycle, VerifyDatabaseState, pipeVars, readerVars
  <2>2. cycle' \in 0..Cycles
    BY <2>1, HarnessAssumption DEF BoundInv
  <2> QED
    BY <2>1, <2>2 DEF BoundInv
<1>10. CASE \/ WorkerNotReady \/ NothingToSend \/ ChannelClosed \/ CloseStdin \/ WaitWorker
            \/ JoinReader \/ CycleEnds \/ VerifyFinalState \/ ReadyTimeout \/ TimerKill
  <2>1. UNCHANGED <<ops, cycle, statuses, oracle, stdin, eventCh>>
    BY <1>10 DEF WorkerNotReady, NothingToSend, ChannelClosed, CloseStdin, WaitWorker, JoinReader,
       CycleEnds, VerifyFinalState, ReadyTimeout, TimerKill, controlVars, pipeVars, readerVars
  <2>2. \/ pc' \in {"failed", "done", "alarm"}
        \/ pc \in {"send", "terminal", "closing", "waiting", "joining", "drain"}
    BY <1>10 DEF WorkerNotReady, NothingToSend, ChannelClosed, CloseStdin, WaitWorker, JoinReader,
       CycleEnds, VerifyFinalState, VerifyDatabaseState, ReadyTimeout, TimerKill
  <2> QED
    BY <2>1, <2>2 DEF BoundInv
<1> QED
  BY <1>3, <1>4, <1>5, <1>6, <1>7, <1>8, <1>9, <1>10 DEF Next, Controller

(* Every variable of controller, worker and reader keeps its type: the     *)
(* queue is never read beyond its end, at most one operation waits in the  *)
(* worker's stdin, and the event channel stays within its capacity.        *)
THEOREM TypeCorrect == Spec => []TypeOK
<1>1. AckInv /\ BoundInv => TypeOK
  BY DEF AckInv, Types, BoundInv, TypeOK, Running
<1>2. Init /\ [][Next]_vars => []BoundInv
  <2>1. Init /\ [][Next]_vars => []AckInv
    BY AckInvInit, AckInvStep, PTL
  <2> QED
    BY <2>1, BoundInit, BoundStep, PTL
<1> QED
  BY <1>1, <1>2, AckInvariant, PTL DEF Spec

-----------------------------------------------------------------------------
(* The records of the database. *)

LogsInv == wal \in Seq(Records) /\ buf \in Seq(Records) /\ promised \in States

LEMMA LogsInit == Init => LogsInv
<1> SUFFICES ASSUME Init PROVE LogsInv
    OBVIOUS
<1>1. wal = <<>> /\ buf = <<>> /\ promised = Empty
  BY DEF Init
<1>2. Empty \in States
  BY DEF Empty, Missing, States
<1>3. <<>> \in Seq(Records)
  OBVIOUS
<1> QED
  BY <1>1, <1>2, <1>3 DEF LogsInv

(* Of the buffer a dying worker leaves some beginning.                     *)
LEMMA DieTyped ==
    ASSUME wal \in Seq(Records), NEW b \in Seq(Records), Die(b)
    PROVE  wal' \in Seq(Records) /\ buf' \in Seq(Records)
<1>1. PICK n \in 0..Len(b) : wal' = wal \o SubSeq(b, 1, n)
  BY DEF Die
<1>2. SubSeq(b, 1, n) \in Seq(Records)
  OBVIOUS
<1>3. wal' \in Seq(Records)
  BY <1>1, <1>2, ConcatProperties
<1>4. buf' = <<>>
  BY DEF Die
<1> QED
  BY <1>3, <1>4

LEMMA LogsStep == AckInv /\ LogsInv /\ [Next]_vars => LogsInv'
<1> SUFFICES ASSUME AckInv, LogsInv, [Next]_vars PROVE LogsInv'
    OBVIOUS
<1>1. Types /\ Len(ops) \in Nat /\ wal \in Seq(Records) /\ buf \in Seq(Records) /\ promised \in States
  BY OpsLen DEF AckInv, LogsInv
<1>2. CASE WorkerAppends
  <2>1. promised' = promised /\ wpc = "executing"
    BY <1>2 DEF WorkerAppends, histVars
  <2>2. PICK b : /\ b = Append(buf, Payload(ops[wop]))
                 /\ Die(b) \/ (buf' = b /\ wal' = wal)
    BY <1>2 DEF WorkerAppends, Payload
  <2>3. PICK items \in Seq(Items) : items = ops[wop]
    BY <1>1, <2>1 DEF Types, Running
  <2>4. Payload(items) \in Records
    BY DEF Records
  <2>5. b \in Seq(Records)
    BY <1>1, <2>2, <2>3, <2>4, AppendProperties
  <2> QED
    BY <1>1, <2>1, <2>2, <2>5, DieTyped DEF LogsInv
<1>3. CASE WorkerSyncs \/ WorkerSyncFails \/ WorkerExits
  <2>1. /\ promised' = promised
        /\ (wal' = wal /\ buf' = buf) \/ (wal' = wal \o buf /\ buf' = <<>>)
    <3>1. CASE WorkerSyncs \/ WorkerExits
      BY <3>1 DEF WorkerSyncs, WorkerExits, histVars
    <3>2. CASE WorkerSyncFails
      BY <3>2 DEF WorkerSyncFails, dbVars
    <3> QED
      BY <1>3, <3>1, <3>2
  <2>2. wal \o buf \in Seq(Records) /\ <<>> \in Seq(Records)
    <3>1. wal \o buf \in Seq(Records)
      BY ONLY <1>1, ConcatProperties
    <3> QED
      BY <3>1
  <2> QED
    BY <1>1, <2>1, <2>2 DEF LogsInv
<1>4. CASE WorkerDies \/ ReadyTimeout \/ TimerKill
  <2>1. Die(buf) /\ promised' = promised
    BY <1>4 DEF WorkerDies, ReadyTimeout, TimerKill, histVars
  <2> QED
    BY <1>1, <2>1, DieTyped DEF LogsInv
<1>5. CASE WorkerAcks
  <2>1. /\ UNCHANGED <<wal, buf>> /\ promised' = ApplyItems(promised, ops[wop])
        /\ wpc = "applied"
    BY <1>5 DEF WorkerAcks, dbVars
  <2>2. PICK items \in Seq(Items) : items = ops[wop]
    BY <1>1, <2>1 DEF Types, Running
  <2> QED
    BY <1>1, <2>1, <2>2, ApplyItemsType DEF LogsInv
<1>6. CASE \/ WorkerOpens \/ WorkerReceives \/ WorkerReportsFailure \/ Reader \/ UNCHANGED vars
           \/ Controller
  <2>1. UNCHANGED <<wal, buf, promised>>
    BY <1>6 DEF WorkerOpens, WorkerReceives, WorkerReportsFailure, Reader, ReaderForwards,
       ReaderEnds, Controller, StartWorker, WorkerReady, WorkerNotReady, SendOperation,
       NothingToSend, TerminalEvent, ChannelClosed, CloseStdin, WaitWorker, JoinReader,
       DrainEvent, CycleEnds, VerifyCycle, VerifyFinalState, dbVars, histVars, vars
  <2> QED
    BY <1>1, <2>1 DEF LogsInv
<1> QED
  BY <1>2, <1>3, <1>4, <1>5, <1>6 DEF Next, Worker

(* Every record of the WAL decodes to the batch it was made from, and no   *)
(* proper beginning of it, nor it with another record behind it, decodes:  *)
(* a torn or a merged record is never taken for a batch.                   *)
THEOREM PayloadsDecodeStrictly == Spec => []PayloadsStrict
<1>1. LogsInv => PayloadsStrict
  <2> SUFFICES ASSUME LogsInv, NEW i \in DOMAIN wal
               PROVE  /\ DecodeBatch(wal[i]).err = "nil"
                      /\ EncodeOperations(DecodeBatch(wal[i]).ops) = wal[i]
                      /\ \A n \in 0..(Len(wal[i]) - 1) : DecodeBatch(SubSeq(wal[i], 1, n)).err # "nil"
                      /\ \A j \in DOMAIN wal : DecodeBatch(wal[i] \o wal[j]).err # "nil"
      BY DEF PayloadsStrict
  <2>1. \A j \in DOMAIN wal : wal[j] \in Records
    BY DEF LogsInv
  <2>2. PICK items \in Seq(Items) : wal[i] = Payload(items)
    BY <2>1 DEF Records
  <2>3. PICK p : p = wal[i] /\ p = Payload(items)
    BY <2>2
  <2>4. /\ DecodeBatch(p).err = "nil" /\ DecodeBatch(p).ops = ToBatch(items)
        /\ \A n \in 0..(Len(p) - 1) : DecodeBatch(SubSeq(p, 1, n)).err # "nil"
        /\ \A q \in Seq(Nat) : Len(q) >= 3 => DecodeBatch(p \o q).err # "nil"
    BY ONLY <2>3, PayloadFacts, items \in Seq(Items)
  <2>5. EncodeOperations(DecodeBatch(p).ops) = p
    BY ONLY <2>3, <2>4 DEF Payload
  <2>6. ASSUME NEW j \in DOMAIN wal PROVE DecodeBatch(p \o wal[j]).err # "nil"
    <3>1. PICK other \in Seq(Items) : wal[j] = Payload(other)
      BY <2>1 DEF Records
    <3>2. PICK q : q = wal[j] /\ q = Payload(other)
      BY <3>1
    <3>3. q \in Seq(Nat) /\ Len(q) >= 3
      BY ONLY <3>2, PayloadFacts, other \in Seq(Items)
    <3> QED
      BY ONLY <2>4, <3>2, <3>3
  <2> QED
    BY ONLY <2>3, <2>4, <2>5, <2>6
<1>2. Init /\ [][Next]_vars => []LogsInv
  <2>1. Init /\ [][Next]_vars => []AckInv
    BY AckInvInit, AckInvStep, PTL
  <2> QED
    BY <2>1, LogsInit, LogsStep, PTL
<1> QED
  BY <1>1, <1>2, PTL DEF Spec

-----------------------------------------------------------------------------
(* The operation in doubt. *)

(* Neither has the run failed nor has an operation.                        *)
Sound == ~Doomed /\ failedOps = {}

(* The start event of the operation to be sent again was seen or will be.  *)
StartIn(q) == \E j \in 1..Len(q) : q[j].kind = "start" /\ q[j].id = retryIndex
Started    == statuses[retryIndex] = "started" \/ StartIn(eventCh) \/ StartIn(stdout)

(* The worker is at most in the operation that would be sent again, and    *)
(* only that one's record may be in its buffer.                            *)
WorkInv ==
    /\ None(eventCh, {"fail"}) /\ None(stdout, {"fail"})
    /\ stdin # <<>> => stdin[1] = retryIndex /\ Quiet
    /\ wpc \in Running => wop = retryIndex
    /\ wpc = "appended" => buf # <<>>
    /\ buf = <<>> \/ (wpc \in {"appended", "failing"} /\ buf = <<Payload(ops[wop])>>)

(* The database is at most that operation ahead of the acknowledgements,   *)
(* and only if it is known to have started.                                *)
AheadInv ==
    /\ wpc = "applied" => Replay(wal) = ApplyItems(promised, ops[wop])
    /\ Replay(wal) = promised \/ (None(eventCh, {"ack"}) /\ None(stdout, {"ack"}))
    /\ Replay(wal) # promised =>
         retryIndex # 0 /\ Replay(wal) = ApplyItems(promised, ops[retryIndex])
    /\ wpc \in Running \/ Replay(wal) # promised => Started

DoubtInv == Sound => WorkInv /\ AheadInv

(* A run that has failed has failed for good.                              *)
LEMMA DoomStays == AckInv /\ [Next]_vars /\ Sound' => Sound
<1> SUFFICES ASSUME AckInv, [Next]_vars, Sound' PROVE Sound
    OBVIOUS
<1>1. PipeInv
  BY DEF AckInv
<1>2. failedOps = {}
  <2>1. failedOps \subseteq failedOps'
    BY DEF Next, Worker, WorkerDies, WorkerOpens, WorkerReceives, WorkerAppends, WorkerSyncs,
       WorkerSyncFails, WorkerAcks, WorkerReportsFailure, WorkerExits, Reader, ReaderForwards,
       ReaderEnds, ReadyTimeout, TimerKill, Controller, StartWorker, WorkerReady, WorkerNotReady,
       SendOperation, NothingToSend, TerminalEvent, ChannelClosed, CloseStdin, WaitWorker,
       JoinReader, DrainEvent, CycleEnds, VerifyCycle, VerifyFinalState, histVars, vars
  <2> QED
    BY <2>1 DEF Sound
<1>3. pc # "failed"
  <2>1. pc = "failed" => pc' = "failed"
    BY DEF Next, Worker, WorkerDies, WorkerOpens, WorkerReceives, WorkerAppends, WorkerSyncs,
       WorkerSyncFails, WorkerAcks, WorkerReportsFailure, WorkerExits, Reader, ReaderForwards,
       ReaderEnds, ReadyTimeout, TimerKill, Controller, StartWorker, WorkerReady, WorkerNotReady,
       SendOperation, NothingToSend, TerminalEvent, ChannelClosed, CloseStdin, WaitWorker,
       JoinReader, DrainEvent, CycleEnds, VerifyCycle, VerifyFinalState, vars
  <2> QED
    BY <2>1 DEF Sound, Doomed
<1>4. ASSUME ~stdoutOpen, readerErr # "nil" PROVE ~stdoutOpen' /\ readerErr' # "nil"
  <2>1. ~StartWorker
    BY <1>1, <1>4 DEF StartWorker, PipeInv
  <2>2. CASE Controller
    <3>1. UNCHANGED readerErr /\ (stdoutOpen' = stdoutOpen \/ stdoutOpen' = FALSE)
      BY <2>1, <2>2 DEF Controller, WorkerReady, WorkerNotReady, SendOperation, NothingToSend,
         TerminalEvent, ChannelClosed, CloseStdin, WaitWorker, JoinReader, DrainEvent, CycleEnds,
         VerifyCycle, VerifyFinalState, readerVars, pipeVars
    <3> QED
      BY <1>4, <3>1
  <2>3. CASE Worker \/ WorkerDies \/ ReadyTimeout \/ TimerKill \/ UNCHANGED vars
    <3>1. UNCHANGED <<readerErr, stdoutOpen>>
      BY <2>3 DEF Worker, WorkerDies, WorkerOpens, WorkerReceives, WorkerAppends, WorkerSyncs,
         WorkerSyncFails, WorkerAcks, WorkerReportsFailure, WorkerExits, ReadyTimeout, TimerKill,
         readerVars, pipeVars, vars
    <3> QED
      BY <1>4, <3>1
  <2>4. CASE Reader
    BY <1>4, <2>4 DEF Reader, ReaderForwards, ReaderEnds, pipeVars
  <2> QED
    BY <2>2, <2>3, <2>4 DEF Next
<1> QED
  BY <1>2, <1>3, <1>4 DEF Sound, Doomed

(* What the steps of the proof start from.                                 *)
Ready == AckInv /\ BoundInv /\ LogsInv /\ Sound /\ WorkInv /\ AheadInv

LEMMA DoubtSame ==
    ASSUME WorkInv, AheadInv,
           UNCHANGED <<ops, retryIndex, statuses, wpc, wop, stdin, stdout, eventCh, wal, buf,
                       promised>>
    PROVE  WorkInv' /\ AheadInv'
<1>1. WorkInv'
  BY DEF WorkInv, None, Quiet, Running, Payload
<1>2. AheadInv'
  <2>1. Replay(wal)' = Replay(wal)
    OBVIOUS
  <2> QED
    BY DEF AheadInv, None, Running, Started, StartIn
<1> QED
  BY <1>1, <1>2

(* The steps that leave worker, pipes and database alone.                  *)
LEMMA DoubtPlain ==
    ASSUME Ready,
           \/ WorkerNotReady \/ NothingToSend \/ ChannelClosed \/ CloseStdin \/ JoinReader
           \/ CycleEnds \/ VerifyCycle \/ VerifyFinalState \/ ReaderEnds \/ UNCHANGED vars
    PROVE  WorkInv' /\ AheadInv'
<1>1. UNCHANGED <<ops, retryIndex, statuses, wpc, wop, stdin, stdout, eventCh, wal, buf, promised>>
  BY DEF WorkerNotReady, NothingToSend, ChannelClosed, CloseStdin, JoinReader, CycleEnds,
     VerifyCycle, VerifyFinalState, ReaderEnds, controlVars, workerVars, pipeVars, readerVars,
     dbVars, histVars, vars
<1> QED
  BY <1>1, DoubtSame DEF Ready

(* The worker goes on, or is gone: what it adds to the WAL is nothing or   *)
(* the record of its operation.                                            *)
LEMMA DoubtGrows ==
    ASSUME Ready, NEW q,
           UNCHANGED <<ops, retryIndex, statuses, wop, stdin, stdout, eventCh, promised>>,
           wal' = wal \o q, q = <<>> \/ (wpc \in Running /\ q = <<Payload(ops[wop])>>),
           wpc' \in Running => wpc \in Running, wpc' = "applied" => q # <<>>,
           wpc' = "appended" => buf' # <<>>,
           buf' = <<>> \/ (wpc' \in {"appended", "failing"} /\ buf' = <<Payload(ops[wop])>>)
    PROVE  WorkInv' /\ AheadInv'
<1>1. /\ Types /\ Len(ops) \in Nat /\ WorkInv /\ AheadInv
      /\ wal \in Seq(Records) /\ promised \in States
  BY OpsLen DEF Ready, AckInv, LogsInv
<1>2. WorkInv'
  BY <1>1 DEF WorkInv, None, Quiet, Running, Payload
<1>3. UNCHANGED <<Started, None(eventCh, {"ack"}), None(stdout, {"ack"})>>
  BY DEF Started, StartIn, None
<1>4. CASE q = <<>>
  <2>1. wal' = wal
    BY <1>1, <1>4, ConcatEmptySeq
  <2>2. Replay(wal)' = Replay(wal) /\ wpc' # "applied"
    BY <1>4, <2>1
  <2>3. AheadInv'
    BY <1>1, <1>3, <2>2 DEF AheadInv
  <2> QED
    BY <1>2, <2>3
<1>5. CASE q # <<>>
  <2>1. wpc \in Running /\ q = <<Payload(ops[wop])>> /\ wop = retryIndex /\ retryIndex # 0
    BY <1>1, <1>5 DEF WorkInv, Types
  <2>2. PICK items \in Seq(Items) : items = ops[wop] /\ items = ops[retryIndex]
    <3>1. wop \in 1..Len(ops)
      BY <1>1, <2>1 DEF Types
    <3>2. PICK i \in 1..Len(ops) : i = wop
      BY <3>1
    <3>3. ops[i] \in Seq(Items)
      BY <1>1 DEF Types
    <3> QED
      BY <2>1, <3>2, <3>3
  <2>3. PICK p \in Records : p = Payload(items)
    BY DEF Records
  <2>4. wal' = Append(wal, Payload(items))
    <3>1. wal' = wal \o <<p>>
      BY <2>1, <2>2, <2>3
    <3>2. wal \o <<p>> = Append(wal, p)
      BY ONLY <1>1, p \in Records
    <3> QED
      BY ONLY <2>3, <3>1, <3>2
  <2>5. Replay(wal)' = ApplyItems(Replay(wal), items)
    <3>1. Replay(Append(wal, Payload(items))) = ApplyItems(Replay(wal), items)
      BY ONLY <1>1, items \in Seq(Items), ReplayAppend
    <3>2. Replay(wal)' = Replay(wal')
      OBVIOUS
    <3> QED
      BY ONLY <2>4, <3>1, <3>2
  <2>6. Replay(wal)' = ApplyItems(promised, items)
    <3>1. CASE Replay(wal) = promised
      BY ONLY <2>5, <3>1
    <3>2. CASE Replay(wal) # promised
      <4>1. Replay(wal) = ApplyItems(promised, items)
        BY <1>1, <2>2, <3>2 DEF AheadInv
      <4>2. ApplyItems(ApplyItems(promised, items), items) = ApplyItems(promised, items)
        BY ONLY <1>1, items \in Seq(Items), ApplyTwice
      <4> QED
        BY ONLY <2>5, <4>1, <4>2
    <3> QED
      BY ONLY <3>1, <3>2
  <2>7. None(eventCh, {"ack"}) /\ None(stdout, {"ack"}) /\ Started
    <3>1. AckInv /\ ~Doomed /\ wpc # "dead"
      BY <2>1 DEF Ready, Sound, Running
    <3>2. None(eventCh, Terminal) /\ None(stdout, Terminal)
      BY <2>1, <3>1, WorkerAlive
    <3> QED
      BY <1>1, <2>1, <3>2 DEF AheadInv, None, Terminal
  <2>8. AheadInv'
    BY <1>3, <2>1, <2>2, <2>6, <2>7 DEF AheadInv
  <2> QED
    BY <1>2, <2>8
<1> QED
  BY <1>4, <1>5

(* What is left of a buffer of at most one record.                         *)
LEMMA LeftOf ==
    ASSUME NEW p \in Records, NEW b, b = <<>> \/ b = <<p>>, NEW n \in 0..Len(b)
    PROVE  SubSeq(b, 1, n) = <<>> \/ (b = <<p>> /\ SubSeq(b, 1, n) = <<p>>)
<1>1. CASE b = <<>>
  <2>1. n = 0
    BY <1>1
  <2>2. SubSeq(<<>>, 1, 0) = <<>>
    OBVIOUS
  <2> QED
    BY ONLY <1>1, <2>1, <2>2
<1>2. CASE b = <<p>>
  <2>1. n = 0 \/ n = 1
    BY <1>2
  <2>2. SubSeq(<<p>>, 1, 0) = <<>> /\ SubSeq(<<p>>, 1, 1) = <<p>>
    <3>1. SubSeq(<<p>>, 1, 0) = <<>>
      BY ONLY SubSeqEmpty
    <3>2. PICK s \in Seq(Records) : s = <<p>> /\ Len(s) = 1
      <4>1. <<p>> \in Seq(Records) /\ Len(<<p>>) = 1
        OBVIOUS
      <4> QED
        BY ONLY <4>1
    <3>3. SubSeq(s, 1, Len(s)) = s
      BY ONLY s \in Seq(Records), SubSeqFull
    <3> QED
      BY ONLY <3>1, <3>2, <3>3
  <2> QED
    BY ONLY <1>2, <2>1, <2>2
<1> QED
  BY <1>1, <1>2

LEMMA DoubtWorks ==
    ASSUME Ready,
           \/ WorkerAppends \/ WorkerSyncs \/ WorkerSyncFails \/ WorkerExits
           \/ WorkerDies \/ ReadyTimeout \/ TimerKill
    PROVE  WorkInv' /\ AheadInv'
<1>1. UNCHANGED <<ops, retryIndex, statuses, wop, stdin, stdout, eventCh, promised>>
  BY DEF WorkerAppends, WorkerSyncs, WorkerSyncFails, WorkerExits, WorkerDies, ReadyTimeout,
     TimerKill, controlVars, workerVars, pipeVars, readerVars, histVars
<1>2. /\ Types /\ wal \in Seq(Records) /\ buf \in Seq(Records) /\ Len(ops) \in Nat
      /\ wpc \in Running => wop \in 1..Len(ops)
  BY OpsLen DEF Ready, AckInv, LogsInv, Types
<1>3. /\ buf = <<>> \/ (wpc \in {"appended", "failing"} /\ buf = <<Payload(ops[wop])>>)
      /\ wpc = "appended" => buf # <<>>
  BY DEF Ready, WorkInv
<1>4. wpc \in Running => Payload(ops[wop]) \in Records
  <2>1. \A i \in 1..Len(ops) : ops[i] \in Seq(Items)
    BY <1>2 DEF Types
  <2> QED
    BY ONLY <1>2, <2>1 DEF Records
<1>5. wal \o <<>> = wal
  BY ONLY <1>2, ConcatEmptySeq
<1>6. ASSUME NEW b, Die(b), b = <<>> \/ (wpc \in Running /\ b = <<Payload(ops[wop])>>)
      PROVE  WorkInv' /\ AheadInv'
  <2>1. PICK n \in 0..Len(b) : wal' = wal \o SubSeq(b, 1, n)
    BY <1>6 DEF Die
  <2>2. wpc' = "dead" /\ buf' = <<>>
    BY <1>6 DEF Die
  <2>3. PICK q : /\ wal' = wal \o q
                 /\ q = <<>> \/ (wpc \in Running /\ q = <<Payload(ops[wop])>>)
    <3>1. CASE b = <<>>
      <4>1. SubSeq(b, 1, n) = <<>>
        BY <3>1
      <4> QED
        BY <2>1, <4>1
    <3>2. CASE wpc \in Running /\ b = <<Payload(ops[wop])>>
      <4>1. PICK p \in Records : p = Payload(ops[wop])
        BY <1>4, <3>2
      <4>2. SubSeq(b, 1, n) = <<>> \/ SubSeq(b, 1, n) = <<p>>
        BY <3>2, <4>1, LeftOf
      <4> QED
        BY <2>1, <3>2, <4>1, <4>2
    <3> QED
      BY <1>6, <3>1, <3>2
  <2>4. "dead" \notin Running
    BY DEF Running
  <2> QED
    BY <1>1, <2>2, <2>3, <2>4, DoubtGrows
<1>7. CASE WorkerDies \/ ReadyTimeout \/ TimerKill
  <2>1. Die(buf)
    BY <1>7 DEF WorkerDies, ReadyTimeout, TimerKill
  <2>2. buf = <<>> \/ (wpc \in Running /\ buf = <<Payload(ops[wop])>>)
    BY <1>3 DEF Running
  <2> QED
    BY <1>6, <2>1, <2>2
<1>8. CASE WorkerAppends
  <2>1. wpc = "executing" /\ wpc \in Running /\ buf = <<>>
    BY <1>3, <1>8 DEF WorkerAppends, Running
  <2>2. PICK p \in Records : p = Payload(ops[wop])
    BY <1>4, <2>1
  <2>3. Append(buf, p) = <<p>>
    BY <2>1
  <2>4. Die(<<p>>) \/ (wpc' = "appended" /\ buf' = <<p>> /\ wal' = wal)
    BY <1>8, <2>2, <2>3 DEF WorkerAppends, Payload
  <2>5. CASE Die(<<p>>)
    BY <1>6, <2>1, <2>2, <2>5
  <2>6. CASE wpc' = "appended" /\ buf' = <<p>> /\ wal' = wal
    BY <1>1, <1>5, <2>1, <2>2, <2>6, DoubtGrows
  <2> QED
    BY <2>4, <2>5, <2>6
<1>9. CASE WorkerSyncs \/ WorkerExits
  <2>1. wal' = wal \o buf /\ buf' = <<>>
    BY <1>9 DEF WorkerSyncs, WorkerExits
  <2>2. wpc' = "dead" \/ (wpc' = "applied" /\ wpc = "appended")
    BY <1>9 DEF WorkerSyncs, WorkerExits
  <2>3. CASE buf # <<>>
    BY <1>1, <1>3, <2>1, <2>2, <2>3, DoubtGrows DEF Running
  <2>4. CASE buf = <<>> /\ wpc' = "dead"
    BY <1>1, <2>1, <2>4, DoubtGrows DEF Running
  <2> QED
    BY <1>3, <2>2, <2>3, <2>4
<1>10. CASE WorkerSyncFails
  <2>1. /\ wpc = "appended" /\ wpc' = "failing"
        /\ (wal' = wal /\ buf' = buf) \/ (wal' = wal \o buf /\ buf' = <<>>)
    BY <1>10 DEF WorkerSyncFails, dbVars
  <2>2. CASE wal' = wal /\ buf' = buf
    BY <1>1, <1>3, <1>5, <2>1, <2>2, DoubtGrows DEF Running
  <2>3. CASE wal' = wal \o buf /\ buf' = <<>>
    BY <1>1, <1>3, <2>1, <2>3, DoubtGrows DEF Running
  <2> QED
    BY <2>1, <2>2, <2>3
<1> QED
  BY <1>7, <1>8, <1>9, <1>10

(* Events that pass from one queue to the next or join one.                *)
LEMMA StartsAppend ==
    ASSUME NEW n \in Nat, NEW q, IsEvents(q, n), NEW e \in Events(n), e.kind # "ready" => e.id # 0
    PROVE  StartIn(Append(q, e)) <=> StartIn(q) \/ (e.kind = "start" /\ e.id = retryIndex)
<1>1. PICK t : t = Append(q, e)
  OBVIOUS
<1>2. PICK l \in Nat : l = Len(q)
  BY AppendFacts
<1>3. Len(t) = l + 1 /\ t[l + 1] = e /\ \A j \in 1..l : t[j] = q[j]
  BY <1>1, <1>2, AppendFacts
<1>4. (\A j \in 1..(l + 1) : j \in 1..l \/ j = l + 1) /\ (\A j \in 1..l : j \in 1..(l + 1))
      /\ l + 1 \in 1..(l + 1)
  BY ONLY l \in Nat
<1> QED
  BY ONLY <1>1, <1>2, <1>3, <1>4 DEF StartIn

LEMMA StartsTail ==
    ASSUME NEW n \in Nat, NEW q, IsEvents(q, n), q # <<>>
    PROVE  StartIn(q) <=> StartIn(Tail(q)) \/ (q[1].kind = "start" /\ q[1].id = retryIndex)
<1>1. PICK t : t = Tail(q)
  OBVIOUS
<1>2. PICK l \in Nat : l = Len(q) /\ l # 0
  BY TailFacts
<1>3. Len(t) = l - 1 /\ \A j \in 1..(l - 1) : t[j] = q[j + 1]
  BY <1>1, <1>2, TailFacts
<1>4. /\ \A j \in 1..l : j = 1 \/ (j - 1 \in 1..(l - 1) /\ (j - 1) + 1 = j)
      /\ \A j \in 1..(l - 1) : j + 1 \in 1..l
      /\ 1 \in 1..l
  BY ONLY l \in Nat, <1>2
<1>5. \A j \in 1..l : j = 1 \/ q[j] = t[j - 1]
  BY ONLY <1>3, <1>4
<1>6. ASSUME StartIn(q) PROVE StartIn(t) \/ (q[1].kind = "start" /\ q[1].id = retryIndex)
  <2>1. PICK j \in 1..l : q[j].kind = "start" /\ q[j].id = retryIndex
    BY ONLY <1>2, <1>6 DEF StartIn
  <2> QED
    BY ONLY <1>3, <1>4, <1>5, <2>1 DEF StartIn
<1>7. ASSUME StartIn(t) PROVE StartIn(q)
  <2>1. PICK j \in 1..(l - 1) : t[j].kind = "start" /\ t[j].id = retryIndex
    BY ONLY <1>3, <1>7 DEF StartIn
  <2> QED
    BY ONLY <1>2, <1>3, <1>4, <2>1 DEF StartIn
<1>8. ASSUME q[1].kind = "start", q[1].id = retryIndex PROVE StartIn(q)
  BY ONLY <1>2, <1>4, <1>8 DEF StartIn
<1> QED
  BY ONLY <1>1, <1>6, <1>7, <1>8

LEMMA DoubtOpens ==
    ASSUME Ready, WorkerOpens
    PROVE  WorkInv' /\ AheadInv'
<1>1. /\ UNCHANGED <<ops, pc, retryIndex, statuses, wop, stdin, eventCh, wal, buf, promised>>
      /\ wpc = "opening"
      /\ \/ wpc' = "dead" /\ stdout' = stdout
         \/ wpc' = "idle" /\ stdout' = Append(stdout, Event("ready", 0))
  BY DEF WorkerOpens, controlVars, readerVars, dbVars, histVars
<1>2. /\ Types /\ Len(ops) \in Nat /\ WorkInv /\ AheadInv /\ AckInv /\ ~Doomed
      /\ IsEvents(stdout, Len(ops))
  BY OpsLen DEF Ready, AckInv, Sound, Types
<1>3. pc = "await" /\ Quiet /\ stdin = <<>>
  <2>1. pc = "await" /\ Quiet
    BY <1>1, <1>2, WorkerAlive
  <2> QED
    BY <1>2, <2>1 DEF AckInv, StageInv
<1>4. buf = <<>>
  BY <1>1, <1>2 DEF WorkInv
<1>5. Replay(wal)' = Replay(wal)
  BY <1>1
<1>6. /\ \A kinds : None(stdout, kinds) /\ "ready" \notin kinds => None(stdout', kinds)
      /\ StartIn(stdout)' <=> StartIn(stdout)
  <2>1. CASE stdout' = stdout
    BY <1>1, <2>1 DEF StartIn
  <2>2. CASE stdout' = Append(stdout, Event("ready", 0))
    <3>1. PICK e \in Events(Len(ops)) : e = Event("ready", 0) /\ e.kind = "ready"
      <4>1. Event("ready", 0) \in Events(Len(ops)) /\ Event("ready", 0).kind = "ready"
        BY <1>2 DEF Event, Events
      <4> QED
        BY ONLY <4>1
    <3>2. StartIn(Append(stdout, e)) <=> StartIn(stdout)
      BY <1>2, <3>1, StartsAppend
    <3>3. \A kinds : None(stdout, kinds) /\ e.kind \notin kinds => None(Append(stdout, e), kinds)
      BY <1>2, <3>1, AppendFacts
    <3>4. StartIn(stdout)' <=> StartIn(stdout')
      BY <1>1 DEF StartIn
    <3> QED
      BY <2>2, <3>1, <3>2, <3>3, <3>4
  <2> QED
    BY <1>1, <2>1, <2>2
<1>7. wpc' \notin Running /\ wpc \notin Running /\ wpc' \notin {"applied", "appended"}
  BY <1>1 DEF Running
<1>8. WorkInv'
  <2>1. UNCHANGED None(eventCh, {"fail"})
    BY <1>1 DEF None
  <2>2. None(stdout', {"fail"})
    BY <1>2, <1>6 DEF WorkInv
  <2>3. stdin' = <<>> /\ buf' = <<>>
    BY <1>1, <1>3, <1>4
  <2> QED
    BY <1>2, <1>7, <2>1, <2>2, <2>3 DEF WorkInv
<1>9. AheadInv'
  <2>1. UNCHANGED None(eventCh, {"ack"}) /\ UNCHANGED StartIn(eventCh)
    BY <1>1 DEF None, StartIn
  <2>2. None(stdout, {"ack"}) => None(stdout', {"ack"})
    BY <1>6
  <2>3. Started' <=> Started
    BY <1>1, <1>6, <2>1 DEF Started
  <2> QED
    BY <1>1, <1>2, <1>5, <1>7, <2>1, <2>2, <2>3 DEF AheadInv
<1> QED
  BY <1>8, <1>9

LEMMA DoubtReceives ==
    ASSUME Ready, WorkerReceives
    PROVE  WorkInv' /\ AheadInv'
<1>1. /\ UNCHANGED <<ops, pc, retryIndex, statuses, eventCh, wal, buf, promised>>
      /\ wpc = "idle" /\ stdin # <<>> /\ wpc' = "executing"
      /\ wop' = Head(stdin) /\ stdin' = Tail(stdin)
      /\ stdout' = Append(stdout, Event("start", Head(stdin)))
  BY DEF WorkerReceives, controlVars, readerVars, dbVars, histVars
<1>2. /\ Types /\ Len(ops) \in Nat /\ WorkInv /\ AheadInv /\ AckInv /\ ~Doomed
      /\ IsEvents(stdout, Len(ops)) /\ stdin \in Seq(1..Len(ops))
  BY OpsLen DEF Ready, AckInv, Sound, Types
<1>3. Len(stdin) = 1
  BY <1>1, <1>2, WorkerAlive
<1>4. stdin' = <<>> /\ Head(stdin) = retryIndex /\ Head(stdin) \in 1..Len(ops)
  <2>1. Head(stdin) = stdin[1] /\ stdin[1] \in 1..Len(ops) /\ Tail(stdin) = <<>>
    BY <1>1, <1>2, <1>3
  <2> QED
    BY <1>1, <1>2, <2>1 DEF WorkInv
<1>5. PICK e \in Events(Len(ops)) : /\ e = Event("start", Head(stdin)) /\ e.kind = "start"
                                    /\ e.id = retryIndex /\ e.id # 0
  <2>1. PICK i \in 1..Len(ops) : i = Head(stdin) /\ i = retryIndex
    BY <1>4
  <2>2. Event("start", i) \in Events(Len(ops)) /\ Event("start", i).kind = "start"
        /\ Event("start", i).id = i
    BY <1>2 DEF Event, Events
  <2> QED
    BY <1>2, <2>1, <2>2
<1>6. StartIn(stdout')
  BY <1>1, <1>2, <1>5, StartsAppend
<1>7. \A kinds : None(stdout, kinds) /\ "start" \notin kinds => None(stdout', kinds)
  BY <1>1, <1>2, <1>5, AppendFacts
<1>8. buf = <<>> /\ Replay(wal)' = Replay(wal)
  BY <1>1, <1>2 DEF WorkInv
<1>9. WorkInv'
  <2>1. None(eventCh, {"fail"})' /\ None(stdout', {"fail"})
    BY <1>1, <1>2, <1>7 DEF WorkInv, None
  <2> QED
    BY <1>1, <1>4, <1>8, <2>1 DEF WorkInv
<1>10. AheadInv'
  <2>1. UNCHANGED None(eventCh, {"ack"})
    BY <1>1 DEF None
  <2>2. None(stdout, {"ack"}) => None(stdout', {"ack"})
    BY <1>7
  <2>3. Started'
    BY <1>1, <1>6 DEF Started, StartIn
  <2> QED
    BY <1>1, <1>2, <1>8, <2>1, <2>2, <2>3 DEF AheadInv
<1> QED
  BY <1>9, <1>10

(* The acknowledgement catches up with the database.                       *)
LEMMA DoubtAcks ==
    ASSUME Ready, WorkerAcks
    PROVE  WorkInv' /\ AheadInv'
<1>1. /\ UNCHANGED <<ops, pc, retryIndex, statuses, wop, stdin, eventCh, wal, buf>>
      /\ wpc = "applied" /\ wpc' = "idle" /\ promised' = ApplyItems(promised, ops[wop])
      /\ stdout' = Append(stdout, Event("ack", wop))
  BY DEF WorkerAcks, controlVars, readerVars, dbVars
<1>2. /\ Types /\ Len(ops) \in Nat /\ WorkInv /\ AheadInv /\ AckInv /\ ~Doomed
      /\ IsEvents(stdout, Len(ops)) /\ wop \in 1..Len(ops)
  <2>1. wpc \in Running
    BY <1>1 DEF Running
  <2> QED
    BY <2>1, OpsLen DEF Ready, AckInv, Sound, Types
<1>3. Replay(wal)' = promised' /\ buf' = <<>>
  BY <1>1, <1>2 DEF AheadInv, WorkInv
<1>4. stdin' = <<>> /\ wpc' \notin Running /\ wpc' \notin {"applied", "appended"}
  <2>1. stdin = <<>>
    BY <1>1, <1>2, WorkerAlive DEF Running
  <2> QED
    BY <1>1, <2>1 DEF Running
<1>5. PICK e \in Events(Len(ops)) : e = Event("ack", wop) /\ e.kind = "ack" /\ e.id # 0
  <2>1. /\ Event("ack", wop) \in Events(Len(ops)) /\ Event("ack", wop).kind = "ack"
        /\ Event("ack", wop).id = wop
    BY <1>2 DEF Event, Events
  <2> QED
    BY <1>2, <2>1
<1>6. None(stdout', {"fail"}) /\ None(eventCh, {"fail"})'
  <2>1. None(stdout, {"fail"}) /\ None(eventCh, {"fail"}) /\ e.kind \notin {"fail"}
    BY <1>2, <1>5 DEF WorkInv
  <2>2. None(stdout', {"fail"})
    BY <1>1, <1>2, <1>5, <2>1, AppendFacts
  <2> QED
    BY <1>1, <2>1, <2>2 DEF None
<1>7. WorkInv'
  BY <1>3, <1>4, <1>6 DEF WorkInv
<1>8. AheadInv'
  BY <1>3, <1>4 DEF AheadInv
<1> QED
  BY <1>7, <1>8

LEMMA DoubtForwards ==
    ASSUME Ready, ReaderForwards
    PROVE  WorkInv' /\ AheadInv'
<1>1. /\ UNCHANGED <<ops, pc, retryIndex, statuses, wpc, wop, stdin, wal, buf, promised>>
      /\ stdout # <<>> /\ eventCh' = Append(eventCh, Head(stdout)) /\ stdout' = Tail(stdout)
  BY DEF ReaderForwards, controlVars, workerVars, dbVars, histVars
<1>2. /\ Types /\ Len(ops) \in Nat /\ WorkInv /\ AheadInv
      /\ IsEvents(stdout, Len(ops)) /\ IsEvents(eventCh, Len(ops))
  BY OpsLen DEF Ready, AckInv, Types
<1>3. PICK e \in Events(Len(ops)) :
        e = Head(stdout) /\ e = stdout[1] /\ (e.kind # "ready" => e.id # 0)
  <2>1. Head(stdout) = stdout[1] /\ stdout[1] \in Events(Len(ops)) /\ 1 \in 1..Len(stdout)
    BY <1>1, <1>2, TailFacts
  <2> QED
    BY <1>2, <2>1 DEF IsEvents
<1>4. \A kinds : None(stdout, kinds) /\ None(eventCh, kinds) =>
        None(stdout', kinds) /\ None(eventCh', kinds)
  <2> SUFFICES ASSUME NEW kinds, None(stdout, kinds), None(eventCh, kinds)
               PROVE  None(stdout', kinds) /\ None(eventCh', kinds)
      OBVIOUS
  <2>1. None(stdout', kinds)
    BY <1>1, <1>2, TailFacts
  <2>2. e.kind \notin kinds
    <3>1. 1 \in 1..Len(stdout)
      BY <1>1, <1>2, TailFacts
    <3> QED
      BY <1>3, <3>1 DEF None
  <2> QED
    BY <1>1, <1>2, <1>3, <2>1, <2>2, AppendFacts
<1>5. (StartIn(eventCh') \/ StartIn(stdout')) <=> (StartIn(eventCh) \/ StartIn(stdout))
  <2>1. StartIn(eventCh') <=> StartIn(eventCh) \/ (e.kind = "start" /\ e.id = retryIndex)
    BY <1>1, <1>2, <1>3, StartsAppend
  <2>2. StartIn(stdout) <=> StartIn(stdout') \/ (e.kind = "start" /\ e.id = retryIndex)
    BY <1>1, <1>2, <1>3, StartsTail
  <2> QED
    BY <2>1, <2>2
<1>6. Started' <=> Started
  <2>1. (StartIn(eventCh)' <=> StartIn(eventCh')) /\ (StartIn(stdout)' <=> StartIn(stdout'))
    BY <1>1 DEF StartIn
  <2> QED
    BY <1>1, <1>5, <2>1 DEF Started
<1>7. stdin = <<>>
  BY <1>1, <1>2 DEF WorkInv, Quiet
<1>8. WorkInv'
  <2>1. None(stdout', {"fail"}) /\ None(eventCh', {"fail"})
    BY <1>2, <1>4 DEF WorkInv
  <2> QED
    BY <1>1, <1>2, <1>7, <2>1 DEF WorkInv
<1>9. AheadInv'
  <2>1. Replay(wal)' = Replay(wal)
    BY <1>1
  <2> QED
    BY <1>1, <1>2, <1>4, <1>6, <2>1 DEF AheadInv
<1> QED
  BY <1>8, <1>9

(* A new worker finds the queues empty: what had started is on record.     *)
LEMMA DoubtStart ==
    ASSUME Ready, StartWorker
    PROVE  WorkInv' /\ AheadInv'
<1>1. /\ UNCHANGED <<ops, retryIndex, statuses, wal, buf, promised>>
      /\ pc = "cycle" /\ wpc' = "opening" /\ stdin' = <<>> /\ stdout' = <<>> /\ eventCh' = <<>>
  BY DEF StartWorker, controlVars, dbVars, histVars
<1>2. WorkInv /\ AheadInv /\ wpc = "dead" /\ Quiet
  BY <1>1 DEF Ready, AckInv, Sound, StageInv
<1>3. buf' = <<>> /\ wpc' \notin Running /\ wpc \notin Running
  BY <1>1, <1>2 DEF WorkInv, Running
<1>4. \A kinds : None(stdout', kinds) /\ None(eventCh', kinds)
  BY <1>1, NoEvents
<1>5. WorkInv'
  BY <1>1, <1>3, <1>4 DEF WorkInv
<1>6. AheadInv'
  <2>1. Replay(wal)' = Replay(wal)
    BY <1>1
  <2>2. Started' <=> Started
    BY <1>1, <1>2 DEF Started, StartIn, Quiet
  <2> QED
    BY <1>1, <1>2, <1>3, <1>4, <2>1, <2>2 DEF AheadInv
<1> QED
  BY <1>5, <1>6

LEMMA DoubtReady ==
    ASSUME Ready, WorkerReady
    PROVE  WorkInv' /\ AheadInv'
<1>1. /\ UNCHANGED <<ops, retryIndex, statuses, wpc, wop, stdin, stdout, wal, buf, promised>>
      /\ pc = "await" /\ eventCh # <<>> /\ eventCh' = Tail(eventCh)
  BY DEF WorkerReady, controlVars, workerVars, pipeVars, dbVars, histVars
<1>2. /\ WorkInv /\ AheadInv /\ Types /\ Len(ops) \in Nat /\ IsEvents(eventCh, Len(ops))
      /\ stdin = <<>> /\ None(eventCh, {"start", "ack", "fail"})
  BY <1>1, OpsLen DEF Ready, AckInv, Sound, StageInv, Types
<1>3. \A kinds : None(eventCh, kinds) => None(eventCh', kinds)
  BY <1>1, <1>2, TailFacts
<1>4. StartIn(eventCh') <=> StartIn(eventCh)
  <2>1. ~StartIn(eventCh)
    BY <1>2 DEF None, StartIn
  <2> QED
    BY <1>1, <1>2, <2>1, StartsTail
<1>5. Started' <=> Started
  <2>1. (StartIn(eventCh)' <=> StartIn(eventCh')) /\ (StartIn(stdout)' <=> StartIn(stdout))
    BY <1>1 DEF StartIn
  <2> QED
    BY <1>1, <1>4, <2>1 DEF Started
<1>6. \A kinds : None(stdout, kinds)' <=> None(stdout, kinds)
  BY <1>1 DEF None
<1>7. WorkInv'
  BY <1>1, <1>2, <1>3, <1>6 DEF WorkInv
<1>8. AheadInv'
  <2>1. Replay(wal)' = Replay(wal)
    BY <1>1
  <2> QED
    BY <1>1, <1>2, <1>3, <1>5, <1>6, <2>1 DEF AheadInv
<1> QED
  BY <1>7, <1>8

(* A new operation is sent only when no other is in doubt.                 *)
LEMMA DoubtSend ==
    ASSUME Ready, SendOperation
    PROVE  WorkInv' /\ AheadInv'
<1>1. /\ UNCHANGED <<ops, statuses, wpc, wop, stdout, eventCh, wal, buf, promised>>
      /\ pc = "send"
      /\ \/ stdin' = Append(stdin, NextOperation) /\ retryIndex' = NextOperation
         \/ UNCHANGED <<stdin, retryIndex>>
  BY DEF SendOperation, workerVars, readerVars, dbVars, histVars
<1>2. /\ WorkInv /\ AheadInv /\ Types /\ stdin = <<>> /\ wpc \in {"idle", "dead"} /\ Quiet
  BY <1>1 DEF Ready, AckInv, Sound, StageInv
<1>3. CASE UNCHANGED <<stdin, retryIndex>>
  BY <1>1, <1>2, <1>3, DoubtSame
<1>4. CASE stdin' = Append(stdin, NextOperation) /\ retryIndex' = NextOperation
  <2>1. stdin' = <<retryIndex'>>
    BY <1>2, <1>4
  <2>2. stdin'[1] = retryIndex'
    BY <2>1
  <2>3. Quiet' /\ wpc' \notin Running /\ buf' = <<>> /\ wpc' \notin {"applied", "appended"}
    BY <1>1, <1>2 DEF Quiet, Running, WorkInv
  <2>4. \A kinds : None(stdout', kinds) /\ None(eventCh', kinds)
    BY <2>3, NoEvents DEF Quiet
  <2>5. WorkInv'
    BY <2>2, <2>3, <2>4 DEF WorkInv
  <2>6. Replay(wal)' = Replay(wal)
    BY <1>1
  <2>7. CASE Replay(wal) = promised
    BY <1>1, <2>3, <2>5, <2>6, <2>7 DEF AheadInv
  <2>8. CASE Replay(wal) # promised
    <3>1. retryIndex # 0 /\ retryIndex' = retryIndex
      BY <1>2, <1>4, <2>8 DEF AheadInv, NextOperation
    <3>2. Started' <=> Started
      BY <1>1, <3>1 DEF Started, StartIn
    <3> QED
      BY <1>1, <1>2, <2>3, <2>4, <2>5, <2>6, <3>1, <3>2 DEF AheadInv
  <2> QED
    BY <2>5, <2>7, <2>8
<1> QED
  BY <1>1, <1>3, <1>4

(* Of the pipe that Wait closes nothing is missing unless the run fails.   *)
LEMMA DoubtWait ==
    ASSUME Ready, WaitWorker, Sound'
    PROVE  WorkInv' /\ AheadInv'
<1>1. /\ UNCHANGED <<ops, retryIndex, statuses, wpc, wop, stdin, eventCh, readerErr, wal, buf,
                     promised>>
      /\ stdoutOpen' = FALSE
  BY DEF WaitWorker, controlVars, workerVars, readerVars, dbVars, histVars
<1>2. PICK k \in 0..Len(stdout) : stdout' = SubSeq(stdout, 1, k)
  BY DEF WaitWorker
<1>3. readerErr = "nil"
  BY <1>1 DEF Sound, Doomed
<1>4. stdout = <<>>
  BY <1>3 DEF Ready, AckInv, PipeInv
<1>5. k = 0
  BY <1>4
<1>6. SubSeq(<<>>, 1, 0) = <<>>
  OBVIOUS
<1>7. stdout' = stdout
  BY ONLY <1>2, <1>4, <1>5, <1>6
<1> QED
  BY <1>1, <1>7, DoubtSame DEF Ready

(* The events.                                                             *)
LEMMA DoubtEvent ==
    ASSUME Ready, TerminalEvent \/ DrainEvent
    PROVE  WorkInv' /\ AheadInv'
<1>1. /\ UNCHANGED <<ops, wpc, wop, stdin, stdout, wal, buf, promised>>
      /\ pc \in {"terminal", "drain"} /\ eventCh # <<>> /\ eventCh' = Tail(eventCh)
  BY DEF TerminalEvent, DrainEvent, workerVars, pipeVars, dbVars, histVars
<1>2. PICK e : e = Head(eventCh) /\ Recorded(e)
  BY DEF TerminalEvent, DrainEvent
<1>3. /\ WorkInv /\ AheadInv /\ AckInv /\ ~Doomed /\ Types /\ Len(ops) \in Nat
      /\ IsEvents(eventCh, Len(ops)) /\ StageInv
      /\ statuses \in [DOMAIN ops -> {"planned", "started", "acked", "failed"}]
  BY OpsLen DEF Ready, AckInv, Sound, Types, BoundInv
<1>4. /\ e = eventCh[1] /\ e \in Events(Len(ops)) /\ 1 \in 1..Len(eventCh)
      /\ e.kind \notin {"ready", "fail"}
  <2>1. e = eventCh[1] /\ e \in Events(Len(ops)) /\ 1 \in 1..Len(eventCh)
    BY <1>1, <1>2, <1>3, TailFacts
  <2>2. None(eventCh, {"ready"}) /\ None(eventCh, {"fail"})
    BY <1>1, <1>3 DEF StageInv, WorkInv
  <2> QED
    BY <2>1, <2>2 DEF None
<1>5. e.kind \in {"start", "ack"} /\ e.id \in 1..Len(ops)
  <2>1. e.kind \in {"ready", "start", "ack", "fail"} /\ e.id \in 0..Len(ops)
    BY <1>4 DEF Events
  <2>2. e.id # 0
    BY <1>3, <1>4 DEF IsEvents
  <2> QED
    BY <1>3, <1>4, <2>1, <2>2
<1>6. \A kinds : (None(eventCh, kinds) => None(eventCh', kinds)) /\ (None(stdout, kinds)' <=> None(stdout, kinds))
  <2>1. \A kinds : None(eventCh, kinds) => None(eventCh', kinds)
    BY <1>1, <1>3, TailFacts
  <2> QED
    BY <1>1, <2>1 DEF None
<1>7. stdin = <<>> /\ Replay(wal)' = Replay(wal)
  BY <1>1, <1>3 DEF WorkInv, Quiet
<1>8. CASE e.kind = "start"
  <2>1. retryIndex' = retryIndex /\ statuses' = [statuses EXCEPT ![e.id] = "started"]
    BY <1>2, <1>8 DEF Recorded
  <2>2. WorkInv'
    BY <1>1, <1>3, <1>6, <1>7, <2>1 DEF WorkInv
  <2>3. Started => Started'
    <3>1. (StartIn(eventCh)' <=> StartIn(eventCh')) /\ (StartIn(stdout)' <=> StartIn(stdout))
      BY <1>1, <2>1 DEF StartIn
    <3>2. StartIn(eventCh) => StartIn(eventCh') \/ e.id = retryIndex
      BY <1>1, <1>3, <1>4, StartsTail
    <3>3. e.id \in DOMAIN ops
      BY <1>3, <1>5 DEF Types
    <3>4. statuses'[e.id] = "started"
      BY <1>3, <2>1, <3>3
    <3>5. statuses[retryIndex] = "started" => statuses'[retryIndex] = "started"
      BY <1>3, <2>1, <3>3
    <3> QED
      BY <2>1, <3>1, <3>2, <3>4, <3>5 DEF Started
  <2>4. AheadInv'
    BY <1>1, <1>3, <1>6, <1>7, <2>1, <2>3 DEF AheadInv
  <2> QED
    BY <2>2, <2>4
<1>9. CASE e.kind = "ack"
  <2>1. Replay(wal) = promised
    <3>1. ~None(eventCh, {"ack"})
      BY <1>4, <1>9 DEF None
    <3> QED
      BY <1>3, <3>1 DEF AheadInv
  <2>2. wpc \notin Running
    <3>1. ~None(eventCh, Terminal)
      BY <1>4, <1>9 DEF None, Terminal
    <3> QED
      BY <1>3, <3>1, WorkerAlive DEF Running
  <2>3. WorkInv'
    BY <1>1, <1>3, <1>6, <1>7, <2>2 DEF WorkInv
  <2>4. AheadInv'
    BY <1>1, <1>7, <2>1, <2>2 DEF AheadInv, Running
  <2> QED
    BY <2>3, <2>4
<1> QED
  BY <1>5, <1>8, <1>9

LEMMA DoubtInit == Init => DoubtInv
<1> SUFFICES ASSUME Init PROVE WorkInv /\ AheadInv
    BY DEF DoubtInv
<1>1. /\ wpc = "dead" /\ stdin = <<>> /\ stdout = <<>> /\ eventCh = <<>> /\ wal = <<>>
      /\ buf = <<>> /\ promised = Empty
  BY DEF Init
<1>2. Replay(<<>>) = Empty
  <2>1. <<>> \in Seq(Records) /\ Len(<<>>) = 0
    OBVIOUS
  <2>2. PICK h : Iterates(h, 0, States, Empty, ReplayStep(<<>>)) /\ Replay(<<>>) = h[0]
    BY ONLY <2>1, ReplayInOrder
  <2> QED
    BY ONLY <2>2 DEF Iterates
<1>3. \A kinds : None(<<>>, kinds)
  BY NoEvents
<1>4. WorkInv
  BY <1>1, <1>3 DEF WorkInv, Running
<1>5. AheadInv
  BY <1>1, <1>2, <1>3 DEF AheadInv, Running
<1> QED
  BY <1>4, <1>5

LEMMA DoubtStep == AckInv /\ BoundInv /\ LogsInv /\ DoubtInv /\ [Next]_vars => DoubtInv'
<1> SUFFICES ASSUME AckInv, BoundInv, LogsInv, DoubtInv, [Next]_vars, Sound'
             PROVE  WorkInv' /\ AheadInv'
    BY DEF DoubtInv
<1>1. Ready
  BY DoomStays DEF Ready, DoubtInv
<1>2. CASE Worker \/ WorkerDies
  <2>1. ~WorkerReportsFailure
    BY DEF WorkerReportsFailure, Sound
  <2> QED
    BY <1>1, <1>2, <2>1, DoubtOpens, DoubtReceives, DoubtAcks, DoubtWorks DEF Worker
<1>3. CASE Reader
  BY <1>1, <1>3, DoubtForwards, DoubtPlain DEF Reader
<1>4. CASE Controller
  BY <1>1, <1>4, DoubtPlain, DoubtStart, DoubtReady, DoubtSend, DoubtEvent, DoubtWait DEF Controller
<1>5. CASE ReadyTimeout \/ TimerKill
  BY <1>1, <1>5, DoubtWorks
<1>6. CASE UNCHANGED vars
  BY <1>1, <1>6, DoubtPlain
<1> QED
  BY <1>2, <1>3, <1>4, <1>5, <1>6 DEF Next

LEMMA DoubtInvariant == Init /\ [][Next]_vars => [](AckInv /\ BoundInv /\ LogsInv /\ DoubtInv)
<1>1. Init /\ [][Next]_vars => []AckInv
  BY AckInvInit, AckInvStep, PTL
<1>2. Init /\ [][Next]_vars => []BoundInv
  BY <1>1, BoundInit, BoundStep, PTL
<1>3. Init /\ [][Next]_vars => []LogsInv
  BY <1>1, LogsInit, LogsStep, PTL
<1> QED
  BY <1>1, <1>2, <1>3, DoubtInit, DoubtStep, PTL

(* Before a verification nothing is under way, and the oracle is what was  *)
(* promised.                                                               *)
LEMMA AtVerification ==
    ASSUME AckInv, DoubtInv, pc \in {"verify", "cycle"}, failedOps = {}
    PROVE  /\ oracle.state = promised
           /\ Recovered # promised =>
                /\ retryIndex # 0 /\ Recovered = ApplyItems(promised, ops[retryIndex])
                /\ statuses[retryIndex] = "started"
<1>1. ~Doomed /\ StageInv /\ OracleInv
  BY DEF AckInv, PipeInv, Doomed
<1>2. eventCh = <<>> /\ stdout = <<>>
  BY <1>1 DEF StageInv, Quiet
<1>3. oracle.state = promised
  BY <1>1, <1>2, NoEvents DEF OracleInv
<1>4. Recovered = Replay(wal)
  BY DEF Recovered, Replay
<1>5. AheadInv
  BY <1>1 DEF DoubtInv, Sound
<1>6. ~StartIn(eventCh) /\ ~StartIn(stdout)
  BY <1>2, NoEvents DEF StartIn
<1> QED
  BY <1>3, <1>4, <1>5, <1>6 DEF AheadInv, Started

(* Whenever the controller verifies, a reopened database is what the       *)
(* acknowledged operations make of it, or that and the one operation that  *)
(* would be sent again, wherever workers were killed and however often     *)
(* the operation had been sent before.                                     *)
THEOREM DoubtBounded == Spec => []OneInDoubt
<1>1. AckInv /\ DoubtInv => OneInDoubt
  <2> SUFFICES ASSUME AckInv, DoubtInv, Verifying, failedOps = {}
               PROVE  Recovered \in {promised}
                        \cup {ApplyItems(promised, ops[i]) : i \in {retryIndex} \ {0}}
      BY DEF OneInDoubt
  <2>1. pc \in {"verify", "cycle"}
    BY DEF Verifying
  <2>2. Recovered # promised => retryIndex # 0 /\ Recovered = ApplyItems(promised, ops[retryIndex])
    BY <2>1, AtVerification
  <2> QED
    BY <2>2
<1> QED
  BY <1>1, DoubtInvariant, PTL DEF Spec

(* A verification that compares with the oracle key by key accepts it.     *)
LEMMA VerificationAccepts ==
    ASSUME AckInv, BoundInv, LogsInv, DoubtInv, pc \in {"verify", "cycle"}, failedOps = {},
           NEW next, next # "alarm"
    PROVE  VerifyDatabaseState(next) # "alarm"
<1>1. /\ oracle.state = promised
      /\ Recovered # promised =>
           /\ retryIndex # 0 /\ Recovered = ApplyItems(promised, ops[retryIndex])
           /\ statuses[retryIndex] = "started"
  BY AtVerification
<1>2. ASSUME NEW k PROVE Recovered[k] \in Allowed(k)
  <2>1. CASE Recovered = promised
    BY <1>1, <2>1 DEF Allowed
  <2>2. CASE Recovered # promised
    <3>1. retryIndex \in Pending
      BY <1>1, <2>2 DEF Pending
    <3>2. OracleApply(oracle, ops[retryIndex]).state = Recovered
      BY <1>1, <2>2 DEF OracleApply
    <3> QED
      BY <3>1, <3>2 DEF Allowed
  <2> QED
    BY <2>1, <2>2
<1> QED
  BY <1>2 DEF VerifyDatabaseState

AlarmInv == pc = "alarm" => failedOps # {}

LEMMA AlarmStep ==
    AckInv /\ BoundInv /\ LogsInv /\ DoubtInv /\ AlarmInv /\ [Next]_vars => AlarmInv'
<1> SUFFICES ASSUME AckInv, BoundInv, LogsInv, DoubtInv, AlarmInv, [Next]_vars, pc' = "alarm"
             PROVE  failedOps' # {}
    BY DEF AlarmInv
<1>1. failedOps \subseteq failedOps'
  BY DEF Next, Worker, WorkerDies, WorkerOpens, WorkerReceives, WorkerAppends, WorkerSyncs,
     WorkerSyncFails, WorkerAcks, WorkerReportsFailure, WorkerExits, Reader, ReaderForwards,
     ReaderEnds, ReadyTimeout, TimerKill, Controller, StartWorker, WorkerReady, WorkerNotReady,
     SendOperation, NothingToSend, TerminalEvent, ChannelClosed, CloseStdin, WaitWorker,
     JoinReader, DrainEvent, CycleEnds, VerifyCycle, VerifyFinalState, histVars, vars
<1>2. CASE pc = "alarm"
  BY <1>1, <1>2 DEF AlarmInv
<1>3. CASE VerifyCycle \/ VerifyFinalState
  <2>1. pc \in {"verify", "cycle"}
    BY <1>3 DEF VerifyCycle, VerifyFinalState
  <2>2. VerifyDatabaseState("cycle") = "alarm" \/ VerifyDatabaseState("done") = "alarm"
    BY <1>3 DEF VerifyCycle, VerifyFinalState
  <2>3. failedOps # {}
    BY <2>1, <2>2, VerificationAccepts
  <2> QED
    BY <1>1, <2>3
<1>4. CASE pc # "alarm" /\ ~(VerifyCycle \/ VerifyFinalState)
  <2>1. ~DrainEvent
    BY DEF DrainEvent
  <2>2. ~TerminalEvent
    <3> SUFFICES ASSUME TerminalEvent PROVE FALSE
        OBVIOUS
    <3>1. PICK e : /\ e = Head(eventCh) /\ eventCh # <<>> /\ pc = "terminal"
                   /\ pc' = CASE e.kind = "start" -> "terminal"
                              [] e.kind = "ack"   -> "send"
                              [] e.kind = "fail"  -> IF FailureExpected THEN "send" ELSE "failed"
      BY DEF TerminalEvent
    <3>2. /\ Types /\ Len(ops) \in Nat /\ IsEvents(eventCh, Len(ops))
          /\ None(eventCh, {"ready"})
      <4>1. Types /\ ~Doomed
        BY <3>1 DEF AckInv, PipeInv, Doomed
      <4> QED
        BY <3>1, <4>1, OpsLen DEF AckInv, StageInv, Types
    <3>3. e \in Events(Len(ops)) /\ e = eventCh[1] /\ 1 \in 1..Len(eventCh)
      BY <3>1, <3>2, TailFacts
    <3>4. e.kind \in {"start", "ack", "fail"}
      BY <3>2, <3>3 DEF None, Events
    <3> QED
      BY <3>1, <3>4
  <2> QED
    BY <1>4, <2>1, <2>2 DEF Next, Worker, WorkerDies,
       WorkerOpens, WorkerReceives, WorkerAppends,
       WorkerSyncs, WorkerSyncFails, WorkerAcks, WorkerReportsFailure, WorkerExits, Reader,
       ReaderForwards, ReaderEnds, ReadyTimeout, TimerKill, Controller, StartWorker, WorkerReady,
       WorkerNotReady, SendOperation, NothingToSend, ChannelClosed, CloseStdin, WaitWorker,
       JoinReader, CycleEnds, vars
<1> QED
  BY <1>2, <1>3, <1>4

(* Verification never blames an engine that lost nothing: as long as no    *)
(* operation has failed, the database that is found is one the oracle      *)
(* allows, whatever was killed, lost with a pipe or sent again.            *)
THEOREM NoFalseAlarms == Spec => []NoFalseAlarm
<1>1. Init => AlarmInv
  BY DEF Init, AlarmInv
<1>2. Init /\ [][Next]_vars => []AlarmInv
  BY <1>1, DoubtInvariant, AlarmStep, PTL
<1>3. AlarmInv => NoFalseAlarm
  BY DEF AlarmInv, NoFalseAlarm
<1> QED
  BY <1>2, <1>3, PTL DEF Spec

=============================================================================
