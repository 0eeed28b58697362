---------------------------- MODULE EngineProofs ----------------------------
(***************************************************************************)
(* Theorems about Engine, for any keys, any batches, any flush size, any   *)
(* bounds on batches and files and every choice of faults, process crashes *)
(* and power losses included: first durability and order, then what reads  *)
(* see, then the refinement of KVStore.                                    *)
(***************************************************************************)
EXTENDS Engine, NaturalFacts, SequenceTheorems, TLAPS

(* What each phase of the DB's life, and each step of a Write or a flush,  *)
(* says of the volatile state.                                             *)
PhaseInv ==
    /\ phase = "down" => mem = {} /\ ssts = <<>> /\ replayed = 0
    /\ phase # "open" =>
         /\ immMem = <<>> /\ writing = "none" /\ flushing = "none"
         /\ stalled = {} /\ ~flushErr /\ ~walErr
    /\ phase = "open" => replayed = 0
    /\ flushing # "none" => ~flushErr /\ immMem # <<>>
    /\ writing # "none" => ~walErr /\ flushing # "edited"
    /\ writing = "synced" => SyncOnWrite

(* The WAL: only its last record can be torn, and none that has left the   *)
(* buffer; once the process is gone, or its writer broken, all that is     *)
(* left has left the buffer.  Records are batches in the order of Write.   *)
WalInv ==
    /\ Wellformed(wal, Torn)
    /\ \A i \in 1..walFlushed : wal[i] # Torn
    /\ \A i \in 1..replayed : wal[i] # Torn
    /\ phase = "open" /\ ~walErr => \A i \in 1..Len(wal) : wal[i] # Torn
    /\ phase # "open" \/ walErr =>
         \A i \in 1..Len(wal) : i > walFlushed => wal[i] = Torn
    /\ \A i \in 1..Len(wal) : wal[i] # Torn => wal[i] \in 1..Len(batches)
    /\ \A i, j \in 1..Len(wal) : i < j /\ wal[j] # Torn => wal[i] < wal[j]
    /\ writing # "none" => wal # <<>> /\ wal[Len(wal)] = Len(batches)
    /\ writing = "synced" => walSynced = Len(wal)

(* The manifest: its i-th edit adds file i - 1, and sequence numbers grow. *)
(* nextSSTID is the id of the next edit, except while an edit that is in   *)
(* the file is not installed, or will never be because of a failure.       *)
ManifestInv ==
    /\ manSynced >= 1
    /\ Wellformed(manifest, TornEdit) /\ manifest[1] # TornEdit
    /\ \A i \in 1..Len(manifest) : manifest[i] # TornEdit =>
         manifest[i].file = i - 1 /\ manifest[i].next = i
    /\ \A i, j \in 1..Len(manifest) : i < j /\ manifest[j] # TornEdit =>
         manifest[i].last <= manifest[j].last
    /\ phase # "down" =>
         /\ \A i \in 1..Len(manifest) : manifest[i].last <= seqno
         /\ nextSSTID \in 1..Len(manifest)
         /\ \A i \in 1..nextSSTID : manifest[i] # TornEdit
         /\ ~flushErr =>
              /\ manifest[Len(manifest)] # TornEdit
              /\ nextSSTID = IF flushing = "edited" THEN Len(manifest) - 1
                                                    ELSE Len(manifest)

(* The SSTables that the manifest names are complete, below the sequence   *)
(* number of their edit, and above every older one.                        *)
NamedInv ==
    /\ \A i \in 2..Len(manifest) : manifest[i] # TornEdit =>
         /\ i - 1 \in FileIDs /\ files[i - 1].state = "complete"
         /\ \A e \in files[i - 1].data : e.seq <= manifest[i].last
    /\ \A i, j \in 2..Len(manifest) : i < j /\ manifest[j] # TornEdit =>
         \A e \in files[i - 1].data, f \in files[j - 1].data : e.seq < f.seq

(* The SSTable of a flush, and the open ones: the first that are named.    *)
TablesInv ==
    /\ NamedInv
    /\ flushing # "none" => nextSSTID \in FileIDs
    /\ flushing \in {"written", "edited"} =>
         files[nextSSTID] = [state |-> "complete", data |-> Imm]
    /\ phase # "down" =>
         /\ Len(ssts) = nextSSTID - 1
         /\ \A i \in 1..Len(ssts) : ssts[i] = files[i].data

(* LayerOrder, layer by layer.                                             *)
LayersInv ==
    /\ \A e \in mem \cup Imm : e.seq <= seqno
    /\ \A i \in 1..Len(ssts) : \A e \in ssts[i] : e.seq <= seqno
    /\ \A e \in mem, f \in Imm : f.seq < e.seq
    /\ \A e \in mem \cup Imm : \A i \in 1..Len(ssts) : \A f \in ssts[i] : f.seq < e.seq
    /\ \A i, j \in 1..Len(ssts) : i < j =>
         \A e \in ssts[i], f \in ssts[j] : e.seq < f.seq

(* With SyncOnWrite an acknowledged batch is in the durable part of the    *)
(* WAL, and so is one whose Write waits.                                   *)
DurableInv ==
    /\ writing # "none" => Len(batches) \notin acked \cup stalled
    /\ SyncOnWrite =>
         \A id \in acked \cup stalled : \E j \in 1..walSynced : wal[j] = id

(* What the durability of the disk and the order of the layers rest on.    *)
Core ==
    Types /\ PhaseInv /\ WalInv /\ ManifestInv /\ TablesInv /\ LayersInv

-----------------------------------------------------------------------------
(* Facts about logs. *)

(* Survivors are a prefix with the safe part in it, and perhaps a torn     *)
(* record behind it.                                                       *)
LEMMA SurvivorsFacts ==
    ASSUME NEW S, NEW log \in Seq(S), NEW torn \in S, NEW lo \in 0..Len(log),
           NEW s \in Survivors(log, lo, torn)
    PROVE  /\ s \in Seq(S)
           /\ \E n \in lo..Len(log) :
                /\ \A i \in 1..n : s[i] = log[i]
                /\ \/ Len(s) = n
                   \/ n < Len(log) /\ Len(s) = n + 1 /\ s[n + 1] = torn
<1>1. ASSUME NEW n \in lo..Len(log)
      PROVE  /\ SubSeq(log, 1, n) \in Seq(S) /\ Len(SubSeq(log, 1, n)) = n
             /\ \A i \in 1..n : SubSeq(log, 1, n)[i] = log[i]
  <2>1. n \in Nat /\ n <= Len(log)
    OBVIOUS
  <2>2. \A i \in 1..n : log[i] \in S
    BY <2>1
  <2> QED
    BY <2>1, <2>2, SubSeqProperties
<1>2. CASE \E n \in lo..Len(log) : s = SubSeq(log, 1, n)
  BY <1>1, <1>2
<1>3. CASE \E n \in lo..(Len(log) - 1) : s = Append(SubSeq(log, 1, n), torn)
  <2>1. PICK n \in lo..(Len(log) - 1) : s = Append(SubSeq(log, 1, n), torn)
    BY <1>3
  <2>2. n \in lo..Len(log) /\ n < Len(log)
    BY <2>1
  <2>3. /\ SubSeq(log, 1, n) \in Seq(S) /\ Len(SubSeq(log, 1, n)) = n
        /\ \A i \in 1..n : SubSeq(log, 1, n)[i] = log[i]
    BY <1>1, <2>2
  <2>4. s \in Seq(S) /\ Len(s) = n + 1 /\ s[n + 1] = torn
    BY <2>1, <2>3, AppendProperties
  <2>5. \A i \in 1..n : s[i] = log[i]
    BY <2>1, <2>3, AppendProperties
  <2> QED
    BY <2>2, <2>4, <2>5
<1> QED
  BY <1>2, <1>3 DEF Survivors

(* Trimmed takes a torn record from the end.                               *)
LEMMA TrimmedFacts ==
    ASSUME NEW S, NEW log \in Seq(S), NEW torn
    PROVE  /\ Trimmed(log, torn) \in Seq(S)
           /\ \A i \in 1..Len(Trimmed(log, torn)) : Trimmed(log, torn)[i] = log[i]
           /\ IF log # <<>> /\ log[Len(log)] = torn
              THEN Len(Trimmed(log, torn)) = Len(log) - 1
              ELSE Trimmed(log, torn) = log
<1>1. CASE log # <<>> /\ log[Len(log)] = torn
  <2>1. PICK k \in Nat : Len(log) = k + 1
    BY <1>1, EmptySeq
  <2>2. Trimmed(log, torn) = SubSeq(log, 1, k)
    BY <1>1, <2>1 DEF Trimmed, EndsTorn
  <2>3. \A i \in 1..k : log[i] \in S
    BY <2>1
  <2>4. /\ SubSeq(log, 1, k) \in Seq(S) /\ Len(SubSeq(log, 1, k)) = k
        /\ \A i \in 1..k : SubSeq(log, 1, k)[i] = log[i]
    BY <2>3, SubSeqProperties
  <2> QED
    BY <1>1, <2>1, <2>2, <2>4
<1>2. CASE ~(log # <<>> /\ log[Len(log)] = torn)
  BY <1>2 DEF Trimmed, EndsTorn
<1> QED
  BY <1>1, <1>2

-----------------------------------------------------------------------------
(* Types. *)

LEMMA BatchType ==
    ASSUME Types, NEW id \in 1..Len(batches)
    PROVE  /\ batches[id] \in Seq(Operations) /\ batches[id] # <<>>
           /\ Len(batches[id]) \in Nat /\ Len(batches[id]) > 0
           /\ \A i \in 1..Len(batches[id]) : batches[id][i].key \in Keys
<1>1. batches[id] \in Batches
  BY DEF Types
<1>2. batches[id] \in Seq(Operations) /\ batches[id] # <<>>
  BY <1>1, EngineConstants
<1>3. Len(batches[id]) \in Nat \ {0}
  BY <1>2, EmptySeq
<1>4. \A i \in 1..Len(batches[id]) : batches[id][i] \in Operations
  BY <1>2, ElementOfSeq
<1> QED
  BY <1>2, <1>3, <1>4 DEF Operations

(* A Write in progress has its batch.                                      *)
LEMMA LastBatch ==
    ASSUME Types, PhaseInv, WalInv, writing # "none"
    PROVE  Len(batches) \in 1..Len(batches)
<1>1. wal \in Seq(Nat) /\ Len(batches) \in Nat
  BY DEF Types
<1>2. Len(wal) \in 1..Len(wal) /\ wal[Len(wal)] = Len(batches)
  BY <1>1, EmptySeq DEF WalInv
<1>3. Len(batches) # 0
  <2> SUFFICES ASSUME Len(batches) = 0 PROVE FALSE
      OBVIOUS
  <2>1. wal[Len(wal)] = Torn
    BY <1>2 DEF Torn
  <2>2. phase = "open" /\ ~walErr => FALSE
    BY <1>2, <2>1 DEF WalInv
  <2> QED
    BY <2>2 DEF PhaseInv
<1> QED
  BY <1>1, <1>3

(* And so has a record that Open replays.                                  *)
LEMMA ReplayedBatch ==
    ASSUME Types, WalInv, replayed < Len(wal), wal[replayed + 1] # Torn
    PROVE  replayed + 1 \in 1..Len(wal) /\ wal[replayed + 1] \in 1..Len(batches)
<1>1. replayed + 1 \in 1..Len(wal)
  BY DEF Types
<1> QED
  BY <1>1 DEF WalInv

LEMMA EditType ==
    ASSUME NEW man \in Seq(Edits), NEW i \in 1..Len(man)
    PROVE  /\ man[i] \in Edits
           /\ man[i].file \in Nat /\ man[i].next \in Nat /\ man[i].last \in Nat
<1>1. man[i] \in Edits
  BY ElementOfSeq
<1> QED
  BY <1>1 DEF Edits

LEMMA EntriesOfType ==
    ASSUME Types, NEW id \in 1..Len(batches)
    PROVE  EntriesOf(batches[id], id) \in SUBSET Entries
<1>1. \A i \in 1..Len(batches[id]) : batches[id][i].key \in Keys
  BY BatchType
<1>2. Len(batches[id]) \in Nat /\ seqno \in Nat /\ id \in Nat
  BY BatchType DEF Types
<1> QED
  BY <1>1, <1>2 DEF EntriesOf, Entries

LEMMA ImmType ==
    ASSUME Types
    PROVE  /\ Imm \in SUBSET Entries
           /\ [state |-> "complete", data |-> Imm] \in FileState
           /\ Absent \in FileState /\ Partial \in FileState
<1>1. Imm \in SUBSET Entries
  <2>1. CASE immMem = <<>>
    BY <2>1 DEF Imm
  <2>2. CASE immMem # <<>>
    <3>1. Len(immMem) \in Nat \ {0}
      BY <2>2, EmptySeq DEF Types
    <3>2. immMem[1] \in SUBSET Entries
      BY <3>1 DEF Types
    <3> QED
      BY <2>2, <3>2 DEF Imm
  <2> QED
    BY <2>1, <2>2
<1> QED
  BY <1>1 DEF FileState, Absent, Partial

LEMMA UnfinishedType ==
    ASSUME Types, nextSSTID \in FileIDs, NEW left \in Unfinished
    PROVE  [files EXCEPT ![nextSSTID] = left] \in [FileIDs -> FileState]
<1>1. left \in FileState
  BY ImmType DEF Unfinished, Types
<1> QED
  BY <1>1 DEF Types

(* A one-element sequence of sets of entries: the frozen memtable.         *)
LEMMA SlotType ==
    ASSUME NEW m \in SUBSET Entries
    PROVE  <<m>> \in Seq(SUBSET Entries) /\ Len(<<m>>) = 1 /\ <<m>> # <<>> /\ <<m>>[1] = m
OBVIOUS

(* The slot is left alone, emptied or filled with the memtable m.          *)
LEMMA SlotStep ==
    ASSUME Types, NEW m \in SUBSET Entries,
           immMem' = immMem \/ immMem' = <<>> \/ immMem' = <<m>>
    PROVE  immMem' \in Seq(SUBSET Entries) /\ Len(immMem') <= 1
<1>1. CASE immMem' = immMem
  BY <1>1 DEF Types
<1>2. CASE immMem' = <<>>
  BY <1>2
<1>3. CASE immMem' = <<m>>
  BY <1>3, SlotType
<1> QED
  BY <1>1, <1>2, <1>3

(* Open loads the tables of edits 2, 3, ... in this order.                 *)
LEMMA LoadedTablesValue ==
    ASSUME Types, NEW man \in Seq(Edits), Len(man) >= 1,
           \A i \in 1..Len(man) : man[i].file = i - 1,
           \A i \in 2..Len(man) : i - 1 \in FileIDs
    PROVE  /\ LoadedTables(man) \in Seq(SUBSET Entries)
           /\ Len(LoadedTables(man)) = Len(man) - 1
           /\ \A i \in 1..(Len(man) - 1) : LoadedTables(man)[i] = files[i].data
<1> DEFINE N == Len(man)
           After(g) == [i \in 0..N |->
                          IF i = 0 THEN <<>>
                          ELSE IF man[i].file = 0 THEN g[i - 1]
                          ELSE Append(g[i - 1], files[man[i].file].data)]
           Table(n) == [i \in 1..n |-> files[i].data]
           G == [n \in 0..N |-> IF n <= 1 THEN <<>> ELSE Table(n - 1)]
           f == CHOOSE g : g = After(g)
<1>0. N \in Nat /\ N >= 1
  OBVIOUS
<1>1. \A i \in 1..(N - 1) : files[i].data \in SUBSET Entries
  <2> SUFFICES ASSUME NEW i \in 1..(N - 1) PROVE files[i].data \in SUBSET Entries
      OBVIOUS
  <2>1. i + 1 \in 2..Len(man) /\ (i + 1) - 1 = i
    BY <1>0
  <2>2. i \in FileIDs
    BY <2>1
  <2> QED
    BY <2>2 DEF Types, FileState
<1>2. ASSUME NEW n \in 0..(N - 1)
      PROVE  Table(n) \in Seq(SUBSET Entries) /\ Len(Table(n)) = n
  BY SMTT(30), <1>0, <1>1
<1>3. ASSUME NEW n \in 1..(N - 1)
      PROVE  Append(IF n <= 1 THEN <<>> ELSE Table(n - 1), files[n].data) = Table(n)
  <2>1. files[n].data \in SUBSET Entries
    BY <1>1
  <2>2. CASE n = 1
    <3>1. Table(1) \in Seq(SUBSET Entries) /\ Len(Table(1)) = 1
      BY <1>2, <2>2
    <3>2. Append(<<>>, files[1].data) \in Seq(SUBSET Entries)
          /\ Len(Append(<<>>, files[1].data)) = 1
          /\ Append(<<>>, files[1].data)[1] = files[1].data
      BY <2>1, <2>2
    <3>3. Table(1)[1] = files[1].data
      OBVIOUS
    <3>4. Table(1) = Append(<<>>, files[1].data)
      BY <3>1, <3>2, <3>3, SeqEqual
    <3> QED
      BY <2>2, <3>4
  <2>3. CASE n > 1
    <3>1. n - 1 \in 0..(N - 1) /\ n \in 0..(N - 1)
      BY <2>3
    <3>2. Table(n - 1) \in Seq(SUBSET Entries) /\ Len(Table(n - 1)) = n - 1
      BY <1>2, <3>1
    <3>3. Table(n) \in Seq(SUBSET Entries) /\ Len(Table(n)) = n
      BY <1>2, <3>1
    <3>4. \A i \in 1..n : Append(Table(n - 1), files[n].data)[i] = Table(n)[i]
      BY <2>1, <2>3, <3>2, AppendProperties
    <3>5. Append(Table(n - 1), files[n].data) \in Seq(SUBSET Entries)
          /\ Len(Append(Table(n - 1), files[n].data)) = n
      BY <2>1, <2>3, <3>2, AppendProperties
    <3>6. Append(Table(n - 1), files[n].data) = Table(n)
      BY <3>3, <3>4, <3>5, SeqEqual
    <3> QED
      BY <2>3, <3>6
  <2> QED
    BY <2>2, <2>3
<1> HIDE DEF Table
<1>4. G = After(G)
  <2> SUFFICES ASSUME NEW n \in 0..N PROVE G[n] = After(G)[n]
      OBVIOUS
  <2>1. CASE n = 0
    BY <2>1
  <2>2. CASE n = 1
    BY <2>2, <1>0
  <2>3. CASE n > 1
    <3>1. man[n].file = n - 1 /\ n - 1 \in 1..(N - 1) /\ n - 1 \in 0..N
      BY <2>3
    <3>2. After(G)[n] = Append(G[n - 1], files[n - 1].data)
      BY <2>3, <3>1
    <3>3. G[n - 1] = IF n - 1 <= 1 THEN <<>> ELSE Table((n - 1) - 1)
      BY <3>1
    <3>4. After(G)[n] = Table(n - 1)
      BY <1>3, <3>1, <3>2, <3>3
    <3> QED
      BY <2>3, <3>4
  <2> QED
    BY <2>1, <2>2, <2>3
<1>5. f = After(f)
  BY <1>4
<1>6. LoadedTables(man) = f[N]
  BY DEF LoadedTables
<1> HIDE DEF f
<1>7. f[N] = G[N]
  <2> DEFINE T == {n \in Nat : n <= N => f[n] = G[n]}
  <2>1. 0 \in T
    BY <1>5, <1>0
  <2>2. ASSUME NEW n \in T PROVE n + 1 \in T
    <3> SUFFICES ASSUME n + 1 <= N PROVE f[n + 1] = G[n + 1]
        OBVIOUS
    <3>1. f[n] = G[n] /\ n + 1 \in 0..N /\ (n + 1) - 1 = n /\ n + 1 # 0
      BY <2>2
    <3>2. f[n + 1] = After(f)[n + 1] /\ G[n + 1] = After(G)[n + 1]
      <4> HIDE DEF After, G
      <4> QED
        BY <1>4, <1>5
    <3>3. After(f)[n + 1] = After(G)[n + 1]
      BY <3>1
    <3> QED
      BY <3>2, <3>3
  <2>3. T = Nat
    <3> HIDE DEF T
    <3>1. T \in SUBSET Nat
      BY DEF T
    <3> QED
      BY <2>1, <2>2, <3>1, Induction
  <2>4. N \in T
    BY <1>0, <2>3
  <2> QED
    BY <2>4
<1>8. CASE N = 1
  <2>1. LoadedTables(man) = <<>>
    BY <1>6, <1>7, <1>8
  <2>2. 1..(Len(man) - 1) = {} /\ Len(man) - 1 = 0
    BY <1>8
  <2> HIDE DEF N
  <2> QED
    BY <2>1, <2>2, EmptySeq
<1>9. CASE N > 1
  <2>1. LoadedTables(man) = Table(N - 1)
    BY <1>0, <1>6, <1>7, <1>9
  <2>2. N - 1 \in 0..(N - 1)
    BY <1>9
  <2> QED
    BY <1>2, <2>1, <2>2 DEF Table
<1>10. N = 1 \/ N > 1
  <2> HIDE DEF N
  <2> QED
    BY <1>0
<1> QED
  BY <1>8, <1>9, <1>10

LEMMA InitTypes == Init => Types
<1> HAVE Init
<1>1. [file |-> 0, next |-> 1, last |-> 0] \in Edits
  BY DEF Edits
<1>2. manifest \in Seq(Edits) /\ Len(manifest) = 1
  BY <1>1 DEF Init
<1>3. files \in [FileIDs -> FileState]
  BY DEF Init, Absent, FileState
<1>4. /\ wal \in Seq(Nat) /\ Len(wal) = 0
      /\ ssts \in Seq(SUBSET Entries)
      /\ immMem \in Seq(SUBSET Entries) /\ Len(immMem) = 0
      /\ batches \in Seq(Batches) /\ Len(batches) = 0
  BY EmptySeq DEF Init
<1>5. walFlushed = 0 /\ walSynced = 0 /\ manSynced = 1 /\ replayed = 0
      /\ seqno = 0 /\ nextSSTID = 0 /\ mem = {} /\ acked = {} /\ stalled = {}
      /\ flushErr = FALSE /\ walErr = FALSE
      /\ phase = "down" /\ writing = "none" /\ flushing = "none"
  BY DEF Init
<1>6. walSynced \in Nat /\ walFlushed \in Nat /\ walSynced <= walFlushed
      /\ walFlushed <= Len(wal) /\ manSynced \in 0..Len(manifest)
      /\ Len(immMem) <= 1 /\ seqno \in Nat /\ nextSSTID \in Nat
      /\ replayed \in 0..Len(wal)
  BY <1>2, <1>4, <1>5
<1> QED
  BY <1>2, <1>3, <1>4, <1>5, <1>6, Zenon DEF Types

(* What a crash, a failed flush or a failed Close leaves of the WAL.       *)
LEMMA WalSurvives ==
    ASSUME Types, WalInv, NEW lo \in Nat, lo <= walFlushed,
           NEW w \in Survivors(wal, lo, Torn)
    PROVE  /\ w \in Seq(Nat) /\ Len(Trimmed(w, Torn)) \in Nat
           /\ Len(Trimmed(w, Torn)) <= Len(w) /\ lo <= Len(Trimmed(w, Torn))
           /\ Len(Trimmed(w, Torn)) <= Len(wal)
           /\ \A i \in 1..Len(Trimmed(w, Torn)) : w[i] = wal[i] /\ w[i] # Torn
           /\ \A i \in 1..Len(w) : i > Len(Trimmed(w, Torn)) => w[i] = Torn
           /\ Len(w) <= Len(Trimmed(w, Torn)) + 1
<1>1. lo \in 0..Len(wal) /\ wal \in Seq(Nat) /\ Torn \in Nat
  BY DEF Types, Torn
<1>a. /\ w \in Seq(Nat)
      /\ \E n \in lo..Len(wal) :
            /\ \A i \in 1..n : w[i] = wal[i]
            /\ \/ Len(w) = n
               \/ n < Len(wal) /\ Len(w) = n + 1 /\ w[n + 1] = Torn
  BY ONLY <1>1, SurvivorsFacts, w \in Survivors(wal, lo, Torn)
<1>2. w \in Seq(Nat)
  BY <1>a
<1>3. PICK n \in lo..Len(wal) :
        /\ \A i \in 1..n : w[i] = wal[i]
        /\ \/ Len(w) = n
           \/ n < Len(wal) /\ Len(w) = n + 1 /\ w[n + 1] = Torn
  BY <1>a
<1>4. /\ \A i \in 1..Len(Trimmed(w, Torn)) : Trimmed(w, Torn)[i] = w[i]
      /\ IF w # <<>> /\ w[Len(w)] = Torn
         THEN Len(Trimmed(w, Torn)) = Len(w) - 1
         ELSE Trimmed(w, Torn) = w
  BY <1>2, TrimmedFacts
<1>5. ASSUME NEW i \in 1..Len(wal), wal[i] = Torn
      PROVE  i = Len(wal) /\ i > walFlushed
  <2>1. walFlushed \in Nat /\ Len(wal) \in Nat
    BY <1>1 DEF Types
  <2>2. ~(i \in 1..(Len(wal) - 1)) /\ ~(i \in 1..walFlushed)
    BY <1>5 DEF WalInv, Wellformed
  <2> QED
    BY <2>1, <2>2
<1>6. n \in Nat /\ Len(w) \in Nat /\ (w # <<>> <=> Len(w) > 0) /\ Len(wal) \in Nat
  BY <1>1, <1>2, <1>3, EmptySeq
<1>7. CASE Len(w) = n /\ ~(n > 0 /\ w[n] = Torn)
  <2>1. Trimmed(w, Torn) = w
    BY <1>4, <1>6, <1>7
  <2>2. \A i \in 1..n : i # n => wal[i] # Torn
    BY <1>3, <1>5, <1>6
  <2> QED
    BY <1>2, <1>3, <1>6, <1>7, <2>1, <2>2
<1>8. CASE Len(w) = n /\ n > 0 /\ w[n] = Torn
  <2>1. Len(Trimmed(w, Torn)) = n - 1
    BY <1>4, <1>6, <1>8
  <2>2. n = Len(wal) /\ n > walFlushed
    BY <1>3, <1>5, <1>6, <1>8
  <2>3. \A i \in 1..(n - 1) : wal[i] # Torn
    BY <1>5, <1>6, <2>2
  <2>4. lo <= n - 1
    BY <1>6, <2>2 DEF Types
  <2> QED
    BY <1>2, <1>3, <1>6, <1>8, <2>1, <2>2, <2>3, <2>4
<1>9. CASE n < Len(wal) /\ Len(w) = n + 1 /\ w[n + 1] = Torn
  <2>1. Len(Trimmed(w, Torn)) = n
    BY <1>4, <1>6, <1>9
  <2>2. \A i \in 1..n : wal[i] # Torn
    BY <1>5, <1>6, <1>9
  <2> QED
    BY <1>2, <1>3, <1>6, <1>9, <2>1, <2>2
<1> QED
  BY <1>3, <1>7, <1>8, <1>9

LEMMA ManifestLen ==
    ASSUME Types, ManifestInv
    PROVE  /\ manifest \in Seq(Edits) /\ TornEdit \in Edits
           /\ Len(manifest) \in Nat /\ Len(manifest) >= 1
<1>1. manifest \in Seq(Edits) /\ Len(manifest) \in Nat /\ manSynced \in 0..Len(manifest)
  BY ONLY Types DEF Types
<1>2. manSynced >= 1
  BY ONLY ManifestInv DEF ManifestInv
<1>3. TornEdit \in Edits
  BY DEF TornEdit, Edits
<1> QED
  BY ONLY <1>1, <1>2, <1>3

(* What Open reads of the manifest.                                        *)
LEMMA TrimmedManifest ==
    ASSUME Types, ManifestInv, NEW man, man = Trimmed(manifest, TornEdit)
    PROVE  /\ man \in Seq(Edits) /\ Len(man) \in 1..Len(manifest)
           /\ \A i \in 1..Len(man) : man[i] = manifest[i] /\ manifest[i] # TornEdit
           /\ \A i \in 1..Len(manifest) : i > Len(man) => manifest[i] = TornEdit
<1>1. manifest \in Seq(Edits) /\ Len(manifest) \in Nat /\ Len(manifest) >= 1
  BY DEF Types, ManifestInv
<1>2. /\ man \in Seq(Edits)
      /\ \A i \in 1..Len(man) : man[i] = manifest[i]
      /\ IF manifest # <<>> /\ manifest[Len(manifest)] = TornEdit
         THEN Len(man) = Len(manifest) - 1
         ELSE man = manifest
  BY <1>1, TrimmedFacts
<1>3. \A i \in 1..(Len(manifest) - 1) : manifest[i] # TornEdit
  BY DEF ManifestInv, Wellformed
<1>4. CASE manifest[Len(manifest)] = TornEdit
  <2>1. Len(manifest) # 1
    BY <1>4 DEF ManifestInv
  <2>2. manifest # <<>>
    BY <1>1
  <2>3. Len(man) = Len(manifest) - 1
    BY <1>2, <1>4, <2>2
  <2>4. \A i \in 1..Len(manifest) : i > Len(man) => i = Len(manifest)
    BY <1>1, <2>3
  <2> QED
    BY <1>1, <1>2, <1>3, <1>4, <2>1, <2>3, <2>4
<1>5. CASE manifest[Len(manifest)] # TornEdit
  <2>1. man = manifest
    BY <1>2, <1>5
  <2>2. ASSUME NEW i \in 1..Len(manifest) PROVE manifest[i] # TornEdit
    <3>1. i = Len(manifest) \/ i \in 1..(Len(manifest) - 1)
      BY <1>1
    <3> QED
      BY <1>3, <1>5, <3>1
  <2> QED
    BY <1>1, <2>1, <2>2
<1> QED
  BY <1>4, <1>5

(* What a power loss leaves of the manifest.                               *)
LEMMA ManifestSurvives ==
    ASSUME Types, ManifestInv, NEW m \in Survivors(manifest, manSynced, TornEdit)
    PROVE  /\ m \in Seq(Edits)
           /\ Len(Trimmed(m, TornEdit)) \in 1..Len(manifest)
           /\ Len(Trimmed(m, TornEdit)) <= Len(m)
           /\ Len(m) <= Len(Trimmed(m, TornEdit)) + 1
           /\ \A i \in 1..Len(Trimmed(m, TornEdit)) :
                m[i] = manifest[i] /\ m[i] # TornEdit
           /\ \A i \in 1..Len(m) : i > Len(Trimmed(m, TornEdit)) => m[i] = TornEdit
<1>1. manSynced \in 0..Len(manifest) /\ manifest \in Seq(Edits) /\ TornEdit \in Edits
  BY DEF Types, TornEdit, Edits
<1>a. /\ m \in Seq(Edits)
      /\ \E n \in manSynced..Len(manifest) :
            /\ \A i \in 1..n : m[i] = manifest[i]
            /\ \/ Len(m) = n
               \/ n < Len(manifest) /\ Len(m) = n + 1 /\ m[n + 1] = TornEdit
  BY ONLY <1>1, SurvivorsFacts, m \in Survivors(manifest, manSynced, TornEdit)
<1>2. m \in Seq(Edits)
  BY <1>a
<1>3. PICK n \in manSynced..Len(manifest) :
        /\ \A i \in 1..n : m[i] = manifest[i]
        /\ \/ Len(m) = n
           \/ n < Len(manifest) /\ Len(m) = n + 1 /\ m[n + 1] = TornEdit
  BY <1>a
<1>4. /\ \A i \in 1..Len(Trimmed(m, TornEdit)) : Trimmed(m, TornEdit)[i] = m[i]
      /\ IF m # <<>> /\ m[Len(m)] = TornEdit
         THEN Len(Trimmed(m, TornEdit)) = Len(m) - 1
         ELSE Trimmed(m, TornEdit) = m
  BY <1>2, TrimmedFacts
<1>5. ASSUME NEW i \in 1..Len(manifest), manifest[i] = TornEdit
      PROVE  i = Len(manifest) /\ i # 1
  <2>1. Len(manifest) \in Nat
    BY <1>1
  <2>2. ~(i \in 1..(Len(manifest) - 1)) /\ i # 1
    BY <1>5 DEF ManifestInv, Wellformed
  <2> QED
    BY <2>1, <2>2
<1>6. n \in Nat /\ n >= 1 /\ Len(m) \in Nat /\ Len(m) > 0 /\ m # <<>> /\ Len(manifest) \in Nat
  BY <1>1, <1>2, <1>3, EmptySeq DEF ManifestInv
<1>7. CASE Len(m) = n /\ m[n] # TornEdit
  <2>1. Trimmed(m, TornEdit) = m
    BY <1>4, <1>6, <1>7
  <2>2. \A i \in 1..n : i # n => manifest[i] # TornEdit
    BY <1>3, <1>5, <1>6
  <2> QED
    BY <1>2, <1>3, <1>6, <1>7, <2>1, <2>2
<1>8. CASE Len(m) = n /\ m[n] = TornEdit
  <2>1. Len(Trimmed(m, TornEdit)) = n - 1
    BY <1>4, <1>6, <1>8
  <2>2. n = Len(manifest) /\ n # 1
    BY <1>3, <1>5, <1>6, <1>8
  <2>3. \A i \in 1..(n - 1) : manifest[i] # TornEdit
    BY <1>5, <1>6, <2>2
  <2> QED
    BY <1>2, <1>3, <1>6, <1>8, <2>1, <2>2, <2>3
<1>9. CASE n < Len(manifest) /\ Len(m) = n + 1 /\ m[n + 1] = TornEdit
  <2>1. Len(Trimmed(m, TornEdit)) = n
    BY <1>4, <1>6, <1>9
  <2>2. \A i \in 1..n : manifest[i] # TornEdit
    BY <1>5, <1>6, <1>9
  <2> QED
    BY <1>2, <1>3, <1>6, <1>9, <2>1, <2>2
<1> QED
  BY <1>3, <1>7, <1>8, <1>9

(* The process is gone, with a well-typed disk.                            *)
LEMMA GoneTypes ==
    ASSUME Types, Gone,
           wal' \in Seq(Nat), walFlushed' \in Nat, walSynced' \in Nat,
           walSynced' <= walFlushed', walFlushed' <= Len(wal'),
           manifest' \in Seq(Edits), manSynced' \in 0..Len(manifest'),
           files' \in [FileIDs -> FileState],
           UNCHANGED <<batches, acked>>
    PROVE  Types'
<1>1. /\ phase' = "down" /\ mem' = {} /\ immMem' = <<>> /\ ssts' = <<>>
      /\ seqno' = 0 /\ nextSSTID' = 0 /\ flushErr' = FALSE /\ walErr' = FALSE
      /\ writing' = "none" /\ flushing' = "none" /\ replayed' = 0 /\ stalled' = {}
  BY DEF Gone
<1>2. /\ immMem' \in Seq(SUBSET Entries) /\ Len(immMem') = 0
      /\ ssts' \in Seq(SUBSET Entries)
  BY <1>1, EmptySeq
<1>3. Len(immMem') <= 1 /\ seqno' \in Nat /\ nextSSTID' \in Nat /\ replayed' \in 0..Len(wal')
  BY <1>1, <1>2
<1>4. /\ batches' \in Seq(Batches) /\ acked' \in SUBSET (1..Len(batches'))
      /\ stalled' \in SUBSET (1..Len(batches')) /\ acked' \cap stalled' = {}
  BY <1>1 DEF Types
<1> QED
  BY <1>1, <1>2, <1>3, <1>4, Zenon DEF Types

LEMMA TypesStep == Core /\ DurableInv /\ Next => Types'
<1> SUFFICES ASSUME Core, DurableInv, Next PROVE Types'
    OBVIOUS
<1>0. Types /\ PhaseInv /\ WalInv /\ ManifestInv /\ TablesInv
  BY DEF Core
<1> USE <1>0
<1>1. ASSUME NEW b \in Batches, WriteAppend(b) PROVE Types'
  <2>1. /\ batches' \in Seq(Batches) /\ Len(batches') = Len(batches) + 1
        /\ wal' \in Seq(Nat) /\ Len(wal') = Len(wal) + 1
    BY <1>1 DEF WriteAppend, Types
  <2>2. 1..Len(batches) \subseteq 1..Len(batches')
    BY <2>1 DEF Types
  <2> QED
    BY SMTT(30), <1>1, <2>1, <2>2 DEF WriteAppend, Types, manVars
<1>2. CASE WriteSync
  BY <1>2 DEF WriteSync, Types, manVars, histVars
<1>3. CASE WriteSyncFails
  BY <1>3 DEF WriteSyncFails, Types, manVars, histVars
<1>4. CASE WriteBufferFails
  <2>1. walSynced <= walFlushed /\ walFlushed \in Nat
    BY DEF Types
  <2>2. /\ wal' \in Seq(Nat) /\ walFlushed' \in Nat /\ walFlushed <= walFlushed'
        /\ walFlushed' <= Len(wal')
    BY <1>4, <2>1, WalSurvives DEF WriteBufferFails
  <2>3. replayed' \in 0..Len(wal')
    BY <1>4, <2>2 DEF WriteBufferFails, PhaseInv, Types
  <2> QED
    BY <1>4, <2>1, <2>2, <2>3 DEF WriteBufferFails, Types, manVars, histVars
<1>5. CASE WriteApply
  <2>1. writing # "none" /\ Len(batches) \in 1..Len(batches)
    BY <1>5, LastBatch DEF WriteApply
  <2>2. EntriesOf(batches[Len(batches)], Len(batches)) \in SUBSET Entries
    BY <2>1, EntriesOfType
  <2>3. Len(batches[Len(batches)]) \in Nat
    BY <2>1, BatchType
  <2> DEFINE m == mem \cup EntriesOf(batches[Len(batches)], Len(batches))
  <2>4. m \in SUBSET Entries
    BY <2>2 DEF Types
  <2>5. Len(batches) \notin acked \cup stalled
    BY <2>1 DEF DurableInv
  <2>6. MaybeAutoFlush(Len(batches), m)
    BY <1>5 DEF WriteApply
  <2> HIDE DEF m
  <2>a. mem' \in SUBSET Entries /\ (immMem' = immMem \/ immMem' = <<m>>)
    BY <2>4, <2>6 DEF MaybeAutoFlush
  <2>7. /\ mem' \in SUBSET Entries
        /\ immMem' \in Seq(SUBSET Entries) /\ Len(immMem') <= 1
    BY <2>4, <2>a, SlotStep
  <2>8. /\ acked' \in SUBSET (1..Len(batches)) /\ stalled' \in SUBSET (1..Len(batches))
        /\ acked' \cap stalled' = {}
    BY <2>1, <2>5, <2>6 DEF MaybeAutoFlush, Types
  <2> QED
    BY SMTT(30), <1>5, <2>3, <2>7, <2>8 DEF WriteApply, Types, walVars, manVars
<1>6. ASSUME NEW id \in stalled, StallResume(id) PROVE Types'
  <2>1. id \in 1..Len(batches)
    BY DEF Types
  <2>2. /\ mem' \in SUBSET Entries
        /\ immMem' \in Seq(SUBSET Entries) /\ Len(immMem') <= 1
    <3>1. mem \in SUBSET Entries
      BY DEF Types
    <3>2. mem' \in SUBSET Entries /\ (immMem' = immMem \/ immMem' = <<mem>>)
      BY <1>6, <3>1 DEF StallResume
    <3> QED
      BY <3>1, <3>2, SlotStep
  <2>3. /\ acked' \in SUBSET (1..Len(batches)) /\ stalled' \in SUBSET (1..Len(batches))
        /\ acked' \cap stalled' = {}
    BY <1>6, <2>1 DEF StallResume, Types
  <2> QED
    BY <1>6, <2>2, <2>3 DEF StallResume, Types, walVars, manVars
<1>7. CASE Flush
  BY <1>7, SlotType DEF Flush, Types, walVars, manVars, histVars
<1>8. CASE FlushBegin
  <2>1. immMem' \in Seq(SUBSET Entries) /\ Len(immMem') <= 1
    <3>1. mem \in SUBSET Entries /\ (immMem' = immMem \/ immMem' = <<>>)
      BY <1>8 DEF FlushBegin, Types
    <3> QED
      BY <3>1, SlotStep
  <2> QED
    BY <1>8, <2>1 DEF FlushBegin, Types, walVars, manVars, histVars
<1>9. CASE WriteSST
  BY <1>9, ImmType DEF WriteSST, Types, walVars, manVars, histVars
<1>10. CASE WriteSSTFails
  <2>1. files' \in [FileIDs -> FileState]
    BY <1>10, UnfinishedType DEF WriteSSTFails, TablesInv
  <2> QED
    BY <1>10, <2>1 DEF WriteSSTFails, Types, walVars, manVars, histVars
<1>11. CASE PublishEdit
  <2>1. FlushEdit \in Edits
    BY DEF FlushEdit, Edits, Types
  <2> QED
    BY <1>11, <2>1 DEF PublishEdit, Types, walVars, histVars
<1>12. CASE PublishInstall
  <2>1. files[nextSSTID].data \in SUBSET Entries
    BY <1>12 DEF PublishInstall, TablesInv, Types, FileState
  <2>2. immMem' \in Seq(SUBSET Entries) /\ Len(immMem') <= 1
    BY <1>12, EmptySeq DEF PublishInstall
  <2> QED
    BY <1>12, <2>1, <2>2 DEF PublishInstall, Types, walVars, histVars
<1>13. CASE PublishFails
  <2>1. TornEdit \in Edits
    BY DEF TornEdit, Edits
  <2>2. manifest' \in Seq(Edits) /\ Len(manifest') >= Len(manifest)
    <3>1. manifest' = manifest \/ manifest' = Append(manifest, TornEdit)
      BY <1>13 DEF PublishFails
    <3>2. manifest \in Seq(Edits) /\ Len(manifest) \in Nat
      BY DEF Types
    <3>3. Append(manifest, TornEdit) \in Seq(Edits)
          /\ Len(Append(manifest, TornEdit)) = Len(manifest) + 1
      BY <2>1, <3>2, AppendProperties
    <3> QED
      BY <3>1, <3>2, <3>3
  <2> QED
    BY <1>13, <2>2 DEF PublishFails, Types, walVars, histVars
<1>14. CASE Close
  <2>1. walSynced <= walFlushed /\ walFlushed \in Nat
    BY DEF Types
  <2>2. /\ wal' \in Seq(Nat) /\ walFlushed' \in Nat /\ walFlushed <= walFlushed'
        /\ walFlushed' <= Len(wal')
    <3>1. CASE UNCHANGED wal
      BY <1>14, <3>1, <2>1, WalSurvives DEF Close, Types
    <3>2. CASE wal' \in Survivors(wal, walFlushed, Torn) /\ walFlushed' = Len(Trimmed(wal', Torn))
      BY <3>2, <2>1, WalSurvives
    <3> QED
      BY <1>14, <3>1, <3>2 DEF Close
  <2>3. walSynced' \in Nat /\ walSynced' <= walFlushed'
    BY <1>14, <2>1, <2>2 DEF Close, Types
  <2>4. manSynced' \in 0..Len(manifest')
    BY <1>14 DEF Close, Types
  <2> QED
    BY <1>14, <2>2, <2>3, <2>4, GoneTypes DEF Close, Types
<1>15. ASSUME files' = files \/ (flushing = "io" /\ \E left \in Unfinished :
                                   files' = [files EXCEPT ![nextSSTID] = left])
       PROVE  files' \in [FileIDs -> FileState]
  BY <1>15, UnfinishedType DEF TablesInv, Types
<1>16. CASE Kill
  <2>1. walSynced <= walFlushed /\ walFlushed \in Nat
    BY DEF Types
  <2>2. /\ wal' \in Seq(Nat) /\ walFlushed' \in Nat /\ walFlushed <= walFlushed'
        /\ walFlushed' <= Len(wal')
    BY SMTT(30), <1>16, <2>1, WalSurvives DEF Kill, Types
  <2>3. files' \in [FileIDs -> FileState]
    BY <1>15, <1>16 DEF Kill
  <2> QED
    BY SMTT(30), <1>16, <2>1, <2>2, <2>3, GoneTypes DEF Kill, Types, manVars
<1>17. CASE PowerLoss
  <2>1. walSynced <= walFlushed /\ walSynced \in Nat
    BY DEF Types
  <2>2. /\ wal' \in Seq(Nat) /\ walFlushed' \in Nat
        /\ walFlushed' <= Len(wal') /\ walSynced' = walFlushed'
    BY <1>17, <2>1, WalSurvives DEF PowerLoss
  <2>3. files' \in [FileIDs -> FileState]
    BY <1>15, <1>17 DEF PowerLoss
  <2>4. manifest' \in Seq(Edits) /\ manSynced' \in 0..Len(manifest')
    BY <1>17, ManifestSurvives DEF PowerLoss
  <2> QED
    BY <1>17, <2>2, <2>3, <2>4, GoneTypes DEF PowerLoss
<1>18. CASE OpenManifest
  <2> DEFINE man == Trimmed(manifest, TornEdit)
  <2>1. /\ man \in Seq(Edits) /\ Len(man) \in 1..Len(manifest)
        /\ \A i \in 1..Len(man) : man[i] = manifest[i] /\ manifest[i] # TornEdit
    BY TrimmedManifest
  <2>2. /\ manifest' = man /\ manSynced' = Smaller(manSynced, Len(man))
        /\ ssts' = LoadedTables(man)
        /\ seqno' = man[Len(man)].last /\ nextSSTID' = man[Len(man)].next
    BY <1>18 DEF OpenManifest
  <2>3. files' \in [FileIDs -> FileState]
    BY <1>18, ImmType DEF OpenManifest, Types
  <2> HIDE DEF man
  <2>4. Len(man) \in Nat /\ Len(man) >= 1
    BY <2>1
  <2>5. man[Len(man)] \in Edits
    BY <2>1, <2>4
  <2>6. manSynced' \in 0..Len(manifest') /\ seqno' \in Nat /\ nextSSTID' \in Nat
    <3>1. seqno' \in Nat /\ nextSSTID' \in Nat
      BY <2>2, <2>5 DEF Edits
    <3>2. manSynced \in Nat
      BY DEF Types
    <3>3. Smaller(manSynced, Len(man)) \in 0..Len(man)
      BY ONLY <2>4, <3>2 DEF Smaller
    <3> QED
      BY <2>2, <3>1, <3>3
  <2>7. \A i \in 1..Len(man) : man[i].file = i - 1
    BY <2>1 DEF ManifestInv
  <2>8. \A i \in 2..Len(man) : i - 1 \in FileIDs
    BY <2>1 DEF TablesInv, NamedInv
  <2>9. ssts' \in Seq(SUBSET Entries)
    BY <2>1, <2>2, <2>4, <2>7, <2>8, LoadedTablesValue
  <2> QED
    BY <1>18, <2>1, <2>2, <2>3, <2>6, <2>9 DEF OpenManifest, Types, walVars, histVars
<1>19. CASE ReplayRecord
  <2>1. wal[replayed + 1] \in 1..Len(batches)
    BY <1>19, ReplayedBatch DEF ReplayRecord
  <2>2. /\ EntriesOf(batches[wal[replayed + 1]], wal[replayed + 1]) \in SUBSET Entries
        /\ Len(batches[wal[replayed + 1]]) \in Nat
    BY <2>1, EntriesOfType, BatchType
  <2>3. mem' \in SUBSET Entries /\ seqno' \in Nat /\ replayed' \in 0..Len(wal)
    <3>1. mem \in SUBSET Entries /\ seqno \in Nat /\ replayed \in Nat /\ Len(wal) \in Nat
      BY DEF Types
    <3>2. PICK id : id = wal[replayed + 1]
      OBVIOUS
    <3>3. /\ mem' = mem \cup EntriesOf(batches[id], id) /\ seqno' = seqno + Len(batches[id])
          /\ replayed' = replayed + 1 /\ replayed < Len(wal)
      BY ONLY <1>19, <3>2 DEF ReplayRecord
    <3>4. EntriesOf(batches[id], id) \in SUBSET Entries /\ Len(batches[id]) \in Nat
      BY ONLY <2>2, <3>2
    <3> QED
      BY ONLY <3>1, <3>3, <3>4
  <2> QED
    BY <1>19, <2>3 DEF ReplayRecord, Types, walVars, manVars, histVars
<1>20. CASE ReplayEnd
  <2>1. CASE UNCHANGED walVars
    BY <1>20, <2>1 DEF ReplayEnd, Types, walVars, manVars, histVars
  <2>2. CASE /\ replayed = Len(wal) - 1 /\ wal' = SubSeq(wal, 1, replayed)
             /\ walFlushed' = Smaller(walFlushed, replayed)
             /\ walSynced' = Smaller(walSynced, replayed)
    <3>1. replayed \in Nat /\ wal \in Seq(Nat) /\ \A i \in 1..replayed : wal[i] \in Nat
      BY SMTT(30), <2>2 DEF Types
    <3>2. wal' \in Seq(Nat) /\ Len(wal') = replayed
      BY <2>2, <3>1, SubSeqProperties
    <3>3. /\ walFlushed' \in Nat /\ walSynced' \in Nat
          /\ walSynced' <= walFlushed' /\ walFlushed' <= Len(wal')
      BY SMTT(30), <2>2, <3>1, <3>2 DEF Types, Smaller
    <3>4. replayed' \in 0..Len(wal')
      BY <1>20, <3>1, <3>2 DEF ReplayEnd
    <3> QED
      BY <1>20, <3>2, <3>3, <3>4 DEF ReplayEnd, Types, manVars, histVars
  <2> QED
    BY <1>20, <2>1, <2>2 DEF ReplayEnd
<1> QED
  BY <1>1, <1>2, <1>3, <1>4, <1>5, <1>6, <1>7, <1>8, <1>9, <1>10, <1>11, <1>12,
     <1>13, <1>14, <1>16, <1>17, <1>18, <1>19, <1>20 DEF Next

-----------------------------------------------------------------------------
(* The volatile state. *)

LEMMA PhaseInit == Init => PhaseInv
BY DEF Init, PhaseInv

LEMMA PhaseStep == Core /\ Next => PhaseInv'
<1> SUFFICES ASSUME Core, Next PROVE PhaseInv'
    OBVIOUS
<1>0. Types /\ PhaseInv /\ ManifestInv
  BY DEF Core
<1> USE <1>0
<1>a. ASSUME NEW m PROVE <<m>> # <<>>
  OBVIOUS
<1>1. ASSUME NEW b \in Batches, WriteAppend(b) PROVE PhaseInv'
  BY <1>1 DEF WriteAppend, Unlocked, PhaseInv
<1>2. CASE WriteSync
  BY <1>2 DEF WriteSync, PhaseInv
<1>3. CASE WriteSyncFails
  BY <1>3 DEF WriteSyncFails, PhaseInv
<1>4. CASE WriteBufferFails
  BY <1>4 DEF WriteBufferFails, PhaseInv
<1>5. CASE WriteApply
  <2>1. writing # "none" /\ phase = "open"
    BY <1>5 DEF WriteApply, PhaseInv
  <2>2. PICK m : immMem' = immMem \/ immMem' = <<m>>
    BY <1>5 DEF WriteApply, MaybeAutoFlush
  <2> QED
    BY <1>5, <2>1, <2>2, <1>a DEF WriteApply, PhaseInv
<1>6. ASSUME NEW id \in stalled, StallResume(id) PROVE PhaseInv'
  BY <1>6, <1>a DEF StallResume, PhaseInv
<1>7. CASE Flush
  BY <1>7, <1>a DEF Flush, PhaseInv
<1>8. CASE FlushBegin
  BY <1>8 DEF FlushBegin, PhaseInv, Unlocked
<1>9. CASE WriteSST
  BY <1>9 DEF WriteSST, PhaseInv
<1>10. CASE WriteSSTFails
  BY <1>10 DEF WriteSSTFails, PhaseInv
<1>11. CASE PublishEdit
  BY <1>11 DEF PublishEdit, PhaseInv, Unlocked
<1>12. CASE PublishInstall
  BY <1>12 DEF PublishInstall, PhaseInv
<1>13. CASE PublishFails
  BY <1>13 DEF PublishFails, PhaseInv
<1>14. ASSUME Gone PROVE PhaseInv'
  BY <1>14 DEF Gone, PhaseInv
<1>15. CASE OpenManifest
  BY <1>15 DEF OpenManifest, PhaseInv, histVars
<1>16. CASE ReplayRecord
  BY <1>16 DEF ReplayRecord, PhaseInv, histVars
<1>17. CASE ReplayEnd
  BY <1>17 DEF ReplayEnd, PhaseInv, histVars
<1> QED
  BY <1>1, <1>2, <1>3, <1>4, <1>5, <1>6, <1>7, <1>8, <1>9, <1>10, <1>11, <1>12,
     <1>13, <1>14, <1>15, <1>16, <1>17 DEF Next, Close, Kill, PowerLoss

-----------------------------------------------------------------------------
(* The WAL. *)

LEMMA WalInit == Init => WalInv
BY DEF Init, WalInv, Wellformed, Torn

(* A prefix of whole records is left, perhaps with a torn one behind it.   *)
LEMMA WalCut ==
    ASSUME Types, WalInv, Types', PhaseInv',
           phase' # "open" \/ walErr', writing' = "none", replayed' = 0,
           batches' = batches, walFlushed' <= Len(wal),
           \A i \in 1..walFlushed' : wal'[i] = wal[i] /\ wal'[i] # Torn,
           \A i \in 1..Len(wal') : i > walFlushed' => wal'[i] = Torn,
           Len(wal') <= walFlushed' + 1
    PROVE  WalInv'
<1>1. /\ walFlushed' \in Nat /\ Len(wal') \in Nat /\ Len(wal) \in Nat
      /\ walFlushed' <= Len(wal')
  BY DEF Types
<1>2. \A i \in 1..Len(wal') : wal'[i] # Torn => i \in 1..walFlushed' /\ i \in 1..Len(wal)
  BY <1>1
<1>3. Wellformed(wal, Torn)'
  BY <1>1 DEF Wellformed, Torn
<1>4. \A i \in 1..Len(wal') : wal'[i] # Torn => wal'[i] \in 1..Len(batches')
  BY <1>1, <1>2 DEF WalInv
<1>5. \A i, j \in 1..Len(wal') : i < j /\ wal'[j] # Torn => wal'[i] < wal'[j]
  <2> SUFFICES ASSUME NEW i \in 1..Len(wal'), NEW j \in 1..Len(wal'),
                      i < j, wal'[j] # Torn
               PROVE  wal'[i] < wal'[j]
      OBVIOUS
  <2>1. j \in 1..walFlushed' /\ j \in 1..Len(wal)
    BY <1>2
  <2>2. i \in 1..walFlushed' /\ i \in 1..Len(wal)
    BY <1>1, <2>1
  <2>3. wal'[i] = wal[i] /\ wal'[j] = wal[j]
    BY <2>1, <2>2
  <2> QED
    BY <2>1, <2>2, <2>3 DEF WalInv
<1>6. \A i \in 1..replayed' : wal'[i] # Torn
  OBVIOUS
<1> QED
  BY <1>3, <1>4, <1>5, <1>6 DEF WalInv, Torn

(* The records stay; what is known of them may be more.                    *)
LEMMA WalSame ==
    ASSUME Types, WalInv, Types', UNCHANGED <<wal, batches>>,
           walFlushed' \in {walFlushed, Len(wal)}, walSynced' \in {walSynced, Len(wal)},
           phase' = phase, walErr' = walErr, replayed' = replayed,
           (phase = "open" /\ ~walErr) \/ walFlushed' = walFlushed,
           writing' # "none" => writing # "none",
           writing' = "synced" => walSynced' = Len(wal)
    PROVE  WalInv'
<1>1. walFlushed \in Nat /\ Len(wal) \in Nat /\ walFlushed <= Len(wal)
  BY DEF Types
<1>2. \A i \in 1..walFlushed' : wal'[i] # Torn
  BY <1>1 DEF WalInv
<1>3. phase' # "open" \/ walErr' => \A i \in 1..Len(wal') : i > walFlushed' => wal'[i] = Torn
  BY <1>1 DEF WalInv
<1> QED
  BY <1>2, <1>3 DEF WalInv, Wellformed

LEMMA WalStep == Core /\ Types' /\ PhaseInv' /\ Next => WalInv'
<1> SUFFICES ASSUME Core, Types', PhaseInv', Next PROVE WalInv'
    OBVIOUS
<1>0. Types /\ PhaseInv /\ WalInv
  BY DEF Core
<1> USE <1>0
<1>1. ASSUME NEW b \in Batches, WriteAppend(b) PROVE WalInv'
  <2>1. /\ wal \in Seq(Nat) /\ Len(wal) \in Nat /\ Len(batches) \in Nat
        /\ walFlushed \in Nat /\ walFlushed <= Len(wal)
    BY ONLY Types DEF Types
  <2>2. /\ wal' = Append(wal, Len(batches) + 1) /\ walFlushed' = walFlushed
        /\ phase = "open" /\ ~walErr /\ phase' = phase /\ walErr' = walErr
        /\ replayed' = replayed /\ replayed = 0
        /\ writing' = "appended" /\ batches' = Append(batches, b)
    BY <1>1 DEF WriteAppend, PhaseInv
  <2>3. /\ Len(wal') = Len(wal) + 1 /\ wal'[Len(wal) + 1] = Len(batches) + 1
        /\ \A i \in 1..Len(wal) : wal'[i] = wal[i]
    BY <2>1, <2>2, AppendProperties
  <2>4. Len(batches') = Len(batches) + 1
    BY <2>2, AppendProperties DEF Types
  <2>5. \A i \in 1..Len(wal) : wal[i] # Torn /\ wal[i] \in 1..Len(batches)
    BY <2>2 DEF WalInv
  <2>6. \A i \in 1..Len(wal') : wal'[i] # Torn /\ wal'[i] \in 1..Len(batches')
    BY SMTT(30), <2>1, <2>3, <2>4, <2>5 DEF Torn
  <2>7. \A i, j \in 1..Len(wal') : i < j => wal'[i] < wal'[j]
    <3> SUFFICES ASSUME NEW i \in 1..Len(wal'), NEW j \in 1..Len(wal'), i < j
                 PROVE  wal'[i] < wal'[j]
        OBVIOUS
    <3>1. i \in 1..Len(wal) /\ wal'[i] = wal[i] /\ wal[i] \in 1..Len(batches)
      BY <2>1, <2>3, <2>5
    <3>2. CASE j = Len(wal) + 1
      BY <2>1, <2>3, <3>1, <3>2
    <3>3. CASE j \in 1..Len(wal)
      BY <2>3, <2>5, <3>1, <3>3 DEF WalInv
    <3> QED
      BY <2>1, <2>3, <3>2, <3>3
  <2>8. wal' # <<>> /\ wal'[Len(wal')] = Len(batches')
    BY <2>1, <2>3, <2>4
  <2>9. /\ Wellformed(wal, Torn)'
        /\ \A i \in 1..walFlushed' : wal'[i] # Torn
        /\ \A i \in 1..replayed' : wal'[i] # Torn
    BY <2>1, <2>2, <2>3, <2>6 DEF Wellformed, Torn
  <2> QED
    BY <2>2, <2>6, <2>7, <2>8, <2>9 DEF WalInv
<1>2. CASE WriteSync
  <2>1. phase = "open" /\ ~walErr
    BY <1>2 DEF WriteSync, PhaseInv
  <2> QED
    BY <1>2, <2>1, WalSame DEF WriteSync, histVars
<1>3. CASE WriteSyncFails
  <2>1. phase = "open" /\ ~walErr
    BY <1>3 DEF WriteSyncFails, PhaseInv
  <2> QED
    BY <1>3, <2>1, WalSame DEF WriteSyncFails, histVars
<1>4. CASE WriteBufferFails
  <2>1. walFlushed \in Nat /\ phase = "open" /\ replayed = 0
    BY <1>4 DEF Types, PhaseInv, WriteBufferFails
  <2>2. /\ wal' \in Survivors(wal, walFlushed, Torn)
        /\ walFlushed' = Len(Trimmed(wal', Torn))
        /\ walErr' /\ writing' = "none" /\ replayed' = 0 /\ batches' = batches
    BY <1>4, <2>1 DEF WriteBufferFails, histVars
  <2> QED
    BY <2>1, <2>2, WalSurvives, WalCut
<1>5. CASE WriteApply
  BY <1>5, WalSame DEF WriteApply, walVars, PhaseInv
<1>6. ASSUME NEW id \in stalled, StallResume(id) PROVE WalInv'
  BY <1>6, WalSame DEF StallResume, walVars, Unlocked
<1>7. CASE Flush \/ FlushBegin
  BY <1>7, WalSame DEF Flush, FlushBegin, walVars, histVars, Unlocked
<1>8. CASE WriteSST \/ WriteSSTFails
  <2>1. writing' = writing /\ UNCHANGED <<walVars, batches, phase, walErr, replayed>>
    BY <1>8 DEF WriteSST, WriteSSTFails, histVars
  <2>2. writing = "synced" => walSynced = Len(wal)
    BY DEF WalInv
  <2> QED
    BY <2>1, <2>2, WalSame DEF walVars
<1>9. CASE PublishEdit \/ PublishInstall \/ PublishFails
  <2>1. writing = "none" /\ writing' = "none"
    BY <1>9 DEF PublishEdit, PublishInstall, PublishFails, Unlocked, PhaseInv
  <2>2. UNCHANGED <<walVars, batches, phase, walErr, replayed>>
    BY <1>9 DEF PublishEdit, PublishInstall, PublishFails, histVars
  <2> QED
    BY <2>1, <2>2, WalSame DEF walVars
<1>10. ASSUME Gone, UNCHANGED batches, NEW lo \in Nat, lo <= walFlushed,
              wal' \in Survivors(wal, lo, Torn), walFlushed' = Len(Trimmed(wal', Torn))
       PROVE  WalInv'
  <2>1. phase' # "open" /\ writing' = "none" /\ replayed' = 0
    BY <1>10 DEF Gone
  <2> QED
    BY <1>10, <2>1, WalSurvives, WalCut
<1>11. ASSUME Gone, UNCHANGED <<batches, wal>>,
              \/ walErr /\ walFlushed' = walFlushed
              \/ ~walErr /\ phase = "open" /\ walFlushed' = Len(wal)
       PROVE  WalInv'
  <2>1. phase' # "open" /\ writing' = "none" /\ replayed' = 0
    BY <1>11 DEF Gone
  <2>a. walFlushed \in Nat /\ Len(wal) \in Nat /\ walFlushed <= Len(wal)
    BY ONLY Types DEF Types
  <2>b. Len(wal) \in Nat /\ walFlushed' \in Nat /\ walFlushed' <= Len(wal)
    BY ONLY <1>11, <2>a
  <2>2. /\ \A i \in 1..walFlushed' : wal[i] # Torn
        /\ \A i \in 1..Len(wal) : i > walFlushed' => wal[i] = Torn
    BY ONLY <1>11, <2>a, WalInv DEF WalInv
  <2>3. Len(wal) <= walFlushed' + 1
    <3> SUFFICES ASSUME Len(wal) > walFlushed' + 1 PROVE FALSE
        BY <2>b
    <3>1. walFlushed' + 1 \in 1..Len(wal) /\ walFlushed' + 1 \in 1..(Len(wal) - 1)
          /\ walFlushed' + 1 > walFlushed'
      <4>1. \A m, n \in Nat : n > m + 1 => m + 1 \in 1..n /\ m + 1 \in 1..(n - 1) /\ m + 1 > m
        OBVIOUS
      <4> QED
        BY <2>b, <4>1, Zenon
    <3> QED
      BY <2>2, <3>1 DEF WalInv, Wellformed
  <2> QED
    BY <1>11, <2>1, <2>b, <2>2, <2>3, WalCut
<1>12. CASE Close
  <2>1. walFlushed \in Nat /\ walFlushed <= walFlushed
    BY DEF Types
  <2> QED
    BY <1>12, <1>10, <1>11, <2>1 DEF Close
<1>13. CASE Kill
  <2>1. walFlushed \in Nat /\ walFlushed <= walFlushed
    BY DEF Types
  <2> QED
    BY <1>13, <1>10, <1>11, <2>1 DEF Kill
<1>14. CASE PowerLoss
  <2>1. walSynced \in Nat /\ walSynced <= walFlushed
    BY DEF Types
  <2> QED
    BY <1>14, <1>10, <2>1 DEF PowerLoss
<1>15. CASE OpenManifest
  <2>1. UNCHANGED <<walVars, walErr, replayed, writing, batches>> /\ writing = "none"
    BY <1>15 DEF OpenManifest, histVars, PhaseInv
  <2>2. phase = "down" /\ phase' = "replay"
    BY <1>15 DEF OpenManifest
  <2> QED
    BY <2>1, <2>2 DEF WalInv, walVars, Wellformed
<1>16. CASE ReplayRecord
  <2>1. UNCHANGED <<walVars, walErr, phase, writing, batches>> /\ writing = "none"
    BY <1>16 DEF ReplayRecord, histVars, PhaseInv
  <2>2. \A i \in 1..replayed' : wal'[i] # Torn
    BY <1>16, <2>1 DEF ReplayRecord, WalInv, Types, walVars
  <2> QED
    BY <2>1, <2>2 DEF WalInv, walVars, Wellformed
<1>17. CASE ReplayEnd
  <2>1. /\ phase = "replay" /\ phase' = "open" /\ replayed' = 0 /\ writing' = "none"
        /\ ~walErr' /\ batches' = batches
    BY <1>17 DEF ReplayEnd, histVars, PhaseInv
  <2>2. replayed \in Nat /\ wal \in Seq(Nat) /\ Len(wal) \in Nat
    BY DEF Types
  <2>3. /\ Len(wal') = replayed /\ replayed <= Len(wal)
        /\ \A i \in 1..replayed : wal'[i] = wal[i] /\ wal[i] # Torn
    <3>a. replayed <= Len(wal)
      BY ONLY Types DEF Types
    <3>1. \A i \in 1..replayed : wal[i] # Torn /\ wal[i] \in Nat
      BY ONLY <2>2, <3>a, WalInv DEF WalInv
    <3>2. CASE replayed = Len(wal) /\ UNCHANGED walVars
      BY <3>1, <3>2, <2>2 DEF walVars
    <3>3. CASE replayed = Len(wal) - 1 /\ wal' = SubSeq(wal, 1, replayed)
      <4>1. \A i \in 1..replayed : wal[i] \in Nat
        BY <3>1
      <4>2. Len(wal') = replayed /\ \A i \in 1..replayed : wal'[i] = wal[i]
        BY <2>2, <3>3, <4>1, SubSeqProperties
      <4> QED
        BY <2>2, <3>1, <3>3, <4>2
    <3> QED
      BY <1>17, <3>2, <3>3 DEF ReplayEnd
  <2>4. \A i \in 1..Len(wal') : /\ i \in 1..Len(wal) /\ wal'[i] # Torn
                                /\ wal'[i] \in 1..Len(batches')
    BY SMTT(30), <2>1, <2>2, <2>3 DEF WalInv
  <2>5. \A i, j \in 1..Len(wal') : i < j => wal'[i] < wal'[j]
    BY <2>2, <2>3, <2>4 DEF WalInv
  <2>6. walFlushed' \in Nat /\ walFlushed' <= Len(wal') /\ Len(wal') \in Nat
    BY <2>2, <2>3 DEF Types
  <2>7. Wellformed(wal, Torn)' /\ (\A i \in 1..walFlushed' : wal'[i] # Torn)
        /\ \A i \in 1..replayed' : wal'[i] # Torn
    BY <2>1, <2>4, <2>6 DEF Wellformed, Torn
  <2> QED
    BY <2>1, <2>4, <2>5, <2>7 DEF WalInv
<1> QED
  BY <1>1, <1>2, <1>3, <1>4, <1>5, <1>6, <1>7, <1>8, <1>9, <1>12,
     <1>13, <1>14, <1>15, <1>16, <1>17 DEF Next

-----------------------------------------------------------------------------
(* The manifest. *)

LEMMA ManifestInit == Init => ManifestInv
<1> HAVE Init
<1>1. manifest = <<[file |-> 0, next |-> 1, last |-> 0]>> /\ manSynced = 1 /\ phase = "down"
  BY DEF Init
<1>2. Len(manifest) = 1 /\ manifest[1] = [file |-> 0, next |-> 1, last |-> 0]
  BY <1>1
<1>3. manifest[1] # TornEdit
  BY <1>2 DEF TornEdit
<1> HIDE <1>1
<1> QED
  BY <1>1, <1>2, <1>3 DEF ManifestInv, Wellformed

(* The edits stay.                                                         *)
LEMMA ManifestSame ==
    ASSUME Types, ManifestInv, Types', UNCHANGED manifest,
           manSynced' \in {manSynced, Len(manifest)},
           phase' # "down" =>
             /\ phase # "down" /\ nextSSTID' = nextSSTID /\ seqno <= seqno'
             /\ ~flushErr' => ~flushErr /\ (flushing' = "edited" <=> flushing = "edited")
    PROVE  ManifestInv'
<1>1. Len(manifest) \in Nat /\ manifest \in Seq(Edits) /\ seqno \in Nat /\ manSynced \in 0..Len(manifest)
  BY ONLY Types DEF Types
<1>2. seqno' \in Nat
  BY ONLY Types' DEF Types
<1>3. manSynced' >= 1
  BY <1>1 DEF ManifestInv
<1>4. ASSUME phase' # "down", NEW i \in 1..Len(manifest) PROVE manifest[i].last <= seqno'
  <2>1. manifest[i].last \in Nat
    BY <1>1, EditType
  <2>2. manifest[i].last <= seqno /\ seqno <= seqno'
    BY <1>4 DEF ManifestInv
  <2> QED
    BY <1>1, <1>2, <2>1, <2>2
<1> QED
  BY <1>3, <1>4 DEF ManifestInv, Wellformed

(* An edit is appended, or a torn one, with the sequence number of the DB. *)
LEMMA ManifestAppend ==
    ASSUME Types, ManifestInv, phase # "down", ~flushErr, flushing # "edited",
           NEW edit \in {FlushEdit, TornEdit}, manifest' = Append(manifest, edit),
           UNCHANGED <<manSynced, phase, seqno, nextSSTID>>,
           flushErr' <=> edit = TornEdit,
           flushing' = "edited" <=> edit # TornEdit
    PROVE  ManifestInv'
<1>1. /\ Len(manifest) \in Nat /\ manifest \in Seq(Edits) /\ seqno \in Nat
      /\ nextSSTID \in Nat /\ manSynced \in 0..Len(manifest)
  BY ONLY Types DEF Types
<1>2. /\ nextSSTID = Len(manifest) /\ manifest[Len(manifest)] # TornEdit
      /\ Len(manifest) >= 1
      /\ \A i \in 1..Len(manifest) : manifest[i] # TornEdit /\ manifest[i].last <= seqno
  BY DEF ManifestInv
<1>3. edit \in Edits /\ edit.last <= seqno
  BY <1>1 DEF FlushEdit, TornEdit, Edits
<1>4. edit # TornEdit => edit.file = Len(manifest) /\ edit.next = Len(manifest) + 1 /\ edit.last = seqno
  BY <1>2 DEF FlushEdit
<1>5. /\ Len(manifest') = Len(manifest) + 1 /\ manifest'[Len(manifest) + 1] = edit
      /\ \A i \in 1..Len(manifest) : manifest'[i] = manifest[i]
  BY <1>1, <1>3, AppendProperties
<1>6. \A i \in 1..Len(manifest') : i \in 1..Len(manifest) \/ i = Len(manifest) + 1
  BY <1>1, <1>5
<1>7. \A i \in 1..(Len(manifest') - 1) : i \in 1..Len(manifest)
  BY <1>1, <1>5
<1>8. Wellformed(manifest, TornEdit)' /\ manifest'[1] # TornEdit /\ manSynced' >= 1
  <2>1. \A i \in 1..(Len(manifest') - 1) : manifest'[i] # TornEdit
    BY <1>2, <1>5, <1>7
  <2> QED
    BY <1>1, <1>2, <1>5, <2>1 DEF ManifestInv, Wellformed, TornEdit
<1>9. \A i \in 1..Len(manifest') : manifest'[i] # TornEdit =>
         manifest'[i].file = i - 1 /\ manifest'[i].next = i
  <2> SUFFICES ASSUME NEW i \in 1..Len(manifest'), manifest'[i] # TornEdit
               PROVE  manifest'[i].file = i - 1 /\ manifest'[i].next = i
      OBVIOUS
  <2>1. CASE i \in 1..Len(manifest)
    BY <1>2, <1>5, <2>1 DEF ManifestInv
  <2>2. CASE i = Len(manifest) + 1
    BY <1>1, <1>4, <1>5, <2>2
  <2> QED
    BY <1>6, <2>1, <2>2
<1>10. \A i, j \in 1..Len(manifest') : i < j /\ manifest'[j] # TornEdit =>
         manifest'[i].last <= manifest'[j].last
  <2> SUFFICES ASSUME NEW i \in 1..Len(manifest'), NEW j \in 1..Len(manifest'),
                      i < j, manifest'[j] # TornEdit
               PROVE  manifest'[i].last <= manifest'[j].last
      OBVIOUS
  <2>0. i \in 1..Len(manifest)
    BY <1>1, <1>6
  <2>1. CASE j \in 1..Len(manifest)
    BY <1>2, <1>5, <2>0, <2>1 DEF ManifestInv
  <2>2. CASE j = Len(manifest) + 1
    BY <1>2, <1>4, <1>5, <2>0, <2>2
  <2> QED
    BY <1>6, <2>1, <2>2
<1>11. /\ \A i \in 1..Len(manifest') : manifest'[i].last <= seqno'
       /\ nextSSTID' \in 1..Len(manifest')
       /\ \A i \in 1..nextSSTID' : manifest'[i] # TornEdit
  BY <1>1, <1>2, <1>3, <1>5, <1>6
<1>12. ~flushErr' => /\ manifest'[Len(manifest')] # TornEdit /\ flushing' = "edited"
                     /\ nextSSTID' = Len(manifest') - 1
  BY <1>1, <1>2, <1>5
<1> QED
  BY <1>8, <1>9, <1>10, <1>11, <1>12 DEF ManifestInv

(* A prefix of the edits is left, perhaps with a torn one behind it.       *)
LEMMA ManifestCut ==
    ASSUME Types, ManifestInv, Types', NEW n \in 1..Len(manifest),
           manSynced' >= 1, n <= Len(manifest'), Len(manifest') <= n + 1,
           \A i \in 1..n : manifest'[i] = manifest[i] /\ manifest[i] # TornEdit,
           \A i \in 1..Len(manifest') : i > n => manifest'[i] = TornEdit,
           phase' # "down" =>
             /\ Len(manifest') = n /\ nextSSTID' = n /\ seqno' = manifest[n].last
             /\ flushing' # "edited"
    PROVE  ManifestInv'
<1>1. /\ Len(manifest) \in Nat /\ manifest \in Seq(Edits)
      /\ Len(manifest') \in Nat /\ n \in Nat /\ n >= 1
  <2>1. Len(manifest) \in Nat /\ manifest \in Seq(Edits)
    BY ONLY Types DEF Types
  <2>2. Len(manifest') \in Nat
    BY ONLY Types' DEF Types
  <2> QED
    BY ONLY <2>1, <2>2, n \in 1..Len(manifest)
<1>2. \A i \in 1..Len(manifest') : manifest'[i] # TornEdit => i \in 1..n /\ i \in 1..Len(manifest)
  BY <1>1
<1>3. Wellformed(manifest, TornEdit)' /\ manifest'[1] # TornEdit
  BY <1>1 DEF Wellformed, TornEdit
<1>4. \A i \in 1..Len(manifest') : manifest'[i] # TornEdit =>
         manifest'[i].file = i - 1 /\ manifest'[i].next = i
  BY <1>1, <1>2 DEF ManifestInv
<1>5. \A i, j \in 1..Len(manifest') : i < j /\ manifest'[j] # TornEdit =>
         manifest'[i].last <= manifest'[j].last
  <2> SUFFICES ASSUME NEW i \in 1..Len(manifest'), NEW j \in 1..Len(manifest'),
                      i < j, manifest'[j] # TornEdit
               PROVE  manifest'[i].last <= manifest'[j].last
      OBVIOUS
  <2>1. j \in 1..n /\ j \in 1..Len(manifest) /\ i \in 1..n /\ i \in 1..Len(manifest)
    BY <1>1, <1>2
  <2> QED
    BY <2>1 DEF ManifestInv
<1>6. ASSUME phase' # "down", NEW i \in 1..n PROVE manifest[i].last <= manifest[n].last
  <2>a. i \in 1..Len(manifest) /\ n \in 1..n /\ n \in 1..Len(manifest)
    BY ONLY <1>1, <1>6, n \in 1..Len(manifest)
  <2>b. manifest[n].last \in Nat
    BY <1>1, <2>a, EditType
  <2>1. i \in 1..Len(manifest) /\ n \in 1..n /\ manifest[n].last \in Nat /\ manifest[n] # TornEdit
    BY <2>a, <2>b
  <2>2. i < n \/ i = n
    BY <1>1
  <2> QED
    BY <2>1, <2>2 DEF ManifestInv
<1>7. phase' # "down" =>
       /\ \A i \in 1..Len(manifest') : manifest'[i].last <= seqno'
       /\ nextSSTID' \in 1..Len(manifest')
       /\ \A i \in 1..nextSSTID' : manifest'[i] # TornEdit
       /\ manifest'[Len(manifest')] # TornEdit
       /\ nextSSTID' = Len(manifest') /\ flushing' # "edited"
  BY <1>1, <1>6
<1> QED
  BY <1>3, <1>4, <1>5, <1>7 DEF ManifestInv

LEMMA ManifestStep == Core /\ Types' /\ PhaseInv' /\ Next => ManifestInv'
<1> SUFFICES ASSUME Core, Types', PhaseInv', Next PROVE ManifestInv'
    OBVIOUS
<1>0. Types /\ PhaseInv /\ WalInv /\ ManifestInv
  BY DEF Core
<1> USE <1>0
<1>a. seqno \in Nat /\ seqno <= seqno
  BY ONLY Types DEF Types
<1>1. ASSUME \/ \E b \in Batches : WriteAppend(b)
             \/ WriteSync \/ WriteSyncFails \/ WriteBufferFails
             \/ \E id \in stalled : StallResume(id)
             \/ Flush \/ FlushBegin \/ WriteSST \/ WriteSSTFails
             \/ ReplayEnd
      PROVE  ManifestInv'
  <2>1. UNCHANGED <<manVars, seqno, nextSSTID>> /\ (phase' = phase \/ phase = "replay")
    BY <1>1 DEF WriteAppend, WriteSync, WriteSyncFails, WriteBufferFails,
                StallResume, Flush, FlushBegin, WriteSST, WriteSSTFails, ReplayEnd
  <2>2. ~flushErr' => ~flushErr /\ (flushing' = "edited" <=> flushing = "edited")
    BY <1>1 DEF WriteAppend, WriteSync, WriteSyncFails, WriteBufferFails,
                StallResume, Flush, FlushBegin, WriteSST, WriteSSTFails, ReplayEnd
  <2> QED
    BY <1>a, <2>1, <2>2, ManifestSame DEF manVars
<1>2. CASE WriteApply
  <2>1. Len(batches) \in 1..Len(batches)
    BY <1>2, LastBatch DEF WriteApply
  <2>2. Len(batches[Len(batches)]) \in Nat
    BY <2>1, BatchType
  <2>3. seqno <= seqno'
    BY <1>2, <1>a, <2>2 DEF WriteApply
  <2> QED
    BY <1>2, <2>3, ManifestSame DEF WriteApply, manVars, PhaseInv
<1>3. CASE ReplayRecord
  <2>1. wal[replayed + 1] \in 1..Len(batches)
    BY <1>3, ReplayedBatch DEF ReplayRecord
  <2>2. Len(batches[wal[replayed + 1]]) \in Nat
    BY <2>1, BatchType
  <2>3. seqno <= seqno'
    BY <1>3, <1>a, <2>2 DEF ReplayRecord
  <2> QED
    BY <1>3, <2>3, ManifestSame DEF ReplayRecord, manVars
<1>4. CASE PublishEdit
  <2>1. phase # "down" /\ ~flushErr /\ flushing # "edited"
    BY <1>4 DEF PublishEdit, PhaseInv, Unlocked
  <2>2. FlushEdit # TornEdit
    BY <1>a DEF FlushEdit, TornEdit, Types
  <2> QED
    BY <1>4, <2>1, <2>2, ManifestAppend DEF PublishEdit
<1>5. CASE PublishFails
  <2>1. phase # "down" /\ ~flushErr /\ flushErr' /\ flushing' = "none"
    BY <1>5 DEF PublishFails, PhaseInv, Unlocked
  <2>2. CASE manifest' = manifest
    BY <1>5, <1>a, <2>1, <2>2, ManifestSame DEF PublishFails
  <2>3. CASE flushing = "written" /\ manifest' = Append(manifest, TornEdit)
    BY <1>5, <2>1, <2>3, ManifestAppend DEF PublishFails
  <2> QED
    BY <1>5, <2>2, <2>3 DEF PublishFails
<1>6. CASE PublishInstall
  <2>1. /\ phase # "down" /\ ~flushErr /\ flushErr' = flushErr /\ flushing' = "none"
        /\ phase' = phase /\ manifest' = manifest /\ seqno' = seqno
        /\ manSynced' = Len(manifest) /\ nextSSTID' = nextSSTID + 1
        /\ flushing = "edited"
    BY <1>6 DEF PublishInstall, PhaseInv
  <2>2. Len(manifest) \in Nat /\ manSynced \in 0..Len(manifest)
    BY ONLY Types DEF Types
  <2>3. /\ Len(manifest) >= 1 /\ nextSSTID' = Len(manifest)
        /\ manifest[Len(manifest)] # TornEdit /\ manSynced' >= 1
    BY <2>1, <2>2 DEF ManifestInv
  <2>4. \A i \in 1..Len(manifest) : manifest[i] # TornEdit
    BY <2>2, <2>3 DEF ManifestInv, Wellformed
  <2> QED
    BY <2>1, <2>2, <2>3, <2>4 DEF ManifestInv, Wellformed
<1>7. CASE Close \/ Kill
  <2>1. phase' = "down" /\ manifest' = manifest /\ manSynced' \in {manSynced, Len(manifest)}
    BY <1>7 DEF Close, Kill, Gone, manVars
  <2> QED
    BY <2>1, ManifestSame
<1>8. CASE PowerLoss
  <2> DEFINE n == Len(Trimmed(manifest', TornEdit))
  <2>1. manifest' \in Survivors(manifest, manSynced, TornEdit) /\ manSynced' = n /\ phase' = "down"
    BY <1>8 DEF PowerLoss, Gone
  <2>2. /\ n \in 1..Len(manifest) /\ n <= Len(manifest') /\ Len(manifest') <= n + 1
        /\ \A i \in 1..n : manifest'[i] = manifest[i] /\ manifest'[i] # TornEdit
        /\ \A i \in 1..Len(manifest') : i > n => manifest'[i] = TornEdit
    BY <2>1, ManifestSurvives
  <2> HIDE DEF n
  <2>3. manSynced' >= 1
    BY <2>1, <2>2
  <2> QED
    BY <2>1, <2>2, <2>3, ManifestCut
<1>9. CASE OpenManifest
  <2> DEFINE man == Trimmed(manifest, TornEdit)
  <2>1. /\ man \in Seq(Edits) /\ Len(man) \in 1..Len(manifest)
        /\ \A i \in 1..Len(man) : man[i] = manifest[i] /\ manifest[i] # TornEdit
    BY TrimmedManifest
  <2>2. /\ manifest' = man /\ manSynced' = Smaller(manSynced, Len(man))
        /\ seqno' = man[Len(man)].last /\ nextSSTID' = man[Len(man)].next
        /\ flushing' = "none"
    BY <1>9 DEF OpenManifest, PhaseInv
  <2> HIDE DEF man
  <2>a. manSynced \in Nat /\ Len(manifest) \in Nat
    BY ONLY Types DEF Types
  <2>3. Len(man) \in Nat /\ Len(man) >= 1 /\ manSynced \in Nat /\ Len(manifest) \in Nat
    BY ONLY <2>1, <2>a
  <2>4. manSynced' >= 1
    BY <2>2, <2>3 DEF Smaller, ManifestInv
  <2>5. Len(man) \in 1..Len(man)
    BY <2>3
  <2>6. nextSSTID' = Len(man) /\ seqno' = manifest[Len(man)].last
    BY <2>1, <2>2, <2>5 DEF ManifestInv
  <2>7. \A i \in 1..Len(manifest') : i > Len(man) => manifest'[i] = TornEdit
    BY <2>2, <2>3
  <2>8. Len(man) <= Len(manifest') /\ Len(manifest') <= Len(man) + 1
    BY <2>2, <2>3
  <2> QED
    BY <2>1, <2>2, <2>4, <2>6, <2>7, <2>8, ManifestCut
<1> QED
  BY <1>1, <1>2, <1>3, <1>4, <1>5, <1>6, <1>7, <1>8, <1>9 DEF Next

-----------------------------------------------------------------------------
(* The SSTables. *)

LEMMA TablesInit == Init => TablesInv
<1> HAVE Init
<1>1. manifest = <<[file |-> 0, next |-> 1, last |-> 0]>> /\ phase = "down" /\ flushing = "none"
  BY DEF Init
<1>2. Len(manifest) = 1
  BY <1>1
<1>3. 2..Len(manifest) = {}
  BY <1>2
<1> QED
  BY <1>1, <1>3 DEF TablesInv, NamedInv

(* A prefix of the edits is left, and no SSTable that they name changes.   *)
LEMMA NamedKept ==
    ASSUME Types, ManifestInv, NamedInv, Types', NEW n \in 1..Len(manifest),
           \A i \in 1..n : manifest'[i] = manifest[i],
           \A i \in 1..Len(manifest') : i > n => manifest'[i] = TornEdit,
           \A i \in 2..n : manifest[i] # TornEdit => files'[i - 1] = files[i - 1]
    PROVE  NamedInv'
<1>1. /\ Len(manifest) \in Nat /\ n \in Nat /\ n <= Len(manifest) /\ n >= 1
  <2>1. Len(manifest) \in Nat
    BY ONLY Types DEF Types
  <2> QED
    BY ONLY <2>1, n \in 1..Len(manifest)
<1>2. Len(manifest') \in Nat
  BY ONLY Types' DEF Types
<1>3. ASSUME NEW i \in 2..Len(manifest'), manifest'[i] # TornEdit
      PROVE  /\ i \in 2..n /\ i \in 2..Len(manifest)
             /\ manifest'[i] = manifest[i] /\ files'[i - 1] = files[i - 1]
  <2>1. i \in 1..Len(manifest') /\ i \in Nat /\ i >= 2
    BY ONLY <1>2, i \in 2..Len(manifest')
  <2>2. ~(i > n)
    BY <1>3, <2>1
  <2>3. i \in 2..n /\ i \in 2..Len(manifest) /\ i \in 1..n
    BY ONLY <1>1, <2>1, <2>2
  <2> QED
    BY <1>3, <2>3
<1>4. ASSUME NEW i \in 2..Len(manifest'), manifest'[i] # TornEdit
      PROVE  /\ i - 1 \in FileIDs /\ files'[i - 1].state = "complete"
             /\ \A e \in files'[i - 1].data : e.seq <= manifest'[i].last
  <2>1. /\ i \in 2..Len(manifest) /\ manifest'[i] = manifest[i] /\ manifest[i] # TornEdit
        /\ files'[i - 1] = files[i - 1]
    BY <1>3, <1>4
  <2> QED
    BY <2>1 DEF NamedInv
<1>5. ASSUME NEW i \in 2..Len(manifest'), NEW j \in 2..Len(manifest'),
             i < j, manifest'[j] # TornEdit
      PROVE  \A e \in files'[i - 1].data, f \in files'[j - 1].data : e.seq < f.seq
  <2>1. /\ j \in 2..n /\ j \in 2..Len(manifest) /\ manifest[j] # TornEdit
        /\ files'[j - 1] = files[j - 1]
    BY <1>3, <1>5
  <2>2. i \in 2..n /\ i \in 2..Len(manifest) /\ i \in 1..(Len(manifest) - 1)
    BY ONLY <1>1, <1>2, <1>5, <2>1
  <2>3. manifest[i] # TornEdit
    BY <2>2 DEF ManifestInv, Wellformed
  <2>4. files'[i - 1] = files[i - 1]
    BY <2>2, <2>3
  <2> QED
    BY <1>5, <2>1, <2>2, <2>4 DEF NamedInv
<1> QED
  BY <1>4, <1>5 DEF NamedInv

(* The same, with the manifest as it was.                                  *)
LEMMA NamedSame ==
    ASSUME Types, ManifestInv, NamedInv, Types', manifest' = manifest,
           \A i \in 2..Len(manifest) : manifest[i] # TornEdit => files'[i - 1] = files[i - 1]
    PROVE  NamedInv'
<1>1. Len(manifest) \in Nat /\ Len(manifest) >= 1
  BY ManifestLen
<1>2. Len(manifest) \in 1..Len(manifest)
  BY <1>1
<1>3. \A i \in 1..Len(manifest') : i > Len(manifest) => manifest'[i] = TornEdit
  BY <1>1
<1> QED
  BY <1>2, <1>3, NamedKept

(* While an SSTable is written its id is not in the manifest.              *)
LEMMA FreshID ==
    ASSUME Types, PhaseInv, ManifestInv, TablesInv, flushing \in {"io", "written"}
    PROVE  /\ phase = "open" /\ ~flushErr /\ nextSSTID \in FileIDs
           /\ nextSSTID = Len(manifest) /\ nextSSTID \in Nat /\ nextSSTID >= 1
           /\ \A i \in 2..Len(manifest) : i - 1 # nextSSTID
           /\ \A i \in 1..Len(manifest) : manifest[i] # TornEdit
           /\ Len(ssts) = Len(manifest) - 1
<1>1. phase = "open" /\ ~flushErr /\ flushing # "edited"
  BY DEF PhaseInv
<1>2. Len(manifest) \in Nat
  BY DEF Types
<1>3. nextSSTID = Len(manifest) /\ nextSSTID \in FileIDs /\ Len(manifest) >= 1
  BY <1>1, <1>2 DEF ManifestInv, TablesInv
<1>4. Len(ssts) = nextSSTID - 1 /\ \A i \in 1..nextSSTID : manifest[i] # TornEdit
  BY <1>1 DEF ManifestInv, TablesInv
<1> QED
  BY <1>1, <1>2, <1>3, <1>4

(* A flush step that leaves manifest and tables alone, but may write a     *)
(* file whose id is not in the manifest.                                   *)
LEMMA TablesSame ==
    ASSUME Types, ManifestInv, TablesInv, Types', manifest' = manifest,
           files' = files \/ /\ flushing = "io"
                             /\ \A f \in FileIDs : f # nextSSTID => files'[f] = files[f],
           flushing \in {"io", "written"} => \A i \in 2..Len(manifest) : i - 1 # nextSSTID,
           phase' # "down" =>
             /\ UNCHANGED <<ssts, nextSSTID>> /\ phase # "down",
           flushing' # "none" => phase' # "down" /\ nextSSTID \in FileIDs,
           flushing' \in {"written", "edited"} =>
             \/ files' = files /\ flushing \in {"written", "edited"} /\ immMem' = immMem
             \/ files'[nextSSTID] = [state |-> "complete", data |-> Imm'],
           \A i \in 1..Len(ssts) : flushing = "io" => i # nextSSTID /\ i \in FileIDs
    PROVE  TablesInv'
<1>0. NamedInv
  BY DEF TablesInv
<1>1. ASSUME NEW i \in 2..Len(manifest), manifest[i] # TornEdit
      PROVE  files'[i - 1] = files[i - 1]
  <2>1. i - 1 \in FileIDs
    BY <1>0, <1>1 DEF NamedInv
  <2> QED
    BY <2>1
<1>2. NamedInv'
  BY <1>0, <1>1, NamedSame
<1>3. phase' # "down" =>
         /\ Len(ssts') = nextSSTID' - 1
         /\ \A i \in 1..Len(ssts') : ssts'[i] = files'[i].data
  BY DEF TablesInv
<1>4. flushing' \in {"written", "edited"} =>
         files'[nextSSTID'] = [state |-> "complete", data |-> Imm']
  BY DEF TablesInv, Imm
<1>5. flushing' # "none" => nextSSTID' \in FileIDs
  OBVIOUS
<1> QED
  BY <1>2, <1>3, <1>4, <1>5 DEF TablesInv

(* Open tables and the fresh id.                                           *)
LEMMA OpenTables ==
    ASSUME Types, PhaseInv, ManifestInv, TablesInv, flushing \in {"io", "written"}
    PROVE  \A i \in 1..Len(ssts) : i # nextSSTID /\ i \in FileIDs
<1>1. /\ Len(ssts) = Len(manifest) - 1 /\ nextSSTID = Len(manifest)
      /\ nextSSTID \in 1..MaxFiles /\ nextSSTID \in Nat
  BY FreshID DEF FileIDs
<1>2. MaxFiles \in Nat
  BY EngineConstants
<1> QED
  BY <1>1, <1>2 DEF FileIDs

LEMMA TablesStep == Core /\ Types' /\ PhaseInv' /\ ManifestInv' /\ Next => TablesInv'
<1> SUFFICES ASSUME Core, Types', PhaseInv', ManifestInv', Next PROVE TablesInv'
    OBVIOUS
<1>0. Types /\ PhaseInv /\ ManifestInv /\ TablesInv /\ LayersInv
  BY DEF Core
<1> USE <1>0
<1>a. /\ flushing \in {"io", "written"} => \A i \in 2..Len(manifest) : i - 1 # nextSSTID
      /\ \A i \in 1..Len(ssts) : flushing = "io" => i # nextSSTID /\ i \in FileIDs
  BY FreshID, OpenTables
<1>b. flushing # "none" => nextSSTID \in FileIDs /\ phase # "down" /\ immMem # <<>>
  BY DEF TablesInv, PhaseInv
<1>1. ASSUME \/ \E b \in Batches : WriteAppend(b)
             \/ WriteSync \/ WriteSyncFails \/ WriteBufferFails \/ WriteApply
             \/ \E id \in stalled : StallResume(id)
             \/ Flush \/ ReplayRecord \/ ReplayEnd
      PROVE  TablesInv'
  <2>1. /\ UNCHANGED <<manifest, files, ssts, nextSSTID, flushing>>
        /\ phase' = phase \/ phase = "replay"
    BY <1>1 DEF WriteAppend, WriteSync, WriteSyncFails, WriteBufferFails, WriteApply,
                StallResume, Flush, ReplayRecord, ReplayEnd, manVars
  <2>2. immMem = <<>> \/ immMem' = immMem
    BY <1>1 DEF WriteAppend, WriteSync, WriteSyncFails, WriteBufferFails, WriteApply,
                StallResume, Flush, ReplayRecord, ReplayEnd, MaybeAutoFlush
  <2> QED
    BY <1>a, <1>b, <2>1, <2>2, TablesSame DEF PhaseInv
<1>2. CASE FlushBegin
  <2>1. /\ UNCHANGED <<manifest, files, ssts, nextSSTID, phase>>
        /\ flushing' \in {"none", "io"} /\ phase = "open"
        /\ flushing' = "io" => nextSSTID <= MaxFiles
    BY <1>2 DEF FlushBegin, manVars
  <2>2. nextSSTID \in Nat /\ nextSSTID >= 1 /\ MaxFiles \in Nat
    BY <2>1, EngineConstants DEF ManifestInv, Types
  <2>3. flushing' = "io" => nextSSTID \in FileIDs
    BY <2>1, <2>2 DEF FileIDs
  <2> QED
    BY <1>a, <1>b, <2>1, <2>3, TablesSame
<1>3. CASE WriteSST
  <2>1. /\ UNCHANGED <<manifest, ssts, nextSSTID, phase, immMem>> /\ flushing = "io"
        /\ files' = [files EXCEPT ![nextSSTID] = [state |-> "complete", data |-> Imm]]
        /\ flushing' = "written" /\ Imm' = Imm
    BY <1>3 DEF WriteSST, manVars, Imm
  <2>2. files'[nextSSTID] = [state |-> "complete", data |-> Imm]
        /\ \A f \in FileIDs : f # nextSSTID => files'[f] = files[f]
    BY <1>b, <2>1 DEF Types
  <2> QED
    BY <1>a, <1>b, <2>1, <2>2, TablesSame
<1>4. ASSUME flushing = "io", NEW left, files' = [files EXCEPT ![nextSSTID] = left]
      PROVE  \A f \in FileIDs : f # nextSSTID => files'[f] = files[f]
  BY <1>4 DEF Types
<1>5. CASE WriteSSTFails
  <2>1. /\ UNCHANGED <<manifest, ssts, nextSSTID, phase>> /\ flushing = "io"
        /\ \E left \in Unfinished : files' = [files EXCEPT ![nextSSTID] = left]
        /\ flushing' = "none"
    BY <1>5 DEF WriteSSTFails, manVars
  <2>2. \A f \in FileIDs : f # nextSSTID => files'[f] = files[f]
    BY <2>1, <1>4
  <2> QED
    BY <1>a, <1>b, <2>1, <2>2, TablesSame
<1>6. CASE Close \/ Kill
  <2>1. phase' = "down" /\ manifest' = manifest /\ flushing' = "none"
    BY <1>6 DEF Close, Kill, Gone, manVars
  <2>2. files' = files \/ /\ flushing = "io"
                          /\ \A f \in FileIDs : f # nextSSTID => files'[f] = files[f]
    BY <1>4, <1>6 DEF Close, Kill
  <2> QED
    BY <1>a, <2>1, <2>2, TablesSame
<1>7. CASE PublishInstall
  <2>1. /\ flushing = "edited" /\ flushing' = "none" /\ phase' = phase /\ phase = "open"
        /\ manifest' = manifest /\ files' = files /\ nextSSTID' = nextSSTID + 1
        /\ ssts' = Append(ssts, files[nextSSTID].data)
    BY <1>7 DEF PublishInstall, PhaseInv
  <2>2. /\ Len(ssts) = nextSSTID - 1 /\ nextSSTID \in FileIDs
        /\ \A i \in 1..Len(ssts) : ssts[i] = files[i].data
    BY <2>1 DEF TablesInv
  <2>3. ssts \in Seq(SUBSET Entries) /\ Len(ssts) \in Nat /\ nextSSTID \in Nat
    BY ONLY Types DEF Types
  <2>4. files[nextSSTID].data \in SUBSET Entries
    BY <2>2 DEF Types, FileState
  <2>5. /\ Len(ssts') = Len(ssts) + 1 /\ ssts'[Len(ssts) + 1] = files[nextSSTID].data
        /\ \A i \in 1..Len(ssts) : ssts'[i] = ssts[i]
    BY <2>1, <2>3, <2>4, AppendProperties
  <2>6. Len(ssts') = nextSSTID' - 1 /\ \A i \in 1..Len(ssts') : ssts'[i] = files'[i].data
    BY <2>1, <2>2, <2>3, <2>5
  <2>7. NamedInv'
    BY <2>1, NamedSame DEF TablesInv
  <2> QED
    BY <2>1, <2>6, <2>7 DEF TablesInv
<1>8. CASE PublishFails
  <2>1. /\ flushing' = "none" /\ phase' = phase /\ files' = files /\ nextSSTID' = nextSSTID
        /\ ssts' = ssts
    BY <1>8 DEF PublishFails
  <2>2. NamedInv'
    <3>1. CASE manifest' = manifest
      BY <2>1, <3>1, NamedSame DEF TablesInv
    <3>2. CASE manifest' = Append(manifest, TornEdit)
      <4>1. manifest \in Seq(Edits) /\ Len(manifest) \in Nat /\ Len(manifest) >= 1 /\ TornEdit \in Edits
        BY ManifestLen
      <4>2. /\ Len(manifest') = Len(manifest) + 1 /\ manifest'[Len(manifest) + 1] = TornEdit
            /\ \A i \in 1..Len(manifest) : manifest'[i] = manifest[i]
        BY <3>2, <4>1, AppendProperties
      <4>3. Len(manifest) \in 1..Len(manifest)
            /\ \A i \in 1..Len(manifest') : i > Len(manifest) => i = Len(manifest) + 1
        BY <4>1, <4>2
      <4> QED
        BY <2>1, <4>2, <4>3, NamedKept DEF TablesInv
    <3> QED
      BY <1>8, <3>1, <3>2 DEF PublishFails
  <2> QED
    BY <2>1, <2>2 DEF TablesInv
<1>9. CASE PublishEdit
  <2>1. /\ flushing = "written" /\ flushing' = "edited" /\ manifest' = Append(manifest, FlushEdit)
        /\ UNCHANGED <<files, phase, ssts, nextSSTID, immMem>> /\ Imm' = Imm
    BY <1>9 DEF PublishEdit, Imm
  <2>2. /\ nextSSTID \in FileIDs /\ nextSSTID = Len(manifest) /\ Len(ssts) = Len(manifest) - 1
        /\ phase = "open"
    BY <2>1, FreshID
  <2>3. /\ files[nextSSTID] = [state |-> "complete", data |-> Imm]
        /\ \A i \in 1..Len(ssts) : ssts[i] = files[i].data
    BY <2>1, <2>2 DEF TablesInv
  <2>4. manifest \in Seq(Edits) /\ Len(manifest) \in Nat /\ Len(manifest) >= 1
    BY ManifestLen
  <2>5. FlushEdit \in Edits /\ FlushEdit.last = seqno
    BY ONLY Types DEF FlushEdit, Edits, Types
  <2>6. /\ Len(manifest') = Len(manifest) + 1 /\ manifest'[Len(manifest) + 1] = FlushEdit
        /\ \A i \in 1..Len(manifest) : manifest'[i] = manifest[i]
    BY <2>1, <2>4, <2>5, AppendProperties
  <2>7. \A e \in Imm : e.seq <= seqno
    BY DEF LayersInv
  <2>8. ASSUME NEW i \in 2..Len(manifest'), manifest'[i] # TornEdit
        PROVE  /\ i - 1 \in FileIDs /\ files[i - 1].state = "complete"
               /\ \A e \in files[i - 1].data : e.seq <= manifest'[i].last
    <3>1. CASE i = Len(manifest) + 1
      <4>1. i - 1 = nextSSTID
        BY <2>2, <2>4, <3>1
      <4> QED
        BY <2>2, <2>3, <2>5, <2>6, <2>7, <3>1, <4>1
    <3>2. CASE i \in 2..Len(manifest)
      <4>1. manifest'[i] = manifest[i]
        BY <2>4, <2>6, <3>2
      <4> QED
        BY <2>8, <3>2, <4>1 DEF TablesInv, NamedInv
    <3> QED
      BY <2>4, <2>6, <3>1, <3>2
  <2>9. ASSUME NEW i \in 2..Len(manifest'), NEW j \in 2..Len(manifest'), i < j
        PROVE  \A e \in files[i - 1].data, f \in files[j - 1].data : e.seq < f.seq
    <3>0. i \in 2..Len(manifest) /\ i - 1 \in 1..Len(ssts)
      BY ONLY <2>2, <2>4, <2>6, <2>9
    <3>1. CASE j = Len(manifest) + 1
      <4>1. files[j - 1].data = Imm
        BY <2>2, <2>3, <2>4, <3>1
      <4>2. files[i - 1].data = ssts[i - 1]
        BY <2>3, <3>0
      <4> QED
        BY <3>0, <4>1, <4>2 DEF LayersInv
    <3>2. CASE j \in 2..Len(manifest)
      <4>1. manifest[j] # TornEdit
        BY <2>1, <2>4, <3>2, FreshID
      <4> QED
        BY <2>9, <3>0, <3>2, <4>1 DEF TablesInv, NamedInv
    <3> QED
      BY <2>4, <2>6, <3>1, <3>2
  <2>10. NamedInv'
    BY <2>1, <2>8, <2>9 DEF NamedInv
  <2> QED
    BY <2>1, <2>2, <2>3, <2>10 DEF TablesInv
<1>10. CASE PowerLoss
  <2> DEFINE n == Len(Trimmed(manifest', TornEdit))
  <2>1. /\ manifest' \in Survivors(manifest, manSynced, TornEdit) /\ phase' = "down"
        /\ flushing' = "none"
    BY <1>10 DEF PowerLoss, Gone
  <2>2. /\ n \in 1..Len(manifest)
        /\ \A i \in 1..n : manifest'[i] = manifest[i] /\ manifest'[i] # TornEdit
        /\ \A i \in 1..Len(manifest') : i > n => manifest'[i] = TornEdit
    BY <2>1, ManifestSurvives
  <2> HIDE DEF n
  <2>3. files' = files \/ /\ flushing = "io"
                          /\ \A f \in FileIDs : f # nextSSTID => files'[f] = files[f]
    BY <1>4, <1>10 DEF PowerLoss
  <2>4. ASSUME NEW i \in 2..n, manifest[i] # TornEdit PROVE files'[i - 1] = files[i - 1]
    <3>1. Len(manifest) \in Nat
      BY ONLY Types DEF Types
    <3>2. i \in 2..Len(manifest)
      BY ONLY <2>2, <2>4, <3>1
    <3>3. i - 1 \in FileIDs
      BY <2>4, <3>2 DEF TablesInv, NamedInv
    <3> QED
      BY <1>a, <2>3, <3>2, <3>3
  <2>5. NamedInv'
    BY <2>2, <2>4, NamedKept DEF TablesInv
  <2> QED
    BY <2>1, <2>5 DEF TablesInv
<1>11. CASE OpenManifest
  <2> DEFINE man == Trimmed(manifest, TornEdit)
  <2>1. /\ man \in Seq(Edits) /\ Len(man) \in 1..Len(manifest)
        /\ \A i \in 1..Len(man) : man[i] = manifest[i] /\ manifest[i] # TornEdit
    BY TrimmedManifest
  <2>2. /\ manifest' = man /\ ssts' = LoadedTables(man)
        /\ nextSSTID' = man[Len(man)].next /\ flushing' = "none"
        /\ \E deleted \in SUBSET {f \in FileIDs \ Referenced(man) : files[f] # Absent} :
              files' = [f \in FileIDs |-> IF f \in deleted THEN Absent ELSE files[f]]
    BY <1>11 DEF OpenManifest, PhaseInv
  <2> HIDE DEF man
  <2>3. Len(manifest) \in Nat /\ Len(man) \in Nat /\ Len(man) >= 1
    <3>1. Len(manifest) \in Nat
      BY ONLY Types DEF Types
    <3> QED
      BY ONLY <2>1, <3>1
  <2>4. \A i \in 1..Len(man) : man[i].file = i - 1 /\ man[i].next = i
    BY SMTT(30), <2>1 DEF ManifestInv
  <2>5. \A i \in 2..Len(man) : i - 1 \in FileIDs
    BY <2>1, <2>3 DEF TablesInv, NamedInv
  <2>6. \A f \in Referenced(man) : f \in FileIDs => files'[f] = files[f]
    BY <2>2
  <2>7. ASSUME NEW i \in 1..(Len(man) - 1) PROVE i \in Referenced(man) /\ i \in FileIDs
    <3>1. i + 1 \in 2..Len(man) /\ i + 1 \in 1..Len(man) /\ (i + 1) - 1 = i /\ i # 0
      BY ONLY <2>3, <2>7
    <3>2. i \in FileIDs /\ man[i + 1].file = i
      BY <2>4, <2>5, <3>1
    <3> QED
      BY <3>1, <3>2 DEF Referenced
  <2>8. \A i \in 1..(Len(man) - 1) : files'[i] = files[i]
    BY <2>6, <2>7
  <2>9. /\ Len(ssts') = Len(man) - 1
        /\ \A i \in 1..(Len(man) - 1) : ssts'[i] = files'[i].data
    BY <2>1, <2>2, <2>3, <2>4, <2>5, <2>8, LoadedTablesValue
  <2>10. nextSSTID' = Len(man)
    BY <2>2, <2>3, <2>4
  <2>11. NamedInv'
    <3>1. \A i \in 2..Len(man) : i - 1 \in 1..(Len(man) - 1)
      BY ONLY <2>3
    <3>2. \A i \in 2..Len(man) : files'[i - 1] = files[i - 1]
      BY <2>8, <3>1
    <3>3. \A i \in 1..Len(manifest') : i > Len(man) => manifest'[i] = TornEdit
      BY <2>2, <2>3
    <3> QED
      BY <2>1, <2>2, <3>2, <3>3, NamedKept DEF TablesInv
  <2> QED
    BY <2>2, <2>9, <2>10, <2>11 DEF TablesInv
<1> QED
  BY <1>1, <1>2, <1>3, <1>5, <1>6, <1>7, <1>8, <1>9, <1>10, <1>11 DEF Next

-----------------------------------------------------------------------------
(* The layers. *)

LEMMA LayersInit == Init => LayersInv
BY DEF Init, LayersInv, Imm

(* The sequence numbers of a batch come after all others.                  *)
LEMMA EntriesOfSeqs ==
    ASSUME Types, NEW id \in 1..Len(batches), NEW e \in EntriesOf(batches[id], id)
    PROVE  /\ seqno < e.seq /\ e.seq <= seqno + Len(batches[id])
           /\ e.id = id /\ e.i \in 1..Len(batches[id]) /\ e.seq = seqno + e.i
           /\ e.key = batches[id][e.i].key
<1>1. PICK i \in 1..Len(batches[id]) :
        e = [key |-> batches[id][i].key, seq |-> seqno + i, id |-> id, i |-> i]
  BY DEF EntriesOf
<1>2. seqno \in Nat /\ Len(batches[id]) \in Nat
  BY BatchType DEF Types
<1> QED
  BY <1>1, <1>2

(* Entries N are added on top, and the memtable may be frozen.             *)
LEMMA LayersGrow ==
    ASSUME Types, Types', LayersInv, NEW N,
           N \in SUBSET Entries, \A e \in N : seqno < e.seq /\ e.seq <= seqno',
           seqno <= seqno', ssts' = ssts,
           \/ mem' = mem \cup N /\ Imm' = Imm
           \/ Imm = {} /\ mem' = {} /\ Imm' = mem \cup N
    PROVE  LayersInv'
<1>1. seqno \in Nat /\ mem \in SUBSET Entries /\ ssts \in Seq(SUBSET Entries) /\ Imm \in SUBSET Entries
  BY ImmType DEF Types
<1>2. seqno' \in Nat
  BY ONLY Types' DEF Types
<1>3. \A e \in Entries : e.seq \in Nat
  BY DEF Entries
<1>4. \A i \in 1..Len(ssts) : \A e \in ssts[i] : e \in Entries /\ e.seq \in Nat
  BY <1>1, <1>3, ElementOfSeq
<1>5. \A e \in mem \cup Imm \cup N : e.seq \in Nat /\ e.seq <= seqno'
  BY <1>1, <1>2, <1>3 DEF LayersInv
<1>6. \A i \in 1..Len(ssts) : \A e \in ssts[i] : e.seq <= seqno /\ e.seq <= seqno'
  BY <1>1, <1>2, <1>4 DEF LayersInv
<1>7. \A e \in mem \cup Imm \cup N : \A i \in 1..Len(ssts) : \A f \in ssts[i] : f.seq < e.seq
  BY <1>1, <1>4, <1>5, <1>6 DEF LayersInv
<1>8. \A e \in mem \cup N, f \in Imm : f.seq < e.seq
  BY <1>1, <1>5 DEF LayersInv
<1>9. \A e \in mem', f \in Imm' : f.seq < e.seq
  BY <1>8
<1>10. mem' \cup Imm' \in SUBSET (mem \cup Imm \cup N)
  OBVIOUS
<1>11. \A i, j \in 1..Len(ssts) : i < j => \A e \in ssts[i], f \in ssts[j] : e.seq < f.seq
  BY DEF LayersInv
<1> QED
  BY <1>5, <1>6, <1>7, <1>9, <1>10, <1>11 DEF LayersInv

LEMMA LayersStep ==
    Core /\ Types' /\ PhaseInv' /\ ManifestInv' /\ TablesInv' /\ Next => LayersInv'
<1> SUFFICES ASSUME Core, Types', PhaseInv', ManifestInv', TablesInv', Next
             PROVE  LayersInv'
    OBVIOUS
<1>0. Types /\ PhaseInv /\ WalInv /\ ManifestInv /\ TablesInv /\ LayersInv
  BY DEF Core
<1> USE <1>0
<1>a. seqno \in Nat /\ seqno <= seqno /\ {} \in SUBSET Entries
  BY ONLY Types DEF Types
<1>b. \A m : <<m>> # <<>> /\ <<m>>[1] = m
  OBVIOUS
<1>1. ASSUME UNCHANGED <<mem, immMem, ssts, seqno>> PROVE LayersInv'
  BY <1>1 DEF LayersInv, Imm
<1>2. ASSUME \/ \E b \in Batches : WriteAppend(b)
             \/ WriteSync \/ WriteSyncFails \/ WriteBufferFails
             \/ WriteSST \/ WriteSSTFails \/ PublishEdit \/ PublishFails \/ ReplayEnd
      PROVE  LayersInv'
  <2>1. UNCHANGED <<mem, immMem, ssts, seqno>>
    BY <1>2 DEF WriteAppend, WriteSync, WriteSyncFails, WriteBufferFails,
                WriteSST, WriteSSTFails, PublishEdit, PublishFails, ReplayEnd
  <2> QED
    BY <1>1, <2>1
<1>3. CASE WriteApply
  <2> DEFINE N == EntriesOf(batches[Len(batches)], Len(batches))
  <2>1. Len(batches) \in 1..Len(batches)
    BY <1>3, LastBatch DEF WriteApply
  <2>2. N \in SUBSET Entries /\ Len(batches[Len(batches)]) \in Nat
    BY <2>1, EntriesOfType, BatchType
  <2>3. seqno' = seqno + Len(batches[Len(batches)]) /\ ssts' = ssts
    BY <1>3 DEF WriteApply
  <2>4. seqno <= seqno' /\ \A e \in N : seqno < e.seq /\ e.seq <= seqno'
    BY <1>a, <2>1, <2>2, <2>3, EntriesOfSeqs
  <2>5. MaybeAutoFlush(Len(batches), mem \cup N)
    BY <1>3 DEF WriteApply
  <2> HIDE DEF N
  <2>6. \/ mem' = mem \cup N /\ Imm' = Imm
        \/ Imm = {} /\ mem' = {} /\ Imm' = mem \cup N
    BY <1>b, <2>5 DEF MaybeAutoFlush, Imm
  <2> QED
    BY <2>2, <2>3, <2>4, <2>6, LayersGrow
<1>4. ASSUME \/ \E id \in stalled : StallResume(id)
             \/ Flush \/ FlushBegin
      PROVE  LayersInv'
  <2>1. ssts' = ssts /\ seqno' = seqno
    BY <1>4 DEF StallResume, Flush, FlushBegin
  <2>2. \/ mem' = mem /\ Imm' = Imm
        \/ Imm = {} /\ mem' = {} /\ Imm' = mem
    BY <1>4, <1>b DEF StallResume, Flush, FlushBegin, Imm
  <2> QED
    <3> DEFINE N == {}
    <3>1. \/ mem' = mem \cup N /\ Imm' = Imm
          \/ Imm = {} /\ mem' = {} /\ Imm' = mem \cup N
      BY <2>2
    <3>2. N \in SUBSET Entries /\ seqno <= seqno'
          /\ \A e \in N : seqno < e.seq /\ e.seq <= seqno'
      BY <1>a, <2>1
    <3> HIDE DEF N
    <3> QED
      BY <2>1, <3>1, <3>2, LayersGrow
<1>5. CASE ReplayRecord
  <2> DEFINE id == wal[replayed + 1]
             N == EntriesOf(batches[id], id)
  <2>1. id \in 1..Len(batches)
    BY <1>5, ReplayedBatch DEF ReplayRecord
  <2>2. N \in SUBSET Entries /\ Len(batches[id]) \in Nat
    BY <2>1, EntriesOfType, BatchType
  <2>3. /\ seqno' = seqno + Len(batches[id]) /\ ssts' = ssts /\ mem' = mem \cup N
        /\ Imm' = Imm
    BY <1>5 DEF ReplayRecord, Imm
  <2>4. seqno <= seqno' /\ \A e \in N : seqno < e.seq /\ e.seq <= seqno'
    BY <1>a, <2>1, <2>2, <2>3, EntriesOfSeqs
  <2> QED
    BY <2>2, <2>3, <2>4, LayersGrow
<1>6. CASE PublishInstall
  <2>1. /\ flushing = "edited" /\ ssts' = Append(ssts, files[nextSSTID].data)
        /\ mem' = mem /\ seqno' = seqno /\ Imm' = {} /\ nextSSTID \in FileIDs
    BY <1>6 DEF PublishInstall, Imm, TablesInv
  <2>2. files[nextSSTID].data = Imm
    BY <2>1 DEF TablesInv
  <2>3. ssts \in Seq(SUBSET Entries) /\ Len(ssts) \in Nat /\ Imm \in SUBSET Entries
    <3>1. Imm \in SUBSET Entries
      BY ImmType
    <3>2. ssts \in Seq(SUBSET Entries) /\ Len(ssts) \in Nat
      BY ONLY Types DEF Types
    <3> QED
      BY <3>1, <3>2
  <2>4. /\ Len(ssts') = Len(ssts) + 1 /\ ssts'[Len(ssts) + 1] = Imm
        /\ \A i \in 1..Len(ssts) : ssts'[i] = ssts[i]
    BY <2>1, <2>2, <2>3, AppendProperties
  <2>5. \A i \in 1..Len(ssts') : i \in 1..Len(ssts) \/ i = Len(ssts) + 1
    BY <2>3, <2>4
  <2>6. \A i \in 1..Len(ssts') : \A e \in ssts'[i] : e.seq <= seqno
    BY <2>4, <2>5 DEF LayersInv
  <2>7. \A e \in mem : \A i \in 1..Len(ssts') : \A f \in ssts'[i] : f.seq < e.seq
    BY <2>4, <2>5 DEF LayersInv
  <2>8. ASSUME NEW i \in 1..Len(ssts'), NEW j \in 1..Len(ssts'), i < j,
               NEW e \in ssts'[i], NEW f \in ssts'[j]
        PROVE  e.seq < f.seq
    <3>1. i \in 1..Len(ssts)
      BY ONLY <2>3, <2>4, <2>8
    <3> QED
      BY <2>4, <2>5, <2>8, <3>1 DEF LayersInv
  <2> QED
    BY <2>1, <2>6, <2>7, <2>8 DEF LayersInv
<1>7. ASSUME Gone PROVE LayersInv'
  BY <1>7 DEF Gone, LayersInv, Imm
<1>8. CASE OpenManifest
  <2>1. mem' = {} /\ Imm' = {} /\ phase' = "replay"
    BY <1>8 DEF OpenManifest, PhaseInv, Imm
  <2>2. /\ Len(ssts') = nextSSTID' - 1 /\ nextSSTID' \in 1..Len(manifest')
        /\ \A i \in 1..Len(ssts') : ssts'[i] = files'[i].data
        /\ \A i \in 1..nextSSTID' : manifest'[i] # TornEdit
        /\ \A i \in 1..Len(manifest') : manifest'[i].last <= seqno'
    BY <2>1 DEF TablesInv, ManifestInv
  <2>3. /\ Len(manifest') \in Nat /\ seqno' \in Nat /\ manifest' \in Seq(Edits)
        /\ files' \in [FileIDs -> FileState]
    BY ONLY Types' DEF Types
  <2>4. ASSUME NEW i \in 1..Len(ssts')
        PROVE  i + 1 \in 2..Len(manifest') /\ (i + 1) - 1 = i /\ i + 1 \in 1..nextSSTID'
               /\ i + 1 \in 1..Len(manifest')
    BY ONLY <2>2, <2>3, <2>4
  <2>5. ASSUME NEW i \in 1..Len(ssts'), NEW e \in ssts'[i] PROVE e.seq <= seqno'
    <3>1. i + 1 \in 2..Len(manifest') /\ (i + 1) - 1 = i /\ manifest'[i + 1] # TornEdit
      BY <2>2, <2>4
    <3>2. i \in FileIDs /\ e \in files'[i].data /\ e.seq <= manifest'[i + 1].last
      BY <2>2, <2>5, <3>1 DEF TablesInv, NamedInv
    <3>3. manifest'[i + 1].last <= seqno' /\ manifest'[i + 1].last \in Nat
      BY <2>2, <2>3, <2>4, EditType
    <3>4. e.seq \in Nat
      BY <2>3, <3>2 DEF FileState, Entries
    <3> QED
      BY ONLY <2>3, <3>2, <3>3, <3>4
  <2>6. ASSUME NEW i \in 1..Len(ssts'), NEW j \in 1..Len(ssts'), i < j,
               NEW e \in ssts'[i], NEW f \in ssts'[j]
        PROVE  e.seq < f.seq
    <3>1. /\ i + 1 \in 2..Len(manifest') /\ (i + 1) - 1 = i
          /\ j + 1 \in 2..Len(manifest') /\ (j + 1) - 1 = j /\ manifest'[j + 1] # TornEdit
      BY <2>2, <2>4
    <3>2. i + 1 < j + 1
      BY <2>6
    <3>3. e \in files'[(i + 1) - 1].data /\ f \in files'[(j + 1) - 1].data
      BY <2>2, <2>6, <3>1
    <3> QED
      BY <3>1, <3>2, <3>3 DEF TablesInv, NamedInv
  <2> QED
    BY <2>1, <2>5, <2>6 DEF LayersInv
<1> QED
  BY <1>2, <1>3, <1>4, <1>5, <1>6, <1>7, <1>8 DEF Next, Close, Kill, PowerLoss

-----------------------------------------------------------------------------
(* Durability of what was acknowledged. *)

LEMMA DurableInit == Init => DurableInv
BY DEF Init, DurableInv

(* The durable records stay, and no batch becomes acknowledged.            *)
LEMMA DurableKept ==
    ASSUME Types, Types', DurableInv, walSynced <= walSynced',
           \A j \in 1..walSynced : wal'[j] = wal[j],
           acked' \cup stalled' \subseteq acked \cup stalled,
           writing' # "none" => Len(batches') \notin acked \cup stalled
    PROVE  DurableInv'
<1>1. walSynced \in Nat
  BY ONLY Types DEF Types
<1>2. walSynced' \in Nat
  BY ONLY Types' DEF Types
<1>3. 1..walSynced \subseteq 1..walSynced'
  BY ONLY <1>1, <1>2, walSynced <= walSynced'
<1> QED
  BY <1>3 DEF DurableInv

LEMMA DurableStep == Core /\ DurableInv /\ Types' /\ Next => DurableInv'
<1> SUFFICES ASSUME Core, DurableInv, Types', Next PROVE DurableInv'
    OBVIOUS
<1>0. Types /\ PhaseInv /\ WalInv
  BY DEF Core
<1> USE <1>0
<1>a. /\ wal \in Seq(Nat) /\ Len(wal) \in Nat /\ walSynced \in Nat /\ walFlushed \in Nat
      /\ walSynced <= walFlushed /\ walFlushed <= Len(wal) /\ Len(batches) \in Nat
      /\ acked \cup stalled \subseteq 1..Len(batches)
  BY ONLY Types DEF Types
<1>b. writing # "none" => Len(batches) \notin acked \cup stalled
  BY DEF DurableInv
<1>c. walSynced <= walSynced /\ walSynced <= Len(wal)
  BY <1>a
<1>1. ASSUME NEW b \in Batches, WriteAppend(b) PROVE DurableInv'
  <2>1. /\ wal' = Append(wal, Len(batches) + 1) /\ batches' = Append(batches, b)
        /\ walSynced' = walSynced /\ acked' = acked /\ stalled' = stalled
    BY <1>1 DEF WriteAppend
  <2>2. Len(batches') = Len(batches) + 1 /\ \A i \in 1..Len(wal) : wal'[i] = wal[i]
    <3>1. batches \in Seq(Batches)
      BY ONLY Types DEF Types
    <3> QED
      BY <1>a, <2>1, <3>1, AppendProperties
  <2>3. Len(batches') \notin acked \cup stalled
    BY <1>a, <2>2
  <2>4. \A i \in 1..walSynced : wal'[i] = wal[i]
    BY <1>a, <1>c, <2>2
  <2> QED
    BY <1>c, <2>1, <2>3, <2>4, DurableKept
<1>2. ASSUME \/ WriteSync \/ WriteSyncFails
             \/ \E id \in stalled : StallResume(id)
             \/ Flush \/ FlushBegin \/ WriteSST \/ WriteSSTFails
             \/ PublishEdit \/ PublishInstall \/ PublishFails
             \/ OpenManifest \/ ReplayRecord
      PROVE  DurableInv'
  <2>1. /\ wal' = wal /\ batches' = batches /\ walSynced' \in {walSynced, Len(wal)}
        /\ acked' \cup stalled' \subseteq acked \cup stalled
    BY <1>2 DEF WriteSync, WriteSyncFails, StallResume, Flush, FlushBegin, WriteSST,
                WriteSSTFails, PublishEdit, PublishInstall, PublishFails, OpenManifest,
                ReplayRecord, walVars, histVars
  <2>2. writing' # "none" => writing # "none"
    BY <1>2 DEF WriteSync, WriteSyncFails, StallResume, Flush, FlushBegin, WriteSST,
                WriteSSTFails, PublishEdit, PublishInstall, PublishFails, OpenManifest,
                ReplayRecord
  <2> QED
    BY <1>b, <1>c, <2>1, <2>2, DurableKept
<1>3. CASE WriteBufferFails
  <2>1. /\ wal' \in Survivors(wal, walFlushed, Torn) /\ walSynced' = walSynced
        /\ acked' = acked /\ stalled' = stalled /\ writing' = "none"
        /\ walFlushed <= walFlushed
    BY <1>3, <1>a DEF WriteBufferFails, histVars
  <2>2. /\ walFlushed <= Len(Trimmed(wal', Torn)) /\ Len(Trimmed(wal', Torn)) \in Nat
        /\ \A i \in 1..Len(Trimmed(wal', Torn)) : wal'[i] = wal[i]
    BY <1>a, <2>1, WalSurvives
  <2>3. \A i \in 1..walSynced : wal'[i] = wal[i]
    BY <1>a, <2>2
  <2> QED
    BY <1>c, <2>1, <2>3, DurableKept
<1>4. CASE WriteApply
  <2>1. /\ writing # "none" /\ writing' = "none" /\ wal' = wal /\ walSynced' = walSynced
        /\ MaybeAutoFlush(Len(batches), mem \cup EntriesOf(batches[Len(batches)], Len(batches)))
        /\ SyncOnWrite => writing = "synced"
    BY <1>4 DEF WriteApply, walVars
  <2>2. acked' \cup stalled' = acked \cup stalled \cup {Len(batches)}
    BY <2>1 DEF MaybeAutoFlush
  <2>3. SyncOnWrite => /\ walSynced = Len(wal) /\ wal[Len(wal)] = Len(batches)
                       /\ wal # <<>>
    BY <2>1 DEF WalInv
  <2>4. SyncOnWrite => Len(wal) \in 1..walSynced
    BY <1>a, <2>3, EmptySeq
  <2> QED
    BY <2>1, <2>2, <2>3, <2>4 DEF DurableInv
<1>5. ASSUME Gone, UNCHANGED acked, walSynced <= walSynced',
             \A j \in 1..walSynced : wal'[j] = wal[j]
      PROVE  DurableInv'
  BY <1>5, DurableKept DEF Gone
<1>6. ASSUME NEW lo \in Nat, lo <= walFlushed, walSynced <= lo,
             wal' \in Survivors(wal, lo, Torn), walFlushed' = Len(Trimmed(wal', Torn))
      PROVE  walSynced <= walFlushed' /\ \A j \in 1..walSynced : wal'[j] = wal[j]
  <2>1. /\ lo <= walFlushed' /\ walFlushed' \in Nat
        /\ \A i \in 1..walFlushed' : wal'[i] = wal[i]
    BY <1>6, WalSurvives
  <2> QED
    BY <1>6, <1>a, <2>1
<1>7. CASE Close
  <2>1. walSynced <= walFlushed' /\ \A j \in 1..walSynced : wal'[j] = wal[j]
    <3>1. CASE wal' = wal /\ walFlushed' \in {walFlushed, Len(wal)}
      BY <1>a, <1>c, <3>1
    <3>2. CASE wal' \in Survivors(wal, walFlushed, Torn) /\ walFlushed' = Len(Trimmed(wal', Torn))
      <4>1. walFlushed \in Nat /\ walFlushed <= walFlushed /\ walSynced <= walFlushed
        BY <1>a
      <4> QED
        BY <1>6, <3>2, <4>1
    <3> QED
      BY <1>7, <3>1, <3>2 DEF Close
  <2>2. Gone /\ acked' = acked /\ walSynced' \in {walSynced, walFlushed'}
    BY <1>7 DEF Close
  <2> QED
    BY <1>5, <1>c, <2>1, <2>2
<1>8. CASE Kill
  <2>1. \A j \in 1..walSynced : wal'[j] = wal[j]
    <3>1. walFlushed \in Nat /\ walFlushed <= walFlushed /\ walSynced <= walFlushed
      BY <1>a
    <3> QED
      BY <1>6, <1>8, <3>1 DEF Kill
  <2> QED
    BY <1>5, <1>8, <1>c, <2>1 DEF Kill
<1>9. CASE PowerLoss
  <2>1. walSynced <= walFlushed' /\ \A j \in 1..walSynced : wal'[j] = wal[j]
    BY <1>6, <1>9, <1>a, <1>c DEF PowerLoss
  <2> QED
    BY <1>5, <1>9, <2>1 DEF PowerLoss
<1>10. CASE ReplayEnd
  <2>1. /\ acked' = acked /\ stalled' = stalled /\ writing' = "none"
    BY <1>10 DEF ReplayEnd, histVars, PhaseInv
  <2>2. CASE UNCHANGED walVars
    BY <1>c, <2>1, <2>2, DurableKept DEF walVars
  <2>3. CASE /\ replayed = Len(wal) - 1 /\ wal[replayed + 1] = Torn
             /\ wal' = SubSeq(wal, 1, replayed)
             /\ walSynced' = Smaller(walSynced, replayed)
    <3>1. replayed \in Nat /\ replayed + 1 = Len(wal)
      <4>1. replayed \in Nat
        BY ONLY Types DEF Types
      <4> QED
        BY <1>a, <2>3, <4>1
    <3>2. ~(Len(wal) \in 1..walFlushed)
      BY <2>3, <3>1 DEF WalInv
    <3>3. walSynced <= replayed
      BY <1>a, <3>1, <3>2
    <3>4. \A i \in 1..replayed : wal[i] \in Nat
      BY <1>a, <3>1
    <3>5. \A i \in 1..replayed : wal'[i] = wal[i]
      BY <1>a, <2>3, <3>1, <3>4, SubSeqProperties
    <3>6. walSynced' = walSynced /\ \A i \in 1..walSynced : wal'[i] = wal[i]
      BY <1>a, <2>3, <3>1, <3>3, <3>5 DEF Smaller
    <3> QED
      BY <1>c, <2>1, <3>6, DurableKept
  <2> QED
    BY <1>10, <2>2, <2>3 DEF ReplayEnd
<1> QED
  BY <1>1, <1>2, <1>3, <1>4, <1>7, <1>8, <1>9, <1>10 DEF Next

-----------------------------------------------------------------------------
(* The theorems that rest on the core of the invariant. *)

LEMMA CoreStutters == Core /\ DurableInv /\ UNCHANGED vars => (Core /\ DurableInv)'
<1> SUFFICES ASSUME Core, DurableInv, UNCHANGED vars PROVE (Core /\ DurableInv)'
    OBVIOUS
<1>1. /\ UNCHANGED <<wal, walFlushed, walSynced, manifest, manSynced, files, phase, mem,
                     immMem, ssts, seqno, nextSSTID, flushErr, walErr, writing, flushing,
                     replayed, batches, acked, stalled>>
  BY DEF vars, walVars, manVars, memVars, histVars
<1>2. Types'
  BY <1>1 DEF Core, Types
<1>3. PhaseInv'
  BY <1>1 DEF Core, PhaseInv
<1>4. WalInv'
  BY <1>1 DEF Core, WalInv, Wellformed
<1>5. ManifestInv'
  BY <1>1 DEF Core, ManifestInv, Wellformed
<1>6. TablesInv'
  BY <1>1 DEF Core, TablesInv, NamedInv, Imm
<1>7. LayersInv'
  BY <1>1 DEF Core, LayersInv, Imm
<1>8. DurableInv'
  BY <1>1 DEF DurableInv
<1> QED
  BY <1>2, <1>3, <1>4, <1>5, <1>6, <1>7, <1>8 DEF Core

LEMMA CoreStep == Core /\ DurableInv /\ [Next]_vars => (Core /\ DurableInv)'
<1> SUFFICES ASSUME Core, DurableInv, Next PROVE (Core /\ DurableInv)'
    BY CoreStutters
<1>1. Types'
  BY TypesStep
<1>2. PhaseInv'
  BY PhaseStep
<1>3. WalInv'
  BY <1>1, <1>2, WalStep
<1>4. ManifestInv'
  BY <1>1, <1>2, ManifestStep
<1>5. TablesInv'
  BY <1>1, <1>2, <1>4, TablesStep
<1>6. LayersInv'
  BY <1>1, <1>2, <1>4, <1>5, LayersStep
<1>7. DurableInv'
  BY <1>1, DurableStep
<1> QED
  BY <1>1, <1>2, <1>3, <1>4, <1>5, <1>6, <1>7 DEF Core

LEMMA CoreInvariant == Spec => [](Core /\ DurableInv)
<1>1. Init => Core /\ DurableInv
  BY InitTypes, PhaseInit, WalInit, ManifestInit, TablesInit, LayersInit, DurableInit
     DEF Core
<1> QED
  BY <1>1, CoreStep, PTL DEF Spec

(* Every variable keeps its type through writes, flushes, faults, crashes  *)
(* and recoveries; the synced part of the WAL never exceeds what has left  *)
(* its buffer, no Write both has returned nil and waits for the slot, and  *)
(* db.nextSSTID is what replay of the manifest would restore.              *)
THEOREM TypeCorrect == Spec => []TypeOK
<1>1. Core => TypeOK
  <2> SUFFICES ASSUME Core PROVE TypeOK
      OBVIOUS
  <2>0. Types /\ ManifestInv
    BY DEF Core
  <2>1. ASSUME phase # "down", ~flushErr, flushing # "edited"
        PROVE  nextSSTID = manifest[Len(manifest)].next
    <3>1. /\ manifest[Len(manifest)] # TornEdit
          /\ nextSSTID = Len(manifest) /\ nextSSTID \in 1..Len(manifest)
      BY <2>0, <2>1 DEF ManifestInv
    <3> QED
      BY <2>0, <3>1 DEF ManifestInv
  <2> QED
    BY <2>0, <2>1 DEF TypeOK, NextIDRecorded
<1> QED
  BY <1>1, CoreInvariant, PTL

(* Whatever faults, crashes and power losses have left, the next Open      *)
(* (replayExistingManifest, openSSTReadersForVersion, replayWAL) accepts   *)
(* it: no edit but the last is torn, no SSTable is added twice, each that  *)
(* is named is complete, and only the last WAL record is torn.             *)
THEOREM OpenAccepts == Spec => []RecoverySucceeds
<1>1. Core => RecoverySucceeds
  <2> SUFFICES ASSUME Core PROVE RecoverySucceeds
      OBVIOUS
  <2>0. Types /\ WalInv /\ ManifestInv /\ TablesInv
    BY DEF Core
  <2> DEFINE man == Trimmed(manifest, TornEdit)
  <2>1. /\ man \in Seq(Edits) /\ Len(man) \in 1..Len(manifest)
        /\ \A i \in 1..Len(man) : man[i] = manifest[i] /\ manifest[i] # TornEdit
    BY <2>0, TrimmedManifest
  <2> HIDE DEF man
  <2>2. Len(manifest) \in Nat /\ Len(man) \in Nat /\ Len(man) >= 1
    <3>1. Len(manifest) \in Nat
      BY <2>0, ManifestLen
    <3> QED
      BY ONLY <2>1, <3>1
  <2>3. \A i \in 1..Len(man) : i \in 1..Len(manifest) /\ man[i].file = i - 1
    BY <2>0, <2>1, <2>2 DEF ManifestInv
  <2>4. Wellformed(man, TornEdit)
    <3>1. \A i \in 1..(Len(man) - 1) : i \in 1..Len(man)
      BY ONLY <2>2
    <3> QED
      BY <2>1, <3>1 DEF Wellformed
  <2>5. \A i, j \in 1..Len(man) : man[i].file = man[j].file /\ man[i].file # 0 => i = j
    BY <2>2, <2>3
  <2>6. ASSUME NEW f \in Referenced(man) PROVE f \in FileIDs /\ files[f].state = "complete"
    <3>1. PICK i \in 1..Len(man) : f = man[i].file /\ f # 0
      BY DEF Referenced
    <3>2. f = i - 1 /\ i \in 2..Len(manifest) /\ manifest[i] # TornEdit
      BY <2>1, <2>2, <2>3, <3>1
    <3> QED
      BY <2>0, <3>2 DEF TablesInv, NamedInv
  <2>7. Recoverable(man)
    BY <2>4, <2>5, <2>6 DEF Recoverable
  <2> QED
    BY <2>0, <2>7 DEF RecoverySucceeds, WalInv, man
<1> QED
  BY <1>1, CoreInvariant, PTL

(* Layer by layer, the order of LayersInv is that of the search.           *)
LEMMA CoreLayerOrder == Core => LayerOrder
<1> SUFFICES ASSUME Core PROVE LayerOrder
    OBVIOUS
<1>0. Types /\ LayersInv
  BY DEF Core
<1>1. Len(ssts) \in Nat
  BY <1>0 DEF Types
<1>2. ASSUME NEW n \in 3..NumLayers
      PROVE  /\ Layer(n) = ssts[Len(ssts) + 3 - n] /\ Len(ssts) + 3 - n \in 1..Len(ssts)
  BY <1>1 DEF NumLayers, Layer
<1>3. Layer(1) = mem /\ Layer(2) = Imm
  BY DEF Layer
<1>4. ASSUME NEW n \in 1..NumLayers, NEW e \in Layer(n) PROVE e.seq <= seqno
  <2>1. n = 1 \/ n = 2 \/ n \in 3..NumLayers
    BY <1>1 DEF NumLayers
  <2> QED
    BY <1>0, <1>2, <1>3, <1>4, <2>1 DEF LayersInv
<1>5. ASSUME NEW n \in 1..NumLayers, NEW e \in Layer(n),
             NEW m \in (n + 1)..NumLayers, NEW f \in Layer(m)
      PROVE  f.seq < e.seq
  <2>1. \/ n = 1 /\ m = 2
        \/ n \in {1, 2} /\ m \in 3..NumLayers
        \/ n \in 3..NumLayers /\ m \in 3..NumLayers /\ n < m
    BY <1>1 DEF NumLayers
  <2>2. CASE n = 1 /\ m = 2
    BY <1>0, <1>3, <1>5, <2>2 DEF LayersInv
  <2>3. CASE n \in {1, 2} /\ m \in 3..NumLayers
    BY <1>0, <1>2, <1>3, <1>5, <2>3 DEF LayersInv
  <2>4. CASE n \in 3..NumLayers /\ m \in 3..NumLayers /\ n < m
    <3>1. /\ Layer(n) = ssts[Len(ssts) + 3 - n] /\ Len(ssts) + 3 - n \in 1..Len(ssts)
          /\ Layer(m) = ssts[Len(ssts) + 3 - m] /\ Len(ssts) + 3 - m \in 1..Len(ssts)
      BY <1>2, <2>4
    <3>2. Len(ssts) + 3 - m < Len(ssts) + 3 - n
      BY <1>1, <2>4
    <3> QED
      BY <1>0, <1>5, <3>1, <3>2 DEF LayersInv
  <2> QED
    BY <2>1, <2>2, <2>3, <2>4
<1> QED
  BY <1>4, <1>5 DEF LayerOrder

(* The layers that Get searches are ordered: memtable, frozen memtable,    *)
(* SSTables from the newest to the oldest, each strictly newer than all    *)
(* that follow it, across any number of flushes and of restarts that       *)
(* number the replayed records anew.                                       *)
THEOREM LayersOrdered == Spec => []LayerOrder
BY CoreInvariant, CoreLayerOrder, PTL

(* An SSTable that the manifest names, before and after a step, is not     *)
(* touched by it: a flush takes an id that no edit has, also when an       *)
(* earlier flush failed half-way, and orphan cleanup deletes only files    *)
(* that the replayed manifest does not name.                               *)
THEOREM NamedTablesImmutable == Spec => SSTImmutable
<1> DEFINE A == \A f \in FileIDs :
                  f \in Referenced(manifest) /\ f \in Referenced(manifest')
                    => files'[f] = files[f]
<1>1. Core /\ [Next]_vars => [A]_vars
  <2> SUFFICES ASSUME Core, Next,
                      NEW f \in FileIDs, f \in Referenced(manifest), f \in Referenced(manifest')
               PROVE  files'[f] = files[f]
      OBVIOUS
  <2>0. Types /\ PhaseInv /\ ManifestInv /\ TablesInv
    BY DEF Core
  <2>1. PICK i \in 1..Len(manifest) : f = manifest[i].file /\ f # 0
    BY DEF Referenced
  <2>2. Len(manifest) \in Nat
    BY <2>0, ManifestLen
  <2>3. manifest[i] # TornEdit
    BY <2>1 DEF TornEdit
  <2>4. f = i - 1
    BY <2>0, <2>1, <2>3 DEF ManifestInv
  <2>5. f # Len(manifest)
    BY <2>2, <2>4
  <2>6. ASSUME flushing = "io", NEW left, files' = [files EXCEPT ![nextSSTID] = left]
        PROVE  files'[f] = files[f]
    <3>1. nextSSTID = Len(manifest)
      BY <2>0, <2>6, FreshID
    <3>2. files \in [FileIDs -> FileState]
      BY <2>0 DEF Types
    <3> QED
      BY <2>5, <2>6, <3>1, <3>2
  <2>7. CASE WriteSST
    BY <2>6, <2>7 DEF WriteSST
  <2>8. CASE WriteSSTFails
    BY <2>6, <2>8 DEF WriteSSTFails
  <2>9. CASE Kill
    BY <2>6, <2>9 DEF Kill
  <2>10. CASE PowerLoss
    BY <2>6, <2>10 DEF PowerLoss
  <2>11. CASE OpenManifest
    BY <2>11 DEF OpenManifest
  <2>12. ASSUME ~WriteSST, ~WriteSSTFails, ~Kill, ~PowerLoss, ~OpenManifest
         PROVE  files' = files
    BY <2>12 DEF Next, WriteAppend, WriteSync, WriteSyncFails, WriteBufferFails, WriteApply,
                 StallResume, Flush, FlushBegin, PublishEdit, PublishInstall, PublishFails,
                 Close, ReplayRecord, ReplayEnd
  <2> QED
    BY <2>7, <2>8, <2>9, <2>10, <2>11, <2>12
<1> QED
  BY <1>1, CoreInvariant, PTL DEF Spec, SSTImmutable

-----------------------------------------------------------------------------
(* What Get finds: acknowledged writes stay visible through flushes,       *)
(* failures, crashes, power losses and recoveries.  The argument adds to   *)
(* the invariant how the sequence numbers follow the order of the          *)
(* operations, while Open replays the WAL and after it.                    *)

(* The operation (id, i) comes at or before that of entry e.               *)
UpTo(id, i, e) == id < e.id \/ (id = e.id /\ i <= e.i)

(* While the WAL is replayed the memtable has exactly the operations of    *)
(* the records so far, numbered in their order.                            *)
ReplayInv ==
    phase = "replay" =>
      /\ \A e \in mem : \E j \in 1..replayed : wal[j] = e.id
      /\ \A j \in 1..replayed : \A i \in 1..Len(batches[wal[j]]) :
           \E e \in mem : e.id = wal[j] /\ e.i = i /\ e.key = batches[wal[j]][i].key
      /\ \A e, f \in mem : e.seq <= f.seq => UpTo(e.id, e.i, f)

(* Everything that can be read.                                            *)
All == mem \cup Imm \cup UNION {ssts[i] : i \in 1..Len(ssts)}

(* Entry e is that of operation (id, i), and what has a higher sequence    *)
(* number is a later operation.                                            *)
Stands(e, id, i) ==
    /\ e.id = id /\ e.i = i /\ e.key = batches[id][i].key
    /\ \A f \in All : e.seq <= f.seq => UpTo(id, i, f)

(* An acknowledged operation has such an entry.                            *)
VisibleInv ==
    phase = "open" /\ SyncOnWrite =>
      \A id \in acked \cup stalled : \A i \in 1..Len(batches[id]) :
        \E e \in All : Stands(e, id, i)

-----------------------------------------------------------------------------
(* Replay. *)

(* Only Open leads to the replay, and only a replayed record stays in it.  *)
LEMMA ReplayOnly ==
    ASSUME PhaseInv, Next, phase' = "replay"
    PROVE  OpenManifest \/ ReplayRecord
<1>1. phase # "open" => writing = "none" /\ flushing = "none" /\ stalled = {}
  BY DEF PhaseInv
<1>2. ~(Close \/ Kill \/ PowerLoss \/ ReplayEnd)
  BY DEF Close, Kill, PowerLoss, Gone, ReplayEnd
<1>3. ~(\E b \in Batches : WriteAppend(b))
  BY DEF WriteAppend
<1>4. ~(WriteSync \/ WriteSyncFails \/ WriteBufferFails \/ WriteApply)
  BY <1>1 DEF WriteSync, WriteSyncFails, WriteBufferFails, WriteApply
<1>5. ~(\/ \E id \in stalled : StallResume(id)
        \/ Flush \/ FlushBegin)
  BY DEF StallResume, Flush, FlushBegin
<1>6. ~(WriteSST \/ WriteSSTFails \/ PublishEdit \/ PublishInstall \/ PublishFails)
  BY <1>1 DEF WriteSST, WriteSSTFails, PublishEdit, PublishInstall, PublishFails
<1> QED
  BY <1>2, <1>3, <1>4, <1>5, <1>6 DEF Next

(* The types of an entry of the memtable.                                  *)
LEMMA MemType ==
    ASSUME Types, NEW e \in mem
    PROVE  e \in Entries /\ e.seq \in Nat /\ e.id \in Nat /\ e.i \in Nat
BY DEF Types, Entries

(* Every operation of a batch has an entry.                                *)
LEMMA EntriesOfAll ==
    ASSUME NEW b, NEW id, NEW i \in 1..Len(b)
    PROVE  \E e \in EntriesOf(b, id) : e.id = id /\ e.i = i /\ e.key = b[i].key
<1> DEFINE e == [key |-> b[i].key, seq |-> seqno + i, id |-> id, i |-> i]
<1>1. e \in EntriesOf(b, id)
  BY DEF EntriesOf
<1>2. e.id = id /\ e.i = i /\ e.key = b[i].key
  OBVIOUS
<1> HIDE DEF e
<1> QED
  BY <1>1, <1>2

LEMMA ReplayInit == Init => ReplayInv
BY DEF Init, ReplayInv

LEMMA ReplayStep == Core /\ ReplayInv /\ Next => ReplayInv'
<1> SUFFICES ASSUME Core, ReplayInv, Next, phase' = "replay" PROVE ReplayInv'
    BY DEF ReplayInv
<1>0. Types /\ PhaseInv /\ WalInv /\ LayersInv
  BY DEF Core
<1> USE <1>0
<1>1. CASE OpenManifest
  <2>1. mem' = {} /\ replayed' = 0
    BY <1>1 DEF OpenManifest, PhaseInv
  <2> QED
    BY <2>1 DEF ReplayInv
<1>2. CASE ReplayRecord
  <2> DEFINE id == wal[replayed + 1]
             N == EntriesOf(batches[id], id)
  <2>1. /\ phase = "replay" /\ mem' = mem \cup N /\ replayed' = replayed + 1
        /\ wal' = wal /\ batches' = batches
    BY <1>2 DEF ReplayRecord, walVars, histVars
  <2>2. replayed + 1 \in 1..Len(wal) /\ id \in 1..Len(batches) /\ id # Torn
    BY <1>2, ReplayedBatch DEF ReplayRecord
  <2>3. replayed \in Nat /\ seqno \in Nat /\ wal \in Seq(Nat) /\ Len(wal) \in Nat
    BY DEF Types
  <2>4. \A e \in N : /\ seqno < e.seq /\ e.id = id /\ e.i \in 1..Len(batches[id])
                     /\ e.seq = seqno + e.i /\ e.key = batches[id][e.i].key
    BY <2>2, EntriesOfSeqs
  <2>5. \A j \in 1..replayed : j \in 1..Len(wal) /\ j < replayed + 1
    BY <2>2, <2>3
  <2>6. \A e \in mem : e.id < id
    BY <2>1, <2>2, <2>5 DEF ReplayInv, WalInv
  <2>7. \A e \in mem : e.seq <= seqno /\ e.seq \in Nat
    BY MemType DEF LayersInv
  <2>8. \A i \in 1..Len(batches[id]) :
          \E e \in N : e.id = id /\ e.i = i /\ e.key = batches[id][i].key
    <3> TAKE i \in 1..Len(batches[id])
    <3> QED
      BY ONLY EntriesOfAll, i \in 1..Len(batches[id])
  <2>9. Len(batches[id]) \in Nat
    BY <2>2, BatchType
  <2> HIDE DEF id, N
  <2>10. \A e \in mem' : \E j \in 1..replayed' : wal'[j] = e.id
    <3>1. 1..replayed \subseteq 1..replayed' /\ replayed + 1 \in 1..replayed'
      BY <2>1, <2>3
    <3>2. \A e \in mem : \E j \in 1..replayed' : wal'[j] = e.id
      BY <2>1, <3>1 DEF ReplayInv
    <3>3. \A e \in N : \E j \in 1..replayed' : wal'[j] = e.id
      BY <2>1, <2>4, <3>1 DEF id
    <3> QED
      BY <2>1, <3>2, <3>3
  <2>11. \A j \in 1..replayed' : \A i \in 1..Len(batches'[wal'[j]]) :
           \E e \in mem' : e.id = wal'[j] /\ e.i = i /\ e.key = batches'[wal'[j]][i].key
    <3>1. \A j \in 1..replayed' : j \in 1..replayed \/ j = replayed + 1
      BY <2>1, <2>3
    <3>2. \A j \in 1..replayed : \A i \in 1..Len(batches[wal[j]]) :
            \E e \in mem' : e.id = wal[j] /\ e.i = i /\ e.key = batches[wal[j]][i].key
      BY <2>1 DEF ReplayInv
    <3>3. \A i \in 1..Len(batches[id]) :
            \E e \in mem' : e.id = id /\ e.i = i /\ e.key = batches[id][i].key
      BY <2>1, <2>8
    <3> QED
      BY <2>1, <3>1, <3>2, <3>3 DEF id
  <2>12. ASSUME NEW e \in mem', NEW f \in mem', e.seq <= f.seq PROVE UpTo(e.id, e.i, f)
    <3>1. CASE e \in mem /\ f \in mem
      BY <2>1, <2>12, <3>1 DEF ReplayInv
    <3>2. CASE e \in mem /\ f \in N
      BY <2>4, <2>6, <3>2 DEF UpTo
    <3>3. CASE e \in N /\ f \in N
      BY <2>3, <2>4, <2>9, <2>12, <3>3 DEF UpTo
    <3>4. CASE e \in N /\ f \in mem
      <4>1. seqno < e.seq /\ f.seq <= seqno /\ f.seq \in Nat /\ e.seq \in Nat
        BY <2>3, <2>4, <2>7, <2>9, <3>4
      <4> QED
        BY <2>3, <2>12, <4>1
    <3> QED
      BY <2>1, <3>1, <3>2, <3>3, <3>4
  <2> QED
    BY <2>10, <2>11, <2>12 DEF ReplayInv
<1> QED
  BY <1>1, <1>2, ReplayOnly

-----------------------------------------------------------------------------
(* The open DB. *)

LEMMA VisibleInit == Init => VisibleInv
BY DEF Init, VisibleInv

(* Nothing becomes unreadable, and no batch acknowledged.                  *)
LEMMA VisibleKept ==
    ASSUME Types, VisibleInv, phase = "open", All' = All,
           acked' \cup stalled' \subseteq acked \cup stalled,
           \A id \in 1..Len(batches) : batches'[id] = batches[id]
    PROVE  VisibleInv'
<1> SUFFICES ASSUME SyncOnWrite, NEW id \in acked' \cup stalled',
                    NEW i \in 1..Len(batches'[id])
             PROVE  \E e \in All' : Stands(e, id, i)'
    BY DEF VisibleInv
<1>1. id \in acked \cup stalled /\ id \in 1..Len(batches)
  BY DEF Types
<1>2. batches'[id] = batches[id]
  BY <1>1
<1>3. PICK e \in All : Stands(e, id, i)
  BY <1>1, <1>2 DEF VisibleInv
<1>4. Stands(e, id, i)'
  BY <1>2, <1>3 DEF Stands
<1> QED
  BY <1>3, <1>4

(* All that can be read has a number up to the DB's.                       *)
LEMMA AllSeqs ==
    ASSUME Types, LayersInv, NEW e \in All
    PROVE  /\ e \in Entries /\ e.seq \in Nat /\ e.seq <= seqno
           /\ \/ e \in mem \/ e \in Imm
              \/ \E i \in 1..Len(ssts) : e \in ssts[i]
<1>1. \/ e \in mem \/ e \in Imm
      \/ \E i \in 1..Len(ssts) : e \in ssts[i]
  BY DEF All
<1>2. e \in Entries
  <2>1. ASSUME NEW i \in 1..Len(ssts), e \in ssts[i] PROVE e \in Entries
    <3>1. ssts \in Seq(SUBSET Entries)
      BY DEF Types
    <3>2. ssts[i] \in SUBSET Entries
      BY <3>1, ElementOfSeq
    <3> QED
      BY <2>1, <3>2
  <2>2. mem \in SUBSET Entries /\ Imm \in SUBSET Entries
    BY ImmType DEF Types
  <2> QED
    BY <1>1, <2>1, <2>2
<1>3. e.seq <= seqno
  BY <1>1 DEF LayersInv
<1> QED
  BY <1>1, <1>2, <1>3 DEF Entries

(* Flush steps move entries between layers and lose none.                  *)
LEMMA AllStays ==
    ASSUME Types, TablesInv,
           \/ WriteSync \/ WriteSyncFails \/ WriteBufferFails
           \/ \E id \in stalled : StallResume(id)
           \/ Flush \/ FlushBegin
           \/ WriteSST \/ WriteSSTFails \/ PublishEdit \/ PublishInstall \/ PublishFails
    PROVE  All' = All
<1>a. \A m : <<m>> # <<>> /\ <<m>>[1] = m
  OBVIOUS
<1>1. CASE \/ WriteSync \/ WriteSyncFails \/ WriteBufferFails
           \/ WriteSST \/ WriteSSTFails \/ PublishEdit \/ PublishFails
  <2>1. UNCHANGED <<mem, immMem, ssts>>
    BY <1>1 DEF WriteSync, WriteSyncFails, WriteBufferFails, WriteSST, WriteSSTFails,
                PublishEdit, PublishFails
  <2> QED
    BY <2>1 DEF All, Imm
<1>2. CASE \/ \E id \in stalled : StallResume(id)
           \/ Flush \/ FlushBegin
  <2>1. ssts' = ssts
    BY <1>2 DEF StallResume, Flush, FlushBegin
  <2>2. mem' \cup Imm' = mem \cup Imm
    BY <1>2, <1>a DEF StallResume, Flush, FlushBegin, Imm
  <2> QED
    BY <2>1, <2>2 DEF All
<1>3. CASE PublishInstall
  <2>1. /\ flushing = "edited" /\ ssts' = Append(ssts, files[nextSSTID].data)
        /\ mem' = mem /\ Imm' = {} /\ nextSSTID \in FileIDs
    BY <1>3 DEF PublishInstall, Imm, TablesInv
  <2>2. files[nextSSTID].data = Imm
    BY <2>1 DEF TablesInv
  <2>3. ssts \in Seq(SUBSET Entries) /\ Len(ssts) \in Nat /\ Imm \in SUBSET Entries
    BY ImmType DEF Types
  <2>4. /\ Len(ssts') = Len(ssts) + 1 /\ ssts'[Len(ssts) + 1] = Imm
        /\ \A i \in 1..Len(ssts) : ssts'[i] = ssts[i]
    BY <2>1, <2>2, <2>3, AppendProperties
  <2>5. \A i : i \in 1..Len(ssts') <=> i \in 1..Len(ssts) \/ i = Len(ssts) + 1
    BY <2>3, <2>4
  <2>6. UNION {ssts'[i] : i \in 1..Len(ssts')} = Imm \cup UNION {ssts[i] : i \in 1..Len(ssts)}
    BY <2>4, <2>5
  <2> QED
    BY <2>1, <2>6 DEF All
<1> QED
  BY <1>1, <1>2, <1>3

LEMMA VisibleStep ==
    Core /\ DurableInv /\ ReplayInv /\ VisibleInv /\ Next => VisibleInv'
<1> SUFFICES ASSUME Core, DurableInv, ReplayInv, VisibleInv, Next,
                    phase' = "open", SyncOnWrite
             PROVE  VisibleInv'
    BY DEF VisibleInv
<1>0. Types /\ PhaseInv /\ WalInv /\ TablesInv /\ LayersInv
  BY DEF Core
<1> USE <1>0
<1>a. \A m : <<m>> # <<>> /\ <<m>>[1] = m
  OBVIOUS
<1>1. ASSUME NEW b \in Batches, WriteAppend(b) PROVE VisibleInv'
  <2>1. /\ All' = All /\ batches' = Append(batches, b) /\ acked' = acked
        /\ stalled' = stalled /\ phase = "open"
    BY <1>1 DEF WriteAppend, All, Imm
  <2>2. \A id \in 1..Len(batches) : batches'[id] = batches[id]
    <3>1. batches \in Seq(Batches)
      BY DEF Types
    <3> QED
      BY <2>1, <3>1, AppendProperties
  <2> QED
    BY <2>1, <2>2, VisibleKept
<1>2. ASSUME \/ WriteSync \/ WriteSyncFails \/ WriteBufferFails
             \/ \E id \in stalled : StallResume(id)
             \/ Flush \/ FlushBegin
             \/ WriteSST \/ WriteSSTFails \/ PublishEdit \/ PublishInstall \/ PublishFails
      PROVE  VisibleInv'
  <2>1. UNCHANGED <<phase, batches>> /\ acked' \cup stalled' \subseteq acked \cup stalled
    BY <1>2 DEF WriteSync, WriteSyncFails, WriteBufferFails, StallResume, Flush,
                FlushBegin, WriteSST, WriteSSTFails, PublishEdit, PublishInstall,
                PublishFails, histVars
  <2> QED
    BY <1>2, <2>1, AllStays, VisibleKept
<1>3. CASE WriteApply
  <2>0. PICK new \in Nat : new = Len(batches)
    BY DEF Types
  <2> DEFINE N == EntriesOf(batches[new], new)
  <2>1. new \in 1..Len(batches)
    BY <1>3, <2>0, LastBatch DEF WriteApply
  <2>2. /\ writing # "none" /\ ssts' = ssts /\ batches' = batches /\ phase' = phase
        /\ MaybeAutoFlush(new, mem \cup N)
    BY <1>3, <2>0 DEF WriteApply
  <2>3. \A e \in N : /\ seqno < e.seq /\ e.id = new /\ e.i \in 1..Len(batches[new])
                     /\ e.seq = seqno + e.i /\ e.key = batches[new][e.i].key
    BY <2>1, EntriesOfSeqs
  <2>4. \A i \in 1..Len(batches[new]) :
          \E e \in N : e.id = new /\ e.i = i /\ e.key = batches[new][i].key
    BY ONLY EntriesOfAll
  <2>5. seqno \in Nat /\ Len(batches[new]) \in Nat
    BY <2>1, BatchType DEF Types
  <2>6. new \notin acked \cup stalled /\ acked \cup stalled \subseteq 1..Len(batches)
    BY <2>0, <2>2 DEF DurableInv, Types
  <2>7. \A id \in acked \cup stalled : id < new
    BY <2>0, <2>6
  <2> HIDE DEF N
  <2>8. acked' \cup stalled' = acked \cup stalled \cup {new}
    BY <2>2 DEF MaybeAutoFlush
  <2>9. mem' \cup Imm' = mem \cup Imm \cup N
    BY <1>a, <2>2 DEF MaybeAutoFlush, Imm
  <2>10. All' = All \cup N
    BY <2>2, <2>9 DEF All
  <2>11. ASSUME NEW id \in acked \cup stalled, NEW i \in 1..Len(batches[id])
         PROVE  \E e \in All' : Stands(e, id, i)'
    <3>1. PICK e \in All : Stands(e, id, i)
      BY <2>2 DEF VisibleInv
    <3>2. \A f \in N : UpTo(id, i, f)
      BY <2>3, <2>7 DEF UpTo
    <3>3. Stands(e, id, i)'
      BY <2>2, <2>10, <3>1, <3>2 DEF Stands
    <3> QED
      BY <2>10, <3>1, <3>3
  <2>12. ASSUME NEW i \in 1..Len(batches[new])
         PROVE  \E e \in All' : Stands(e, new, i)'
    <3>1. PICK e \in N : e.id = new /\ e.i = i /\ e.key = batches[new][i].key
      BY <2>4
    <3>2. e.seq = seqno + i /\ e.seq \in Nat /\ seqno < e.seq
      BY <2>3, <2>5, <3>1
    <3>3. ASSUME NEW f \in All', e.seq <= f.seq PROVE UpTo(new, i, f)
      <4>1. CASE f \in N
        BY <2>3, <2>5, <3>2, <3>3, <4>1 DEF UpTo
      <4>2. CASE f \in All
        <5>1. f.seq <= seqno /\ f.seq \in Nat
          BY <4>2, AllSeqs
        <5> QED
          BY <2>5, <3>2, <3>3, <5>1
      <4> QED
        BY <2>10, <4>1, <4>2
    <3>4. Stands(e, new, i)'
      BY <2>2, <3>1, <3>3 DEF Stands
    <3> QED
      BY <2>10, <3>1, <3>4
  <2> QED
    BY <2>2, <2>8, <2>11, <2>12 DEF VisibleInv
<1>4. CASE ReplayEnd
  <2>1. /\ phase = "replay" /\ UNCHANGED <<mem, immMem, ssts, acked, stalled, batches>>
        /\ stalled = {} /\ Imm = {}
    BY <1>4 DEF ReplayEnd, histVars, PhaseInv, Imm
  <2>2. All' = All /\ All = mem \cup UNION {ssts[i] : i \in 1..Len(ssts)}
    BY <2>1 DEF All, Imm
  <2>3. ASSUME NEW j \in 1..walSynced PROVE j \in 1..replayed
    <3>1. /\ replayed \in Nat /\ Len(wal) \in Nat /\ walSynced \in Nat /\ walFlushed \in Nat
          /\ walSynced <= walFlushed /\ walFlushed <= Len(wal)
      BY DEF Types
    <3>2. j \in 1..walFlushed /\ j \in 1..Len(wal)
      BY <3>1
    <3>3. wal[j] # Torn
      BY <3>2 DEF WalInv
    <3>4. \/ replayed = Len(wal)
          \/ replayed = Len(wal) - 1 /\ wal[replayed + 1] = Torn
      BY <1>4, Zenon DEF ReplayEnd
    <3> QED
      BY <3>1, <3>2, <3>3, <3>4
  <2>4. ASSUME NEW id \in acked, NEW i \in 1..Len(batches[id])
        PROVE  \E e \in All' : Stands(e, id, i)'
    <3>1. PICK j \in 1..walSynced : wal[j] = id
      BY DEF DurableInv
    <3>2. j \in 1..replayed
      BY <2>3
    <3>3. PICK e \in mem : e.id = id /\ e.i = i /\ e.key = batches[id][i].key
      <4>1. \A k \in 1..replayed : \A m \in 1..Len(batches[wal[k]]) :
              \E e \in mem : e.id = wal[k] /\ e.i = m /\ e.key = batches[wal[k]][m].key
        BY <2>1 DEF ReplayInv
      <4>2. i \in 1..Len(batches[wal[j]])
        BY ONLY i \in 1..Len(batches[id]), <3>1
      <4>3. \E e \in mem : e.id = wal[j] /\ e.i = i /\ e.key = batches[wal[j]][i].key
        BY ONLY <3>2, <4>1, <4>2
      <4> QED
        BY ONLY <3>1, <4>3
    <3>4. e.seq \in Nat /\ e.seq <= seqno
      <4>1. e.seq \in Nat
        BY MemType
      <4>2. e \in mem \cup Imm
        OBVIOUS
      <4>3. e.seq <= seqno
        BY ONLY LayersInv, <4>2 DEF LayersInv
      <4> QED
        BY <4>1, <4>3
    <3>5. ASSUME NEW f \in All, e.seq <= f.seq PROVE UpTo(id, i, f)
      <4>1. CASE f \in mem
        BY <2>1, <3>3, <3>5, <4>1 DEF ReplayInv
      <4>2. CASE \E n \in 1..Len(ssts) : f \in ssts[n]
        <5>1. f.seq < e.seq /\ f.seq \in Nat
          BY <4>2, AllSeqs DEF LayersInv
        <5> QED
          BY <3>4, <3>5, <5>1
      <4> QED
        BY <2>2, <4>1, <4>2
    <3>6. Stands(e, id, i)'
      BY <2>1, <2>2, <3>3, <3>5 DEF Stands
    <3> QED
      BY <2>2, <3>6
  <2> QED
    BY <2>1, <2>4 DEF VisibleInv
<1>5. ~(Close \/ Kill \/ PowerLoss \/ OpenManifest \/ ReplayRecord)
  BY DEF Close, Kill, PowerLoss, Gone, OpenManifest, ReplayRecord
<1> QED
  BY <1>1, <1>2, <1>3, <1>4, <1>5 DEF Next

-----------------------------------------------------------------------------
(* Get. *)

(* The layers hold what can be read, in the order of the search.           *)
LEMMA LayersCover ==
    ASSUME Types
    PROVE  /\ NumLayers \in Nat
           /\ \A n \in 1..NumLayers : Layer(n) \in SUBSET All
           /\ \A e \in All : \E n \in 1..NumLayers : e \in Layer(n)
<1>1. Len(ssts) \in Nat
  BY DEF Types
<1>2. Layer(1) = mem /\ Layer(2) = Imm /\ 1 \in 1..NumLayers /\ 2 \in 1..NumLayers
  BY <1>1 DEF Layer, NumLayers
<1>3. \A n \in 3..NumLayers :
        Layer(n) = ssts[Len(ssts) + 3 - n] /\ Len(ssts) + 3 - n \in 1..Len(ssts)
  BY <1>1 DEF Layer, NumLayers
<1>4. ASSUME NEW n \in 1..NumLayers PROVE Layer(n) \in SUBSET All
  <2>1. n = 1 \/ n = 2 \/ n \in 3..NumLayers
    BY <1>1 DEF NumLayers
  <2> QED
    BY <1>2, <1>3, <2>1 DEF All
<1>5. ASSUME NEW e \in All PROVE \E n \in 1..NumLayers : e \in Layer(n)
  <2>1. ASSUME NEW i \in 1..Len(ssts), e \in ssts[i]
        PROVE  \E n \in 1..NumLayers : e \in Layer(n)
    <3>1. /\ Len(ssts) + 3 - i \in 3..NumLayers /\ Len(ssts) + 3 - i \in 1..NumLayers
          /\ Len(ssts) + 3 - (Len(ssts) + 3 - i) = i
      BY <1>1 DEF NumLayers
    <3>2. e \in Layer(Len(ssts) + 3 - i)
      BY <1>3, <2>1, <3>1
    <3> QED
      BY <3>1, <3>2
  <2> QED
    BY <1>2, <2>1 DEF All
<1> QED
  BY <1>1, <1>4, <1>5 DEF NumLayers

(* The entry Get stops at is one of the key with the highest number.       *)
LEMMA FoundNewest ==
    ASSUME Types, LayersInv, LayerOrder, NEW k, NEW e \in All, e.key = k
    PROVE  \E g \in All : /\ Found(k) = {g} /\ g.key = k
                          /\ \A f \in All : f.key = k => f.seq <= g.seq
<1> DEFINE hits == {n \in 1..NumLayers : Versions(n, k) # {}}
           top == CHOOSE n \in hits : \A m \in hits : n <= m
           V == Versions(top, k)
           g == Newest(V)
<1>1. /\ NumLayers \in Nat
      /\ \A n \in 1..NumLayers : Layer(n) \in SUBSET All
      /\ \A f \in All : \E n \in 1..NumLayers : f \in Layer(n)
  BY LayersCover
<1>2. \A f \in All : f.seq \in Nat /\ f.seq <= seqno
  BY AllSeqs
<1>3. ASSUME NEW f \in All, f.key = k PROVE \E n \in hits : f \in Versions(n, k)
  <2>1. PICK n \in 1..NumLayers : f \in Layer(n)
    BY <1>1
  <2>2. f \in Versions(n, k)
    BY <1>2, <1>3, <2>1 DEF Versions
  <2> QED
    BY <2>2
<1>4. hits # {} /\ hits \in SUBSET Nat
  BY <1>1, <1>3
<1>5. top \in hits /\ \A m \in hits : top <= m
  <2>1. \E n \in hits : \A m \in hits : n <= m
    BY <1>4, LeastNat
  <2> QED
    BY <2>1
<1> HIDE DEF top
<1>6. V # {} /\ V \in SUBSET All /\ \A f \in V : f \in Layer(top) /\ f.key = k
  BY <1>1, <1>5 DEF Versions
<1>7. \E x \in V : \A f \in V : f.seq <= x.seq
  <2> DEFINE T == {f.seq : f \in V}
  <2>1. T \in SUBSET Nat /\ T # {} /\ seqno \in Nat /\ \A x \in T : x <= seqno
    BY <1>2, <1>6 DEF Types
  <2> HIDE DEF V
  <2>2. \E x \in T : \A y \in T : y <= x
    <3> HIDE DEF T
    <3> QED
      BY <2>1, GreatestNat
  <2> QED
    BY <2>2
<1>8. g \in V /\ \A f \in V : f.seq <= g.seq
  BY <1>7 DEF Newest
<1>9. Found(k) = {g}
  BY <1>4 DEF Found, top
<1>10. ASSUME NEW f \in All, f.key = k PROVE f.seq <= g.seq
  <2>1. PICK n \in hits : f \in Versions(n, k)
    BY <1>3, <1>10
  <2>2. CASE n = top
    BY <1>8, <2>1, <2>2
  <2>3. CASE n # top
    <3>1. top \in 1..NumLayers /\ n \in (top + 1)..NumLayers
      BY <1>1, <1>5, <2>1, <2>3
    <3>2. f \in Layer(n) /\ g \in Layer(top)
      BY <1>6, <1>8, <2>1 DEF Versions
    <3>3. f.seq < g.seq
      BY <3>1, <3>2 DEF LayerOrder
    <3>4. f.seq \in Nat /\ g.seq \in Nat
      BY <1>2, <1>6, <1>8
    <3> QED
      BY <3>3, <3>4
  <2> QED
    BY <2>2, <2>3
<1> HIDE DEF g, V
<1> QED
  BY <1>6, <1>8, <1>9, <1>10

LEMMA ReadsStep ==
    Core /\ DurableInv /\ ReplayInv /\ VisibleInv /\ [Next]_vars
      => (Core /\ DurableInv /\ ReplayInv /\ VisibleInv)'
<1> SUFFICES ASSUME Core, DurableInv, ReplayInv, VisibleInv, [Next]_vars
             PROVE  (Core /\ DurableInv /\ ReplayInv /\ VisibleInv)'
    OBVIOUS
<1>1. (Core /\ DurableInv)'
  BY CoreStep
<1>2. CASE Next
  BY <1>1, <1>2, ReplayStep, VisibleStep
<1>3. CASE UNCHANGED vars
  <2>1. UNCHANGED <<wal, phase, mem, immMem, ssts, replayed, batches, acked, stalled>>
    BY <1>3 DEF vars, walVars, memVars, histVars
  <2>2. ReplayInv'
    BY <2>1 DEF ReplayInv
  <2>3. All' = All
    BY <2>1 DEF All, Imm
  <2>4. VisibleInv'
    BY <2>1, <2>3 DEF VisibleInv, Stands
  <2> QED
    BY <1>1, <2>2, <2>4
<1> QED
  BY <1>2, <1>3

LEMMA ReadsInvariant == Spec => [](Core /\ DurableInv /\ ReplayInv /\ VisibleInv)
<1>1. Init => Core /\ DurableInv
  BY InitTypes, PhaseInit, WalInit, ManifestInit, TablesInit, LayersInit, DurableInit
     DEF Core
<1>2. Init => Core /\ DurableInv /\ ReplayInv /\ VisibleInv
  BY <1>1, ReplayInit, VisibleInit
<1> QED
  BY <1>2, ReadsStep, PTL DEF Spec

(* "Acknowledged = durable", for any batches, flush size and faults: with  *)
(* SyncOnWrite, whenever the DB is open, Get finds for the key of every    *)
(* operation of a Write that returned nil this operation or a later one,   *)
(* whatever process crashes, power losses, failed syncs and failed flushes *)
(* happened since.                                                         *)
THEOREM AckedStayVisible == Spec => []AckedWritesVisible
<1>1. Core /\ VisibleInv => AckedWritesVisible
  <2> SUFFICES ASSUME Core, VisibleInv, phase = "open", SyncOnWrite,
                      NEW id \in acked, NEW i \in 1..Len(batches[id])
               PROVE  \E e \in Found(batches[id][i].key) :
                        e.id > id \/ (e.id = id /\ e.i >= i)
      BY DEF AckedWritesVisible
  <2>0. Types /\ LayersInv /\ LayerOrder
    BY CoreLayerOrder DEF Core
  <2>1. PICK e \in All : Stands(e, id, i)
    BY DEF VisibleInv
  <2>2. e.key = batches[id][i].key
    BY <2>1 DEF Stands
  <2>3. PICK g \in All : /\ Found(batches[id][i].key) = {g}
                         /\ g.key = batches[id][i].key
                         /\ \A f \in All : f.key = batches[id][i].key => f.seq <= g.seq
    BY <2>0, <2>2, FoundNewest
  <2>4. UpTo(id, i, g)
    BY <2>1, <2>2, <2>3 DEF Stands
  <2>5. g.id \in Nat /\ g.i \in Nat /\ id \in Nat /\ i \in Nat
    <3>1. g \in Entries
      BY <2>0, AllSeqs
    <3>2. id \in 1..Len(batches)
      BY <2>0 DEF Types
    <3> QED
      BY <3>1, <3>2 DEF Entries
  <2>6. g.id > id \/ (g.id = id /\ g.i >= i)
    BY <2>4, <2>5 DEF UpTo
  <2> QED
    BY <2>3, <2>6
<1> QED
  BY <1>1, ReadsInvariant, PTL

-----------------------------------------------------------------------------
(* The refinement.  With SyncOnWrite and without power losses the engine   *)
(* implements the abstract store: every step of the detailed specification *)
(* is a step of KVStore, or one that its clients cannot see.               *)

(* An entry is an operation of a batch that was written.                   *)
Valid(S, bs) ==
    \A e \in S : /\ e.id \in 1..Len(bs) /\ e.i \in 1..Len(bs[e.id])
                 /\ bs[e.id][e.i].key = e.key

UniqueSeqs(S) == \A e, f \in S : e.seq = f.seq => e = f

Genuine(S, bs) == Valid(S, bs) /\ UniqueSeqs(S)

EntriesInv ==
    /\ Genuine(mem, batches) /\ Genuine(Imm, batches)
    /\ \A f \in FileIDs : Genuine(files[f].data, batches)

(* Whatever an SSTable or a memtable holds is in the part of the WAL that  *)
(* has left the buffer.                                                    *)
InWal(S, w, n) == \A e \in S : \E j \in 1..n : w[j] = e.id

LoggedInv ==
    SyncOnWrite /\ "power" \notin Faults =>
      /\ InWal(mem, wal, walFlushed) /\ InWal(Imm, wal, walFlushed)
      /\ \A f \in FileIDs : InWal(files[f].data, wal, walFlushed)

-----------------------------------------------------------------------------
(* How a step moves entries. *)

(* The step applies batch id, whose record is safe with SyncOnWrite.       *)
Applies(id) ==
    /\ id \in 1..Len(batches) /\ batches' = batches
    /\ SyncOnWrite => \E j \in 1..walFlushed : wal[j] = id

LEMMA MemMoves ==
    ASSUME Core, Next
    PROVE  \E M : /\ M = mem \/ \E id : Applies(id) /\ M = mem \cup EntriesOf(batches[id], id)
                  /\ mem' = mem \/ mem' = {} \/ mem' = M
                  /\ Imm' = Imm \/ Imm' = {} \/ Imm' = M
<1>0. Types /\ PhaseInv /\ WalInv
  BY DEF Core
<1> USE <1>0
<1>a. \A m : <<m>> # <<>> /\ <<m>>[1] = m
  OBVIOUS
<1>b. /\ wal \in Seq(Nat) /\ Len(wal) \in Nat /\ walFlushed \in Nat /\ replayed \in Nat
      /\ walSynced \in Nat /\ walSynced <= walFlushed /\ walFlushed <= Len(wal)
  BY DEF Types
<1> DEFINE Goal(M) == /\ M = mem \/ \E id : Applies(id) /\ M = mem \cup EntriesOf(batches[id], id)
                      /\ mem' = mem \/ mem' = {} \/ mem' = M
                      /\ Imm' = Imm \/ Imm' = {} \/ Imm' = M
<1>1. ASSUME mem' = mem, immMem' = immMem PROVE Goal(mem)
  BY <1>1 DEF Imm
<1>2. ASSUME mem' = {}, immMem' = <<>> PROVE Goal(mem)
  BY <1>2 DEF Imm
<1>3. CASE Close \/ Kill \/ PowerLoss
  BY <1>2, <1>3 DEF Close, Kill, PowerLoss, Gone
<1>4. CASE \E id \in stalled : StallResume(id)
  BY <1>a, <1>1, <1>4 DEF StallResume, Imm
<1>5. CASE Flush \/ FlushBegin \/ PublishInstall
  BY <1>a, <1>5 DEF Flush, FlushBegin, PublishInstall, Imm
<1>6. CASE WriteApply
  <2> DEFINE id == Len(batches)
             M == mem \cup EntriesOf(batches[id], id)
  <2>1. id \in 1..Len(batches) /\ batches' = batches
    BY <1>6, LastBatch DEF WriteApply
  <2>2. SyncOnWrite => \E j \in 1..walFlushed : wal[j] = id
    <3> HAVE SyncOnWrite
    <3>1. writing = "synced"
      BY <1>6 DEF WriteApply
    <3>2. wal # <<>> /\ wal[Len(wal)] = id /\ walSynced = Len(wal)
      BY <3>1 DEF WalInv
    <3>3. Len(wal) \in 1..walFlushed
      BY <1>b, <3>2, EmptySeq
    <3> QED
      BY <3>2, <3>3
  <2>3. Applies(id)
    BY <2>1, <2>2 DEF Applies
  <2>4. MaybeAutoFlush(id, M)
    BY <1>6 DEF WriteApply
  <2>5. \E x : Applies(x) /\ M = mem \cup EntriesOf(batches[x], x)
    BY <2>3
  <2> HIDE DEF id, M
  <2>6. /\ mem' = mem \/ mem' = {} \/ mem' = M
        /\ Imm' = Imm \/ Imm' = {} \/ Imm' = M
    BY <1>a, <2>4 DEF MaybeAutoFlush, Imm
  <2>7. Goal(M)
    BY <2>5, <2>6
  <2> HIDE DEF Goal
  <2> QED
    BY <2>7 DEF Goal
<1>7. CASE ReplayRecord
  <2> DEFINE id == wal[replayed + 1]
             M == mem \cup EntriesOf(batches[id], id)
  <2>1. replayed + 1 \in 1..Len(wal) /\ id \in 1..Len(batches) /\ id # Torn
    BY <1>7, ReplayedBatch DEF ReplayRecord
  <2>2. replayed + 1 \in 1..walFlushed
    <3>1. ~(replayed + 1 > walFlushed)
      BY <1>7, <2>1 DEF ReplayRecord, WalInv
    <3> QED
      BY <1>b, <3>1
  <2>3. Applies(id)
    BY <1>7, <2>1, <2>2 DEF Applies, ReplayRecord, histVars
  <2>4. mem' = M /\ Imm' = Imm
    BY <1>7 DEF ReplayRecord, Imm
  <2>5. \E x : Applies(x) /\ M = mem \cup EntriesOf(batches[x], x)
    BY <2>3
  <2> HIDE DEF id, M
  <2>7. Goal(M)
    BY <2>4, <2>5
  <2> HIDE DEF Goal
  <2> QED
    BY <2>7 DEF Goal
<1>8. ASSUME \/ \E b \in Batches : WriteAppend(b)
             \/ WriteSync \/ WriteSyncFails \/ WriteBufferFails
             \/ WriteSST \/ WriteSSTFails \/ PublishEdit \/ PublishFails
             \/ OpenManifest \/ ReplayEnd
      PROVE  Goal(mem)
  <2>1. mem' = mem /\ immMem' = immMem
    BY <1>8 DEF WriteAppend, WriteSync, WriteSyncFails, WriteBufferFails, WriteSST,
                WriteSSTFails, PublishEdit, PublishFails, OpenManifest, ReplayEnd
  <2> QED
    BY <1>1, <2>1
<1> QED
  BY <1>3, <1>4, <1>5, <1>6, <1>7, <1>8 DEF Next

LEMMA FileMoves ==
    ASSUME Core, Types', Next, NEW f \in FileIDs
    PROVE  \/ files'[f].data = files[f].data
           \/ files'[f].data = {} \/ files'[f].data = Imm
<1>0. Types /\ TablesInv
  BY DEF Core
<1>1. files \in [FileIDs -> FileState]
  BY <1>0 DEF Types
<1>2. ASSUME flushing = "io", NEW left \in Unfinished, files' = [files EXCEPT ![nextSSTID] = left]
      PROVE  \/ files'[f].data = files[f].data
             \/ files'[f].data = {} \/ files'[f].data = Imm
  <2>1. CASE f = nextSSTID
    <3>1. files'[f] = left
      BY <1>1, <1>2, <2>1
    <3>2. left \in {files[f], Absent, Partial, [state |-> "complete", data |-> Imm]}
      BY <2>1 DEF Unfinished
    <3> QED
      BY <3>1, <3>2 DEF Absent, Partial
  <2>2. CASE f # nextSSTID
    BY <1>1, <1>2, <2>2
  <2> QED
    BY <2>1, <2>2
<1>3. CASE WriteSST
  <2>1. [state |-> "complete", data |-> Imm] \in Unfinished
    BY DEF Unfinished
  <2> QED
    BY <1>2, <1>3, <2>1 DEF WriteSST
<1>4. CASE WriteSSTFails
  BY <1>2, <1>4 DEF WriteSSTFails
<1>5. CASE Kill
  BY <1>2, <1>5 DEF Kill
<1>6. CASE PowerLoss
  BY <1>2, <1>6 DEF PowerLoss
<1>7. CASE OpenManifest
  <2>1. files'[f] = Absent \/ files'[f] = files[f]
    BY <1>7 DEF OpenManifest
  <2> QED
    BY <2>1 DEF Absent
<1>8. ASSUME ~WriteSST, ~WriteSSTFails, ~Kill, ~PowerLoss, ~OpenManifest
      PROVE  files' = files
  BY <1>8 DEF Next, WriteAppend, WriteSync, WriteSyncFails, WriteBufferFails, WriteApply,
              StallResume, Flush, FlushBegin, PublishEdit, PublishInstall, PublishFails,
              Close, ReplayRecord, ReplayEnd
<1> QED
  BY <1>3, <1>4, <1>5, <1>6, <1>7, <1>8

-----------------------------------------------------------------------------
(* Entries are genuine. *)

LEMMA EntriesInit == Init => EntriesInv
<1> HAVE Init
<1>1. mem = {} /\ Imm = {} /\ \A f \in FileIDs : files[f].data = {}
  BY DEF Init, Imm, Absent
<1> QED
  BY <1>1 DEF EntriesInv, Genuine, Valid, UniqueSeqs

(* A batch, once written, keeps its place.                                 *)
LEMMA BatchesKept ==
    ASSUME Types, Next
    PROVE  /\ \A id \in 1..Len(batches) : batches'[id] = batches[id]
           /\ 1..Len(batches) \subseteq 1..Len(batches')
<1>1. batches \in Seq(Batches) /\ Len(batches) \in Nat
  BY DEF Types
<1>2. ASSUME NEW b \in Batches, WriteAppend(b)
      PROVE  /\ \A id \in 1..Len(batches) : batches'[id] = batches[id]
             /\ 1..Len(batches) \subseteq 1..Len(batches')
  <2>1. batches' = Append(batches, b)
    BY <1>2 DEF WriteAppend
  <2>2. /\ Len(batches') = Len(batches) + 1
        /\ \A id \in 1..Len(batches) : batches'[id] = batches[id]
    BY <1>1, <2>1, AppendProperties
  <2> QED
    BY <1>1, <2>2
<1>3. ASSUME ~(\E b \in Batches : WriteAppend(b)) PROVE batches' = batches
  BY <1>3 DEF Next, WriteSync, WriteSyncFails, WriteBufferFails, WriteApply,
              StallResume, Flush, FlushBegin, WriteSST, WriteSSTFails, PublishEdit,
              PublishInstall, PublishFails, Close, Kill, PowerLoss, OpenManifest,
              ReplayRecord, ReplayEnd, histVars
<1> QED
  BY <1>2, <1>3

LEMMA EntriesStep == Core /\ EntriesInv /\ Types' /\ Next => EntriesInv'
<1> SUFFICES ASSUME Core, EntriesInv, Types', Next PROVE EntriesInv'
    OBVIOUS
<1>0. Types /\ LayersInv
  BY DEF Core
<1>1. ASSUME NEW S, Genuine(S, batches) PROVE Genuine(S, batches')
  <2>1. /\ \A id \in 1..Len(batches) : batches'[id] = batches[id]
        /\ 1..Len(batches) \subseteq 1..Len(batches')
    BY <1>0, BatchesKept
  <2> QED
    BY <1>1, <2>1 DEF Genuine, Valid
<1>2. ASSUME NEW id, Applies(id) PROVE Genuine(mem \cup EntriesOf(batches[id], id), batches)
  <2> DEFINE N == EntriesOf(batches[id], id)
  <2>1. id \in 1..Len(batches)
    BY <1>2 DEF Applies
  <2>2. \A e \in N : /\ seqno < e.seq /\ e.id = id /\ e.i \in 1..Len(batches[id])
                     /\ e.seq = seqno + e.i /\ e.key = batches[id][e.i].key
    BY <1>0, <2>1, EntriesOfSeqs
  <2>3. \A e \in mem : e.seq <= seqno /\ e.seq \in Nat
    BY <1>0, MemType DEF LayersInv
  <2>4. seqno \in Nat /\ Len(batches[id]) \in Nat
    BY <1>0, <2>1, BatchType DEF Types
  <2>5. \A e, f \in N : e.i = f.i => e = f
    BY DEF EntriesOf
  <2> HIDE DEF N
  <2>6. \A e, f \in N : e.seq = f.seq => e = f
    BY <2>2, <2>4, <2>5
  <2>7. \A e \in N, f \in mem : e.seq # f.seq
    BY <2>2, <2>3, <2>4
  <2>8. Valid(mem \cup N, batches)
    BY <2>1, <2>2 DEF EntriesInv, Genuine, Valid
  <2>9. UniqueSeqs(mem \cup N)
    BY <2>6, <2>7 DEF EntriesInv, Genuine, UniqueSeqs
  <2> QED
    BY <2>8, <2>9 DEF Genuine, N
<1>3. Genuine({}, batches)
  BY DEF Genuine, Valid, UniqueSeqs
<1>4. PICK M : /\ M = mem \/ \E id : Applies(id) /\ M = mem \cup EntriesOf(batches[id], id)
               /\ mem' = mem \/ mem' = {} \/ mem' = M
               /\ Imm' = Imm \/ Imm' = {} \/ Imm' = M
  BY MemMoves
<1>5. Genuine(M, batches)
  BY <1>2, <1>4 DEF EntriesInv
<1>6. Genuine(mem', batches') /\ Genuine(Imm', batches')
  BY <1>1, <1>3, <1>4, <1>5 DEF EntriesInv
<1>7. ASSUME NEW f \in FileIDs PROVE Genuine(files'[f].data, batches')
  BY <1>1, <1>3, FileMoves DEF EntriesInv
<1> QED
  BY <1>6, <1>7 DEF EntriesInv

-----------------------------------------------------------------------------
(* Entries are in the WAL. *)

LEMMA LoggedInit == Init => LoggedInv
<1> HAVE Init
<1>1. mem = {} /\ Imm = {} /\ \A f \in FileIDs : files[f].data = {}
  BY DEF Init, Imm, Absent
<1> QED
  BY <1>1 DEF LoggedInv, InWal

(* Short of a power loss, what has left the buffer of the WAL stays.       *)
LEMMA FlushedKept ==
    ASSUME Core, Types', Next, ~PowerLoss
    PROVE  /\ 1..walFlushed \subseteq 1..walFlushed'
           /\ \A j \in 1..walFlushed : wal'[j] = wal[j]
<1>0. Types /\ WalInv
  BY DEF Core
<1>a. /\ wal \in Seq(Nat) /\ Len(wal) \in Nat /\ walFlushed \in Nat
      /\ walFlushed <= Len(wal) /\ walFlushed <= walFlushed
  BY ONLY <1>0 DEF Types
<1>b. walFlushed' \in Nat
  BY ONLY Types' DEF Types
<1>c. ASSUME wal' \in Survivors(wal, walFlushed, Torn), walFlushed' = Len(Trimmed(wal', Torn))
      PROVE  /\ 1..walFlushed \subseteq 1..walFlushed'
             /\ \A j \in 1..walFlushed : wal'[j] = wal[j]
  <2>1. walFlushed <= walFlushed' /\ \A i \in 1..walFlushed' : wal'[i] = wal[i]
    BY <1>0, <1>a, <1>c, WalSurvives
  <2> QED
    BY <1>a, <1>b, <2>1
<1>d. ASSUME wal' = wal, walFlushed' \in {walFlushed, Len(wal)}
      PROVE  /\ 1..walFlushed \subseteq 1..walFlushed'
             /\ \A j \in 1..walFlushed : wal'[j] = wal[j]
  BY <1>a, <1>d
<1>1. ASSUME NEW b \in Batches, WriteAppend(b)
      PROVE  /\ 1..walFlushed \subseteq 1..walFlushed'
             /\ \A j \in 1..walFlushed : wal'[j] = wal[j]
  <2>1. wal' = Append(wal, Len(batches) + 1) /\ walFlushed' = walFlushed
    BY <1>1 DEF WriteAppend
  <2>2. Len(batches) + 1 \in Nat
    BY ONLY <1>0 DEF Types
  <2>3. \A i \in 1..Len(wal) : wal'[i] = wal[i]
    BY <1>a, <2>1, <2>2, AppendProperties
  <2> QED
    BY <1>a, <2>1, <2>3
<1>2. CASE WriteBufferFails
  BY <1>c, <1>2 DEF WriteBufferFails
<1>3. CASE Close
  BY <1>c, <1>d, <1>3 DEF Close
<1>4. CASE Kill
  BY <1>c, <1>d, <1>4 DEF Kill
<1>5. CASE ReplayEnd
  <2>1. CASE UNCHANGED walVars
    BY <1>d, <2>1 DEF walVars
  <2>2. CASE /\ replayed = Len(wal) - 1 /\ wal[replayed + 1] = Torn
             /\ wal' = SubSeq(wal, 1, replayed)
             /\ walFlushed' = Smaller(walFlushed, replayed)
    <3>1. replayed \in Nat /\ replayed + 1 = Len(wal)
      <4>1. replayed \in Nat
        BY ONLY <1>0 DEF Types
      <4> QED
        BY <1>a, <2>2, <4>1
    <3>2. ~(Len(wal) \in 1..walFlushed)
      BY <1>0, <2>2, <3>1 DEF WalInv
    <3>3. walFlushed <= replayed
      BY <1>a, <3>1, <3>2
    <3>4. \A i \in 1..replayed : wal[i] \in Nat
      BY <1>a, <3>1
    <3>5. \A i \in 1..replayed : wal'[i] = wal[i]
      BY <1>a, <2>2, <3>1, <3>4, SubSeqProperties
    <3> QED
      BY <1>a, <2>2, <3>1, <3>3, <3>5 DEF Smaller
  <2> QED
    BY <1>5, <2>1, <2>2 DEF ReplayEnd
<1>6. ASSUME ~(\E b \in Batches : WriteAppend(b)), ~WriteBufferFails, ~Close, ~Kill, ~ReplayEnd
      PROVE  wal' = wal /\ walFlushed' \in {walFlushed, Len(wal)}
  BY <1>6 DEF Next, WriteSync, WriteSyncFails, WriteApply,
              StallResume, Flush, FlushBegin, WriteSST, WriteSSTFails, PublishEdit,
              PublishInstall, PublishFails, OpenManifest, ReplayRecord, walVars
<1> QED
  BY <1>d, <1>1, <1>2, <1>3, <1>4, <1>5, <1>6

LEMMA LoggedStep == Core /\ LoggedInv /\ Types' /\ Next => LoggedInv'
<1> SUFFICES ASSUME Core, LoggedInv, Types', Next, SyncOnWrite, "power" \notin Faults
             PROVE  LoggedInv'
    BY DEF LoggedInv
<1>0. Types
  BY DEF Core
<1>a. /\ 1..walFlushed \subseteq 1..walFlushed'
      /\ \A j \in 1..walFlushed : wal'[j] = wal[j]
  BY FlushedKept DEF PowerLoss
<1>1. ASSUME NEW S, InWal(S, wal, walFlushed) PROVE InWal(S, wal', walFlushed')
  BY <1>1, <1>a DEF InWal
<1>2. ASSUME NEW id, Applies(id)
      PROVE  InWal(mem \cup EntriesOf(batches[id], id), wal, walFlushed)
  <2>1. id \in 1..Len(batches) /\ \E j \in 1..walFlushed : wal[j] = id
    BY <1>2 DEF Applies
  <2>2. \A e \in EntriesOf(batches[id], id) : e.id = id
    BY <1>0, <2>1, EntriesOfSeqs
  <2> QED
    BY <2>1, <2>2 DEF InWal, LoggedInv
<1>3. InWal({}, wal, walFlushed)
  BY DEF InWal
<1>4. PICK M : /\ M = mem \/ \E id : Applies(id) /\ M = mem \cup EntriesOf(batches[id], id)
               /\ mem' = mem \/ mem' = {} \/ mem' = M
               /\ Imm' = Imm \/ Imm' = {} \/ Imm' = M
  BY MemMoves
<1>5. InWal(M, wal, walFlushed)
  BY <1>2, <1>4 DEF LoggedInv
<1>6. InWal(mem', wal', walFlushed') /\ InWal(Imm', wal', walFlushed')
  BY <1>1, <1>3, <1>4, <1>5 DEF LoggedInv
<1>7. ASSUME NEW f \in FileIDs PROVE InWal(files'[f].data, wal', walFlushed')
  BY <1>1, <1>3, FileMoves DEF LoggedInv
<1> QED
  BY <1>6, <1>7 DEF LoggedInv

-----------------------------------------------------------------------------
(* Get, as a function of everything that can be read. *)

(* Entry g is the newest of key k.                                         *)
Top(k, g) ==
    g \in All /\ g.key = k /\ \A f \in All : f.key = k => f.seq <= g.seq

(* What Get returns when it stops at g.                                    *)
Value(g) == IF batches[g.id][g.i].del THEN {} ELSE {<<g.id, g.i>>}

ReadInv ==
    \A k \in Keys :
      /\ \A g : Top(k, g) => Get(k) = Value(g)
      /\ (\A e \in All : e.key # k) => Get(k) = {}
      /\ (\E e \in All : e.key = k) => \E g : Top(k, g)

(* An open table is the data of its file.                                  *)
LEMMA OpenFiles ==
    ASSUME Core, NEW i \in 1..Len(ssts)
    PROVE  i \in FileIDs /\ ssts[i] = files[i].data
<1>0. Types /\ PhaseInv /\ ManifestInv /\ TablesInv
  BY DEF Core
<1>1. Len(ssts) \in Nat /\ Len(manifest) \in Nat
  BY <1>0 DEF Types
<1>2. phase # "down"
  BY <1>0, <1>1 DEF PhaseInv
<1>3. /\ Len(ssts) = nextSSTID - 1 /\ ssts[i] = files[i].data
      /\ nextSSTID \in 1..Len(manifest) /\ \A j \in 1..nextSSTID : manifest[j] # TornEdit
  BY <1>0, <1>2 DEF TablesInv, ManifestInv
<1>4. i + 1 \in 2..Len(manifest) /\ i + 1 \in 1..nextSSTID /\ (i + 1) - 1 = i
  BY ONLY <1>1, <1>3, i \in 1..Len(ssts)
<1>5. i \in FileIDs
  BY <1>0, <1>3, <1>4 DEF TablesInv, NamedInv
<1> QED
  BY <1>3, <1>5

LEMMA AllGenuine == Core /\ EntriesInv => Genuine(All, batches)
<1> SUFFICES ASSUME Core, EntriesInv PROVE Genuine(All, batches)
    OBVIOUS
<1>0. Types /\ PhaseInv /\ ManifestInv /\ TablesInv /\ LayersInv
  BY DEF Core
<1>1. \A i \in 1..Len(ssts) : i \in FileIDs /\ ssts[i] = files[i].data
  BY OpenFiles
<1>2. ASSUME NEW e \in All
      PROVE  \/ e \in mem \/ e \in Imm
             \/ \E i \in 1..Len(ssts) : e \in ssts[i]
  BY DEF All
<1>3. Valid(All, batches)
  BY <1>1, <1>2 DEF EntriesInv, Genuine, Valid
<1>4. ASSUME NEW e \in All, NEW f \in All, e.seq = f.seq PROVE e = f
  <2>1. e.seq \in Nat /\ f.seq \in Nat
    BY <1>0, AllSeqs
  <2>2. ~(e.seq < f.seq) /\ ~(f.seq < e.seq)
    BY <1>4, <2>1
  <2>3. CASE e \in mem /\ f \in mem
    BY <1>4, <2>3 DEF EntriesInv, Genuine, UniqueSeqs
  <2>4. CASE e \in Imm /\ f \in Imm
    BY <1>4, <2>4 DEF EntriesInv, Genuine, UniqueSeqs
  <2>5. ASSUME NEW i \in 1..Len(ssts), NEW j \in 1..Len(ssts), e \in ssts[i], f \in ssts[j]
        PROVE  e = f
    <3>1. i = j
      <4>1. ~(i < j) /\ ~(j < i)
        BY <1>0, <2>2, <2>5 DEF LayersInv
      <4> QED
        BY <4>1
    <3> QED
      BY <1>1, <1>4, <2>5, <3>1 DEF EntriesInv, Genuine, UniqueSeqs
  <2>6. CASE (e \in mem /\ f \in Imm) \/ (e \in Imm /\ f \in mem)
    BY <1>0, <2>2, <2>6 DEF LayersInv
  <2>7. CASE e \in mem \cup Imm /\ \E i \in 1..Len(ssts) : f \in ssts[i]
    BY <1>0, <2>2, <2>7 DEF LayersInv
  <2>8. CASE f \in mem \cup Imm /\ \E i \in 1..Len(ssts) : e \in ssts[i]
    BY <1>0, <2>2, <2>8 DEF LayersInv
  <2> QED
    BY <1>2, <2>3, <2>4, <2>5, <2>6, <2>7, <2>8
<1> QED
  BY <1>3, <1>4 DEF Genuine, UniqueSeqs

LEMMA AllLogged ==
    ASSUME Core, LoggedInv, SyncOnWrite, "power" \notin Faults
    PROVE  InWal(All, wal, walFlushed)
<1>1. ASSUME NEW e \in All
      PROVE  \/ e \in mem \/ e \in Imm
             \/ \E i \in 1..Len(ssts) : e \in ssts[i]
  BY DEF All
<1> QED
  BY <1>1, OpenFiles DEF LoggedInv, InWal

LEMMA ReadsTop == Core /\ EntriesInv => ReadInv
<1> SUFFICES ASSUME Core, EntriesInv, NEW k \in Keys
             PROVE  /\ \A g : Top(k, g) => Get(k) = Value(g)
                    /\ (\A e \in All : e.key # k) => Get(k) = {}
                    /\ (\E e \in All : e.key = k) => \E g : Top(k, g)
    BY DEF ReadInv
<1>0. Types /\ LayersInv /\ LayerOrder
  BY CoreLayerOrder DEF Core
<1>1. ASSUME NEW e \in All, e.key = k PROVE \E g : Top(k, g) /\ Found(k) = {g}
  <2>1. PICK g \in All : /\ Found(k) = {g} /\ g.key = k
                         /\ \A f \in All : f.key = k => f.seq <= g.seq
    BY <1>0, <1>1, FoundNewest
  <2> QED
    BY <2>1 DEF Top
<1>2. ASSUME NEW g, Top(k, g) PROVE Get(k) = Value(g)
  <2>1. PICK h : Top(k, h) /\ Found(k) = {h}
    BY <1>1, <1>2 DEF Top
  <2>2. g.seq <= h.seq /\ h.seq <= g.seq /\ g \in All /\ h \in All
    BY <1>2, <2>1 DEF Top
  <2>3. g.seq \in Nat /\ h.seq \in Nat
    BY <1>0, <2>2, AllSeqs
  <2>4. g = h
    <3>1. g.seq = h.seq
      BY <2>2, <2>3
    <3> QED
      BY <2>2, <3>1, AllGenuine DEF Genuine, UniqueSeqs
  <2>5. Found(k) = {g}
    BY <2>1, <2>4
  <2> QED
    BY <2>5 DEF Get, Value, IsTombstone
<1>3. ASSUME \A e \in All : e.key # k PROVE Get(k) = {}
  <2>1. \A n \in 1..NumLayers : Layer(n) \in SUBSET All
    BY <1>0, LayersCover
  <2>2. \A n \in 1..NumLayers : Versions(n, k) = {}
    BY <1>3, <2>1 DEF Versions
  <2>3. Found(k) = {}
    BY <2>2 DEF Found
  <2> QED
    BY <2>3 DEF Get
<1> QED
  BY <1>1, <1>2, <1>3

(* What can be read stays, and so does every answer.                       *)
LEMMA SameAnswer ==
    ASSUME ReadInv, ReadInv', Genuine(All, batches), NEW k \in Keys,
           \A e \in All : e.key = k => e \in All',
           \A e \in All' : e.key = k => e \in All,
           \A id \in 1..Len(batches) : batches'[id] = batches[id]
    PROVE  Get(k)' = Get(k)
<1>1. CASE \A e \in All : e.key # k
  <2>1. \A e \in All' : e.key # k
    BY <1>1
  <2> QED
    BY <1>1, <2>1 DEF ReadInv
<1>2. CASE \E e \in All : e.key = k
  <2>1. PICK g : Top(k, g)
    BY <1>2 DEF ReadInv
  <2>2. Top(k, g)'
    BY <2>1 DEF Top
  <2>3. Value(g)' = Value(g)
    <3>1. g.id \in 1..Len(batches)
      BY <2>1 DEF Top, Genuine, Valid
    <3> QED
      BY <3>1 DEF Value
  <2>4. Get(k) = Value(g) /\ Get(k)' = Value(g)'
    BY <2>1, <2>2 DEF ReadInv
  <2> QED
    BY <2>3, <2>4
<1> QED
  BY <1>1, <1>2

-----------------------------------------------------------------------------
(* The refinement. *)

FullInv == Core /\ DurableInv /\ ReplayInv /\ EntriesInv /\ LoggedInv

(* The values of the abstract variables survivors and kv.                  *)
Survived == {wal[i] : i \in 1..Len(wal)} \ {Torn}
Answers  == [k \in Keys |-> IF phase = "open" THEN Get(k) ELSE {}]

(* A step that no client sees.                                             *)
LEMMA Unseen ==
    ASSUME UNCHANGED <<wal, batches, acked, phase>>, Answers' = Answers
    PROVE  UNCHANGED KV!vars
BY DEF KV!vars, Answers

(* What follows: the answers of Get, and that with SyncOnWrite the         *)
(* acknowledged batches survive.                                           *)
Derived ==
    /\ ReadInv /\ Genuine(All, batches)
    /\ SyncOnWrite => acked \cup stalled \subseteq Survived

LEMMA FullDerived == FullInv => Derived
<1> SUFFICES ASSUME FullInv PROVE Derived
    OBVIOUS
<1>0. Core /\ Types /\ DurableInv /\ EntriesInv
  BY DEF FullInv, Core
<1>1. ASSUME SyncOnWrite, NEW id \in acked \cup stalled PROVE id \in Survived
  <2>1. PICK j \in 1..walSynced : wal[j] = id
    BY <1>0, <1>1 DEF DurableInv
  <2>2. id \in 1..Len(batches) /\ j \in 1..Len(wal)
    BY <1>0 DEF Types
  <2> QED
    BY <2>1, <2>2 DEF Survived, Torn
<1> QED
  BY <1>0, <1>1, AllGenuine, ReadsTop DEF Derived

LEMMA FullDerivedNext == FullInv' => Derived'
BY FullDerived, PTL

(* Steps that leave the WAL's records and what can be read alone.          *)
LEMMA QuietSteps ==
    ASSUME FullInv, Derived, Derived', Next,
           \/ WriteSync \/ WriteSyncFails \/ Flush \/ FlushBegin
           \/ WriteSST \/ WriteSSTFails \/ PublishEdit \/ PublishInstall \/ PublishFails
           \/ OpenManifest \/ ReplayRecord
    PROVE  UNCHANGED KV!vars
<1>0. Types /\ PhaseInv /\ TablesInv
  BY DEF FullInv, Core
<1>1. CASE OpenManifest \/ ReplayRecord
  <2>1. /\ UNCHANGED <<wal, batches, acked>> /\ phase # "open" /\ phase' # "open"
        /\ (phase = "open") = (phase' = "open")
    BY <1>1 DEF OpenManifest, ReplayRecord, walVars, histVars
  <2>2. Answers' = Answers
    BY <2>1 DEF Answers
  <2> QED
    BY <2>1, <2>2 DEF KV!vars, Answers
<1>2. CASE \/ WriteSync \/ WriteSyncFails \/ Flush \/ FlushBegin
           \/ WriteSST \/ WriteSSTFails \/ PublishEdit \/ PublishInstall \/ PublishFails
  <2>1. UNCHANGED <<wal, batches, acked, phase>>
    BY <1>2 DEF WriteSync, WriteSyncFails, Flush, FlushBegin, WriteSST, WriteSSTFails,
                PublishEdit, PublishInstall, PublishFails, walVars, histVars
  <2>2. All' = All
    BY <1>0, <1>2, AllStays
  <2>3. \A k \in Keys : Get(k)' = Get(k)
    BY <2>1, <2>2, SameAnswer DEF Derived
  <2>4. Answers' = Answers
    BY <2>1, <2>3 DEF Answers
  <2> QED
    BY <2>1, <2>4, Unseen
<1> QED
  BY <1>1, <1>2

(* A Write hands over its batch.                                           *)
LEMMA AppendIssues ==
    ASSUME FullInv, Derived, Derived', Next, NEW b \in Batches, WriteAppend(b)
    PROVE  KV!Issue(b)
<1>0. Types
  BY DEF FullInv, Core
<1>1. /\ phase = "open" /\ phase' = phase /\ batches' = Append(batches, b)
      /\ wal' = Append(wal, Len(batches) + 1) /\ acked' = acked
      /\ UNCHANGED <<mem, immMem, ssts>>
  BY DEF WriteAppend
<1>2. All' = All
  BY <1>1 DEF All, Imm
<1>3. \A id \in 1..Len(batches) : batches'[id] = batches[id]
  BY <1>0, BatchesKept
<1>4. \A k \in Keys : Get(k)' = Get(k)
  BY <1>2, <1>3, SameAnswer DEF Derived
<1>5. wal \in Seq(Nat) /\ Len(wal) \in Nat /\ Len(batches) \in Nat
  BY <1>0 DEF Types
<1>6. /\ Len(wal') = Len(wal) + 1 /\ wal'[Len(wal) + 1] = Len(batches) + 1
      /\ \A i \in 1..Len(wal) : wal'[i] = wal[i]
  BY <1>1, <1>5, AppendProperties
<1>7. \A i : i \in 1..Len(wal') <=> i \in 1..Len(wal) \/ i = Len(wal) + 1
  BY <1>5, <1>6
<1>8. Len(batches) + 1 # Torn
  BY <1>5 DEF Torn
<1>9. Survived' = Survived \cup {Len(batches) + 1}
  BY <1>6, <1>7, <1>8 DEF Survived
<1> QED
  BY <1>1, <1>4, <1>9 DEF KV!Issue, Survived

(* A batch takes effect as a whole.                                        *)
LEMMA WriteApplies ==
    ASSUME FullInv, Derived, Derived', Next, WriteApply
    PROVE  KV!Apply
<1>0. Types /\ PhaseInv /\ WalInv /\ LayersInv
  BY DEF FullInv, Core
<1>a. PICK new \in Nat : new = Len(batches)
  BY <1>0 DEF Types
<1> DEFINE N == EntriesOf(batches[new], new)
           on(k) == {i \in 1..Len(batches[new]) : batches[new][i].key = k}
<1>1. new \in 1..Len(batches)
  BY <1>0, <1>a, LastBatch DEF WriteApply
<1>2. /\ writing # "none" /\ UNCHANGED <<ssts, batches, phase, wal>> /\ phase = "open"
      /\ MaybeAutoFlush(new, mem \cup N)
  BY <1>0, <1>a DEF WriteApply, walVars, PhaseInv
<1>3. new \in Survived
  <2>1. wal # <<>> /\ wal[Len(wal)] = new
    BY <1>0, <1>2, <1>a DEF WalInv
  <2>2. Len(wal) \in 1..Len(wal)
    BY <1>0, <2>1, EmptySeq DEF Types
  <2> QED
    BY <1>1, <2>1, <2>2 DEF Survived, Torn
<1>4. seqno \in Nat /\ Len(batches[new]) \in Nat
  BY <1>0, <1>1, BatchType DEF Types
<1>5. \A e \in N : /\ seqno < e.seq /\ e.id = new /\ e.i \in 1..Len(batches[new])
                   /\ e.seq = seqno + e.i /\ e.key = batches[new][e.i].key
  BY <1>0, <1>1, EntriesOfSeqs
<1>6. \A i \in 1..Len(batches[new]) :
        \E e \in N : e.id = new /\ e.i = i /\ e.key = batches[new][i].key
  BY ONLY EntriesOfAll
<1> HIDE DEF N
<1>7. acked' \in {acked, acked \cup {new}}
  BY <1>2 DEF MaybeAutoFlush
<1>8. All' = All \cup N
  <2>1. \A m : <<m>> # <<>> /\ <<m>>[1] = m
    OBVIOUS
  <2>2. mem' \cup Imm' = mem \cup Imm \cup N
    BY <1>2, <2>1 DEF MaybeAutoFlush, Imm
  <2> QED
    BY <1>2, <2>2 DEF All
<1>9. ASSUME NEW k \in Keys, on(k) = {} PROVE Get(k)' = Get(k)
  <2>1. \A e \in N : e.key # k
    BY <1>5, <1>9
  <2>2. /\ \A e \in All : e.key = k => e \in All'
        /\ \A e \in All' : e.key = k => e \in All
    BY <1>8, <2>1
  <2> QED
    BY <1>2, <2>2, SameAnswer DEF Derived
<1>10. ASSUME NEW k \in Keys, NEW i \in on(k), \A j \in on(k) : j <= i
       PROVE  Get(k)' = IF batches[new][i].del THEN {} ELSE {<<new, i>>}
  <2>1. PICK e \in N : e.id = new /\ e.i = i /\ e.key = k
    BY <1>6, <1>10
  <2>2. e.seq = seqno + i /\ e.seq \in Nat /\ seqno < e.seq
    BY <1>4, <1>5, <1>10, <2>1
  <2>3. ASSUME NEW f \in All', f.key = k PROVE f.seq <= e.seq
    <3>1. CASE f \in N
      <4>1. f.i \in on(k) /\ f.seq = seqno + f.i /\ f.i \in Nat
        BY <1>4, <1>5, <2>3, <3>1
      <4> QED
        BY <1>4, <1>10, <2>2, <4>1
    <3>2. CASE f \in All
      <4>1. f.seq <= seqno /\ f.seq \in Nat
        BY <1>0, <3>2, AllSeqs
      <4> QED
        BY <1>4, <2>2, <4>1
    <3> QED
      BY <1>8, <3>1, <3>2
  <2>4. Top(k, e)'
    BY <1>8, <2>1, <2>3 DEF Top
  <2>5. Get(k)' = Value(e)'
    BY <2>4 DEF Derived, ReadInv
  <2> QED
    BY <1>2, <2>1, <2>5 DEF Value
<1>11. ASSUME NEW k \in Keys, on(k) # {}
       PROVE  \E i \in on(k) : \A j \in on(k) : j <= i
  <2> DEFINE T == on(k)
  <2>1. T \in SUBSET Nat /\ T # {} /\ \A y \in T : y <= Len(batches[new])
    BY <1>4, <1>11
  <2> HIDE DEF T
  <2>2. \E i \in T : \A j \in T : j <= i
    BY <1>4, <2>1, GreatestNat
  <2> QED
    BY <2>2 DEF T
<1>12. \A k \in Keys :
         Get(k)' = IF on(k) = {} THEN Get(k)
                   ELSE LET i == CHOOSE i \in on(k) : \A j \in on(k) : j <= i IN
                        IF batches[new][i].del THEN {} ELSE {<<new, i>>}
  <2> SUFFICES ASSUME NEW k \in Keys
               PROVE  Get(k)' = IF on(k) = {} THEN Get(k)
                                ELSE LET i == CHOOSE i \in on(k) : \A j \in on(k) : j <= i IN
                                     IF batches[new][i].del THEN {} ELSE {<<new, i>>}
      OBVIOUS
  <2>1. CASE on(k) = {}
    BY <1>9, <2>1
  <2>2. CASE on(k) # {}
    <3> DEFINE i == CHOOSE i \in on(k) : \A j \in on(k) : j <= i
    <3>1. i \in on(k) /\ \A j \in on(k) : j <= i
      BY <1>11, <2>2
    <3> HIDE DEF i
    <3>2. Get(k)' = IF batches[new][i].del THEN {} ELSE {<<new, i>>}
      BY <1>10, <3>1
    <3> QED
      BY <2>2, <3>2 DEF i
  <2> QED
    BY <2>1, <2>2
<1>13. Answers' = KV!Updated(batches[new], new)
  BY <1>2, <1>12 DEF Answers, KV!Updated
<1> QED
  BY <1>2, <1>3, <1>7, <1>13, <1>a DEF KV!Apply, Survived, Answers

(* What is left of the WAL after a failure are records of it.              *)
LEMMA CutSurvived ==
    ASSUME Types, WalInv, NEW lo \in Nat, lo <= walFlushed,
           wal' \in Survivors(wal, lo, Torn)
    PROVE  Survived' \subseteq Survived
<1> DEFINE n == Len(Trimmed(wal', Torn))
<1>1. /\ n \in Nat /\ n <= Len(wal) /\ n <= Len(wal')
      /\ \A i \in 1..n : wal'[i] = wal[i]
      /\ \A i \in 1..Len(wal') : i > n => wal'[i] = Torn
  BY WalSurvives
<1>2. Len(wal) \in Nat
  BY DEF Types
<1> HIDE DEF n
<1>3. ASSUME NEW i \in 1..Len(wal'), wal'[i] # Torn
      PROVE  i \in 1..Len(wal) /\ wal'[i] = wal[i]
  <2>1. ~(i > n)
    BY <1>1, <1>3
  <2>2. i \in 1..n /\ i \in 1..Len(wal)
    BY ONLY <1>1, <1>2, <2>1, i \in 1..Len(wal')
  <2> QED
    BY <1>1, <2>2
<1> QED
  BY <1>3 DEF Survived

(* A Write fails; earlier batches that were not acknowledged may go too.   *)
LEMMA BufferFails ==
    ASSUME SyncOnWrite, FullInv, Derived, Derived', Next, WriteBufferFails
    PROVE  KV!Fail
<1>0. Types /\ PhaseInv /\ WalInv /\ TablesInv
  BY DEF FullInv, Core
<1>1. /\ UNCHANGED <<batches, acked, phase>> /\ phase = "open"
      /\ wal' \in Survivors(wal, walFlushed, Torn)
  BY <1>0 DEF WriteBufferFails, histVars, PhaseInv
<1>2. walFlushed \in Nat /\ walFlushed <= walFlushed
  BY <1>0 DEF Types
<1>3. Survived' \subseteq Survived
  BY <1>0, <1>1, <1>2, CutSurvived
<1>4. acked \subseteq Survived'
  BY <1>1 DEF Derived
<1>5. All' = All
  BY <1>0, AllStays
<1>6. \A k \in Keys : Get(k)' = Get(k)
  BY <1>1, <1>5, SameAnswer DEF Derived
<1> QED
  BY <1>1, <1>3, <1>4, <1>6 DEF KV!Fail, KV!Remains, Survived

(* A waiting Write returns nil, or an error that no client state shows.    *)
LEMMA StallReturns ==
    ASSUME SyncOnWrite, FullInv, Derived, Derived', Next,
           NEW id \in stalled, StallResume(id)
    PROVE  KV!Acknowledge \/ UNCHANGED KV!vars
<1>0. Types /\ TablesInv
  BY DEF FullInv, Core
<1>1. /\ UNCHANGED <<wal, batches, phase>> /\ phase = "open"
      /\ acked' = acked \cup {id} \/ acked' = acked
  BY DEF StallResume, walVars
<1>2. All' = All
  BY <1>0, AllStays
<1>3. \A k \in Keys : Get(k)' = Get(k)
  BY <1>1, <1>2, SameAnswer DEF Derived
<1>4. Answers' = Answers
  BY <1>1, <1>3 DEF Answers
<1>5. CASE acked' = acked
  BY <1>1, <1>4, <1>5, Unseen
<1>6. CASE acked' = acked \cup {id}
  <2>1. id \in Survived
    BY DEF Derived
  <2> QED
    BY <1>1, <1>4, <1>6, <2>1 DEF KV!Acknowledge, Survived, Answers
<1> QED
  BY <1>1, <1>5, <1>6

(* The DB is closed or its process dies.                                   *)
LEMMA GoesDown ==
    ASSUME SyncOnWrite, FullInv, Derived, Derived', Next, Close \/ Kill
    PROVE  KV!GoDown
<1>0. Types /\ WalInv
  BY DEF FullInv, Core
<1>1. /\ UNCHANGED <<batches, acked>> /\ phase' = "down"
      /\ wal' = wal \/ wal' \in Survivors(wal, walFlushed, Torn)
  BY DEF Close, Kill, Gone
<1>2. walFlushed \in Nat /\ walFlushed <= walFlushed
  BY <1>0 DEF Types
<1>3. Survived' \subseteq Survived
  <2>1. CASE wal' = wal
    BY <2>1 DEF Survived
  <2>2. CASE wal' \in Survivors(wal, walFlushed, Torn)
    BY <1>0, <1>2, <2>2, CutSurvived
  <2> QED
    BY <1>1, <2>1, <2>2
<1>4. acked \subseteq Survived'
  BY <1>1 DEF Derived
<1> QED
  BY <1>1, <1>3, <1>4 DEF KV!GoDown, KV!Remains, KV!Nothing, Survived

(* The operations of a set of batches on a key.                            *)
LEMMA OpsOnHas ==
    ASSUME NEW S, NEW k, NEW id \in S, NEW i \in 1..Len(batches[id]), batches[id][i].key = k
    PROVE  <<id, i>> \in KV!OpsOn(S, k)
<1>1. <<id, i>> \in UNION {{<<m, j>> : j \in 1..Len(batches[m])} : m \in S}
  OBVIOUS
<1>2. <<id, i>>[1] = id /\ <<id, i>>[2] = i
  OBVIOUS
<1> QED
  BY <1>1, <1>2 DEF KV!OpsOn

LEMMA OpsOnPairs ==
    ASSUME NEW S, NEW k, NEW x \in KV!OpsOn(S, k)
    PROVE  \E id \in S : \E i \in 1..Len(batches[id]) :
             x = <<id, i>> /\ batches[id][i].key = k
<1> DEFINE P == UNION {{<<id, i>> : i \in 1..Len(batches[id])} : id \in S}
<1>1. x \in P /\ batches[x[1]][x[2]].key = k
  BY DEF KV!OpsOn
<1>2. PICK id \in S : \E i \in 1..Len(batches[id]) : x = <<id, i>>
  BY <1>1
<1>3. PICK i \in 1..Len(batches[id]) : x = <<id, i>>
  BY <1>2
<1>4. x[1] = id /\ x[2] = i
  BY <1>3
<1> QED
  BY <1>1, <1>3, <1>4

(* Operation (id, i) is the last of the batches in S on key k.             *)
IsLast(S, k, id, i) ==
    /\ S \in SUBSET Nat /\ id \in S /\ i \in 1..Len(batches[id]) /\ i \in Nat
    /\ batches[id][i].key = k
    /\ \A m \in S : Len(batches[m]) \in Nat
    /\ \A m \in S : \A j \in 1..Len(batches[m]) :
         batches[m][j].key = k => m < id \/ (m = id /\ j <= i)

(* It is the one whose value View gives.                                   *)
LEMMA ViewOfLast ==
    ASSUME NEW S, NEW k, NEW id, NEW i, IsLast(S, k, id, i)
    PROVE  KV!View(S, k) = IF batches[id][i].del THEN {} ELSE {<<id, i>>}
<1> USE DEF IsLast
<1> DEFINE ops == KV!OpsOn(S, k)
           x == KV!LastOp(ops)
           After(u, v) == u[1] > v[1] \/ (u[1] = v[1] /\ u[2] >= v[2])
<1>1. <<id, i>> \in ops
  BY OpsOnHas
<1>2. \A y \in ops : \E m \in S : \E j \in 1..Len(batches[m]) :
        y = <<m, j>> /\ batches[m][j].key = k
  BY ONLY OpsOnPairs
<1> HIDE DEF ops
<1>3. \A y \in ops : After(<<id, i>>, y) /\ y[1] \in Nat /\ y[2] \in Nat
  <2> SUFFICES ASSUME NEW y \in ops PROVE After(<<id, i>>, y) /\ y[1] \in Nat /\ y[2] \in Nat
      OBVIOUS
  <2>1. PICK m \in S : \E j \in 1..Len(batches[m]) : y = <<m, j>> /\ batches[m][j].key = k
    BY <1>2
  <2>2. PICK j \in 1..Len(batches[m]) : y = <<m, j>> /\ batches[m][j].key = k
    BY <2>1
  <2>3. m \in Nat /\ id \in Nat /\ j \in Nat /\ (m < id \/ (m = id /\ j <= i))
    BY <2>2
  <2>4. y[1] = m /\ y[2] = j
    BY <2>2
  <2>5. <<id, i>>[1] = id /\ <<id, i>>[2] = i
    OBVIOUS
  <2> QED
    BY <2>3, <2>4, <2>5
<1>4. x = CHOOSE u \in ops : \A y \in ops : After(u, y)
  BY DEF KV!LastOp
<1>5. x \in ops /\ \A y \in ops : After(x, y)
  BY <1>1, <1>3, <1>4
<1> HIDE DEF x
<1>6. x = <<id, i>>
  <2>1. PICK m \in S : \E j \in 1..Len(batches[m]) : x = <<m, j>>
    BY <1>2, <1>5
  <2>2. PICK j \in 1..Len(batches[m]) : x = <<m, j>>
    BY <2>1
  <2>3. x[1] = m /\ x[2] = j /\ <<id, i>>[1] = id /\ <<id, i>>[2] = i
    BY <2>2
  <2>4. After(<<id, i>>, x) /\ After(x, <<id, i>>) /\ x[1] \in Nat /\ x[2] \in Nat
    BY <1>1, <1>3, <1>5
  <2>5. /\ id > m \/ (id = m /\ i >= j)
        /\ m > id \/ (m = id /\ j >= i)
    BY <2>3, <2>4
  <2>6. m \in Nat /\ id \in Nat /\ j \in Nat /\ i \in Nat
    BY <2>3, <2>4
  <2>7. m = id /\ j = i
    BY ONLY <2>5, <2>6
  <2> QED
    BY <2>2, <2>7
<1>7. ops # {}
  BY <1>1
<1>8. KV!View(S, k) = IF batches[x[1]][x[2]].del THEN {} ELSE {x}
  BY <1>7 DEF KV!View, ops, x
<1> QED
  BY <1>6, <1>8

(* Recovery yields the outcome of the batches that survived.               *)
LEMMA EndRecovers ==
    ASSUME SyncOnWrite, "power" \notin Faults,
           FullInv, Derived, Derived', Types', Next, ReplayEnd
    PROVE  KV!Recover
<1>0. Types /\ PhaseInv /\ WalInv /\ LayersInv /\ ReplayInv /\ LoggedInv /\ EntriesInv /\ Core
  BY DEF FullInv, Core
<1>1. /\ phase = "replay" /\ phase' = "open" /\ Imm = {}
      /\ UNCHANGED <<mem, immMem, ssts, batches, acked>>
      /\ \/ replayed = Len(wal) /\ wal' = wal
         \/ replayed = Len(wal) - 1 /\ wal[replayed + 1] = Torn /\ wal' = SubSeq(wal, 1, replayed)
  BY <1>0, Zenon DEF ReplayEnd, walVars, histVars, PhaseInv, Imm
<1>2. All' = All
  BY <1>1 DEF All, Imm
<1>3. /\ wal \in Seq(Nat) /\ Len(wal) \in Nat /\ replayed \in Nat
      /\ walFlushed \in Nat /\ walFlushed <= Len(wal)
  BY ONLY <1>0 DEF Types
<1>4. \A j \in 1..replayed : j \in 1..Len(wal) /\ wal[j] # Torn /\ wal[j] \in 1..Len(batches)
  BY <1>0, <1>1, <1>3 DEF WalInv
<1>5. \A j \in 1..Len(wal) : wal[j] # Torn => j \in 1..replayed
  BY <1>1, <1>3
<1>6. Survived = {wal[j] : j \in 1..replayed}
  BY <1>4, <1>5 DEF Survived
<1>7. Survived' = Survived
  <2>1. CASE wal' = wal
    BY <2>1 DEF Survived
  <2>2. CASE replayed = Len(wal) - 1 /\ wal' = SubSeq(wal, 1, replayed)
    <3>1. \A i \in 1..replayed : wal[i] \in Nat
      BY <1>3, <1>4
    <3>2. Len(wal') = replayed /\ \A i \in 1..replayed : wal'[i] = wal[i]
      BY <1>3, <2>2, <3>1, SubSeqProperties
    <3> QED
      BY <1>4, <1>6, <3>2 DEF Survived
  <2> QED
    BY <1>1, <2>1, <2>2
<1>8. Survived \in SUBSET Nat /\ \A m \in Survived : m \in 1..Len(batches) /\ Len(batches[m]) \in Nat
  <2>1. \A m \in Survived : m \in 1..Len(batches)
    BY <1>4, <1>6
  <2>2. Len(batches) \in Nat
    BY ONLY <1>0 DEF Types
  <2> QED
    BY <1>0, <2>1, <2>2, BatchType
<1>9. ASSUME NEW e \in All
      PROVE  e.id \in Survived /\ e.i \in 1..Len(batches[e.id]) /\ batches[e.id][e.i].key = e.key
  <2>1. e.id \in 1..Len(batches) /\ e.i \in 1..Len(batches[e.id]) /\ batches[e.id][e.i].key = e.key
    BY DEF Derived, Genuine, Valid
  <2>2. \E j \in 1..walFlushed : wal[j] = e.id
    BY <1>0, AllLogged DEF InWal
  <2>3. PICK j \in 1..walFlushed : wal[j] = e.id
    BY <2>2
  <2>4. j \in 1..Len(wal) /\ wal[j] # Torn
    BY <1>3, <2>1, <2>3 DEF Torn
  <2> QED
    BY <1>5, <1>6, <2>1, <2>3, <2>4
<1>10. ASSUME NEW m \in Survived, NEW j \in 1..Len(batches[m])
       PROVE  \E e \in mem : e.id = m /\ e.i = j /\ e.key = batches[m][j].key
  <2>1. PICK n \in 1..replayed : wal[n] = m
    BY <1>6
  <2>2. \A i \in 1..Len(batches[wal[n]]) :
          \E e \in mem : e.id = wal[n] /\ e.i = i /\ e.key = batches[wal[n]][i].key
    BY <1>0, <1>1 DEF ReplayInv
  <2> QED
    BY <2>1, <2>2
<1>11. ASSUME NEW k \in Keys PROVE Get(k)' = KV!View(Survived, k)
  <2>1. CASE \A e \in All : e.key # k
    <3>1. Get(k)' = {}
      BY <1>2, <2>1 DEF Derived, ReadInv
    <3>2. KV!OpsOn(Survived, k) = {}
      <4> SUFFICES ASSUME NEW x \in KV!OpsOn(Survived, k) PROVE FALSE
          OBVIOUS
      <4>1. PICK m \in Survived : \E j \in 1..Len(batches[m]) : batches[m][j].key = k
        BY OpsOnPairs
      <4>2. PICK e \in mem : e.key = k
        BY <1>10, <4>1
      <4>3. e \in All
        BY DEF All
      <4> QED
        BY <2>1, <4>2, <4>3
    <3> QED
      BY <3>1, <3>2 DEF KV!View
  <2>2. CASE \E e \in All : e.key = k
    <3>1. PICK g : Top(k, g)
      BY <2>2 DEF Derived, ReadInv
    <3>2. Get(k)' = Value(g)
      <4>1. Top(k, g)'
        BY <1>2, <3>1 DEF Top
      <4>2. Get(k)' = Value(g)'
        BY <4>1 DEF Derived, ReadInv
      <4> QED
        BY <1>1, <4>2 DEF Value
    <3>3. g \in All /\ g.key = k /\ \A f \in All : f.key = k => f.seq <= g.seq
      BY <3>1 DEF Top
    <3>4. g.id \in Survived /\ g.i \in 1..Len(batches[g.id]) /\ batches[g.id][g.i].key = k
      BY <1>9, <3>3
    <3>5. g \in mem
      <4>1. PICK e \in mem : e.key = k
        BY <1>10, <3>4
      <4>2. e \in All /\ e.seq <= g.seq
        BY <3>3, <4>1 DEF All
      <4>3. e.seq \in Nat /\ g.seq \in Nat
        BY <1>0, <3>3, <4>2, AllSeqs
      <4>4. ~(g.seq < e.seq)
        BY <4>2, <4>3
      <4> QED
        BY <1>0, <1>1, <3>3, <4>1, <4>4, AllSeqs DEF LayersInv
    <3>6. ASSUME NEW m \in Survived, NEW j \in 1..Len(batches[m]), batches[m][j].key = k
          PROVE  m < g.id \/ (m = g.id /\ j <= g.i)
      <4>1. PICK e \in mem : e.id = m /\ e.i = j /\ e.key = k
        BY <1>10, <3>6
      <4>2. e.seq <= g.seq
        BY <3>3, <4>1 DEF All
      <4>3. UpTo(m, j, g)
        BY <1>0, <1>1, <3>5, <4>1, <4>2 DEF ReplayInv
      <4> QED
        BY <4>3 DEF UpTo
    <3>7. KV!View(Survived, k) = IF batches[g.id][g.i].del THEN {} ELSE {<<g.id, g.i>>}
      <4>1. g.i \in Nat
        BY <1>8, <3>4
      <4>2. \A m \in Survived : \A j \in 1..Len(batches[m]) :
              batches[m][j].key = k => m < g.id \/ (m = g.id /\ j <= g.i)
        BY <3>6
      <4>3. Survived \in SUBSET Nat /\ \A m \in Survived : Len(batches[m]) \in Nat
        BY <1>8
      <4>4. IsLast(Survived, k, g.id, g.i)
        BY <3>4, <4>1, <4>2, <4>3 DEF IsLast
      <4> QED
        BY ONLY <4>4, ViewOfLast
    <3> QED
      BY <3>2, <3>7 DEF Value
  <2> QED
    BY <2>1, <2>2
<1>12. Answers' = [k \in Keys |-> KV!View(Survived, k)]
  BY <1>1, <1>11 DEF Answers
<1> QED
  BY <1>1, <1>7, <1>12 DEF KV!Recover, Survived, Answers

-----------------------------------------------------------------------------
(* Every step is one of the abstract store, or a stutter. *)

LEMMA StoreInit == Init => KV!Init
<1> SUFFICES ASSUME Init PROVE KV!Init
    OBVIOUS
<1>1. wal = <<>> /\ phase = "down" /\ batches = <<>> /\ acked = {}
  BY DEF Init
<1>2. Survived = {} /\ Answers = [k \in Keys |-> {}]
  BY <1>1 DEF Survived, Answers
<1> QED
  BY <1>1, <1>2 DEF KV!Init, KV!Nothing, Survived, Answers

LEMMA FullStep == FullInv /\ [Next]_vars => FullInv'
<1> SUFFICES ASSUME FullInv, [Next]_vars PROVE FullInv'
    OBVIOUS
<1>0. Core /\ DurableInv /\ ReplayInv /\ EntriesInv /\ LoggedInv
  BY DEF FullInv
<1>1. Core' /\ DurableInv' /\ Types'
  BY <1>0, CoreStep DEF Core
<1>2. CASE Next
  BY <1>0, <1>1, <1>2, ReplayStep, EntriesStep, LoggedStep DEF FullInv
<1>3. CASE UNCHANGED vars
  <2>1. UNCHANGED <<wal, walFlushed, files, phase, mem, immMem, replayed, batches>>
    BY <1>3 DEF vars, walVars, memVars, histVars
  <2>2. Imm' = Imm
    BY <2>1 DEF Imm
  <2>3. ReplayInv'
    BY <1>0, <2>1 DEF ReplayInv
  <2>4. EntriesInv'
    BY <1>0, <2>1, <2>2 DEF EntriesInv
  <2>5. LoggedInv'
    BY <1>0, <2>1, <2>2 DEF LoggedInv
  <2> QED
    BY <1>1, <2>3, <2>4, <2>5 DEF FullInv
<1> QED
  BY <1>2, <1>3

LEMMA StoreStep ==
    ASSUME SyncOnWrite, "power" \notin Faults, FullInv, FullInv', [Next]_vars
    PROVE  [KV!Next]_KV!vars
<1>0. Derived /\ Derived' /\ Types'
  BY FullDerived, FullDerivedNext DEF FullInv, Core
<1>1. CASE UNCHANGED vars
  <2>1. UNCHANGED <<wal, phase, mem, immMem, ssts, batches, acked>>
    BY <1>1 DEF vars, walVars, memVars, histVars
  <2>2. All' = All
    BY <2>1 DEF All, Imm
  <2>3. \A k \in Keys : Get(k)' = Get(k)
    BY <1>0, <2>1, <2>2, SameAnswer DEF Derived
  <2>4. Answers' = Answers
    BY <2>1, <2>3 DEF Answers
  <2> QED
    BY <2>1, <2>4, Unseen
<1>2. ASSUME Next PROVE KV!Next \/ UNCHANGED KV!vars
  <2>1. CASE \E b \in Batches : WriteAppend(b)
    BY <1>0, <1>2, <2>1, AppendIssues DEF KV!Next
  <2>2. CASE WriteApply
    BY <1>0, <1>2, <2>2, WriteApplies DEF KV!Next
  <2>3. CASE WriteBufferFails
    BY <1>0, <1>2, <2>3, BufferFails DEF KV!Next
  <2>4. CASE \E id \in stalled : StallResume(id)
    BY <1>0, <1>2, <2>4, StallReturns DEF KV!Next
  <2>5. CASE Close \/ Kill
    BY <1>0, <1>2, <2>5, GoesDown DEF KV!Next
  <2>6. CASE ReplayEnd
    BY <1>0, <1>2, <2>6, EndRecovers DEF KV!Next
  <2>7. CASE \/ WriteSync \/ WriteSyncFails \/ Flush \/ FlushBegin
             \/ WriteSST \/ WriteSSTFails \/ PublishEdit \/ PublishInstall \/ PublishFails
             \/ OpenManifest \/ ReplayRecord
    BY <1>0, <1>2, <2>7, QuietSteps
  <2>8. ~PowerLoss
    BY DEF PowerLoss
  <2> QED
    BY <1>2, <2>1, <2>2, <2>3, <2>4, <2>5, <2>6, <2>7, <2>8 DEF Next
<1> QED
  BY <1>1, <1>2

(* For any keys, batches, flush size, number of files and any crashes and  *)
(* failed operations short of a power loss: an engine with SyncOnWrite     *)
(* behaves to its clients like the abstract store. Batches take effect     *)
(* whole and in order; an acknowledged one is never lost, neither by a     *)
(* failed Write nor by a crash; and Open recovers the outcome of exactly   *)
(* the batches whose records survived in the WAL.                          *)
THEOREM EngineImplementsStore ==
    ASSUME SyncOnWrite, "power" \notin Faults
    PROVE  Spec => ImplementsKVStore
<1>1. Init => FullInv
  <2> SUFFICES ASSUME Init PROVE FullInv
      OBVIOUS
  <2>1. Core /\ DurableInv
    BY InitTypes, PhaseInit, WalInit, ManifestInit, TablesInit, LayersInit, DurableInit
       DEF Core
  <2> QED
    BY <2>1, ReplayInit, EntriesInit, LoggedInit DEF FullInv
<1>2. FullInv /\ [Next]_vars => FullInv'
  BY FullStep
<1>3. FullInv /\ FullInv' /\ [Next]_vars => [KV!Next]_KV!vars
  BY StoreStep
<1> QED
  BY <1>1, <1>2, <1>3, StoreInit, PTL DEF Spec, ImplementsKVStore, KV!Spec

=============================================================================
