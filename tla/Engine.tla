------------------------------- MODULE Engine -------------------------------
(***************************************************************************)
(* Data and durability of one BeachDB directory across restarts            *)
(* (engine/db.go over internal/wal, internal/manifest and the .sst files): *)
(* the WAL-first write path, the flush pipeline's effect on memtables and  *)
(* files, Get, Close, Open (manifest replay, orphan cleanup, WAL replay),  *)
(* process crashes and power losses.                                       *)
(*                                                                         *)
(* Who waits for whom inside an open DB is the subject of FlushPipeline;   *)
(* here an action is one critical section of db.mu or one file operation   *)
(* outside it.  A batch is known by the order of its WAL append, a value   *)
(* by the operation that wrote it.                                         *)
(***************************************************************************)
EXTENDS Naturals, Sequences, FiniteSets

CONSTANTS
    Keys,
    Batches,      \* the batches a client may write: sequences of operations
    SyncOnWrite,  \* the option WithSync
    FlushSize,    \* memtableFlushSize, counted in entries; 0 disables auto-flush
    MaxBatches,   \* bound on the batches written
    MaxFiles,     \* bound on the SSTables flushed
    Faults        \* which of kill, power, wal, manifest, sst may go wrong

Operations == [key : Keys, del : BOOLEAN]
FaultKinds == {"kill", "power", "wal", "manifest", "sst"}

ASSUME EngineConstants ==
    /\ Batches \subseteq Seq(Operations) \ {<<>>}
    /\ SyncOnWrite \in BOOLEAN
    /\ FlushSize \in Nat /\ MaxBatches \in Nat /\ MaxFiles \in Nat
    /\ Faults \subseteq FaultKinds

(* An internal key and the operation, the i-th of batch id, that wrote it. *)
Entries   == [key : Keys, seq : Nat, id : Nat, i : Nat]
FileIDs   == 1..MaxFiles
FileState == [state : {"absent", "partial", "complete"}, data : SUBSET Entries]
Absent    == [state |-> "absent", data |-> {}]
Partial   == [state |-> "partial", data |-> {}]
Edits     == [file : Nat, next : Nat, last : Nat]
Torn      == 0           \* an incomplete record at the end of the WAL
TornEdit  == [file |-> 0, next |-> 0, last |-> 0]   \* and of the manifest

VARIABLES
    \* files
    wal,         \* records appended to the WAL, the buffered ones included
    walFlushed,  \* how many of them have left the bufio buffer
    walSynced,   \* how many of them are durable
    manifest,    \* VersionEdits in the live MANIFEST file
    manSynced,   \* how many of them are durable
    files,       \* the .sst files by id
    \* the open DB
    phase,       \* "down", "replay" (Open is replaying the WAL) or "open"
    mem,         \* db.mem, a set of entries
    immMem,      \* db.immMem: <<>> when nil, <<m>> for the frozen memtable m
    ssts,        \* db.ssts, oldest first
    seqno, nextSSTID, flushErr,
    walErr,      \* the sticky error of the bufio writer
    writing,     \* a Write holding db.mu: "none", "appended" or "synced"
    flushing,    \* "none", "io" (in writeSSTable), "written" (about to take
                 \* db.mu and publish), "edited" (publishing, edit not synced)
    replayed,    \* WAL records replayed so far by Open
    \* history
    batches,     \* every batch handed to Write, in WAL order
    acked,       \* those whose Write returned nil
    stalled      \* those applied whose Write waits for the flush slot

walVars  == <<wal, walFlushed, walSynced>>
manVars  == <<manifest, manSynced>>
memVars  == <<mem, immMem, ssts, seqno, nextSSTID, flushErr, walErr, writing,
              flushing, replayed>>
histVars == <<batches, acked, stalled>>
vars     == <<walVars, manVars, files, phase, memVars, histVars>>

-----------------------------------------------------------------------------
Smaller(m, n) == IF m <= n THEN m ELSE n

(* What may be left of a log of which the first lo records are safe: any   *)
(* longer prefix, or one that ends in a torn record.                       *)
Survivors(log, lo, torn) ==
    {SubSeq(log, 1, n) : n \in lo..Len(log)}
      \cup {Append(SubSeq(log, 1, n), torn) : n \in lo..(Len(log) - 1)}

Wellformed(log, torn) == \A i \in 1..(Len(log) - 1) : log[i] # torn
EndsTorn(log, torn)   == log # <<>> /\ log[Len(log)] = torn
Trimmed(log, torn)    ==
    IF EndsTorn(log, torn) THEN SubSeq(log, 1, Len(log) - 1) ELSE log

Referenced(man) == {man[i].file : i \in 1..Len(man)} \ {0}

(* The entries applyOperations makes of batch b, written as batch id.      *)
EntriesOf(b, id) ==
    {[key |-> b[i].key, seq |-> seqno + i, id |-> id, i |-> i] : i \in 1..Len(b)}

-----------------------------------------------------------------------------
(* Get: the newest entry of a key in the newest layer that has one.        *)

Imm == IF immMem = <<>> THEN {} ELSE immMem[1]

(* Mutant: the SSTables are searched from the oldest to the newest.        *)
LayerOldestFirst(n) ==
    CASE n = 1 -> mem
      [] n = 2 -> Imm
      [] OTHER -> ssts[n - 2]

(* Layers in search order: active, frozen, SSTables newest first.          *)
Layer(n) ==
    CASE n = 1 -> mem
      [] n = 2 -> Imm
      [] OTHER -> ssts[Len(ssts) + 3 - n]
NumLayers == 2 + Len(ssts)

Versions(n, k) == {e \in Layer(n) : e.key = k /\ e.seq <= seqno}
Newest(S)      == CHOOSE e \in S : \A f \in S : f.seq <= e.seq

(* The entry Get stops at, as a set of at most one element.                *)
Found(k) ==
    LET hits == {n \in 1..NumLayers : Versions(n, k) # {}} IN
    IF hits = {} THEN {}
    ELSE {Newest(Versions(CHOOSE n \in hits : \A m \in hits : n <= m, k))}

IsTombstone(e) == batches[e.id][e.i].del

(* What Get returns: the operation whose value it is, {} for ErrKeyNotFound. *)
Get(k) == {<<e.id, e.i>> : e \in {f \in Found(k) : ~IsTombstone(f)}}

-----------------------------------------------------------------------------
(* A directory that was bootstrapped and never opened again.               *)
Init ==
    /\ wal = <<>> /\ walFlushed = 0 /\ walSynced = 0
    /\ manifest = <<[file |-> 0, next |-> 1, last |-> 0]>> /\ manSynced = 1
    /\ files = [f \in FileIDs |-> Absent]
    /\ phase = "down"
    /\ mem = {} /\ immMem = <<>> /\ ssts = <<>>
    /\ seqno = 0 /\ nextSSTID = 0 /\ flushErr = FALSE /\ walErr = FALSE
    /\ writing = "none" /\ flushing = "none" /\ replayed = 0
    /\ batches = <<>> /\ acked = {} /\ stalled = {}

(* The process is gone: everything in memory with it.                      *)
Gone ==
    /\ phase' = "down"
    /\ mem' = {} /\ immMem' = <<>> /\ ssts' = <<>>
    /\ seqno' = 0 /\ nextSSTID' = 0 /\ flushErr' = FALSE /\ walErr' = FALSE
    /\ writing' = "none" /\ flushing' = "none" /\ replayed' = 0
    /\ stalled' = {}

-----------------------------------------------------------------------------
(* Nobody holds db.mu across a file operation.                             *)
Unlocked == writing = "none" /\ flushing # "edited"

(* Write holds db.mu while the batch goes to the WAL, is synced and        *)
(* applied; each of the three is a step, so that a crash may come between. *)

(* The preconditions hold and wal.Append takes the encoded batch.          *)
WriteAppend(b) ==
    /\ phase = "open" /\ Unlocked /\ ~flushErr /\ ~walErr
    /\ Len(batches) < MaxBatches
    /\ batches' = Append(batches, b)
    /\ wal' = Append(wal, Len(batches) + 1)
    /\ writing' = "appended"
    /\ UNCHANGED <<walFlushed, walSynced, manVars, files, phase, mem, immMem,
                   ssts, seqno, nextSSTID, flushErr, walErr, flushing,
                   replayed, acked, stalled>>

(* Mutant: Sync fsyncs the file but does not flush the buffer.             *)
WriteSyncNoFlush ==
    /\ writing = "appended" /\ SyncOnWrite
    /\ walSynced' = walFlushed
    /\ writing' = "synced"
    /\ UNCHANGED <<wal, walFlushed, manVars, files, phase, mem, immMem, ssts,
                   seqno, nextSSTID, flushErr, walErr, flushing, replayed,
                   histVars>>

(* syncWALLocked: Sync flushes the buffer and fsyncs the file.             *)
WriteSync ==
    /\ writing = "appended" /\ SyncOnWrite
    /\ walFlushed' = Len(wal) /\ walSynced' = Len(wal)
    /\ writing' = "synced"
    /\ UNCHANGED <<wal, manVars, files, phase, mem, immMem, ssts, seqno,
                   nextSSTID, flushErr, walErr, flushing, replayed, histVars>>

(* The sync fails: the record stays in the buffer or in the file, nothing  *)
(* is applied and Write returns the error.                                 *)
WriteSyncFails ==
    /\ writing = "appended" /\ SyncOnWrite /\ "wal" \in Faults
    /\ walFlushed' \in {walFlushed, Len(wal)}
    /\ writing' = "none"
    /\ UNCHANGED <<wal, walSynced, manVars, files, phase, mem, immMem, ssts,
                   seqno, nextSSTID, flushErr, walErr, flushing, replayed,
                   histVars>>

(* The bufio writer meets a write error, in Append or in Flush: a part of  *)
(* the buffer may have reached the file, and every later Append fails.     *)
WriteBufferFails ==
    /\ writing = "appended" /\ "wal" \in Faults
    /\ wal' \in Survivors(wal, walFlushed, Torn) \ {wal}
    /\ walFlushed' = Len(Trimmed(wal', Torn))
    /\ walErr' = TRUE
    /\ writing' = "none"
    /\ UNCHANGED <<walSynced, manVars, files, phase, mem, immMem, ssts, seqno,
                   nextSSTID, flushErr, flushing, replayed, histVars>>

(* maybeAutoFlushLocked for batch id, entered with the active memtable m:  *)
(* the Write returns, rotates and returns, or waits for the slot.          *)
MaybeAutoFlush(id, m) ==
    LET full == FlushSize > 0 /\ Cardinality(m) >= FlushSize IN
    \/ /\ ~full
       /\ mem' = m
       /\ acked' = acked \cup {id}
       /\ UNCHANGED <<immMem, stalled>>
    \/ /\ full /\ immMem = <<>>
       /\ immMem' = <<m>>
       /\ mem' = {}
       /\ acked' = acked \cup {id}
       /\ UNCHANGED stalled
    \/ /\ full /\ immMem # <<>>
       /\ mem' = m
       /\ stalled' = stalled \cup {id}
       /\ UNCHANGED <<immMem, acked>>

(* applyOperations, then the end of Write.                                 *)
WriteApply ==
    LET id == Len(batches) IN
    /\ writing = IF SyncOnWrite THEN "synced" ELSE "appended"
    /\ writing' = "none"
    /\ seqno' = seqno + Len(batches[id])
    /\ MaybeAutoFlush(id, mem \cup EntriesOf(batches[id], id))
    /\ UNCHANGED <<walVars, manVars, files, phase, ssts, nextSSTID, flushErr,
                   walErr, flushing, replayed, batches>>

(* A Write in waitForFlushSlotLocked resumes and rotates, whatever the     *)
(* size of the memtable is by now, or returns the flush error.             *)
StallResume(id) ==
    /\ phase = "open" /\ Unlocked /\ id \in stalled
    /\ stalled' = stalled \ {id}
    /\ \/ /\ ~flushErr /\ immMem = <<>>
          /\ immMem' = <<mem>>
          /\ mem' = {}
          /\ acked' = acked \cup {id}
       \/ flushErr /\ UNCHANGED <<mem, immMem, acked>>
    /\ UNCHANGED <<walVars, manVars, files, phase, ssts, seqno, nextSSTID,
                   flushErr, walErr, writing, flushing, replayed, batches>>

-----------------------------------------------------------------------------
(* Flush, and the SSTable write that it or the background loop performs.   *)

(* flushMemtable freezes the memtable.                                     *)
Flush ==
    /\ phase = "open" /\ Unlocked /\ ~flushErr
    /\ mem # {} /\ immMem = <<>>
    /\ immMem' = <<mem>>
    /\ mem' = {}
    /\ UNCHANGED <<walVars, manVars, files, phase, ssts, seqno, nextSSTID,
                   flushErr, walErr, writing, flushing, replayed, histVars>>

(* The frozen memtable is picked up; an empty one is dropped.              *)
FlushBegin ==
    /\ phase = "open" /\ Unlocked /\ ~flushErr
    /\ immMem # <<>> /\ flushing = "none"
    /\ \/ Imm = {} /\ immMem' = <<>> /\ UNCHANGED flushing
       \/ /\ Imm # {} /\ nextSSTID <= MaxFiles
          /\ flushing' = "io" /\ UNCHANGED immMem
    /\ UNCHANGED <<walVars, manVars, files, phase, mem, ssts, seqno, nextSSTID,
                   flushErr, walErr, writing, replayed, histVars>>

(* writeSSTable returns: file and directory entry are durable.             *)
WriteSST ==
    /\ flushing = "io"
    /\ files' = [files EXCEPT ![nextSSTID] =
                    [state |-> "complete", data |-> Imm]]
    /\ flushing' = "written"
    /\ UNCHANGED <<walVars, manVars, phase, mem, immMem, ssts, seqno, nextSSTID,
                   flushErr, walErr, writing, replayed, histVars>>

(* What a failed or interrupted writeSSTable may leave behind.             *)
Unfinished ==
    {files[nextSSTID], Absent, Partial, [state |-> "complete", data |-> Imm]}

WriteSSTFails ==
    /\ "sst" \in Faults
    /\ flushing = "io"
    /\ \E left \in Unfinished : files' = [files EXCEPT ![nextSSTID] = left]
    /\ flushing' = "none"
    /\ flushErr' = TRUE
    /\ UNCHANGED <<walVars, manVars, phase, mem, immMem, ssts, seqno, nextSSTID,
                   walErr, writing, replayed, histVars>>

(* Mutant: the edit does not record the sequence number.                   *)
FlushEditNoSequence == [file |-> nextSSTID, next |-> nextSSTID + 1, last |-> 0]

(* Mutant: the edit records the id just used as the next one.              *)
FlushEditNoBump == [file |-> nextSSTID, next |-> nextSSTID, last |-> seqno]

(* The VersionEdit of a flush.                                             *)
FlushEdit == [file |-> nextSSTID, next |-> nextSSTID + 1, last |-> seqno]

(* publishFlushedSSTLocked appends the edit ...                            *)
PublishEdit ==
    /\ flushing = "written" /\ Unlocked
    /\ manifest' = Append(manifest, FlushEdit)
    /\ flushing' = "edited"
    /\ UNCHANGED <<walVars, manSynced, files, phase, mem, immMem, ssts, seqno,
                   nextSSTID, flushErr, walErr, writing, replayed, histVars>>

(* Mutant: db.nextSSTID is not advanced.                                   *)
PublishInstallNoBump ==
    /\ flushing = "edited"
    /\ manSynced' = Len(manifest)
    /\ ssts' = Append(ssts, files[nextSSTID].data)
    /\ immMem' = <<>>
    /\ flushing' = "none"
    /\ UNCHANGED <<walVars, manifest, files, phase, mem, seqno, nextSSTID,
                   flushErr, walErr, writing, replayed, histVars>>

(* ... and syncs it; then Version, readers, slot and id move together.     *)
PublishInstall ==
    /\ flushing = "edited"
    /\ manSynced' = Len(manifest)
    /\ ssts' = Append(ssts, files[nextSSTID].data)
    /\ immMem' = <<>>
    /\ nextSSTID' = nextSSTID + 1
    /\ flushing' = "none"
    /\ UNCHANGED <<walVars, manifest, files, phase, mem, seqno, flushErr,
                   walErr, writing, replayed, histVars>>

(* The publish fault point, or the append or its sync fails: the edit is   *)
(* missing, torn or complete in the file, and the engine does not use it.  *)
PublishFails ==
    /\ "manifest" \in Faults
    /\ \/ /\ flushing = "written" /\ Unlocked
          /\ manifest' \in {manifest, Append(manifest, TornEdit)}
       \/ flushing = "edited" /\ UNCHANGED manifest
    /\ flushErr' = TRUE
    /\ flushing' = "none"
    /\ UNCHANGED <<walVars, manSynced, files, phase, mem, immMem, ssts, seqno,
                   nextSSTID, walErr, writing, replayed, histVars>>

-----------------------------------------------------------------------------
(* Close flushes and syncs the WAL, syncs the manifest and drops the       *)
(* memory.  It waits for an SSTable that is being written.                 *)
Close ==
    /\ phase = "open" /\ Unlocked /\ flushing = "none"
    /\ \/ ~walErr /\ walFlushed' = Len(wal) /\ UNCHANGED wal
       \/ walErr /\ UNCHANGED <<wal, walFlushed>>
       \/ /\ ~walErr /\ "wal" \in Faults
          /\ wal' \in Survivors(wal, walFlushed, Torn)
          /\ walFlushed' = Len(Trimmed(wal', Torn))
    /\ \/ walSynced' = walFlushed'
       \/ "wal" \in Faults /\ UNCHANGED walSynced
    /\ \/ manSynced' = Len(manifest)
       \/ "manifest" \in Faults /\ UNCHANGED manSynced
    /\ Gone
    /\ UNCHANGED <<manifest, files, batches, acked>>

(* The process dies: buffered WAL bytes may be lost, the page cache stays. *)
Kill ==
    /\ "kill" \in Faults
    /\ phase # "down"
    /\ IF walErr THEN UNCHANGED <<wal, walFlushed>>
       ELSE /\ wal' \in Survivors(wal, walFlushed, Torn)
            /\ walFlushed' = Len(Trimmed(wal', Torn))
    /\ \E left \in IF flushing = "io" THEN Unfinished ELSE {Absent} :
          files' = IF flushing = "io" THEN [files EXCEPT ![nextSSTID] = left]
                                      ELSE files
    /\ Gone
    /\ UNCHANGED <<walSynced, manVars, batches, acked>>

(* Power is lost: of every file only what was synced is certain.           *)
PowerLoss ==
    /\ "power" \in Faults
    /\ wal' \in Survivors(wal, walSynced, Torn)
    /\ walFlushed' = Len(Trimmed(wal', Torn))
    /\ walSynced' = walFlushed'
    /\ manifest' \in Survivors(manifest, manSynced, TornEdit)
    /\ manSynced' = Len(Trimmed(manifest', TornEdit))
    /\ \E left \in IF flushing = "io" THEN Unfinished ELSE {Absent} :
          files' = IF flushing = "io" THEN [files EXCEPT ![nextSSTID] = left]
                                      ELSE files
    /\ Gone
    /\ UNCHANGED <<batches, acked>>

-----------------------------------------------------------------------------
(* Open. *)

(* What replayExistingManifest and openSSTReadersForVersion accept.        *)
Recoverable(man) ==
    /\ Wellformed(man, TornEdit)
    /\ \A i, j \in 1..Len(man) : man[i].file = man[j].file /\ man[i].file # 0 => i = j
    /\ \A f \in Referenced(man) : f \in FileIDs /\ files[f].state = "complete"

(* The tables that a manifest names: its edits are applied one after the   *)
(* other, each appends the file it adds.                                   *)
LoadedTables(man) ==
    LET after[i \in 0..Len(man)] ==
          IF i = 0 THEN <<>>
          ELSE IF man[i].file = 0 THEN after[i - 1]
          ELSE Append(after[i - 1], files[man[i].file].data)
    IN after[Len(man)]

(* Replay the manifest, trim its tail, delete orphans as far as that       *)
(* works, open the readers and take over the counters.                     *)
OpenManifest ==
    LET man == Trimmed(manifest, TornEdit) IN
    /\ phase = "down" /\ Recoverable(man)
    /\ manifest' = man
    /\ manSynced' = Smaller(manSynced, Len(man))
    /\ \E deleted \in SUBSET {f \in FileIDs \ Referenced(man) : files[f] # Absent} :
          files' = [f \in FileIDs |-> IF f \in deleted THEN Absent ELSE files[f]]
    /\ ssts' = LoadedTables(man)
    /\ seqno' = man[Len(man)].last
    /\ nextSSTID' = man[Len(man)].next
    /\ phase' = "replay"
    /\ UNCHANGED <<walVars, mem, immMem, flushErr, walErr, writing, flushing, replayed,
                   histVars>>

(* replayWAL applies one record to the memtable.                           *)
ReplayRecord ==
    /\ phase = "replay"
    /\ replayed < Len(wal) /\ wal[replayed + 1] # Torn
    /\ LET id == wal[replayed + 1] IN
       /\ mem' = mem \cup EntriesOf(batches[id], id)
       /\ seqno' = seqno + Len(batches[id])
    /\ replayed' = replayed + 1
    /\ UNCHANGED <<walVars, manVars, files, phase, immMem, ssts, nextSSTID,
                   flushErr, walErr, writing, flushing, histVars>>

(* Mutant: a torn record at the end of the WAL is skipped, not trimmed.    *)
ReplayEndNoTruncate ==
    /\ phase = "replay"
    /\ \/ replayed = Len(wal)
       \/ replayed = Len(wal) - 1 /\ wal[replayed + 1] = Torn
    /\ phase' = "open"
    /\ replayed' = 0
    /\ UNCHANGED <<walVars, manVars, files, mem, immMem, ssts, seqno,
                   nextSSTID, flushErr, walErr, writing, flushing, histVars>>

(* replayWAL meets the end of the file, or the torn record there and trims *)
(* it; Open opens the writer and returns.                                  *)
ReplayEnd ==
    /\ phase = "replay"
    /\ \/ replayed = Len(wal) /\ UNCHANGED walVars
       \/ /\ replayed = Len(wal) - 1 /\ wal[replayed + 1] = Torn
          /\ wal' = SubSeq(wal, 1, replayed)
          /\ walFlushed' = Smaller(walFlushed, replayed)
          /\ walSynced' = Smaller(walSynced, replayed)
    /\ phase' = "open"
    /\ replayed' = 0
    /\ UNCHANGED <<manVars, files, mem, immMem, ssts, seqno, nextSSTID,
                   flushErr, walErr, writing, flushing, histVars>>

-----------------------------------------------------------------------------
Next ==
    \/ \E b \in Batches : WriteAppend(b)
    \/ WriteSync \/ WriteSyncFails \/ WriteBufferFails \/ WriteApply
    \/ \E id \in stalled : StallResume(id)
    \/ Flush \/ FlushBegin \/ WriteSST \/ WriteSSTFails
    \/ PublishEdit \/ PublishInstall \/ PublishFails
    \/ Close \/ Kill \/ PowerLoss
    \/ OpenManifest \/ ReplayRecord \/ ReplayEnd

Spec == Init /\ [][Next]_vars

-----------------------------------------------------------------------------
(* Invariants. *)

(* Every variable has its type; the WAL counters bound each other, and a   *)
(* Write that has returned nil does not wait any more.                     *)
Types ==
    /\ wal \in Seq(Nat) /\ walFlushed \in Nat /\ walSynced \in Nat
    /\ walSynced <= walFlushed /\ walFlushed <= Len(wal)
    /\ manifest \in Seq(Edits) /\ manSynced \in 0..Len(manifest)
    /\ files \in [FileIDs -> FileState]
    /\ phase \in {"down", "replay", "open"}
    /\ mem \in SUBSET Entries
    /\ immMem \in Seq(SUBSET Entries) /\ Len(immMem) <= 1
    /\ ssts \in Seq(SUBSET Entries)
    /\ seqno \in Nat /\ nextSSTID \in Nat
    /\ flushErr \in BOOLEAN /\ walErr \in BOOLEAN
    /\ writing \in {"none", "appended", "synced"}
    /\ flushing \in {"none", "io", "written", "edited"}
    /\ replayed \in 0..Len(wal)
    /\ batches \in Seq(Batches)
    /\ acked \in SUBSET (1..Len(batches))
    /\ stalled \in SUBSET (1..Len(batches))
    /\ acked \cap stalled = {}

(* The id that the next SSTable will get is the one that the manifest has  *)
(* for the next Open, unless an edit is just being published or a flush    *)
(* has failed.                                                             *)
NextIDRecorded ==
    phase # "down" /\ ~flushErr /\ flushing # "edited" =>
      nextSSTID = manifest[Len(manifest)].next

(* The types, and db.nextSSTID in step with the NextFileID of the manifest *)
(* across publishes, failed publishes, crashes and restarts: a lag would   *)
(* give the next flush the file of a live SSTable.                         *)
TypeOK == Types /\ NextIDRecorded

(* "Acknowledged = durable": with SyncOnWrite no crash, restart or flush   *)
(* takes back an acknowledged write.  Whenever the DB is open, Get finds   *)
(* for every key the last acknowledged operation on it, or a later one.    *)
AckedWritesVisible ==
    phase = "open" /\ SyncOnWrite =>
      \A id \in acked : \A i \in 1..Len(batches[id]) :
        \E e \in Found(batches[id][i].key) :
          e.id > id \/ (e.id = id /\ e.i >= i)

(* A newer layer only holds newer versions: every sequence number in it is *)
(* above every one in an older layer, and none exceeds db.seqno.  Get      *)
(* relies on it when it stops at the first layer that has the key, also    *)
(* after a restart has numbered the replayed records anew.                 *)
LayerOrder ==
    \A n \in 1..NumLayers : \A e \in Layer(n) :
      /\ e.seq <= seqno
      /\ \A m \in (n + 1)..NumLayers : \A f \in Layer(m) : f.seq < e.seq

(* Whatever the disk holds after any history of crashes and failed         *)
(* operations, the next Open accepts it: the manifest is intact up to a    *)
(* torn tail, no file id is added twice, every SSTable the manifest names  *)
(* is complete, and the WAL has garbage only at its end.                   *)
RecoverySucceeds ==
    /\ Recoverable(Trimmed(manifest, TornEdit))
    /\ Wellformed(wal, Torn)

-----------------------------------------------------------------------------
(* Refinement: what a client sees of an open DB is a KVStore.              *)

KV == INSTANCE KVStore WITH
    survivors <- {wal[i] : i \in 1..Len(wal)} \ {Torn},
    up        <- phase = "open",
    kv        <- [k \in Keys |-> IF phase = "open" THEN Get(k) ELSE {}]

(* With SyncOnWrite the engine implements the abstract store: recovery     *)
(* yields the outcome of the surviving batches, whole and in order.        *)
ImplementsKVStore == KV!Spec

(* "A batch is either fully visible or not visible at all"                 *)
(* (docs/architecture.md): what readers see is the outcome of some set of  *)
(* the batches written, applied in WAL order.                              *)
AtomicBatchVisibility ==
    phase = "open" =>
      \E S \in SUBSET (1..Len(batches)) : \A k \in Keys : Get(k) = KV!View(S, k)

-----------------------------------------------------------------------------
(* Action properties. *)

(* An SSTable that the manifest names is never written or deleted, by a    *)
(* flush that reuses its id or by orphan cleanup.                          *)
SSTImmutable ==
    [][\A f \in FileIDs :
         f \in Referenced(manifest) /\ f \in Referenced(manifest')
           => files'[f] = files[f]]_vars

=============================================================================
