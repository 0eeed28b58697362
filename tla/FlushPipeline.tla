--------------------------- MODULE FlushPipeline ---------------------------
(***************************************************************************)
(* Coordination inside one open engine.DB (engine/db.go): how Write,       *)
(* Flush, Close and the background goroutine flushLoop share db.mu,        *)
(* db.cond, the single immutable-memtable slot db.immMem and the sticky    *)
(* db.flushErr.                                                            *)
(*                                                                         *)
(* Every action is one critical section of db.mu: what a goroutine does    *)
(* between acquiring the lock and releasing it through Unlock or           *)
(* cond.Wait.  db.cond is the set "waiting" of goroutines parked in Wait.  *)
(* A goroutine that has been woken re-acquires the lock whenever the       *)
(* scheduler lets it, so anything may happen between wake-up and resume.   *)
(*                                                                         *)
(* Data is abstracted to write identifiers: a memtable is the set of the   *)
(* writes it holds, its size their number, an SSTable the set it was       *)
(* written from.                                                           *)
(***************************************************************************)
EXTENDS Naturals, Sequences, FiniteSets

CONSTANTS
    Threads,     \* goroutines calling Write, Flush and Close
    Flusher,     \* the goroutine running flushLoop
    FlushSize,   \* memtableFlushSize, counted in writes; 0 disables auto-flush
    MaxWrites,   \* bound on the number of writes applied
    Nil          \* a nil memtable

Goroutines == Threads \cup {Flusher}
WriteIDs   == 1..MaxWrites
Memtables  == SUBSET WriteIDs
Jobs       == [path : Nat, data : Memtables]
NoJob      == [path |-> 0, data |-> {}]
AutoFlush  == FlushSize > 0

ASSUME ConstantsAssumption ==
    /\ Flusher \notin Threads
    /\ FlushSize \in Nat
    /\ MaxWrites \in Nat

ASSUME NilAssumption == \A m \in Memtables : Nil # m

VARIABLES
    closed,        \* db.closed
    mem,           \* db.mem
    immMem,        \* db.immMem
    version,       \* db.version: the SSTables recorded in the manifest, oldest first
    nextSSTID,     \* db.nextSSTID
    flushErr,      \* db.flushErr, "nil" when there is none
    flushDoneCh,   \* db.flushDoneCh # nil
    manifestOpen,  \* db.manifest # nil (the WAL writer and the readers go with it)
    waiting,       \* goroutines parked in db.cond.Wait
    pc,            \* where each goroutine resumes
    job,           \* the SSTable a goroutine is writing outside the lock
    flushCh,       \* Close's local snapshot of flushDoneCh # nil
    ret,           \* what the last call of each thread returned
    target,        \* history: the writes a Flush call has undertaken to persist
    written,       \* history: number of writes applied to the memtable
    panicked       \* the process died in a nil dereference

dbVars == <<mem, immMem, version, nextSSTID, flushErr>>
vars   == <<closed, dbVars, flushDoneCh, manifestOpen, waiting, pc, job,
            flushCh, ret, target, written, panicked>>

Errors == {"nil", "sst_write", "empty", "sst_publish"}

-----------------------------------------------------------------------------
(* Primitives of sync.Cond and the control flow of a goroutine. *)

(* A goroutine holds or may take the lock: it is not parked. *)
At(g, label) ==
    /\ pc[g] = label
    /\ g \notin waiting
    /\ ~panicked

(* The call of thread t returns. *)
Return(t, result) ==
    /\ pc' = [pc EXCEPT ![t] = "idle"]
    /\ ret' = [ret EXCEPT ![t] = result]

(* cond.Signal wakes one parked goroutine, if there is any: the wait sets  *)
(* it may leave behind.                                                    *)
Signalled ==
    IF waiting = {} THEN {{}} ELSE {waiting \ {g} : g \in waiting}

Published == UNION {version[i].data : i \in 1..Len(version)}

-----------------------------------------------------------------------------
Init ==
    /\ closed = FALSE
    /\ mem = {}
    /\ immMem = Nil
    /\ version = <<>>
    /\ nextSSTID = 1
    /\ flushErr = "nil"
    /\ flushDoneCh = AutoFlush
    /\ manifestOpen = TRUE
    /\ waiting = {}
    /\ pc = [g \in Goroutines |->
                IF g = Flusher THEN IF AutoFlush THEN "loop" ELSE "gone"
                               ELSE "idle"]
    /\ job = [g \in Goroutines |-> NoJob]
    /\ flushCh = FALSE
    /\ ret = [t \in Threads |-> "none"]
    /\ target = [t \in Threads |-> {}]
    /\ written = 0
    /\ panicked = FALSE

-----------------------------------------------------------------------------
(* Write, after its batch has reached the WAL.                             *)

(* checkWritePreconditionsLocked refuses, or the batch is empty, the       *)
(* context cancelled, or the WAL append or sync fails: nothing is applied. *)
WriteRefused(t) ==
    /\ At(t, "idle")
    /\ \/ closed /\ Return(t, "ErrDBClosed")
       \/ ~closed /\ flushErr # "nil" /\ Return(t, "flushErr")
       \/ ~closed /\ flushErr = "nil" /\ Return(t, "not_applied")
    /\ UNCHANGED <<closed, dbVars, flushDoneCh, manifestOpen, waiting, job,
                   flushCh, target, written, panicked>>

(* Mutant: the rotation forgets to wake the flusher.                       *)
RotateNoSignal(m) ==
    /\ immMem' = m
    /\ mem' = {}
    /\ UNCHANGED waiting

(* Freeze the memtable m for the flusher, install a fresh one, Signal.     *)
Rotate(m) ==
    /\ immMem' = m
    /\ mem' = {}
    /\ waiting' \in Signalled

(* maybeAutoFlushLocked, entered with the active memtable m.               *)
MaybeAutoFlush(t, m) ==
    LET full == AutoFlush /\ Cardinality(m) >= FlushSize IN
    \/ /\ ~full
       /\ mem' = m
       /\ Return(t, "ok")
       /\ UNCHANGED <<immMem, waiting>>
    \/ /\ full /\ immMem = Nil
       /\ Rotate(m)
       /\ Return(t, "ok")
    \/ /\ full /\ immMem # Nil
       /\ mem' = m
       /\ waiting' = waiting \cup {t}
       /\ pc' = [pc EXCEPT ![t] = "stall"]
       /\ ret' = [ret EXCEPT ![t] = "none"]
       /\ UNCHANGED immMem

Write(t) ==
    /\ At(t, "idle")
    /\ ~closed /\ flushErr = "nil"
    /\ written < MaxWrites
    /\ written' = written + 1
    /\ MaybeAutoFlush(t, mem \cup {written + 1})
    /\ UNCHANGED <<closed, version, nextSSTID, flushErr, flushDoneCh,
                   manifestOpen, job, flushCh, target, panicked>>

(* waitForFlushSlotLocked resumes; the rotation that follows does not look *)
(* at the size of the memtable again.                                      *)
StallResume(t) ==
    /\ At(t, "stall")
    /\ \/ /\ closed
          /\ Return(t, "ErrDBClosed")
          /\ UNCHANGED <<mem, immMem, waiting>>
       \/ /\ ~closed /\ flushErr # "nil"
          /\ Return(t, "flushErr")
          /\ UNCHANGED <<mem, immMem, waiting>>
       \/ /\ ~closed /\ flushErr = "nil" /\ immMem # Nil
          /\ waiting' = waiting \cup {t}
          /\ UNCHANGED <<mem, immMem, pc, ret>>
       \/ /\ ~closed /\ flushErr = "nil" /\ immMem = Nil
          /\ Rotate(mem)
          /\ Return(t, "ok")
    /\ UNCHANGED <<closed, version, nextSSTID, flushErr, flushDoneCh,
                   manifestOpen, job, flushCh, target, written, panicked>>

-----------------------------------------------------------------------------
(* Flush (flushMemtable). *)

(* Mutant: Flush ignores flushDoneCh and always writes the SSTable itself. *)
FlushFreezeInline(t, owed) ==
    /\ immMem' = mem
    /\ mem' = {}
    /\ target' = [target EXCEPT ![t] = owed \cup mem]
    /\ job' = [job EXCEPT ![t] = [path |-> nextSSTID, data |-> mem]]
    /\ pc' = [pc EXCEPT ![t] = "io"]
    /\ ret' = [ret EXCEPT ![t] = "none"]
    /\ UNCHANGED waiting

(* Freeze the memtable of a Flush: hand it to the flusher and park until   *)
(* it is done, or, when no flusher runs, write it in the caller.  "owed"   *)
(* is what the call found in the memtable when it came.                    *)
FlushFreeze(t, owed) ==
    /\ immMem' = mem
    /\ mem' = {}
    /\ target' = [target EXCEPT ![t] = owed \cup mem]
    /\ \/ /\ flushDoneCh
          /\ \E w \in Signalled : waiting' = w \cup {t}
          /\ pc' = [pc EXCEPT ![t] = "fwait2"]
          /\ UNCHANGED job
       \/ /\ ~flushDoneCh
          /\ job' = [job EXCEPT ![t] = [path |-> nextSSTID, data |-> mem]]
          /\ pc' = [pc EXCEPT ![t] = "io"]
          /\ UNCHANGED waiting
    /\ ret' = [ret EXCEPT ![t] = "none"]

(* Entry of flushMemtable up to its first Wait, freeze or return.          *)
Flush(t) ==
    /\ At(t, "idle")
    /\ \/ /\ closed
          /\ Return(t, "ErrDBClosed")
          /\ UNCHANGED <<mem, immMem, waiting, job, target>>
       \/ /\ ~closed /\ flushErr # "nil"
          /\ Return(t, "flushErr")
          /\ UNCHANGED <<mem, immMem, waiting, job, target>>
       \/ /\ ~closed /\ flushErr = "nil" /\ mem = {}
          /\ Return(t, "flushed")
          /\ target' = [target EXCEPT ![t] = {}]
          /\ UNCHANGED <<mem, immMem, waiting, job>>
       \/ /\ ~closed /\ flushErr = "nil" /\ mem # {} /\ immMem # Nil
          /\ target' = [target EXCEPT ![t] = mem]
          /\ waiting' = waiting \cup {t}
          /\ pc' = [pc EXCEPT ![t] = "fwait1"]
          /\ ret' = [ret EXCEPT ![t] = "none"]
          /\ UNCHANGED <<mem, immMem, job>>
       \/ /\ ~closed /\ flushErr = "nil" /\ mem # {} /\ immMem = Nil
          /\ FlushFreeze(t, {})
    /\ UNCHANGED <<closed, version, nextSSTID, flushErr, flushDoneCh,
                   manifestOpen, flushCh, written, panicked>>

(* The first Wait loop resumes: the slot was taken when Flush came.        *)
FlushSlotResume(t) ==
    /\ At(t, "fwait1")
    /\ \/ /\ closed
          /\ Return(t, "ErrDBClosed")
          /\ UNCHANGED <<mem, immMem, waiting, job, target>>
       \/ /\ ~closed /\ flushErr # "nil"
          /\ Return(t, "flushErr")
          /\ UNCHANGED <<mem, immMem, waiting, job, target>>
       \/ /\ ~closed /\ flushErr = "nil" /\ immMem # Nil
          /\ waiting' = waiting \cup {t}
          /\ UNCHANGED <<mem, immMem, pc, job, ret, target>>
       \/ /\ ~closed /\ flushErr = "nil" /\ immMem = Nil
          /\ FlushFreeze(t, target[t])
    /\ UNCHANGED <<closed, version, nextSSTID, flushErr, flushDoneCh,
                   manifestOpen, flushCh, written, panicked>>

(* Mutant: leaving the second Wait loop because of Close counts as done.   *)
FlushDoneOnClose(t) ==
    /\ At(t, "fwait2")
    /\ \/ flushErr # "nil" /\ Return(t, "flushErr") /\ UNCHANGED waiting
       \/ /\ flushErr = "nil" /\ immMem # Nil /\ ~closed
          /\ waiting' = waiting \cup {t}
          /\ UNCHANGED <<pc, ret>>
       \/ /\ flushErr = "nil" /\ (closed \/ immMem = Nil)
          /\ Return(t, "flushed") /\ UNCHANGED waiting
    /\ UNCHANGED <<closed, dbVars, flushDoneCh, manifestOpen, job, flushCh,
                   target, written, panicked>>

(* The second Wait loop resumes: the frozen memtable was handed over.      *)
FlushDoneResume(t) ==
    /\ At(t, "fwait2")
    /\ \/ flushErr # "nil" /\ Return(t, "flushErr") /\ UNCHANGED waiting
       \/ /\ flushErr = "nil" /\ immMem # Nil /\ ~closed
          /\ waiting' = waiting \cup {t}
          /\ UNCHANGED <<pc, ret>>
       \/ /\ flushErr = "nil" /\ closed
          /\ Return(t, "ErrDBClosed") /\ UNCHANGED waiting
       \/ /\ flushErr = "nil" /\ immMem = Nil /\ ~closed
          /\ Return(t, "flushed") /\ UNCHANGED waiting
    /\ UNCHANGED <<closed, dbVars, flushDoneCh, manifestOpen, job, flushCh,
                   target, written, panicked>>

-----------------------------------------------------------------------------
(* Outcomes of writeSSTable and publishFlushedSSTLocked for goroutine g.   *)

(* writeSSTable fails: on I/O, or because the memtable is empty.           *)
WriteSSTFails(g) ==
    \/ flushErr' = "sst_write"
    \/ job[g].data = {} /\ flushErr' = "empty"

(* The sst_publish_error fault, or manifest.Append fails: the id is kept.  *)
PublishFails(g) ==
    /\ job[g].data # {}
    /\ flushErr' = "sst_publish"

(* Mutant: the slot is not cleared.                                        *)
PublishKeepsSlot(g) ==
    /\ job[g].data # {}
    /\ manifestOpen
    /\ version' = Append(version, [id |-> nextSSTID, path |-> job[g].path,
                                   data |-> job[g].data])
    /\ flushErr' = "nil"
    /\ nextSSTID' = nextSSTID + 1
    /\ UNCHANGED immMem

(* Mutant: nextSSTID is not incremented.                                   *)
PublishReusesID(g) ==
    /\ job[g].data # {}
    /\ manifestOpen
    /\ version' = Append(version, [id |-> nextSSTID, path |-> job[g].path,
                                   data |-> job[g].data])
    /\ flushErr' = "nil"
    /\ immMem' = Nil
    /\ UNCHANGED nextSSTID

(* The edit is appended; Version, readers, slot and id move together.      *)
PublishFlushedSST(g) ==
    /\ job[g].data # {}
    /\ manifestOpen
    /\ version' = Append(version, [id |-> nextSSTID, path |-> job[g].path,
                                   data |-> job[g].data])
    /\ flushErr' = "nil"
    /\ immMem' = Nil
    /\ nextSSTID' = nextSSTID + 1

(* A synchronous Flush re-acquires the lock after its I/O: it records the  *)
(* failure, publishes, or dereferences the manifest that Close has dropped. *)
SyncFlushFails(t) ==
    /\ At(t, "io")
    /\ WriteSSTFails(t) \/ PublishFails(t)
    /\ waiting' = {}
    /\ job' = [job EXCEPT ![t] = NoJob]
    /\ Return(t, "flushErr")
    /\ UNCHANGED <<closed, mem, immMem, version, nextSSTID, flushDoneCh,
                   manifestOpen, flushCh, target, written, panicked>>

SyncFlushPublishes(t) ==
    /\ At(t, "io")
    /\ PublishFlushedSST(t)
    /\ waiting' = {}
    /\ job' = [job EXCEPT ![t] = NoJob]
    /\ Return(t, "flushed")
    /\ UNCHANGED <<closed, mem, flushDoneCh, manifestOpen, flushCh, target,
                   written, panicked>>

SyncFlushPanics(t) ==
    /\ At(t, "io")
    /\ job[t].data # {} /\ ~manifestOpen
    /\ panicked' = TRUE
    /\ UNCHANGED <<closed, dbVars, flushDoneCh, manifestOpen, waiting, pc, job,
                   flushCh, ret, target, written>>

-----------------------------------------------------------------------------
(* flushLoop. *)

(* Mutant: flushLoop goes on after a failed flush.                         *)
FlusherContinues ==
    /\ pc' = [pc EXCEPT ![Flusher] = "loop"]
    /\ UNCHANGED flushDoneCh

(* return from flushLoop: the deferred functions run under the lock.       *)
FlusherReturn ==
    /\ flushDoneCh' = FALSE
    /\ pc' = [pc EXCEPT ![Flusher] = "returned"]

(* Mutant: an empty frozen memtable is written like any other.             *)
FlusherLoopNoSkip ==
    /\ At(Flusher, "loop")
    /\ \/ /\ closed
          /\ FlusherReturn
          /\ UNCHANGED <<waiting, job>>
       \/ /\ ~closed /\ immMem = Nil
          /\ waiting' = waiting \cup {Flusher}
          /\ UNCHANGED <<flushDoneCh, pc, job>>
       \/ /\ ~closed /\ immMem # Nil
          /\ job' = [job EXCEPT ![Flusher] =
                        [path |-> nextSSTID, data |-> immMem]]
          /\ pc' = [pc EXCEPT ![Flusher] = "io"]
          /\ UNCHANGED <<flushDoneCh, waiting>>
    /\ UNCHANGED <<closed, mem, immMem, version, nextSSTID, flushErr,
                   manifestOpen, flushCh, ret, target, written, panicked>>

(* Top of the loop, when the goroutine starts or wakes from Wait.          *)
FlusherLoop ==
    /\ At(Flusher, "loop")
    /\ \/ /\ closed
          /\ FlusherReturn
          /\ UNCHANGED <<immMem, waiting, job>>
       \/ /\ ~closed /\ immMem = Nil
          /\ waiting' = waiting \cup {Flusher}
          /\ UNCHANGED <<immMem, flushDoneCh, pc, job>>
       \/ /\ ~closed /\ immMem = {}
          \* skipped; Broadcast, and the next turn of the loop parks at once
          /\ immMem' = Nil
          /\ waiting' = {Flusher}
          /\ UNCHANGED <<flushDoneCh, pc, job>>
       \/ /\ ~closed /\ immMem # Nil /\ immMem # {}
          /\ job' = [job EXCEPT ![Flusher] =
                        [path |-> nextSSTID, data |-> immMem]]
          /\ pc' = [pc EXCEPT ![Flusher] = "io"]
          /\ UNCHANGED <<immMem, flushDoneCh, waiting>>
    /\ UNCHANGED <<closed, mem, version, nextSSTID, flushErr, manifestOpen,
                   flushCh, ret, target, written, panicked>>

(* The flusher re-acquires the lock after its I/O: it records the failure  *)
(* and returns, or publishes, broadcasts and takes the next turn.          *)
FlusherFails ==
    /\ At(Flusher, "io")
    /\ WriteSSTFails(Flusher) \/ PublishFails(Flusher)
    /\ waiting' = {}
    /\ FlusherReturn
    /\ job' = [job EXCEPT ![Flusher] = NoJob]
    /\ UNCHANGED <<closed, mem, immMem, version, nextSSTID, manifestOpen,
                   flushCh, ret, target, written, panicked>>

FlusherPublishes ==
    /\ At(Flusher, "io")
    /\ PublishFlushedSST(Flusher)
    /\ \/ closed /\ waiting' = {} /\ FlusherReturn
       \/ /\ ~closed
          /\ waiting' = {Flusher}
          /\ pc' = [pc EXCEPT ![Flusher] = "loop"]
          /\ UNCHANGED flushDoneCh
    /\ job' = [job EXCEPT ![Flusher] = NoJob]
    /\ UNCHANGED <<closed, mem, manifestOpen, flushCh, ret, target, written,
                   panicked>>

(* close(doneCh), the outermost deferred call, after the lock is released. *)
FlusherCloseDoneCh ==
    /\ At(Flusher, "returned")
    /\ pc' = [pc EXCEPT ![Flusher] = "gone"]
    /\ UNCHANGED <<closed, dbVars, flushDoneCh, manifestOpen, waiting, job,
                   flushCh, ret, target, written, panicked>>

-----------------------------------------------------------------------------
(* Close. *)
(* Mutant: Close does not Broadcast.                                       *)
CloseNoBroadcast(t) ==
    /\ At(t, "idle")
    /\ \/ /\ closed
          /\ Return(t, "ErrDBClosed")
          /\ UNCHANGED <<closed, flushCh>>
       \/ /\ ~closed
          /\ closed' = TRUE
          /\ flushCh' = flushDoneCh
          /\ pc' = [pc EXCEPT ![t] = "closing"]
          /\ ret' = [ret EXCEPT ![t] = "none"]
    /\ UNCHANGED <<dbVars, flushDoneCh, manifestOpen, waiting, job, target,
                   written, panicked>>

(* Mark the database closed, snapshot flushDoneCh, Broadcast, unlock.      *)
Close(t) ==
    /\ At(t, "idle")
    /\ \/ /\ closed
          /\ Return(t, "ErrDBClosed")
          /\ UNCHANGED <<closed, flushCh, waiting>>
       \/ /\ ~closed
          /\ closed' = TRUE
          /\ flushCh' = flushDoneCh
          /\ waiting' = {}
          /\ pc' = [pc EXCEPT ![t] = "closing"]
          /\ ret' = [ret EXCEPT ![t] = "none"]
    /\ UNCHANGED <<dbVars, flushDoneCh, manifestOpen, job, target, written,
                   panicked>>

(* Mutant: Close does not wait for flushLoop.                              *)
CloseReleaseAtOnce(t) ==
    /\ At(t, "closing")
    /\ manifestOpen' = FALSE
    /\ mem' = Nil
    /\ immMem' = Nil
    /\ Return(t, "ok")
    /\ UNCHANGED <<closed, version, nextSSTID, flushErr, flushDoneCh, waiting,
                   job, flushCh, target, written, panicked>>

(* Mutant: Close leaves the frozen memtable behind.                        *)
CloseReleaseKeepsSlot(t) ==
    /\ At(t, "closing")
    /\ flushCh => pc[Flusher] = "gone"
    /\ manifestOpen' = FALSE
    /\ mem' = Nil
    /\ Return(t, "ok")
    /\ UNCHANGED <<closed, immMem, version, nextSSTID, flushErr, flushDoneCh,
                   waiting, job, flushCh, target, written, panicked>>

(* Receive from the snapshot of flushDoneCh, then release everything.      *)
CloseRelease(t) ==
    /\ At(t, "closing")
    /\ flushCh => pc[Flusher] = "gone"
    /\ manifestOpen' = FALSE
    /\ mem' = Nil
    /\ immMem' = Nil
    /\ Return(t, "ok")
    /\ UNCHANGED <<closed, version, nextSSTID, flushErr, flushDoneCh, waiting,
                   job, flushCh, target, written, panicked>>

-----------------------------------------------------------------------------
(* What a goroutine does once it has been called: fair, unlike the calls.  *)
Continue(t) ==
    \/ StallResume(t)
    \/ FlushSlotResume(t)
    \/ FlushDoneResume(t)
    \/ SyncFlushFails(t) \/ SyncFlushPublishes(t) \/ SyncFlushPanics(t)
    \/ CloseRelease(t)

FlusherStep == FlusherLoop \/ FlusherFails \/ FlusherPublishes \/ FlusherCloseDoneCh

Next ==
    \/ \E t \in Threads : WriteRefused(t) \/ Write(t) \/ Flush(t) \/ Close(t)
    \/ \E t \in Threads : Continue(t)
    \/ FlusherStep

Spec == Init /\ [][Next]_vars

Fairness ==
    /\ \A t \in Threads : WF_vars(Continue(t))
    /\ WF_vars(FlusherStep)

FairSpec == Spec /\ Fairness

-----------------------------------------------------------------------------
(* Invariants. *)

(* Every variable has its type, and Close releases memtable, slot and      *)
(* manifest together, never before closed is set (db.go, DB.Close).        *)
TypeOK ==
    /\ closed \in BOOLEAN
    /\ mem \in Memtables \cup {Nil}
    /\ immMem \in Memtables \cup {Nil}
    /\ version \in Seq([id : Nat, path : Nat, data : Memtables])
    /\ nextSSTID \in Nat
    /\ flushErr \in Errors
    /\ flushDoneCh \in BOOLEAN
    /\ manifestOpen \in BOOLEAN
    /\ waiting \in SUBSET Goroutines
    /\ pc \in [Goroutines -> {"idle", "stall", "fwait1", "fwait2", "closing",
                              "io", "loop", "returned", "gone"}]
    /\ job \in [Goroutines -> Jobs]
    /\ flushCh \in BOOLEAN
    /\ ret \in [Threads -> {"none", "ok", "not_applied", "flushed",
                            "flushErr", "ErrDBClosed"}]
    /\ target \in [Threads -> Memtables]
    /\ written \in 0..MaxWrites
    /\ panicked \in BOOLEAN
    /\ mem = Nil <=> ~manifestOpen
    /\ ~manifestOpen => closed /\ immMem = Nil

(* No goroutine sleeps in cond.Wait on a condition that already holds: the *)
(* flusher only while the slot is empty, callers only while it is full,    *)
(* nobody once the database is closed or a flush has failed.  This is why  *)
(* the single Signal of a rotation is enough (maybeAutoFlushLocked,        *)
(* flushMemtable): at that point only the flusher can be parked.           *)
NoLostWakeup ==
    /\ waiting # {} => ~closed /\ flushErr = "nil"
    /\ Flusher \in waiting => immMem = Nil
    /\ \A t \in Threads : t \in waiting => immMem # Nil

(* Flushing is single-flight: at most one goroutine writes an SSTable, and *)
(* it writes the frozen memtable (unless Close has released that).         *)
SingleFlight ==
    /\ \A g, h \in Goroutines : pc[g] = "io" /\ pc[h] = "io" => g = h
    /\ \A g \in Goroutines :
          pc[g] = "io" /\ manifestOpen => immMem = job[g].data

(* Until Close releases the memtables every applied write is in exactly    *)
(* one of the active memtable, the frozen one and the published SSTables,  *)
(* so a reader holding the lock finds it (DB.Get searches these three).    *)
NothingLost ==
    manifestOpen =>
      LET imm == IF immMem = Nil THEN {} ELSE immMem IN
      /\ mem \cup imm \cup Published = 1..written
      /\ mem \cap (imm \cup Published) = {}
      /\ imm \cap Published = {}
      /\ \A i, j \in 1..Len(version) :
            i # j => version[i].data \cap version[j].data = {}

(* A Flush that returned nil has persisted every write the active memtable *)
(* held when Flush was called, whoever rotated it in the meantime.         *)
FlushPersists ==
    \A t \in Threads : ret[t] = "flushed" => target[t] \subseteq Published

(* The path chosen before the I/O and the file id recorded after it are    *)
(* the same number, and no id is recorded twice.                           *)
PublishedPathIsID ==
    \A i \in 1..Len(version) :
      /\ version[i].path = version[i].id
      /\ \A j \in 1..Len(version) : version[i].id = version[j].id => i = j

(* Close does not pull the manifest from under a background flush.         *)
CloseWaitsForFlush == pc[Flusher] \in {"loop", "io"} => manifestOpen

(* A rotation that froze an empty memtable (two stalled writers) is not    *)
(* reported as a failed flush: with Flush documented as a no-op on an      *)
(* empty memtable, ErrFlushEmptyMemtable never becomes the sticky error.   *)
EmptyRotationHarmless == flushErr # "empty"

(* A synchronous Flush never publishes into a released manifest.           *)
NoPanic == ~panicked

-----------------------------------------------------------------------------
(* Action properties. *)

(* flushErr is sticky, although a publish resets it to nil: no later flush *)
(* hides a failed one, and nothing is published after a failure.           *)
FlushErrSticky ==
    [][flushErr # "nil" => flushErr' = flushErr /\ version' = version]_vars

-----------------------------------------------------------------------------
(* Liveness. *)

(* Every Write, Flush and Close returns, however it was parked.            *)
CallsReturn ==
    \A t \in Threads : pc[t] # "idle" ~> (pc[t] = "idle" \/ panicked)

(* A frozen memtable leaves the slot, or the failure is recorded.          *)
HandoffCompletes == immMem # Nil ~> (immMem = Nil \/ flushErr # "nil")

=============================================================================
