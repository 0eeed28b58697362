------------------------ MODULE FlushPipelineProofs ------------------------
(***************************************************************************)
(* Theorems about FlushPipeline, for any number of calling goroutines, any *)
(* flush threshold (0 included, so both flush modes) and any number of     *)
(* writes.                                                                 *)
(***************************************************************************)
EXTENDS FlushPipeline, TLAPS

(* Control part of the inductive invariant: which goroutine may be where,  *)
(* and what that says of the slot, the channel and the error.              *)
ThreadPCs  == {"idle", "stall", "fwait1", "fwait2", "closing", "io"}
FlusherPCs == {"loop", "io", "returned", "gone"}

PlacesInv ==
    /\ pc[Flusher] \in FlusherPCs
    /\ \A t \in Threads : pc[t] \in ThreadPCs
    /\ Flusher \in waiting => pc[Flusher] = "loop"
    /\ \A t \in Threads : t \in waiting => pc[t] \in {"stall", "fwait1", "fwait2"}

(* flushDoneCh is non-nil exactly while flushLoop runs, a synchronous      *)
(* flush runs only without it, and Close releases only after it is nil.    *)
ChannelInv ==
    /\ flushDoneCh <=> pc[Flusher] \in {"loop", "io"}
    /\ \A t \in Threads : pc[t] = "io" => ~flushDoneCh
    /\ \A t \in Threads : pc[t] = "closing" =>
          closed /\ manifestOpen /\ (~flushCh => ~flushDoneCh)
    /\ \A t, u \in Threads : pc[t] = "closing" /\ pc[u] = "closing" => t = u
    /\ ~manifestOpen => ~flushDoneCh

(* Whoever writes an SSTable owns the slot: it holds the memtable being    *)
(* written under the next id, and no flush has failed.                     *)
SlotInv ==
    /\ \A g \in Goroutines : pc[g] = "io" =>
          /\ manifestOpen => immMem = job[g].data
          /\ job[g].path = nextSSTID
          /\ flushErr = "nil"
    /\ \A g, h \in Goroutines : pc[g] = "io" /\ pc[h] = "io" => g = h
    /\ flushErr # "nil" => ~flushDoneCh /\ (manifestOpen => immMem # Nil)

ControlInv == PlacesInv /\ ChannelInv /\ SlotInv /\ NoLostWakeup

(* Data part: where every write is, and what pending Flush calls rely on.  *)
Imm == IF immMem = Nil THEN {} ELSE immMem

TargetOK(t) ==
    /\ pc[t] = "fwait1" /\ manifestOpen => target[t] \subseteq 1..written
    /\ pc[t] = "fwait2" /\ manifestOpen => target[t] \subseteq Published \cup Imm
    /\ pc[t] = "io" => target[t] \subseteq Published \cup job[t].data

FlushedOK(t) == ret[t] = "flushed" => target[t] \subseteq Published

TargetsInv == \A t \in Threads : TargetOK(t) /\ FlushedOK(t)

IDsInv ==
    /\ PublishedPathIsID
    /\ \A i \in 1..Len(version) : version[i].id < nextSSTID

DataInv == NothingLost /\ TargetsInv /\ IDsInv

-----------------------------------------------------------------------------
(* TypeOK and ControlInv are inductive together. *)

LEMMA InitTypeOK == Init => TypeOK
<1>1. {} \in Memtables /\ Nil # {} /\ 0 \in 0..MaxWrites
  BY ConstantsAssumption, NilAssumption DEF Memtables
<1> QED
  <2> HAVE Init
  <2>1. NoJob \in Jobs
    BY <1>1 DEF Jobs, NoJob
  <2>2. flushDoneCh \in BOOLEAN
    BY DEF Init, AutoFlush
  <2>3. version \in Seq([id : Nat, path : Nat, data : Memtables])
    BY DEF Init
  <2> QED
    BY <1>1, <2>1, <2>2, <2>3 DEF Init, TypeOK, Goroutines, Errors

(* The memtables are there as long as the database is not closed.          *)
LEMMA OpenMemtables ==
    ASSUME TypeOK, ~closed
    PROVE  manifestOpen /\ mem \in Memtables
BY DEF TypeOK

(* A rotation or freeze leaves well-typed memtables and wait set.          *)
LEMMA SignalledType ==
    ASSUME waiting \in SUBSET Goroutines, NEW w \in Signalled
    PROVE  w \subseteq waiting
BY DEF Signalled

LEMMA TypeOKStep == TypeOK /\ ControlInv /\ Next => TypeOK'
<1> SUFFICES ASSUME TypeOK, ControlInv, Next PROVE TypeOK'
    OBVIOUS
<1>a. ~closed => manifestOpen /\ mem \in Memtables
  BY OpenMemtables
<1>b. {} \in Memtables /\ \A m \in Memtables : m # Nil
  BY NilAssumption DEF Memtables
<1>c. \A w \in Signalled : w \in SUBSET Goroutines
  BY SignalledType DEF TypeOK
<1>1. ASSUME NEW t \in Threads, WriteRefused(t) PROVE TypeOK'
  BY <1>1 DEF WriteRefused, TypeOK, Return, Goroutines, dbVars
<1>2. ASSUME NEW t \in Threads, Write(t) PROVE TypeOK'
  <2>1. mem \cup {written + 1} \in Memtables
    BY <1>2, <1>a, ConstantsAssumption DEF Write, TypeOK, Memtables, WriteIDs
  <2>2. written' \in 0..MaxWrites
    BY <1>2, ConstantsAssumption DEF Write, TypeOK
  <2>3. manifestOpen
    BY <1>2, <1>a DEF Write
  <2>4. /\ mem' \in Memtables /\ immMem' \in Memtables \cup {Nil}
        /\ waiting' \in SUBSET Goroutines
    <3>1. CASE Rotate(mem \cup {written + 1})
      BY <3>1, <1>b, <1>c, <2>1 DEF Rotate
    <3>2. CASE /\ mem' = mem \cup {written + 1} /\ immMem' = immMem
               /\ waiting' = waiting \/ waiting' = waiting \cup {t}
      BY <3>2, <2>1 DEF TypeOK, Goroutines
    <3> QED
      BY <1>2, <3>1, <3>2 DEF Write, MaybeAutoFlush
  <2>5. /\ pc' = [pc EXCEPT ![t] = "idle"] \/ pc' = [pc EXCEPT ![t] = "stall"]
        /\ ret' = [ret EXCEPT ![t] = "ok"] \/ ret' = [ret EXCEPT ![t] = "none"]
    BY <1>2 DEF Write, MaybeAutoFlush, Return
  <2> QED
    BY <1>2, <1>b, <2>2, <2>3, <2>4, <2>5 DEF Write, TypeOK, Goroutines
<1>3. ASSUME NEW t \in Threads, StallResume(t) PROVE TypeOK'
  <2>1. CASE closed \/ flushErr # "nil" \/ immMem # Nil
    BY <1>3, <2>1 DEF StallResume, Return, TypeOK, Goroutines
  <2>2. CASE ~closed /\ flushErr = "nil" /\ immMem = Nil
    <3>1. mem' = {} /\ immMem' = mem /\ waiting' \in SUBSET Goroutines
      BY <1>3, <2>2, <1>c DEF StallResume, Rotate
    <3> QED
      BY <1>3, <2>2, <3>1, <1>a, <1>b DEF StallResume, Return, TypeOK, Goroutines
  <2> QED
    BY <2>1, <2>2
<1>4. ASSUME NEW t \in Threads, NEW owed \in Memtables, FlushFreeze(t, owed), ~closed
      PROVE
          /\ mem' \in Memtables /\ immMem' \in Memtables
          /\ target' \in [Threads -> Memtables]
          /\ waiting' \in SUBSET Goroutines
          /\ pc' \in [Goroutines -> {"idle", "stall", "fwait1", "fwait2",
                          "closing", "io", "loop", "returned", "gone"}]
          /\ job' \in [Goroutines -> Jobs]
          /\ ret' \in [Threads -> {"none", "ok", "not_applied", "flushed",
                            "flushErr", "ErrDBClosed"}]
  <2>1. mem \in Memtables
    BY <1>4, <1>a
  <2>2. owed \cup mem \in Memtables
    BY <1>4, <2>1 DEF Memtables
  <2>3. [path |-> nextSSTID, data |-> mem] \in Jobs
    BY <1>4, <2>1 DEF TypeOK, Jobs
  <2> QED
    BY <1>4, <1>b, <1>c, <2>1, <2>2, <2>3 DEF FlushFreeze, TypeOK, Goroutines
<1>5. ASSUME NEW t \in Threads, Flush(t) PROVE TypeOK'
  <2>1. CASE closed \/ flushErr # "nil"
    BY <1>5, <2>1, <1>b DEF Flush, Return, TypeOK, Goroutines
  <2>3. CASE ~closed /\ flushErr = "nil" /\ mem = {}
    <3>1. /\ Return(t, "flushed") /\ target' = [target EXCEPT ![t] = {}]
          /\ UNCHANGED <<mem, immMem, waiting, job>>
      BY <1>5, <2>3 DEF Flush
    <3>2. target' \in [Threads -> Memtables]
      BY <3>1, <1>b DEF TypeOK
    <3> QED
      BY <1>5, <3>1, <3>2 DEF Flush, Return, TypeOK, Goroutines
  <2>4. CASE ~closed /\ flushErr = "nil" /\ mem # {} /\ immMem # Nil
    <3>1. /\ target' = [target EXCEPT ![t] = mem]
          /\ waiting' = waiting \cup {t}
          /\ pc' = [pc EXCEPT ![t] = "fwait1"]
          /\ ret' = [ret EXCEPT ![t] = "none"]
          /\ UNCHANGED <<mem, immMem, job>>
      BY <1>5, <2>4 DEF Flush
    <3>2. target' \in [Threads -> Memtables]
      BY <3>1, <2>4, <1>a DEF TypeOK
    <3> QED
      BY <1>5, <3>1, <3>2 DEF Flush, TypeOK, Goroutines
  <2>2. CASE ~closed /\ flushErr = "nil" /\ mem # {} /\ immMem = Nil
    BY <1>5, <2>2, <1>a, <1>b, <1>4 DEF Flush, TypeOK
  <2> QED
    BY <2>1, <2>2, <2>3, <2>4
<1>6. ASSUME NEW t \in Threads, FlushSlotResume(t) PROVE TypeOK'
  <2>1. CASE closed \/ flushErr # "nil" \/ immMem # Nil
    BY <1>6, <2>1 DEF FlushSlotResume, Return, TypeOK, Goroutines
  <2>2. CASE ~closed /\ flushErr = "nil" /\ immMem = Nil
    <3>1. target[t] \in Memtables
      BY DEF TypeOK
    <3> QED
      BY <1>6, <2>2, <1>a, <1>b, <1>4, <3>1 DEF FlushSlotResume, TypeOK
  <2> QED
    BY <2>1, <2>2
<1>7. ASSUME NEW t \in Threads, FlushDoneResume(t) PROVE TypeOK'
  BY <1>7 DEF FlushDoneResume, Return, TypeOK, Goroutines, dbVars
<1>8. NoJob \in Jobs
  BY DEF NoJob, Jobs, Memtables
<1>9. ASSUME NEW g \in Goroutines, PublishFlushedSST(g)
      PROVE
          /\ version' \in Seq([id : Nat, path : Nat, data : Memtables])
          /\ nextSSTID' \in Nat /\ flushErr' \in Errors
          /\ immMem' = Nil /\ manifestOpen
  BY <1>9 DEF PublishFlushedSST, TypeOK, Jobs, Errors
<1>10. ASSUME NEW t \in Threads, SyncFlushFails(t) PROVE TypeOK'
  <2>1. flushErr' \in Errors
    BY <1>10 DEF SyncFlushFails, WriteSSTFails, PublishFails, Errors
  <2> QED
    BY <1>10, <1>8, <2>1 DEF SyncFlushFails, Return, TypeOK, Goroutines
<1>11. ASSUME NEW t \in Threads, SyncFlushPublishes(t) PROVE TypeOK'
  <2>1. t \in Goroutines
    BY DEF Goroutines
  <2> QED
    BY <1>11, <1>8, <1>9, <2>1 DEF SyncFlushPublishes, Return, TypeOK
<1>12. ASSUME NEW t \in Threads, SyncFlushPanics(t) PROVE TypeOK'
  BY <1>12 DEF SyncFlushPanics, TypeOK, dbVars
<1>13. ASSUME NEW t \in Threads, Close(t) PROVE TypeOK'
  <2>1. CASE closed
    BY <1>13, <2>1 DEF Close, Return, TypeOK, Goroutines, dbVars
  <2>2. CASE ~closed
    BY <1>13, <2>2 DEF Close, TypeOK, Goroutines, dbVars
  <2> QED
    BY <2>1, <2>2
<1>14. ASSUME NEW t \in Threads, CloseRelease(t) PROVE TypeOK'
  <2>1. closed
    BY <1>14 DEF CloseRelease, At, ControlInv, ChannelInv
  <2> QED
    BY <1>14, <2>1 DEF CloseRelease, Return, TypeOK, Goroutines
<1>15. CASE FlusherLoop
  <2>1. CASE ~closed /\ immMem # Nil /\ immMem # {}
    <3>1. [path |-> nextSSTID, data |-> immMem] \in Jobs
      BY <2>1 DEF TypeOK, Jobs
    <3> QED
      BY <1>15, <2>1, <3>1 DEF FlusherLoop, TypeOK, Goroutines
  <2>2. CASE closed \/ immMem = Nil \/ immMem = {}
    BY <1>15, <2>2 DEF FlusherLoop, FlusherReturn, TypeOK, Goroutines
  <2> QED
    BY <2>1, <2>2
<1>16. Flusher \in Goroutines
  BY DEF Goroutines
<1>17. CASE FlusherFails
  <2>1. flushErr' \in Errors
    BY <1>17 DEF FlusherFails, WriteSSTFails, PublishFails, Errors
  <2> QED
    BY <1>17, <1>8, <1>16, <2>1 DEF FlusherFails, FlusherReturn, TypeOK
<1>18. CASE FlusherPublishes
  BY <1>18, <1>8, <1>9, <1>16 DEF FlusherPublishes, FlusherReturn, TypeOK
<1>19. CASE FlusherCloseDoneCh
  BY <1>19 DEF FlusherCloseDoneCh, TypeOK, Goroutines, dbVars
<1> QED
  BY <1>1, <1>2, <1>3, <1>5, <1>6, <1>7, <1>10, <1>11, <1>12, <1>13, <1>14,
     <1>15, <1>17, <1>18, <1>19 DEF Next, Continue, FlusherStep

-----------------------------------------------------------------------------
(* What the critical sections of Write and Flush do to the control state,  *)
(* whichever call they belong to.                                          *)

Returns(t) ==
    /\ pc' = [pc EXCEPT ![t] = "idle"]
    /\ UNCHANGED <<immMem, waiting, job>>

Parks(t) ==
    /\ ~closed /\ flushErr = "nil" /\ immMem # Nil
    /\ \E l \in {"stall", "fwait1", "fwait2"} : pc' = [pc EXCEPT ![t] = l]
    /\ waiting' = waiting \cup {t}
    /\ UNCHANGED <<immMem, job>>

HandsOver(t) ==
    /\ ~closed /\ flushErr = "nil" /\ immMem = Nil
    /\ immMem' \in Memtables
    /\ \/ waiting' = {} /\ pc' = [pc EXCEPT ![t] = "idle"]
       \/ waiting' = {t} /\ pc' = [pc EXCEPT ![t] = "fwait2"]
    /\ UNCHANGED job

StartsIO(t) ==
    /\ ~closed /\ flushErr = "nil" /\ immMem = Nil /\ ~flushDoneCh
    /\ mem \in Memtables /\ immMem' = mem
    /\ pc' = [pc EXCEPT ![t] = "io"]
    /\ job' = [job EXCEPT ![t] = [path |-> nextSSTID, data |-> mem]]
    /\ UNCHANGED waiting

CallerStep(t) ==
    /\ pc[t] \in {"idle", "stall", "fwait1", "fwait2"} /\ t \notin waiting
    /\ Returns(t) \/ Parks(t) \/ HandsOver(t) \/ StartsIO(t)
    /\ UNCHANGED <<closed, flushErr, flushDoneCh, manifestOpen, flushCh,
                   nextSSTID, version>>

(* The slot is empty, so only the flusher can be parked: Signal wakes it.  *)
LEMMA SignalWakesFlusher ==
    ASSUME TypeOK, NoLostWakeup, immMem = Nil, NEW w \in Signalled
    PROVE  w = {}
<1>1. waiting \subseteq {Flusher}
  BY DEF TypeOK, NoLostWakeup, Goroutines
<1>2. waiting = {} \/ waiting = {Flusher}
  BY <1>1
<1> QED
  BY <1>2 DEF Signalled

LEMMA CallerStepCases ==
    ASSUME TypeOK, ControlInv, NEW t \in Threads,
           \/ WriteRefused(t) \/ Write(t) \/ StallResume(t)
           \/ Flush(t) \/ FlushSlotResume(t) \/ FlushDoneResume(t)
    PROVE  CallerStep(t)
<1>a. ~closed => mem \in Memtables
  BY OpenMemtables
<1>b. ASSUME immMem = Nil, NEW w \in Signalled PROVE w = {}
  BY <1>b, SignalWakesFlusher DEF ControlInv
<1>1. CASE WriteRefused(t)
  BY <1>1 DEF WriteRefused, At, Return, dbVars, CallerStep, Returns
<1>2. CASE Write(t)
  <2>1. mem \cup {written + 1} \in Memtables
    BY <1>2, <1>a, ConstantsAssumption DEF Write, TypeOK, Memtables, WriteIDs
  <2>2. Returns(t) \/ Parks(t) \/ HandsOver(t)
    <3>1. CASE Rotate(mem \cup {written + 1}) /\ Return(t, "ok") /\ immMem = Nil
      BY <1>2, <2>1, <3>1, <1>b DEF Rotate, Return, HandsOver, Write
    <3>2. CASE UNCHANGED <<immMem, waiting>> /\ Return(t, "ok")
      BY <1>2, <3>2 DEF Returns, Return, Write
    <3>3. CASE /\ immMem # Nil
               /\ waiting' = waiting \cup {t}
               /\ pc' = [pc EXCEPT ![t] = "stall"]
               /\ UNCHANGED immMem
      BY <1>2, <3>3 DEF Parks, Write
    <3> QED
      BY <1>2, <3>1, <3>2, <3>3 DEF Write, MaybeAutoFlush
  <2> QED
    BY <1>2, <2>2 DEF Write, At, CallerStep
<1>3. CASE StallResume(t)
  <2>1. CASE closed \/ flushErr # "nil"
    BY <1>3, <2>1 DEF StallResume, At, Return, CallerStep, Returns
  <2>2. CASE ~closed /\ flushErr = "nil" /\ immMem # Nil
    <3>1. pc' = [pc EXCEPT ![t] = "stall"]
      BY <1>3, <2>2 DEF StallResume, At, TypeOK, Goroutines
    <3> QED
      BY <1>3, <2>2, <3>1 DEF StallResume, At, CallerStep, Parks
  <2>3. CASE ~closed /\ flushErr = "nil" /\ immMem = Nil
    <3>1. immMem' = mem /\ waiting' = {}
      BY <1>3, <2>3, <1>b DEF StallResume, Rotate
    <3> QED
      BY <1>3, <2>3, <3>1, <1>a DEF StallResume, At, Return, CallerStep, HandsOver
  <2> QED
    BY <2>1, <2>2, <2>3
<1>4. ASSUME NEW owed, FlushFreeze(t, owed), ~closed, flushErr = "nil", immMem = Nil
      PROVE  HandsOver(t) \/ StartsIO(t)
  <2>1. CASE flushDoneCh
    <3>1. waiting' = {t} /\ pc' = [pc EXCEPT ![t] = "fwait2"]
      BY <1>4, <2>1, <1>b DEF FlushFreeze
    <3> QED
      BY <1>4, <2>1, <3>1, <1>a DEF FlushFreeze, HandsOver
  <2>2. CASE ~flushDoneCh
    BY <1>4, <2>2, <1>a DEF FlushFreeze, StartsIO
  <2> QED
    BY <2>1, <2>2
<1>5. CASE Flush(t)
  <2>1. CASE closed \/ flushErr # "nil" \/ mem = {}
    BY <1>5, <2>1 DEF Flush, At, Return, CallerStep, Returns
  <2>2. CASE ~closed /\ flushErr = "nil" /\ mem # {} /\ immMem # Nil
    BY <1>5, <2>2 DEF Flush, At, CallerStep, Parks
  <2>3. CASE ~closed /\ flushErr = "nil" /\ mem # {} /\ immMem = Nil
    BY <1>5, <2>3, <1>4 DEF Flush, At, CallerStep
  <2> QED
    BY <2>1, <2>2, <2>3
<1>6. CASE FlushSlotResume(t)
  <2>1. CASE closed \/ flushErr # "nil"
    BY <1>6, <2>1 DEF FlushSlotResume, At, Return, CallerStep, Returns
  <2>2. CASE ~closed /\ flushErr = "nil" /\ immMem # Nil
    <3>1. pc' = [pc EXCEPT ![t] = "fwait1"]
      BY <1>6, <2>2 DEF FlushSlotResume, At, TypeOK, Goroutines
    <3> QED
      BY <1>6, <2>2, <3>1 DEF FlushSlotResume, At, CallerStep, Parks
  <2>3. CASE ~closed /\ flushErr = "nil" /\ immMem = Nil
    BY <1>6, <2>3, <1>4 DEF FlushSlotResume, At, CallerStep
  <2> QED
    BY <2>1, <2>2, <2>3
<1>7. CASE FlushDoneResume(t)
  <2>1. CASE flushErr # "nil" \/ closed \/ immMem = Nil
    BY <1>7, <2>1 DEF FlushDoneResume, At, Return, dbVars, CallerStep, Returns
  <2>2. CASE flushErr = "nil" /\ ~closed /\ immMem # Nil
    <3>1. pc' = [pc EXCEPT ![t] = "fwait2"]
      BY <1>7, <2>2 DEF FlushDoneResume, At, TypeOK, Goroutines
    <3> QED
      BY <1>7, <2>2, <3>1 DEF FlushDoneResume, At, dbVars, CallerStep, Parks
  <2> QED
    BY <2>1, <2>2
<1> QED
  BY <1>1, <1>2, <1>3, <1>5, <1>6, <1>7

-----------------------------------------------------------------------------
(* Each part of ControlInv is preserved by every step.                     *)

(* A goroutine writing an SSTable finds the slot full.                     *)
LEMMA WriterFillsSlot ==
    ASSUME TypeOK, SlotInv, NEW g \in Goroutines, pc[g] = "io", manifestOpen
    PROVE  immMem = job[g].data /\ immMem \in Memtables /\ immMem # Nil
BY NilAssumption DEF TypeOK, SlotInv, Jobs

LEMMA PlacesInvStep == TypeOK /\ ControlInv /\ Next => PlacesInv'
<1> SUFFICES ASSUME TypeOK, ControlInv, Next PROVE PlacesInv'
    OBVIOUS
<1>0. ASSUME NEW t \in Threads, CallerStep(t) PROVE PlacesInv'
  <2>1. CASE Returns(t)
    BY <1>0, <2>1, ConstantsAssumption
       DEF CallerStep, Returns, ControlInv, PlacesInv, ThreadPCs, FlusherPCs,
           TypeOK, Goroutines
  <2>2. CASE Parks(t)
    BY <1>0, <2>2, ConstantsAssumption
       DEF CallerStep, Parks, ControlInv, PlacesInv, ThreadPCs, FlusherPCs,
           TypeOK, Goroutines
  <2>3. CASE HandsOver(t)
    BY <1>0, <2>3, ConstantsAssumption
       DEF CallerStep, HandsOver, ControlInv, PlacesInv, ThreadPCs, FlusherPCs,
           TypeOK, Goroutines
  <2>4. CASE StartsIO(t)
    BY <1>0, <2>4, ConstantsAssumption
       DEF CallerStep, StartsIO, ControlInv, PlacesInv, ThreadPCs, FlusherPCs,
           TypeOK, Goroutines
  <2> QED
    BY <1>0, <2>1, <2>2, <2>3, <2>4 DEF CallerStep
<1>1. ASSUME NEW t \in Threads, SyncFlushFails(t) PROVE PlacesInv'
  BY <1>1, ConstantsAssumption
     DEF SyncFlushFails, At, Return, WriteSSTFails, PublishFails, ControlInv, PlacesInv, ThreadPCs, FlusherPCs,
           TypeOK, Goroutines
<1>2. ASSUME NEW t \in Threads, SyncFlushPublishes(t) PROVE PlacesInv'
  BY <1>2, ConstantsAssumption
     DEF SyncFlushPublishes, At, PublishFlushedSST, Return, ControlInv, PlacesInv, ThreadPCs, FlusherPCs,
           TypeOK, Goroutines
<1>3. ASSUME NEW t \in Threads, SyncFlushPanics(t) PROVE PlacesInv'
  BY <1>3, ConstantsAssumption
     DEF SyncFlushPanics, At, dbVars, ControlInv, PlacesInv, ThreadPCs, FlusherPCs,
           TypeOK, Goroutines
<1>4. ASSUME NEW t \in Threads, Close(t) PROVE PlacesInv'
  BY <1>4, ConstantsAssumption
     DEF Close, At, Return, dbVars, ControlInv, PlacesInv, ThreadPCs, FlusherPCs,
           TypeOK, Goroutines
<1>5. ASSUME NEW t \in Threads, CloseRelease(t) PROVE PlacesInv'
  BY <1>5, ConstantsAssumption
     DEF CloseRelease, At, Return, ControlInv, PlacesInv, ThreadPCs, FlusherPCs,
           TypeOK, Goroutines
<1>6. CASE FlusherLoop
  <2>1. CASE closed
    BY <1>6, <2>1, ConstantsAssumption DEF FlusherLoop, At, FlusherReturn, ControlInv, PlacesInv, ThreadPCs, FlusherPCs,
           TypeOK, Goroutines
  <2>2. CASE ~closed /\ immMem = Nil
    BY <1>6, <2>2, ConstantsAssumption DEF FlusherLoop, At, ControlInv, PlacesInv, ThreadPCs, FlusherPCs,
           TypeOK, Goroutines
  <2>3. CASE ~closed /\ immMem = {}
    BY <1>6, <2>3, ConstantsAssumption DEF FlusherLoop, At, ControlInv, PlacesInv, ThreadPCs, FlusherPCs,
           TypeOK, Goroutines
  <2>4. CASE ~closed /\ immMem # Nil /\ immMem # {}
    BY <1>6, <2>4, ConstantsAssumption DEF FlusherLoop, At, ControlInv, PlacesInv, ThreadPCs, FlusherPCs,
           TypeOK, Goroutines
  <2> QED
    BY <2>1, <2>2, <2>3, <2>4
<1>7. CASE FlusherFails
  BY <1>7, ConstantsAssumption
     DEF FlusherFails, At, FlusherReturn, WriteSSTFails, PublishFails, ControlInv, PlacesInv, ThreadPCs, FlusherPCs,
           TypeOK, Goroutines
<1>8. CASE FlusherPublishes
  <2>1. CASE closed
    BY <1>8, <2>1, ConstantsAssumption
       DEF FlusherPublishes, At, FlusherReturn, PublishFlushedSST, ControlInv, PlacesInv, ThreadPCs, FlusherPCs,
           TypeOK, Goroutines
  <2>2. CASE ~closed
    BY <1>8, <2>2, ConstantsAssumption
       DEF FlusherPublishes, At, PublishFlushedSST, ControlInv, PlacesInv, ThreadPCs, FlusherPCs,
           TypeOK, Goroutines
  <2> QED
    BY <2>1, <2>2
<1>9. CASE FlusherCloseDoneCh
  BY <1>9, ConstantsAssumption
     DEF FlusherCloseDoneCh, At, dbVars, ControlInv, PlacesInv, ThreadPCs, FlusherPCs,
           TypeOK, Goroutines
<1> QED
  BY <1>0, <1>1, <1>2, <1>3, <1>4, <1>5, <1>6, <1>7, <1>8, <1>9, CallerStepCases
     DEF Next, Continue, FlusherStep

LEMMA NoLostWakeupStep == TypeOK /\ ControlInv /\ Next => NoLostWakeup'
<1> SUFFICES ASSUME TypeOK, ControlInv, Next PROVE NoLostWakeup'
    OBVIOUS
<1>0. ASSUME NEW t \in Threads, CallerStep(t) PROVE NoLostWakeup'
  <2>1. CASE Returns(t)
    BY <1>0, <2>1, ConstantsAssumption, NilAssumption
       DEF CallerStep, Returns, ControlInv, PlacesInv, ChannelInv, SlotInv, NoLostWakeup,
           TypeOK
  <2>2. CASE Parks(t)
    BY <1>0, <2>2, ConstantsAssumption, NilAssumption
       DEF CallerStep, Parks, ControlInv, PlacesInv, ChannelInv, SlotInv, NoLostWakeup,
           TypeOK
  <2>3. CASE HandsOver(t)
    BY <1>0, <2>3, ConstantsAssumption, NilAssumption
       DEF CallerStep, HandsOver, ControlInv, PlacesInv, ChannelInv, SlotInv, NoLostWakeup,
           TypeOK
  <2>4. CASE StartsIO(t)
    BY <1>0, <2>4, ConstantsAssumption, NilAssumption
       DEF CallerStep, StartsIO, ControlInv, PlacesInv, ChannelInv, SlotInv, NoLostWakeup,
           TypeOK
  <2> QED
    BY <1>0, <2>1, <2>2, <2>3, <2>4 DEF CallerStep
<1>1. ASSUME NEW t \in Threads, SyncFlushFails(t) PROVE NoLostWakeup'
  BY <1>1, ConstantsAssumption, NilAssumption
     DEF SyncFlushFails, At, Return, WriteSSTFails, PublishFails, ControlInv, PlacesInv, ChannelInv, SlotInv, NoLostWakeup,
           TypeOK
<1>2. ASSUME NEW t \in Threads, SyncFlushPublishes(t) PROVE NoLostWakeup'
  BY <1>2, ConstantsAssumption, NilAssumption
     DEF SyncFlushPublishes, At, PublishFlushedSST, Return, ControlInv, PlacesInv, ChannelInv, SlotInv, NoLostWakeup,
           TypeOK
<1>3. ASSUME NEW t \in Threads, SyncFlushPanics(t) PROVE NoLostWakeup'
  BY <1>3, ConstantsAssumption, NilAssumption
     DEF SyncFlushPanics, At, dbVars, ControlInv, PlacesInv, ChannelInv, SlotInv, NoLostWakeup,
           TypeOK
<1>4. ASSUME NEW t \in Threads, Close(t) PROVE NoLostWakeup'
  BY <1>4, ConstantsAssumption, NilAssumption
     DEF Close, At, Return, dbVars, ControlInv, PlacesInv, ChannelInv, SlotInv, NoLostWakeup,
           TypeOK
<1>5. ASSUME NEW t \in Threads, CloseRelease(t) PROVE NoLostWakeup'
  BY <1>5, ConstantsAssumption, NilAssumption
     DEF CloseRelease, At, Return, ControlInv, PlacesInv, ChannelInv, SlotInv, NoLostWakeup,
           TypeOK
<1>6. CASE FlusherLoop
  <2>1. CASE closed
    BY <1>6, <2>1, ConstantsAssumption, NilAssumption DEF FlusherLoop, At, FlusherReturn, ControlInv, PlacesInv, ChannelInv, SlotInv, NoLostWakeup,
           TypeOK
  <2>2. CASE ~closed /\ immMem = Nil
    BY <1>6, <2>2, ConstantsAssumption, NilAssumption DEF FlusherLoop, At, ControlInv, PlacesInv, ChannelInv, SlotInv, NoLostWakeup,
           TypeOK
  <2>3. CASE ~closed /\ immMem = {}
    BY <1>6, <2>3, ConstantsAssumption, NilAssumption DEF FlusherLoop, At, ControlInv, PlacesInv, ChannelInv, SlotInv, NoLostWakeup,
           TypeOK
  <2>4. CASE ~closed /\ immMem # Nil /\ immMem # {}
    BY <1>6, <2>4, ConstantsAssumption, NilAssumption DEF FlusherLoop, At, ControlInv, PlacesInv, ChannelInv, SlotInv, NoLostWakeup,
           TypeOK
  <2> QED
    BY <2>1, <2>2, <2>3, <2>4
<1>7. CASE FlusherFails
  BY <1>7, ConstantsAssumption, NilAssumption
     DEF FlusherFails, At, FlusherReturn, WriteSSTFails, PublishFails, ControlInv, PlacesInv, ChannelInv, SlotInv, NoLostWakeup,
           TypeOK
<1>8. CASE FlusherPublishes
  <2>1. CASE closed
    BY <1>8, <2>1, ConstantsAssumption, NilAssumption
       DEF FlusherPublishes, At, FlusherReturn, PublishFlushedSST, ControlInv, PlacesInv, ChannelInv, SlotInv, NoLostWakeup,
           TypeOK
  <2>2. CASE ~closed
    BY <1>8, <2>2, ConstantsAssumption, NilAssumption
       DEF FlusherPublishes, At, PublishFlushedSST, ControlInv, PlacesInv, ChannelInv, SlotInv, NoLostWakeup,
           TypeOK
  <2> QED
    BY <2>1, <2>2
<1>9. CASE FlusherCloseDoneCh
  BY <1>9, ConstantsAssumption, NilAssumption
     DEF FlusherCloseDoneCh, At, dbVars, ControlInv, PlacesInv, ChannelInv, SlotInv, NoLostWakeup,
           TypeOK
<1> QED
  BY <1>0, <1>1, <1>2, <1>3, <1>4, <1>5, <1>6, <1>7, <1>8, <1>9, CallerStepCases
     DEF Next, Continue, FlusherStep

LEMMA ChannelInvStep == TypeOK /\ ControlInv /\ Next => ChannelInv'
<1> SUFFICES ASSUME TypeOK, ControlInv, Next PROVE ChannelInv'
    OBVIOUS
<1>0. ASSUME NEW t \in Threads, CallerStep(t) PROVE ChannelInv'
  <2>1. CASE Returns(t)
    BY <1>0, <2>1, ConstantsAssumption
       DEF CallerStep, Returns, ControlInv, PlacesInv, ThreadPCs, ChannelInv,
           TypeOK, Goroutines
  <2>2. CASE Parks(t)
    BY <1>0, <2>2, ConstantsAssumption
       DEF CallerStep, Parks, ControlInv, PlacesInv, ThreadPCs, ChannelInv,
           TypeOK, Goroutines
  <2>3. CASE HandsOver(t)
    BY <1>0, <2>3, ConstantsAssumption
       DEF CallerStep, HandsOver, ControlInv, PlacesInv, ThreadPCs, ChannelInv,
           TypeOK, Goroutines
  <2>4. CASE StartsIO(t)
    BY <1>0, <2>4, ConstantsAssumption
       DEF CallerStep, StartsIO, ControlInv, PlacesInv, ThreadPCs, ChannelInv,
           TypeOK, Goroutines
  <2> QED
    BY <1>0, <2>1, <2>2, <2>3, <2>4 DEF CallerStep
<1>1. ASSUME NEW t \in Threads, SyncFlushFails(t) PROVE ChannelInv'
  BY <1>1, ConstantsAssumption
     DEF SyncFlushFails, At, Return, WriteSSTFails, PublishFails, ControlInv, PlacesInv, ThreadPCs, ChannelInv,
           TypeOK, Goroutines
<1>2. ASSUME NEW t \in Threads, SyncFlushPublishes(t) PROVE ChannelInv'
  BY <1>2, ConstantsAssumption
     DEF SyncFlushPublishes, At, PublishFlushedSST, Return, ControlInv, PlacesInv, ThreadPCs, ChannelInv,
           TypeOK, Goroutines
<1>3. ASSUME NEW t \in Threads, SyncFlushPanics(t) PROVE ChannelInv'
  BY <1>3, ConstantsAssumption
     DEF SyncFlushPanics, At, dbVars, ControlInv, PlacesInv, ThreadPCs, ChannelInv,
           TypeOK, Goroutines
<1>4. ASSUME NEW t \in Threads, Close(t) PROVE ChannelInv'
  BY <1>4, ConstantsAssumption
     DEF Close, At, Return, dbVars, ControlInv, PlacesInv, ThreadPCs, ChannelInv,
           TypeOK, Goroutines
<1>5. ASSUME NEW t \in Threads, CloseRelease(t) PROVE ChannelInv'
  <2>1. ~flushDoneCh /\ pc[t] = "closing"
    BY <1>5 DEF CloseRelease, At, ControlInv, ChannelInv
  <2>2. pc'[Flusher] = pc[Flusher] /\ pc'[t] = "idle"
        /\ \A u \in Threads \ {t} : pc'[u] = pc[u]
    BY <1>5, ConstantsAssumption DEF CloseRelease, Return, TypeOK, Goroutines
  <2>3. \A u \in Threads : pc'[u] # "closing"
    BY <2>1, <2>2 DEF ControlInv, ChannelInv
  <2> QED
    BY <1>5, <2>1, <2>2, <2>3 DEF CloseRelease, ControlInv, ChannelInv
<1>6. CASE FlusherLoop
  <2>1. flushDoneCh /\ \A t \in Threads : pc'[t] = pc[t]
    BY <1>6, ConstantsAssumption
       DEF FlusherLoop, At, FlusherReturn, ControlInv, ChannelInv, TypeOK, Goroutines
  <2>2. flushDoneCh' <=> pc'[Flusher] \in {"loop", "io"}
    BY <1>6, <2>1 DEF FlusherLoop, At, FlusherReturn, TypeOK, Goroutines
  <2>3. \A t \in Threads : pc[t] # "io"
    BY <2>1 DEF ControlInv, ChannelInv
  <2>4. manifestOpen' /\ (flushDoneCh' => flushDoneCh)
        /\ UNCHANGED <<closed, manifestOpen, flushCh>>
    BY <1>6, <2>1 DEF FlusherLoop, ControlInv, ChannelInv
  <2> QED
    BY <2>1, <2>2, <2>3, <2>4 DEF ControlInv, ChannelInv
<1>7. CASE FlusherFails
  BY <1>7, ConstantsAssumption
     DEF FlusherFails, At, FlusherReturn, WriteSSTFails, PublishFails, ControlInv, PlacesInv, ThreadPCs, ChannelInv,
           TypeOK, Goroutines
<1>8. CASE FlusherPublishes
  <2>1. flushDoneCh /\ \A t \in Threads : pc'[t] = pc[t]
    BY <1>8, ConstantsAssumption
       DEF FlusherPublishes, At, FlusherReturn, ControlInv, ChannelInv, TypeOK, Goroutines
  <2>2. flushDoneCh' <=> pc'[Flusher] \in {"loop", "io"}
    BY <1>8, <2>1 DEF FlusherPublishes, At, FlusherReturn, TypeOK, Goroutines
  <2>3. \A t \in Threads : pc[t] # "io"
    BY <2>1 DEF ControlInv, ChannelInv
  <2>4. manifestOpen' /\ UNCHANGED <<closed, manifestOpen, flushCh>>
    BY <1>8, <2>1 DEF FlusherPublishes, ControlInv, ChannelInv
  <2> QED
    BY <2>1, <2>2, <2>3, <2>4 DEF ControlInv, ChannelInv
<1>9. CASE FlusherCloseDoneCh
  BY <1>9, ConstantsAssumption
     DEF FlusherCloseDoneCh, At, dbVars, ControlInv, PlacesInv, ThreadPCs, ChannelInv,
           TypeOK, Goroutines
<1> QED
  BY <1>0, <1>1, <1>2, <1>3, <1>4, <1>5, <1>6, <1>7, <1>8, <1>9, CallerStepCases
     DEF Next, Continue, FlusherStep

LEMMA SlotInvStep == TypeOK /\ ControlInv /\ Next => SlotInv'
<1> SUFFICES ASSUME TypeOK, ControlInv, Next PROVE SlotInv'
    OBVIOUS
<1>a. ASSUME manifestOpen, immMem = Nil, NEW g \in Goroutines PROVE pc[g] # "io"
  BY <1>a, WriterFillsSlot DEF ControlInv
<1>b. ~closed => manifestOpen
  BY OpenMemtables
<1>0. ASSUME NEW t \in Threads, CallerStep(t) PROVE SlotInv'
  <2>1. CASE Returns(t)
    BY <1>0, <2>1, ConstantsAssumption, NilAssumption
       DEF CallerStep, Returns, ControlInv, PlacesInv, ChannelInv, SlotInv,
           TypeOK, Goroutines
  <2>2. CASE Parks(t)
    BY <1>0, <2>2, ConstantsAssumption, NilAssumption
       DEF CallerStep, Parks, ControlInv, PlacesInv, ChannelInv, SlotInv,
           TypeOK, Goroutines
  <2>3. CASE HandsOver(t)
    <3>1. \A g \in Goroutines : pc'[g] # "io"
      BY <1>0, <2>3, <1>a, <1>b DEF HandsOver, TypeOK, Goroutines
    <3> QED
      BY <1>0, <2>3, <3>1 DEF CallerStep, HandsOver, SlotInv
  <2>4. CASE StartsIO(t)
    <3>1. \A g \in Goroutines \ {t} : pc'[g] # "io"
      BY <1>0, <2>4, <1>a, <1>b DEF StartsIO, TypeOK, Goroutines
    <3>2. job'[t].data = mem /\ job'[t].path = nextSSTID
      BY <2>4 DEF StartsIO, TypeOK, Goroutines
    <3> QED
      BY <1>0, <2>4, <3>1, <3>2 DEF CallerStep, StartsIO, SlotInv
  <2> QED
    BY <1>0, <2>1, <2>2, <2>3, <2>4 DEF CallerStep
<1>1. ASSUME NEW t \in Threads, SyncFlushFails(t) PROVE SlotInv'
  <2>1. t \in Goroutines /\ pc[t] = "io" /\ ~flushDoneCh
    BY <1>1 DEF SyncFlushFails, At, Goroutines, ControlInv, ChannelInv
  <2>2. manifestOpen => immMem # Nil
    BY <2>1, WriterFillsSlot DEF ControlInv
  <2>3. \A g \in Goroutines : pc'[g] # "io"
    BY <1>1, <2>1 DEF SyncFlushFails, Return, ControlInv, SlotInv, TypeOK
  <2> QED
    BY <1>1, <2>1, <2>2, <2>3 DEF SyncFlushFails, SlotInv
<1>2. ASSUME NEW t \in Threads, SyncFlushPublishes(t) PROVE SlotInv'
  BY <1>2, ConstantsAssumption, NilAssumption
     DEF SyncFlushPublishes, At, PublishFlushedSST, Return, ControlInv, PlacesInv, ChannelInv, SlotInv,
           TypeOK, Goroutines
<1>3. ASSUME NEW t \in Threads, SyncFlushPanics(t) PROVE SlotInv'
  BY <1>3, ConstantsAssumption, NilAssumption
     DEF SyncFlushPanics, At, dbVars, ControlInv, PlacesInv, ChannelInv, SlotInv,
           TypeOK, Goroutines
<1>4. ASSUME NEW t \in Threads, Close(t) PROVE SlotInv'
  BY <1>4, ConstantsAssumption, NilAssumption
     DEF Close, At, Return, dbVars, ControlInv, PlacesInv, ChannelInv, SlotInv,
           TypeOK, Goroutines
<1>5. ASSUME NEW t \in Threads, CloseRelease(t) PROVE SlotInv'
  BY <1>5, ConstantsAssumption, NilAssumption
     DEF CloseRelease, At, Return, ControlInv, PlacesInv, ChannelInv, SlotInv,
           TypeOK, Goroutines
<1>6. CASE FlusherLoop
  <2>1. CASE closed
    BY <1>6, <2>1, ConstantsAssumption, NilAssumption DEF FlusherLoop, At, FlusherReturn, ControlInv, PlacesInv, ChannelInv, SlotInv,
           TypeOK, Goroutines
  <2>2. CASE ~closed /\ immMem = Nil
    BY <1>6, <2>2, ConstantsAssumption, NilAssumption DEF FlusherLoop, At, ControlInv, PlacesInv, ChannelInv, SlotInv,
           TypeOK, Goroutines
  <2>3. CASE ~closed /\ immMem = {}
    BY <1>6, <2>3, ConstantsAssumption, NilAssumption DEF FlusherLoop, At, ControlInv, PlacesInv, ChannelInv, SlotInv,
           TypeOK, Goroutines
  <2>4. CASE ~closed /\ immMem # Nil /\ immMem # {}
    <3>1. flushDoneCh /\ \A g \in Goroutines \ {Flusher} : pc[g] # "io"
      BY <1>6 DEF FlusherLoop, At, ControlInv, ChannelInv, Goroutines
    <3>2. \A g \in Goroutines \ {Flusher} : pc'[g] # "io"
      BY <1>6, <2>4, <3>1 DEF FlusherLoop, TypeOK, Goroutines
    <3>3. job'[Flusher].data = immMem /\ job'[Flusher].path = nextSSTID
      BY <1>6, <2>4 DEF FlusherLoop, TypeOK, Goroutines
    <3>4. flushErr = "nil"
      BY <3>1 DEF ControlInv, SlotInv
    <3> QED
      BY <1>6, <2>4, <3>2, <3>3, <3>4 DEF FlusherLoop, SlotInv
  <2> QED
    BY <2>1, <2>2, <2>3, <2>4
<1>7. CASE FlusherFails
  <2>1. Flusher \in Goroutines /\ pc[Flusher] = "io"
    BY <1>7 DEF FlusherFails, At, Goroutines
  <2>2. manifestOpen => immMem # Nil
    BY <2>1, WriterFillsSlot DEF ControlInv
  <2>3. \A g \in Goroutines : pc'[g] # "io"
    BY <1>7, <2>1 DEF FlusherFails, FlusherReturn, ControlInv, SlotInv, TypeOK
  <2> QED
    BY <1>7, <2>2, <2>3 DEF FlusherFails, FlusherReturn, SlotInv
<1>8. CASE FlusherPublishes
  <2>1. CASE closed
    BY <1>8, <2>1, ConstantsAssumption, NilAssumption
       DEF FlusherPublishes, At, FlusherReturn, PublishFlushedSST, ControlInv, PlacesInv, ChannelInv, SlotInv,
           TypeOK, Goroutines
  <2>2. CASE ~closed
    BY <1>8, <2>2, ConstantsAssumption, NilAssumption
       DEF FlusherPublishes, At, PublishFlushedSST, ControlInv, PlacesInv, ChannelInv, SlotInv,
           TypeOK, Goroutines
  <2> QED
    BY <2>1, <2>2
<1>9. CASE FlusherCloseDoneCh
  BY <1>9, ConstantsAssumption, NilAssumption
     DEF FlusherCloseDoneCh, At, dbVars, ControlInv, PlacesInv, ChannelInv, SlotInv,
           TypeOK, Goroutines
<1> QED
  BY <1>0, <1>1, <1>2, <1>3, <1>4, <1>5, <1>6, <1>7, <1>8, <1>9, CallerStepCases
     DEF Next, Continue, FlusherStep

LEMMA ControlInvStep == TypeOK /\ ControlInv /\ Next => ControlInv'
BY PlacesInvStep, NoLostWakeupStep, ChannelInvStep, SlotInvStep DEF ControlInv

LEMMA InitControlInv == Init => ControlInv
<1> SUFFICES ASSUME Init PROVE ControlInv
    OBVIOUS
<1>1. /\ pc[Flusher] \in {"loop", "gone"} /\ (flushDoneCh <=> pc[Flusher] = "loop")
      /\ \A t \in Threads : pc[t] = "idle"
  BY ConstantsAssumption DEF Init, Goroutines, AutoFlush
<1>2. PlacesInv
  BY <1>1 DEF Init, PlacesInv, ThreadPCs, FlusherPCs
<1>3. ChannelInv
  BY <1>1 DEF Init, ChannelInv
<1>4. SlotInv
  BY <1>1 DEF Init, SlotInv, Goroutines
<1>5. NoLostWakeup
  BY DEF Init, NoLostWakeup
<1> QED
  BY <1>2, <1>3, <1>4, <1>5 DEF ControlInv

(* The stuttering step. *)
LEMMA ControlStutter ==
    TypeOK /\ ControlInv /\ UNCHANGED vars => TypeOK' /\ ControlInv'
<1> SUFFICES ASSUME TypeOK, ControlInv, UNCHANGED vars
             PROVE  TypeOK' /\ ControlInv'
    OBVIOUS
<1>1. TypeOK'
  BY DEF TypeOK, vars, dbVars
<1>2. PlacesInv' /\ ChannelInv'
  BY DEF ControlInv, PlacesInv, ChannelInv, vars, dbVars
<1>3. SlotInv' /\ NoLostWakeup'
  BY DEF ControlInv, SlotInv, NoLostWakeup, vars, dbVars
<1> QED
  BY <1>1, <1>2, <1>3 DEF ControlInv

-----------------------------------------------------------------------------
(* Type correctness and the control invariant of every reachable state.    *)
THEOREM ControlCorrect == Spec => [](TypeOK /\ ControlInv)
<1>1. Init => TypeOK /\ ControlInv
  BY InitTypeOK, InitControlInv
<1>2. TypeOK /\ ControlInv /\ [Next]_vars => (TypeOK /\ ControlInv)'
  BY TypeOKStep, ControlInvStep, ControlStutter
<1> QED
  BY <1>1, <1>2, PTL DEF Spec

(* Type correctness of the flush pipeline (all of engine.DB's fields).     *)
THEOREM TypeCorrect == Spec => []TypeOK
<1>1. TypeOK /\ ControlInv => TypeOK
  OBVIOUS
<1> QED
  BY <1>1, ControlCorrect, PTL

(* No wake-up is lost, whatever the number of goroutines: the Signal of    *)
(* maybeAutoFlushLocked and flushMemtable and the Broadcasts are enough.   *)
THEOREM WakeupsNotLost == Spec => []NoLostWakeup
<1>1. TypeOK /\ ControlInv => NoLostWakeup
  BY DEF ControlInv
<1> QED
  BY <1>1, ControlCorrect, PTL

(* Flushing is single-flight, in both modes and across Close.              *)
THEOREM FlushSingleFlight == Spec => []SingleFlight
<1>1. TypeOK /\ ControlInv => SingleFlight
  BY DEF ControlInv, SlotInv, SingleFlight
<1> QED
  BY <1>1, ControlCorrect, PTL

(* Close never releases the manifest while flushLoop runs.                 *)
THEOREM CloseWaits == Spec => []CloseWaitsForFlush
<1>1. TypeOK /\ ControlInv => CloseWaitsForFlush
  BY DEF ControlInv, ChannelInv, CloseWaitsForFlush
<1> QED
  BY <1>1, ControlCorrect, PTL

-----------------------------------------------------------------------------
(* The data part.  First what a step may do to the four places a write can *)
(* be in: not yet written, active memtable, frozen memtable, SSTable.      *)

Keeps ==
    UNCHANGED <<mem, immMem, version, nextSSTID, written, manifestOpen>>

Freezes ==
    /\ manifestOpen /\ mem \in Memtables /\ immMem = Nil
    /\ immMem' = mem /\ mem' = {}
    /\ UNCHANGED <<version, nextSSTID, written, manifestOpen>>

Applies ==
    /\ manifestOpen /\ mem \cup {written + 1} \in Memtables
    /\ written' = written + 1
    /\ \/ mem' = mem \cup {written + 1} /\ immMem' = immMem
       \/ immMem = Nil /\ immMem' = mem \cup {written + 1} /\ mem' = {}
    /\ UNCHANGED <<version, nextSSTID, manifestOpen>>

Publishes ==
    /\ manifestOpen /\ immMem \in Memtables
    /\ version' = Append(version, [id |-> nextSSTID, path |-> nextSSTID, data |-> immMem])
    /\ immMem' = Nil
    /\ nextSSTID' = nextSSTID + 1
    /\ UNCHANGED <<mem, written, manifestOpen>>

SkipsEmpty ==
    /\ immMem = {} /\ immMem' = Nil
    /\ UNCHANGED <<mem, version, nextSSTID, written, manifestOpen>>

Releases ==
    /\ ~manifestOpen'
    /\ UNCHANGED <<version, nextSSTID, written>>

DataStep ==
    Keeps \/ Freezes \/ Applies \/ Publishes \/ SkipsEmpty \/ Releases

LEMMA DataStepCases == TypeOK /\ ControlInv /\ Next => DataStep
<1> SUFFICES ASSUME TypeOK, ControlInv, Next PROVE DataStep
    OBVIOUS
<1>a. ~closed => manifestOpen /\ mem \in Memtables
  BY OpenMemtables
<1>1. ASSUME NEW t \in Threads, WriteRefused(t) PROVE DataStep
  BY <1>1 DEF WriteRefused, dbVars, DataStep, Keeps
<1>2. ASSUME NEW t \in Threads, Write(t) PROVE DataStep
  <2>1. mem \cup {written + 1} \in Memtables
    BY <1>2, <1>a, ConstantsAssumption DEF Write, TypeOK, Memtables, WriteIDs
  <2> QED
    BY <1>2, <1>a, <2>1 DEF Write, MaybeAutoFlush, Rotate, DataStep, Applies
<1>3. ASSUME NEW t \in Threads, StallResume(t) PROVE DataStep
  BY <1>3, <1>a DEF StallResume, Rotate, DataStep, Keeps, Freezes
<1>4. ASSUME NEW t \in Threads, Flush(t) PROVE DataStep
  BY <1>4, <1>a DEF Flush, FlushFreeze, DataStep, Keeps, Freezes
<1>5. ASSUME NEW t \in Threads, FlushSlotResume(t) PROVE DataStep
  BY <1>5, <1>a DEF FlushSlotResume, FlushFreeze, DataStep, Keeps, Freezes
<1>6. ASSUME NEW t \in Threads, FlushDoneResume(t) PROVE DataStep
  BY <1>6 DEF FlushDoneResume, dbVars, DataStep, Keeps
<1>7. ASSUME NEW g \in Goroutines, At(g, "io"), PublishFlushedSST(g),
             UNCHANGED <<mem, written, manifestOpen>>
      PROVE  DataStep
  <2>1. immMem = job[g].data /\ immMem \in Memtables /\ job[g].path = nextSSTID
    BY <1>7, WriterFillsSlot DEF PublishFlushedSST, At, ControlInv, SlotInv
  <2> QED
    BY <1>7, <2>1 DEF PublishFlushedSST, DataStep, Publishes
<1>8. ASSUME NEW t \in Threads,
             SyncFlushFails(t) \/ SyncFlushPublishes(t) \/ SyncFlushPanics(t)
      PROVE  DataStep
  <2>1. t \in Goroutines
    BY DEF Goroutines
  <2> QED
    BY <1>7, <1>8, <2>1
       DEF SyncFlushFails, SyncFlushPublishes, SyncFlushPanics, dbVars, DataStep, Keeps
<1>9. ASSUME NEW t \in Threads, Close(t) PROVE DataStep
  BY <1>9 DEF Close, dbVars, DataStep, Keeps
<1>10. ASSUME NEW t \in Threads, CloseRelease(t) PROVE DataStep
  BY <1>10 DEF CloseRelease, DataStep, Releases
<1>11. CASE FlusherLoop
  BY <1>11 DEF FlusherLoop, DataStep, Keeps, SkipsEmpty
<1>12. CASE FlusherFails
  BY <1>12 DEF FlusherFails, DataStep, Keeps
<1>13. CASE FlusherPublishes
  <2>1. Flusher \in Goroutines
    BY DEF Goroutines
  <2> QED
    BY <1>7, <1>13, <2>1 DEF FlusherPublishes
<1>14. CASE FlusherCloseDoneCh
  BY <1>14 DEF FlusherCloseDoneCh, dbVars, DataStep, Keeps
<1> QED
  BY <1>1, <1>2, <1>3, <1>4, <1>5, <1>6, <1>8, <1>9, <1>10, <1>11, <1>12,
     <1>13, <1>14 DEF Next, Continue, FlusherStep

(* Appending an SSTable adds its writes to the published ones.             *)
LEMMA PublishedAppend ==
    ASSUME TypeOK, NEW e \in [id : Nat, path : Nat, data : Memtables],
           version' = Append(version, e)
    PROVE  /\ Len(version') = Len(version) + 1
           /\ \A i \in 1..Len(version) : version'[i] = version[i]
           /\ version'[Len(version) + 1] = e
           /\ Published' = Published \cup e.data
<1>1. /\ Len(version') = Len(version) + 1 /\ Len(version) \in Nat
      /\ \A i \in 1..Len(version) : version'[i] = version[i]
      /\ version'[Len(version) + 1] = e
  BY DEF TypeOK
<1>2. ASSUME NEW x \in Published' PROVE x \in Published \cup e.data
  <2>1. PICK i \in 1..Len(version') : x \in version'[i].data
    BY <1>2 DEF Published
  <2>2. i \in 1..Len(version) \/ i = Len(version) + 1
    BY <1>1
  <2> QED
    BY <1>1, <2>1, <2>2 DEF Published
<1>3. ASSUME NEW x \in Published \cup e.data PROVE x \in Published'
  <2>1. CASE x \in e.data
    <3>1. Len(version) + 1 \in 1..Len(version')
      BY <1>1
    <3> QED
      BY <1>1, <2>1, <3>1 DEF Published
  <2>2. CASE x \in Published
    <3>1. PICK i \in 1..Len(version) : x \in version[i].data
      BY <2>2 DEF Published
    <3>2. i \in 1..Len(version')
      BY <1>1
    <3> QED
      BY <1>1, <3>1, <3>2 DEF Published
  <2> QED
    BY <1>3, <2>1, <2>2
<1> QED
  BY <1>1, <1>2, <1>3

(* What Publishes does to the set of published writes.                     *)
LEMMA PublishesEffect ==
    ASSUME TypeOK, Publishes
    PROVE  /\ Len(version) \in Nat /\ Len(version') = Len(version) + 1
           /\ \A i \in 1..Len(version) : version'[i] = version[i]
           /\ version'[Len(version) + 1] =
                [id |-> nextSSTID, path |-> nextSSTID, data |-> immMem]
           /\ Published' = Published \cup immMem
<1> DEFINE e == [id |-> nextSSTID, path |-> nextSSTID, data |-> immMem]
<1>1. e \in [id : Nat, path : Nat, data : Memtables] /\ e.data = immMem
  BY DEF Publishes, TypeOK
<1>2. version' = Append(version, e)
  BY DEF Publishes
<1>3. Len(version) \in Nat
  BY DEF TypeOK
<1> HIDE DEF e
<1>4. /\ Len(version') = Len(version) + 1
      /\ \A i \in 1..Len(version) : version'[i] = version[i]
      /\ version'[Len(version) + 1] = e
      /\ Published' = Published \cup e.data
  BY <1>1, <1>2, PublishedAppend
<1> QED
  BY <1>1, <1>3, <1>4 DEF e

LEMMA PublishedGrows ==
    ASSUME TypeOK, DataStep PROVE Published \subseteq Published'
<1>1. CASE Publishes
  BY <1>1, PublishesEffect
<1>2. CASE UNCHANGED version
  BY <1>2 DEF Published
<1> QED
  BY <1>1, <1>2 DEF DataStep, Keeps, Freezes, Applies, SkipsEmpty, Releases

LEMMA NothingLostStep ==
    TypeOK /\ DataStep /\ NothingLost => NothingLost'
<1> SUFFICES ASSUME TypeOK, DataStep, NothingLost, manifestOpen'
             PROVE  LET imm == IF immMem' = Nil THEN {} ELSE immMem' IN
                    /\ mem' \cup imm \cup Published' = 1..written'
                    /\ mem' \cap (imm \cup Published') = {}
                    /\ imm \cap Published' = {}
                    /\ \A i, j \in 1..Len(version') :
                          i # j => version'[i].data \cap version'[j].data = {}
    BY DEF NothingLost
<1>a. {} \in Memtables /\ \A m \in Memtables : m # Nil
  BY NilAssumption DEF Memtables
<1>1. CASE Keeps
  <2>1. Published' = Published
    BY <1>1 DEF Keeps, Published
  <2> QED
    BY <1>1, <2>1 DEF Keeps, NothingLost
<1>2. CASE Freezes
  <2>1. Published' = Published
    BY <1>2 DEF Freezes, Published
  <2> QED
    BY <1>2, <2>1, <1>a DEF Freezes, NothingLost
<1>3. CASE Applies
  <2>1. Published' = Published
    BY <1>3 DEF Applies, Published
  <2>2. mem \cup {written + 1} # Nil
    BY <1>3, <1>a DEF Applies
  <2>3. written \in Nat /\ 1..(written + 1) = (1..written) \cup {written + 1}
        /\ (written + 1) \notin 1..written
    BY ConstantsAssumption DEF TypeOK
  <2>4. CASE mem' = mem \cup {written + 1} /\ immMem' = immMem
    BY <1>3, <2>1, <2>3, <2>4 DEF Applies, NothingLost
  <2>5. CASE immMem = Nil /\ immMem' = mem \cup {written + 1} /\ mem' = {}
    BY <1>3, <2>1, <2>2, <2>3, <2>5 DEF Applies, NothingLost
  <2> QED
    BY <1>3, <2>4, <2>5 DEF Applies
<1>4. CASE Publishes
  <2>1. /\ Published' = Published \cup immMem
        /\ immMem # Nil /\ immMem' = Nil /\ mem' = mem /\ written' = written
    BY <1>4, <1>a, PublishesEffect DEF Publishes
  <2>2. manifestOpen
    BY <1>4 DEF Publishes
  <2>3. \A i, j \in 1..Len(version') :
           i # j => version'[i].data \cap version'[j].data = {}
    <3>1. \A i \in 1..Len(version) : version[i].data \cap immMem = {}
      BY <2>1, <2>2 DEF NothingLost, Published
    <3>2. \A i \in 1..Len(version') : i \in 1..Len(version) \/ i = Len(version) + 1
      BY <1>4, PublishesEffect
    <3>3. /\ \A i \in 1..Len(version) : version'[i] = version[i]
          /\ version'[Len(version) + 1].data = immMem
      BY <1>4, PublishesEffect
    <3>4. \A i, j \in 1..Len(version) :
             i # j => version[i].data \cap version[j].data = {}
      BY <2>2 DEF NothingLost
    <3> QED
      BY <3>1, <3>2, <3>3, <3>4
  <2> QED
    BY <2>1, <2>2, <2>3 DEF NothingLost
<1>5. CASE SkipsEmpty
  <2>1. Published' = Published
    BY <1>5 DEF SkipsEmpty, Published
  <2> QED
    BY <1>5, <2>1, <1>a DEF SkipsEmpty, NothingLost
<1> QED
  BY <1>1, <1>2, <1>3, <1>4, <1>5 DEF DataStep, Releases

LEMMA IDsInvStep == TypeOK /\ DataStep /\ IDsInv => IDsInv'
<1> SUFFICES ASSUME TypeOK, DataStep, IDsInv PROVE IDsInv'
    OBVIOUS
<1>1. CASE Publishes
  <2>1. \A i \in 1..Len(version') : i \in 1..Len(version) \/ i = Len(version) + 1
    BY <1>1, PublishesEffect
  <2>2. /\ \A i \in 1..Len(version) : version'[i] = version[i]
        /\ version'[Len(version) + 1].id = nextSSTID
        /\ version'[Len(version) + 1].path = nextSSTID
    BY <1>1, PublishesEffect
  <2>3. nextSSTID' = nextSSTID + 1 /\ nextSSTID \in Nat
    BY <1>1 DEF Publishes, TypeOK
  <2>4. \A i \in 1..Len(version) :
           version[i].id \in Nat /\ version[i].id < nextSSTID
           /\ version[i].path = version[i].id
    <3>1. \A i \in 1..Len(version) :
             version[i] \in [id : Nat, path : Nat, data : Memtables]
      <4> DEFINE S == [id : Nat, path : Nat, data : Memtables]
      <4>1. version \in Seq(S)
        BY DEF TypeOK
      <4> HIDE DEF S
      <4>2. \A i \in 1..Len(version) : version[i] \in S
        BY <4>1
      <4> QED
        BY <4>2 DEF S
    <3> QED
      BY <3>1 DEF IDsInv, PublishedPathIsID
  <2>5. \A i \in 1..Len(version') :
           version'[i].path = version'[i].id /\ version'[i].id < nextSSTID'
    BY <2>1, <2>2, <2>3, <2>4
  <2>6. \A i, j \in 1..Len(version') : version'[i].id = version'[j].id => i = j
    BY <2>1, <2>2, <2>3, <2>4 DEF IDsInv, PublishedPathIsID
  <2> QED
    BY <2>5, <2>6 DEF IDsInv, PublishedPathIsID
<1>2. CASE UNCHANGED <<version, nextSSTID>>
  BY <1>2 DEF IDsInv, PublishedPathIsID
<1> QED
  BY <1>1, <1>2 DEF DataStep, Keeps, Freezes, Applies, SkipsEmpty, Releases

(* A step leaves the obligations of a thread it does not move intact.      *)
LEMMA UntouchedTarget ==
    ASSUME TypeOK, DataStep, NEW u \in Threads, TargetOK(u), FlushedOK(u),
           pc'[u] = pc[u], target'[u] = target[u], job'[u] = job[u],
           ret'[u] = ret[u]
    PROVE  TargetOK(u)' /\ FlushedOK(u)'
<1>1. Published \subseteq Published'
  BY PublishedGrows
<1>2. FlushedOK(u)'
  BY <1>1 DEF FlushedOK
<1>3. pc'[u] = "io" => target'[u] \subseteq Published' \cup job'[u].data
  BY <1>1 DEF TargetOK
<1>4. manifestOpen' => manifestOpen /\ 1..written \subseteq 1..written'
  <2>1. written \in Nat
    BY ConstantsAssumption DEF TypeOK
  <2>2. written' = written \/ written' = written + 1
    BY DEF DataStep, Keeps, Freezes, Applies, Publishes, SkipsEmpty, Releases
  <2>3. manifestOpen' => manifestOpen
    BY DEF DataStep, Keeps, Freezes, Applies, Publishes, SkipsEmpty, Releases
  <2> QED
    BY <2>1, <2>2, <2>3
<1>5. manifestOpen' => Published \cup Imm \subseteq Published' \cup Imm'
  <2>1. CASE Publishes
    BY <1>1, <2>1, PublishesEffect DEF Publishes, Imm
  <2>2. CASE ~Publishes
    BY <1>1, <2>2 DEF DataStep, Keeps, Freezes, Applies, SkipsEmpty, Releases, Imm
  <2> QED
    BY <2>1, <2>2
<1> QED
  BY <1>2, <1>3, <1>4, <1>5 DEF TargetOK

(* The thread that freezes its memtable hands over all it owed.            *)
LEMMA FreezeTarget ==
    ASSUME TypeOK, NothingLost, NEW t \in Threads, NEW owed,
           FlushFreeze(t, owed), owed \subseteq 1..written,
           manifestOpen, mem \in Memtables, immMem = Nil, UNCHANGED version
    PROVE  TargetOK(t)' /\ FlushedOK(t)'
<1>1. Published' = Published /\ 1..written = mem \cup Published
  BY DEF Published, NothingLost
<1>2. target'[t] = owed \cup mem /\ ret'[t] = "none"
  BY DEF FlushFreeze, TypeOK
<1>3. immMem' = mem /\ Imm' = mem
  BY NilAssumption DEF FlushFreeze, Imm
<1>4. \/ pc'[t] = "fwait2"
      \/ pc'[t] = "io" /\ job'[t].data = mem
  BY DEF FlushFreeze, TypeOK, Goroutines
<1> QED
  BY <1>1, <1>2, <1>3, <1>4 DEF TargetOK, FlushedOK

LEMMA TargetsInvStep ==
    TypeOK /\ ControlInv /\ NothingLost /\ TargetsInv /\ Next => TargetsInv'
<1> SUFFICES ASSUME TypeOK, ControlInv, NothingLost, TargetsInv, Next
             PROVE  TargetsInv'
    OBVIOUS
<1>a. DataStep
  BY DataStepCases
<1>b. ASSUME NEW t \in Threads,
             TargetOK(t)' /\ FlushedOK(t)',
             \A u \in Threads \ {t} :
                /\ pc'[u] = pc[u] /\ target'[u] = target[u]
                /\ job'[u] = job[u] /\ ret'[u] = ret[u]
      PROVE  TargetsInv'
  BY <1>a, <1>b, UntouchedTarget DEF TargetsInv
<1>c. ASSUME NEW t \in Threads, pc'[t] \in {"idle", "stall", "closing"},
             ret'[t] # "flushed"
      PROVE  TargetOK(t)' /\ FlushedOK(t)'
  BY <1>c DEF TargetOK, FlushedOK
<1>d. ~closed => manifestOpen /\ mem \in Memtables
  BY OpenMemtables
<1>1. ASSUME NEW t \in Threads, WriteRefused(t) PROVE TargetsInv'
  BY ZenonT(40), <1>1, <1>b, <1>c DEF WriteRefused, Return, TypeOK, Goroutines
<1>2. ASSUME NEW t \in Threads, Write(t) PROVE TargetsInv'
  BY ZenonT(40), <1>2, <1>b, <1>c DEF Write, MaybeAutoFlush, Return, TypeOK, Goroutines
<1>3. ASSUME NEW t \in Threads, StallResume(t) PROVE TargetsInv'
  <2>1. CASE pc'[t] = "idle" /\ ret'[t] # "flushed"
    BY <1>3, <2>1, <1>b, <1>c DEF StallResume, Return, TypeOK, Goroutines
  <2>2. CASE UNCHANGED <<pc, ret>>
    <3>1. TargetOK(t)' /\ FlushedOK(t)'
      BY <1>3, <2>2, <1>a, UntouchedTarget DEF StallResume, TargetsInv
    <3> QED
      BY <1>3, <2>2, <3>1, <1>b DEF StallResume
  <2> QED
    BY <1>3, <2>1, <2>2 DEF StallResume, Return, TypeOK, Goroutines
<1>4. ASSUME NEW t \in Threads, Flush(t) PROVE TargetsInv'
  <2>1. \A u \in Threads \ {t} :
           /\ pc'[u] = pc[u] /\ target'[u] = target[u]
           /\ job'[u] = job[u] /\ ret'[u] = ret[u]
    BY <1>4 DEF Flush, FlushFreeze, Return, TypeOK, Goroutines
  <2>2. CASE closed \/ flushErr # "nil"
    BY <1>4, <2>1, <2>2, <1>b, <1>c DEF Flush, Return, TypeOK, Goroutines
  <2>3. CASE ~closed /\ flushErr = "nil" /\ mem = {}
    <3>1. target'[t] = {} /\ pc'[t] = "idle"
      BY <1>4, <2>3 DEF Flush, Return, TypeOK, Goroutines
    <3>2. TargetOK(t)' /\ FlushedOK(t)'
      BY <3>1 DEF TargetOK, FlushedOK
    <3> QED
      BY <2>1, <3>2, <1>b
  <2>4. CASE ~closed /\ flushErr = "nil" /\ mem # {} /\ immMem # Nil
    <3>1. target'[t] = mem /\ pc'[t] = "fwait1" /\ ret'[t] = "none" /\ written' = written
      BY <1>4, <2>4 DEF Flush, TypeOK, Goroutines
    <3>2. mem \subseteq 1..written
      BY <2>4, <1>d DEF NothingLost
    <3>3. TargetOK(t)' /\ FlushedOK(t)'
      BY <3>1, <3>2 DEF TargetOK, FlushedOK
    <3> QED
      BY <2>1, <3>3, <1>b
  <2>5. CASE ~closed /\ flushErr = "nil" /\ mem # {} /\ immMem = Nil
    <3>1. FlushFreeze(t, {}) /\ UNCHANGED version
      BY <1>4, <2>5 DEF Flush
    <3>2. TargetOK(t)' /\ FlushedOK(t)'
      BY <2>5, <3>1, <1>d, FreezeTarget
    <3> QED
      BY <2>1, <3>2, <1>b
  <2> QED
    BY <2>2, <2>3, <2>4, <2>5
<1>5. ASSUME NEW t \in Threads, FlushSlotResume(t) PROVE TargetsInv'
  <2>1. \A u \in Threads \ {t} :
           /\ pc'[u] = pc[u] /\ target'[u] = target[u]
           /\ job'[u] = job[u] /\ ret'[u] = ret[u]
    BY <1>5 DEF FlushSlotResume, FlushFreeze, Return, TypeOK, Goroutines
  <2>2. CASE closed \/ flushErr # "nil"
    BY <1>5, <2>1, <2>2, <1>b, <1>c DEF FlushSlotResume, Return, TypeOK, Goroutines
  <2>3. CASE ~closed /\ flushErr = "nil" /\ immMem # Nil
    <3>1. TargetOK(t)' /\ FlushedOK(t)'
      BY <1>5, <2>3, <1>a, UntouchedTarget DEF FlushSlotResume, TargetsInv
    <3> QED
      BY <2>1, <3>1, <1>b
  <2>4. CASE ~closed /\ flushErr = "nil" /\ immMem = Nil
    <3>1. FlushFreeze(t, target[t]) /\ UNCHANGED version
      BY <1>5, <2>4 DEF FlushSlotResume
    <3>2. target[t] \subseteq 1..written
      BY <1>5, <2>4, <1>d DEF FlushSlotResume, At, TargetsInv, TargetOK
    <3>3. TargetOK(t)' /\ FlushedOK(t)'
      BY <2>4, <3>1, <3>2, <1>d, FreezeTarget
    <3> QED
      BY <2>1, <3>3, <1>b
  <2> QED
    BY <2>2, <2>3, <2>4
<1>6. ASSUME NEW t \in Threads, FlushDoneResume(t) PROVE TargetsInv'
  <2>1. \A u \in Threads \ {t} :
           /\ pc'[u] = pc[u] /\ target'[u] = target[u]
           /\ job'[u] = job[u] /\ ret'[u] = ret[u]
    BY <1>6 DEF FlushDoneResume, Return, TypeOK, Goroutines
  <2>2. CASE flushErr # "nil" \/ closed
    BY <1>6, <2>1, <2>2, <1>b, <1>c DEF FlushDoneResume, Return, TypeOK, Goroutines
  <2>3. CASE flushErr = "nil" /\ ~closed /\ immMem # Nil
    <3>1. TargetOK(t)' /\ FlushedOK(t)'
      BY <1>6, <2>3, <1>a, UntouchedTarget DEF FlushDoneResume, TargetsInv
    <3> QED
      BY <2>1, <3>1, <1>b
  <2>4. CASE flushErr = "nil" /\ ~closed /\ immMem = Nil
    <3>1. target[t] \subseteq Published
      BY <1>6, <2>4, <1>d DEF FlushDoneResume, At, TargetsInv, TargetOK, Imm
    <3>2. pc'[t] = "idle" /\ target' = target /\ version' = version
      BY <1>6, <2>4 DEF FlushDoneResume, Return, dbVars, TypeOK, Goroutines
    <3>3. Published' = Published
      BY <3>2 DEF Published
    <3>4. TargetOK(t)' /\ FlushedOK(t)'
      BY <3>1, <3>2, <3>3 DEF TargetOK, FlushedOK
    <3> QED
      BY <2>1, <3>4, <1>b
  <2> QED
    BY <2>2, <2>3, <2>4
<1>7. ASSUME NEW t \in Threads, SyncFlushFails(t) PROVE TargetsInv'
  BY <1>7, <1>b, <1>c DEF SyncFlushFails, Return, TypeOK, Goroutines
<1>8. ASSUME NEW t \in Threads, SyncFlushPublishes(t) PROVE TargetsInv'
  <2>1. \A u \in Threads \ {t} :
           /\ pc'[u] = pc[u] /\ target'[u] = target[u]
           /\ job'[u] = job[u] /\ ret'[u] = ret[u]
    BY <1>8 DEF SyncFlushPublishes, Return, TypeOK, Goroutines
  <2>2. target[t] \subseteq Published \cup job[t].data
    BY <1>8 DEF SyncFlushPublishes, At, TargetsInv, TargetOK
  <2>3. [id |-> nextSSTID, path |-> job[t].path, data |-> job[t].data]
          \in [id : Nat, path : Nat, data : Memtables]
    BY DEF TypeOK, Jobs, Goroutines
  <2>4. Published' = Published \cup job[t].data
    BY <1>8, <2>3, PublishedAppend DEF SyncFlushPublishes, PublishFlushedSST
  <2>5. pc'[t] = "idle" /\ target' = target
    BY <1>8 DEF SyncFlushPublishes, Return, TypeOK, Goroutines
  <2>6. TargetOK(t)' /\ FlushedOK(t)'
    BY <2>2, <2>4, <2>5 DEF TargetOK, FlushedOK
  <2> QED
    BY <2>1, <2>6, <1>b
<1>9. CASE UNCHANGED <<pc, target, job, ret>>
  BY <1>9, <1>a, UntouchedTarget DEF TargetsInv
<1>10. ASSUME NEW t \in Threads, SyncFlushPanics(t) PROVE TargetsInv'
  BY <1>9, <1>10 DEF SyncFlushPanics
<1>11. ASSUME NEW t \in Threads, Close(t) PROVE TargetsInv'
  BY <1>11, <1>b, <1>c DEF Close, Return, TypeOK, Goroutines
<1>12. ASSUME NEW t \in Threads, CloseRelease(t) PROVE TargetsInv'
  BY <1>12, <1>b, <1>c DEF CloseRelease, Return, TypeOK, Goroutines
<1>13. ASSUME FlusherStep PROVE TargetsInv'
  <2>1. \A u \in Threads :
           /\ pc'[u] = pc[u] /\ target'[u] = target[u]
           /\ job'[u] = job[u] /\ ret'[u] = ret[u]
    BY <1>13, ConstantsAssumption
       DEF FlusherStep, FlusherLoop, FlusherFails, FlusherPublishes,
           FlusherCloseDoneCh, FlusherReturn, TypeOK, Goroutines
  <2> QED
    BY <2>1, <1>a, UntouchedTarget DEF TargetsInv
<1> QED
  BY <1>1, <1>2, <1>3, <1>4, <1>5, <1>6, <1>7, <1>8, <1>10, <1>11, <1>12,
     <1>13 DEF Next, Continue

LEMMA InitDataInv == Init => DataInv
<1> SUFFICES ASSUME Init PROVE DataInv
    OBVIOUS
<1>1. Published = {} /\ Len(version) = 0
  BY DEF Init, Published
<1>2. 1..written = {}
  BY DEF Init
<1>3. NothingLost
  BY <1>1, <1>2 DEF Init, NothingLost
<1>4. TargetsInv
  BY ConstantsAssumption DEF Init, TargetsInv, TargetOK, FlushedOK, Goroutines
<1>5. IDsInv
  BY <1>1 DEF Init, IDsInv, PublishedPathIsID
<1> QED
  BY <1>3, <1>4, <1>5 DEF DataInv

LEMMA DataStutter == DataInv /\ UNCHANGED vars => DataInv'
BY DEF DataInv, NothingLost, TargetsInv, TargetOK, FlushedOK, IDsInv,
       PublishedPathIsID, Published, Imm, vars, dbVars

(* The data part of the inductive invariant holds in every behaviour: the  *)
(* partition of the writes over memtable, slot and SSTables, what each     *)
(* Flush in progress still owes, and the allocation of file ids.           *)
THEOREM DataCorrect == Spec => []DataInv
<1>1. Init => DataInv
  BY InitDataInv
<1>2. TypeOK /\ ControlInv /\ DataInv /\ Next => DataInv'
  BY DataStepCases, NothingLostStep, TargetsInvStep, IDsInvStep DEF DataInv
<1>3. TypeOK /\ ControlInv /\ DataInv /\ [Next]_vars => DataInv'
  BY <1>2, DataStutter
<1>4. Spec => [](TypeOK /\ ControlInv)
  BY TypeCorrect, ControlCorrect, PTL
<1> QED
  BY <1>1, <1>3, <1>4, PTL DEF Spec

(* No applied write is lost or duplicated between the memtable, the frozen *)
(* memtable and the published SSTables (Write, flushMemtable, flushLoop,   *)
(* publishFlushedSSTLocked), for any number of goroutines and any          *)
(* MemtableFlushSize.                                                      *)
THEOREM WritesNotLost == Spec => []NothingLost
BY DataCorrect, PTL DEF DataInv

(* Whatever a Flush found in the memtable is published when it returns nil *)
(* (flushMemtable).                                                        *)
THEOREM FlushIsDurable == Spec => []FlushPersists
<1>1. DataInv => FlushPersists
  BY DEF DataInv, TargetsInv, FlushedOK, FlushPersists
<1> QED
  BY <1>1, DataCorrect, PTL

(* The id recorded in the manifest is the one the file was named after,    *)
(* and it is recorded once (nextSSTPath, publishFlushedSSTLocked).         *)
THEOREM IDsUnique == Spec => []PublishedPathIsID
<1>1. DataInv => PublishedPathIsID
  BY DEF DataInv, IDsInv
<1> QED
  BY <1>1, DataCorrect, PTL

(* A failed flush stays visible: no step clears or replaces flushErr once  *)
(* it is set, and nothing is published after it, although                  *)
(* publishFlushedSSTLocked assigns nil to it.                              *)
THEOREM ErrorSticky == Spec => FlushErrSticky
<1>1. ASSUME TypeOK, ControlInv, [Next]_vars, flushErr # "nil"
      PROVE  flushErr' = flushErr /\ version' = version
  <2>1. \A g \in Goroutines : pc[g] # "io"
    BY <1>1 DEF ControlInv, SlotInv
  <2>2. \A t \in Threads : ~SyncFlushFails(t) /\ ~SyncFlushPublishes(t)
    BY <2>1 DEF SyncFlushFails, SyncFlushPublishes, At, Goroutines
  <2>3. ~FlusherFails /\ ~FlusherPublishes
    BY <2>1 DEF FlusherFails, FlusherPublishes, At, Goroutines
  <2>4. CASE UNCHANGED vars
    BY <2>4 DEF vars, dbVars
  <2>5. CASE Next
    BY <2>2, <2>3, <2>5
       DEF Next, Continue, FlusherStep, WriteRefused, Write, StallResume,
           Flush, FlushSlotResume, FlushDoneResume, SyncFlushPanics,
           FlusherLoop, FlusherCloseDoneCh, Close, CloseRelease, dbVars
  <2> QED
    BY <1>1, <2>4, <2>5
<1>2. TypeOK /\ ControlInv /\ [Next]_vars
        => [flushErr # "nil" => flushErr' = flushErr /\ version' = version]_vars
  BY <1>1
<1> QED
  BY <1>2, ControlCorrect, PTL DEF Spec, FlushErrSticky

-----------------------------------------------------------------------------
(* The background mode: MemtableFlushSize is positive.                     *)

(* flushLoop stops only when the DB is closed or a flush has failed, and   *)
(* no caller freezes a memtable after that; so every SSTable is written by *)
(* flushLoop, which skips empty memtables.                                 *)
BackgroundInv ==
    /\ ~flushDoneCh => closed \/ flushErr # "nil"
    /\ \A t \in Threads : pc[t] # "io"
    /\ pc[Flusher] = "io" => job[Flusher].data # {}
    /\ flushErr # "empty" /\ ~panicked

LEMMA BackgroundInit ==
    ASSUME AutoFlush, Init
    PROVE  BackgroundInv
BY ConstantsAssumption DEF Init, BackgroundInv, Goroutines

LEMMA BackgroundStep ==
    ASSUME TypeOK, ChannelInv, BackgroundInv, Next
    PROVE  BackgroundInv'
<1> USE ConstantsAssumption DEF TypeOK, BackgroundInv, Goroutines
<1>1. ASSUME NEW t \in Threads, WriteRefused(t) \/ Write(t) \/ StallResume(t)
      PROVE  BackgroundInv'
  BY <1>1 DEF WriteRefused, Write, StallResume, MaybeAutoFlush, Rotate, Return, dbVars
<1>2. ASSUME NEW t \in Threads, Flush(t) \/ FlushSlotResume(t) PROVE BackgroundInv'
  BY <1>2 DEF Flush, FlushSlotResume, FlushFreeze, Return
<1>3. ASSUME NEW t \in Threads, FlushDoneResume(t) \/ Close(t) \/ CloseRelease(t)
      PROVE  BackgroundInv'
  BY <1>3 DEF FlushDoneResume, Close, CloseRelease, Return, dbVars
<1>4. ASSUME NEW t \in Threads
      PROVE  ~SyncFlushFails(t) /\ ~SyncFlushPublishes(t) /\ ~SyncFlushPanics(t)
  BY DEF SyncFlushFails, SyncFlushPublishes, SyncFlushPanics, At
<1>5. CASE FlusherLoop
  BY <1>5 DEF FlusherLoop, FlusherReturn
<1>6. CASE FlusherFails
  BY <1>6 DEF FlusherFails, FlusherReturn, WriteSSTFails, PublishFails, At
<1>7. CASE FlusherPublishes
  <2>1. flushErr' = "nil" /\ closed' = closed /\ panicked' = panicked /\ flushDoneCh
    BY <1>7 DEF FlusherPublishes, PublishFlushedSST, At, ChannelInv
  <2>2. CASE closed
    BY <1>7, <2>1, <2>2 DEF FlusherPublishes, FlusherReturn
  <2>3. CASE ~closed
    <3>1. pc' = [pc EXCEPT ![Flusher] = "loop"] /\ flushDoneCh' = flushDoneCh
      BY <1>7, <2>3 DEF FlusherPublishes
    <3> QED
      BY <2>1, <3>1
  <2> QED
    BY <2>2, <2>3
<1>8. CASE FlusherCloseDoneCh
  BY <1>8 DEF FlusherCloseDoneCh, dbVars
<1> QED
  BY <1>1, <1>2, <1>3, <1>4, <1>5, <1>6, <1>7, <1>8 DEF Next, Continue, FlusherStep

LEMMA BackgroundAlways ==
    ASSUME AutoFlush
    PROVE  Spec => []BackgroundInv
<1>1. Init => BackgroundInv
  BY BackgroundInit
<1>2. TypeOK /\ ControlInv /\ BackgroundInv /\ [Next]_vars => BackgroundInv'
  <2>1. BackgroundInv /\ UNCHANGED vars => BackgroundInv'
    BY DEF BackgroundInv, vars, dbVars
  <2> QED
    BY <2>1, BackgroundStep DEF ControlInv
<1> QED
  BY <1>1, <1>2, ControlCorrect, PTL DEF Spec

(* With the background flusher an empty frozen memtable is skipped: two    *)
(* writers that stalled on the same memtable, or a Flush overtaken by a    *)
(* rotation, never leave ErrFlushEmptyMemtable behind as the sticky error  *)
(* (flushLoop).                                                            *)
THEOREM EmptyRotationsSkipped ==
    ASSUME AutoFlush
    PROVE  Spec => []EmptyRotationHarmless
<1>1. BackgroundInv => EmptyRotationHarmless
  BY DEF BackgroundInv, EmptyRotationHarmless
<1> QED
  BY <1>1, BackgroundAlways, PTL

(* Nor does any Flush meet the nil manifest of a closed DB: only flushLoop *)
(* publishes, and Close waits for it.  (Without the flusher it happens:    *)
(* run PipelineSyncClose.)                                                 *)
THEOREM BackgroundNoPanic ==
    ASSUME AutoFlush
    PROVE  Spec => []NoPanic
<1>1. BackgroundInv => NoPanic
  BY DEF BackgroundInv, NoPanic
<1> QED
  BY <1>1, BackgroundAlways, PTL

=============================================================================
