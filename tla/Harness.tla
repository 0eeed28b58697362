------------------------------ MODULE Harness ------------------------------
(***************************************************************************)
(* The crash harness (cmd/crash).  A controller starts a worker process,   *)
(* feeds it one operation at a time over its stdin, reads its events from  *)
(* stdout through a reader goroutine and a channel, kills it, reopens the  *)
(* database and compares it with an oracle of the acknowledged operations. *)
(* The worker runs the engine with its default options: every write is     *)
(* synced, and nothing is ever flushed to an SSTable, so that the database *)
(* is its WAL, a sequence of batch payloads (module Batch).                *)
(***************************************************************************)
EXTENDS Batch, FiniteSets

CONSTANTS
    Keys,          \* user keys, naturals
    Workloads,     \* the workloads a run may generate
    Cycles,        \* cfg.Cycles
    EventChCap,    \* capacity of eventCh
    MaxFailures    \* bound on the WAL syncs that the disk fails

Items == [type : {OpTypePut, OpTypeDelete}, key : Keys, value : Nat]

(* An operation is the sequence of its items: one Put or Delete, or a      *)
(* batch of two to four.  Keys are deleted only once they are known.       *)
IsWorkload(w) ==
    /\ w \in Seq(Seq(Items)) /\ w # <<>>
    /\ \A i \in DOMAIN w : Len(w[i]) \in 1..4
    /\ \A i \in DOMAIN w : \A j \in DOMAIN w[i] :
         w[i][j].type = OpTypeDelete =>
           \E p \in 1..i : \E q \in DOMAIN w[p] :
             /\ p < i \/ q < j
             /\ w[p][q].type = OpTypePut /\ w[p][q].key = w[i][j].key

(* validateHooks: at most one hook is armed.  The hooks of the flush and   *)
(* of the manifest are never reached without a flush; sst_write_error      *)
(* stands for them.                                                        *)
CrashPoints == {"", "wal_after_append", "wal_after_sync"}
FaultPoints == {"", "wal_sync_error", "sst_write_error"}
Configs ==
    {c \in [crash : CrashPoints, fault : FaultPoints, verify : BOOLEAN] :
        c.crash = "" \/ c.fault = ""}

ASSUME HarnessAssumption ==
    /\ Keys \subseteq Nat \ {0}
    /\ Cycles \in Nat \ {0} /\ EventChCap \in Nat \ {0} /\ MaxFailures \in Nat
    /\ \A w \in Workloads : IsWorkload(w)

VARIABLES
    \* the controller
    ops, cfg,      \* workload and configuration of the run
    pc,            \* where the controller is; see TypeOK
    cycle,
    queueIndex,    \* operations taken from the queue so far
    retryIndex,    \* the operation to send again, or 0
    statuses,
    oracle,        \* [state, touched] of the acknowledged operations
    \* the worker process and the pipes
    wpc, wop,      \* where the worker is, and in which operation
    armed,         \* the environment arms a hook that was not consumed
    stdin, stdinOpen,
    stdout, stdoutOpen,   \* the pipe, and whether the controller can read it
    eventCh,
    readerErr,     \* "none" while the reader runs, else what it ended with
    \* the database directory and the worker's buffer
    wal, buf,
    \* history
    promised,      \* state after the operations whose ack the worker wrote
    failedOps,     \* operations whose failure it reported
    failures

controlVars == <<cycle, queueIndex, retryIndex, statuses, oracle>>
workerVars  == <<wpc, wop, armed>>
pipeVars    == <<stdin, stdinOpen, stdout, stdoutOpen>>
readerVars  == <<eventCh, readerErr>>
dbVars      == <<wal, buf>>
histVars    == <<promised, failedOps, failures>>
vars == <<ops, cfg, pc, controlVars, workerVars, pipeVars, readerVars, dbVars,
          histVars>>

-----------------------------------------------------------------------------
(* Key states.  A value, the empty one (0) included, is told apart from a  *)
(* key that has none.                                                      *)
Missing    == 0
Present(v) == v + 1
Empty      == [k \in Keys |-> Missing]

ApplyItem(s, item) ==
    [s EXCEPT ![item.key] =
        IF item.type = OpTypePut THEN Present(item.value) ELSE Missing]
ApplyItems(s, items) == FoldLeft(ApplyItem, s, items)

TouchedBy(items) == {items[j].key : j \in DOMAIN items}

(* oracle.apply *)
OracleApply(o, items) ==
    [state |-> ApplyItems(o.state, items), touched |-> o.touched \cup TouchedBy(items)]

(* executeOperation: the batch that is written for an operation.           *)
ToBatch(items) ==
    FoldLeft(LAMBDA b, item : IF item.type = OpTypePut
                              THEN BatchPut(b, item.key, item.value)
                              ELSE BatchDelete(b, item.key), NewBatch, items)

(* engine.Open: every record of the WAL is decoded and applied.            *)
Openable  == \A i \in DOMAIN wal : DecodeBatch(wal[i]).err = "nil"
Recovered == FoldLeft(LAMBDA s, p : ApplyItems(s, DecodeBatch(p).ops), Empty, wal)

Event(kind, id) == [kind |-> kind, id |-> id]

Init ==
    /\ ops \in Workloads /\ cfg \in Configs
    /\ pc = "cycle" /\ cycle = 0 /\ queueIndex = 0 /\ retryIndex = 0
    /\ statuses = [i \in DOMAIN ops |-> "planned"]
    /\ oracle = [state |-> Empty, touched |-> {}]
    /\ wpc = "dead" /\ wop = 0 /\ armed = FALSE
    /\ stdin = <<>> /\ stdinOpen = FALSE
    /\ stdout = <<>> /\ stdoutOpen = FALSE
    /\ eventCh = <<>> /\ readerErr = "nil"
    /\ wal = <<>> /\ buf = <<>>
    /\ promised = Empty /\ failedOps = {} /\ failures = 0

-----------------------------------------------------------------------------
(* The worker process. *)

(* The process is gone.  Of the records in its buffer b, bufio may have    *)
(* passed some on to the file; a torn one is trimmed by the next Open.     *)
Die(b) ==
    /\ wpc' = "dead"
    /\ \E n \in 0..Len(b) : wal' = wal \o SubSeq(b, 1, n)
    /\ buf' = <<>>

CrashArmed(point) == armed /\ cfg.crash = point
FaultArmed(point) == armed /\ cfg.fault = point

(* Open, then the ready event; an Open that fails ends the process.        *)
WorkerOpens ==
    /\ wpc = "opening"
    /\ IF Openable
       THEN wpc' = "idle" /\ stdout' = Append(stdout, Event("ready", 0))
       ELSE wpc' = "dead" /\ UNCHANGED stdout
    /\ UNCHANGED <<ops, cfg, pc, controlVars, wop, armed, stdin, stdinOpen,
                   stdoutOpen, readerVars, dbVars, histVars>>

(* An operation is decoded; the start event precedes its execution.        *)
WorkerReceives ==
    /\ wpc = "idle" /\ stdin # <<>>
    /\ wop' = Head(stdin) /\ stdin' = Tail(stdin)
    /\ stdout' = Append(stdout, Event("start", wop'))
    /\ wpc' = "executing"
    /\ UNCHANGED <<ops, cfg, pc, controlVars, armed, stdinOpen, stdoutOpen,
                   readerVars, dbVars, histVars>>

(* Write: the encoded batch goes to the WAL's buffer.  An error of the     *)
(* append, which is left to Engine, would fail the operation as one of the *)
(* sync does.                                                              *)
WorkerAppends ==
    /\ wpc = "executing"
    /\ LET b == Append(buf, EncodeOperations(ToBatch(ops[wop]))) IN
       IF CrashArmed("wal_after_append") THEN Die(b)
       ELSE wpc' = "appended" /\ buf' = b /\ UNCHANGED wal
    /\ UNCHANGED <<ops, cfg, pc, controlVars, wop, armed, pipeVars, readerVars,
                   histVars>>

(* syncWALLocked, after which the batch is applied.                        *)
WorkerSyncs ==
    /\ wpc = "appended" /\ ~FaultArmed("wal_sync_error")
    /\ wal' = wal \o buf /\ buf' = <<>>
    /\ wpc' = IF CrashArmed("wal_after_sync") THEN "dead" ELSE "applied"
    /\ UNCHANGED <<ops, cfg, pc, controlVars, wop, armed, pipeVars, readerVars,
                   histVars>>

(* The injected fault comes before the sync and leaves the record in the   *)
(* buffer; a disk error comes after the flush.                             *)
WorkerSyncFails ==
    /\ wpc = "appended"
    /\ \/ /\ FaultArmed("wal_sync_error")
          /\ armed' = FALSE
          /\ UNCHANGED <<dbVars, failures>>
       \/ /\ ~FaultArmed("wal_sync_error") /\ failures < MaxFailures
          /\ failures' = failures + 1
          /\ wal' = wal \o buf /\ buf' = <<>>
          /\ UNCHANGED armed
    /\ wpc' = "failing"
    /\ UNCHANGED <<ops, cfg, pc, controlVars, wop, pipeVars, readerVars,
                   promised, failedOps>>

WorkerAcks ==
    /\ wpc = "applied"
    /\ stdout' = Append(stdout, Event("ack", wop))
    /\ promised' = ApplyItems(promised, ops[wop])
    /\ wpc' = "idle"
    /\ UNCHANGED <<ops, cfg, pc, controlVars, wop, armed, stdin, stdinOpen,
                   stdoutOpen, readerVars, dbVars, failedOps, failures>>

WorkerReportsFailure ==
    /\ wpc = "failing"
    /\ stdout' = Append(stdout, Event("fail", wop))
    /\ failedOps' = failedOps \cup {wop}
    /\ wpc' = "idle"
    /\ UNCHANGED <<ops, cfg, pc, controlVars, wop, armed, stdin, stdinOpen,
                   stdoutOpen, readerVars, dbVars, promised, failures>>

(* The end of stdin: db.Close flushes the buffer, the process exits.       *)
WorkerExits ==
    /\ wpc = "idle" /\ stdin = <<>> /\ ~stdinOpen
    /\ wal' = wal \o buf /\ buf' = <<>>
    /\ wpc' = "dead"
    /\ UNCHANGED <<ops, cfg, pc, controlVars, wop, armed, pipeVars, readerVars,
                   histVars>>

(* Something else ends the process (external).                             *)
WorkerDies ==
    /\ wpc # "dead"
    /\ Die(buf)
    /\ UNCHANGED <<ops, cfg, pc, controlVars, wop, armed, pipeVars, readerVars,
                   histVars>>

Worker ==
    \/ WorkerOpens \/ WorkerReceives \/ WorkerAppends \/ WorkerSyncs
    \/ WorkerSyncFails \/ WorkerAcks \/ WorkerReportsFailure \/ WorkerExits

-----------------------------------------------------------------------------
(* The reader goroutine. *)

ReaderForwards ==
    /\ readerErr = "none" /\ stdout # <<>> /\ Len(eventCh) < EventChCap
    /\ eventCh' = Append(eventCh, Head(stdout)) /\ stdout' = Tail(stdout)
    /\ UNCHANGED <<ops, cfg, pc, controlVars, workerVars, stdin, stdinOpen,
                   stdoutOpen, readerErr, dbVars, histVars>>

(* Decode returns io.EOF once the worker is gone, or another error when    *)
(* cmd.Wait has closed the pipe under the reader; eventCh is closed.       *)
ReaderEnds ==
    /\ readerErr = "none" /\ stdout = <<>>
    /\ wpc = "dead" \/ ~stdoutOpen
    /\ readerErr' = IF stdoutOpen THEN "nil" ELSE "closed"
    /\ UNCHANGED <<ops, cfg, pc, controlVars, workerVars, pipeVars, eventCh,
                   dbVars, histVars>>

Reader == ReaderForwards \/ ReaderEnds

-----------------------------------------------------------------------------
(* The controller. *)

MoreToDo == cycle < Cycles /\ (retryIndex # 0 \/ queueIndex < Len(ops))

(* A cycle begins: a worker with fresh pipes, hooks armed in the first.    *)
StartWorker ==
    /\ pc = "cycle" /\ MoreToDo
    /\ pc' = "await"
    /\ wpc' = "opening" /\ wop' = 0 /\ armed' = (cycle = 0)
    /\ stdin' = <<>> /\ stdinOpen' = TRUE
    /\ stdout' = <<>> /\ stdoutOpen' = TRUE
    /\ eventCh' = <<>> /\ readerErr' = "none"
    /\ UNCHANGED <<ops, cfg, controlVars, dbVars, histVars>>

WorkerReady ==
    /\ pc = "await" /\ eventCh # <<>>
    /\ pc' = IF Head(eventCh).kind = "ready" THEN "send" ELSE "failed"
    /\ eventCh' = Tail(eventCh)
    /\ UNCHANGED <<ops, cfg, controlVars, workerVars, pipeVars, readerErr,
                   dbVars, histVars>>

(* waitForReady finds the channel closed: the worker is gone.              *)
WorkerNotReady ==
    /\ pc = "await" /\ eventCh = <<>> /\ readerErr # "none"
    /\ pc' = "failed"
    /\ UNCHANGED <<ops, cfg, controlVars, workerVars, pipeVars, readerVars,
                   dbVars, histVars>>

(* waitForReady gives up after five seconds, and the worker is killed.     *)
ReadyTimeout ==
    /\ pc = "await"
    /\ pc' = "failed"
    /\ Die(buf)
    /\ UNCHANGED <<ops, cfg, controlVars, wop, armed, pipeVars, readerVars,
                   histVars>>

(* Mutant: an operation in doubt is not sent again.                        *)
NextOperationNoRetry == IF queueIndex < Len(ops) THEN queueIndex + 1 ELSE 0

(* Mutant: the queue is read one past its end.                             *)
NextOperationPastEnd ==
    IF retryIndex # 0 THEN retryIndex
    ELSE IF queueIndex <= Len(ops) THEN queueIndex + 1 ELSE 0

(* nextOperation, 0 for nil.                                               *)
NextOperation ==
    IF retryIndex # 0 THEN retryIndex
    ELSE IF queueIndex < Len(ops) THEN queueIndex + 1 ELSE 0

(* The operation is written to the worker, or the write fails because the  *)
(* worker is gone; it was taken from the queue all the same.               *)
SendOperation ==
    /\ pc = "send" /\ NextOperation # 0
    /\ queueIndex' = IF NextOperation > queueIndex THEN NextOperation ELSE queueIndex
    /\ \/ /\ wpc # "dead"
          /\ stdin' = Append(stdin, NextOperation)
          /\ retryIndex' = NextOperation
          /\ pc' = "terminal"
       \/ /\ wpc = "dead"
          /\ pc' = "closing"
          /\ UNCHANGED <<stdin, retryIndex>>
    /\ UNCHANGED <<ops, cfg, cycle, statuses, oracle, workerVars, stdinOpen,
                   stdout, stdoutOpen, readerVars, dbVars, histVars>>

NothingToSend ==
    /\ pc = "send" /\ NextOperation = 0
    /\ pc' = "closing"
    /\ UNCHANGED <<ops, cfg, controlVars, workerVars, pipeVars, readerVars,
                   dbVars, histVars>>

(* armedFaultPoint(c.cfg, cycle) # "": a failure is expected.              *)
FailureExpected == cycle = 0 /\ cfg.fault # ""

(* What an event does to the controller's records.                         *)
Recorded(ev) ==
    /\ statuses' = [statuses EXCEPT ![ev.id] =
         CASE ev.kind = "start" -> "started"
           [] ev.kind = "ack"   -> "acked"
           [] ev.kind = "fail"  -> "failed"]
    /\ oracle' = IF ev.kind = "ack" THEN OracleApply(oracle, ops[ev.id]) ELSE oracle
    /\ retryIndex' = IF ev.kind = "start" THEN retryIndex ELSE 0

(* terminalWait: events until the operation is acknowledged or has failed. *)
TerminalEvent ==
    /\ pc = "terminal" /\ eventCh # <<>>
    /\ LET ev == Head(eventCh) IN
       /\ Recorded(ev)
       /\ pc' = CASE ev.kind = "start" -> "terminal"
                  [] ev.kind = "ack"   -> "send"
                  [] ev.kind = "fail"  -> IF FailureExpected THEN "send" ELSE "failed"
    /\ eventCh' = Tail(eventCh)
    /\ UNCHANGED <<ops, cfg, cycle, queueIndex, workerVars, pipeVars, readerErr,
                   dbVars, histVars>>

ChannelClosed ==
    /\ pc = "terminal" /\ eventCh = <<>> /\ readerErr # "none"
    /\ pc' = "closing"
    /\ UNCHANGED <<ops, cfg, controlVars, workerVars, pipeVars, readerVars,
                   dbVars, histVars>>

(* The timer fires, at any time after ready: SIGKILL.  Signal reports no   *)
(* error, since the child is not waited for before.                        *)
TimerKill ==
    /\ pc = "terminal"
    /\ pc' = "closing"
    /\ Die(buf)
    /\ UNCHANGED <<ops, cfg, controlVars, wop, armed, pipeVars, readerVars,
                   histVars>>

(* Mutant: stdin stays open.                                               *)
CloseStdinNot ==
    /\ pc = "closing"
    /\ pc' = "waiting"
    /\ UNCHANGED <<ops, cfg, controlVars, workerVars, pipeVars, readerVars,
                   dbVars, histVars>>

CloseStdin ==
    /\ pc = "closing"
    /\ pc' = "waiting"
    /\ stdinOpen' = FALSE
    /\ UNCHANGED <<ops, cfg, controlVars, workerVars, stdin, stdout, stdoutOpen,
                   readerVars, dbVars, histVars>>

(* cmd.Wait returns when the process has exited and closes the pipe; what  *)
(* the reader's decoder had not read by then is lost.                      *)
WaitWorker ==
    /\ pc = "waiting" /\ wpc = "dead"
    /\ pc' = "joining"
    /\ stdoutOpen' = FALSE
    /\ \E k \in 0..Len(stdout) : stdout' = SubSeq(stdout, 1, k)
    /\ UNCHANGED <<ops, cfg, controlVars, workerVars, stdin, stdinOpen,
                   readerVars, dbVars, histVars>>

(* readerWG.Wait, then the reader's error.                                 *)
JoinReader ==
    /\ pc = "joining" /\ readerErr # "none"
    /\ pc' = IF readerErr = "nil" THEN "drain" ELSE "failed"
    /\ UNCHANGED <<ops, cfg, controlVars, workerVars, pipeVars, readerVars,
                   dbVars, histVars>>

(* Mutant: events left in the channel are only recorded in the artifact.   *)
DrainEventIgnored ==
    /\ pc = "drain" /\ eventCh # <<>>
    /\ eventCh' = Tail(eventCh)
    /\ UNCHANGED <<ops, cfg, pc, controlVars, workerVars, pipeVars, readerErr,
                   dbVars, histVars>>

(* Mutant: of the events left only acknowledgements count.                 *)
DrainEventNoStart ==
    /\ pc = "drain" /\ eventCh # <<>>
    /\ IF Head(eventCh).kind = "ack" THEN Recorded(Head(eventCh))
       ELSE UNCHANGED <<statuses, oracle, retryIndex>>
    /\ eventCh' = Tail(eventCh)
    /\ UNCHANGED <<ops, cfg, pc, cycle, queueIndex, workerVars, pipeVars,
                   readerErr, dbVars, histVars>>

(* The events that were still in the channel.                              *)
DrainEvent ==
    /\ pc = "drain" /\ eventCh # <<>>
    /\ LET ev == Head(eventCh) IN
       /\ Recorded(ev)
       /\ pc' = IF ev.kind = "fail" /\ ~FailureExpected THEN "failed" ELSE "drain"
    /\ eventCh' = Tail(eventCh)
    /\ UNCHANGED <<ops, cfg, cycle, queueIndex, workerVars, pipeVars, readerErr,
                   dbVars, histVars>>

CycleEnds ==
    /\ pc = "drain" /\ eventCh = <<>>
    /\ pc' = "verify"
    /\ UNCHANGED <<ops, cfg, controlVars, workerVars, pipeVars, readerVars,
                   dbVars, histVars>>

-----------------------------------------------------------------------------
(* Verification. *)

(* pendingOperation: started and not acknowledged.                         *)
Pending ==
    {i \in {retryIndex} \ {0} : statuses[i] = "started"}

(* matchesAllowedState: key by key, the oracle with or without the pending *)
(* operation.                                                              *)
Allowed(k) ==
    {oracle.state[k]} \cup {OracleApply(oracle, ops[i]).state[k] : i \in Pending}

KeysToCheck == oracle.touched \cup UNION {TouchedBy(ops[i]) : i \in Pending}

(* verifyDatabaseState: "failed" for an error, "alarm" for a mismatch.     *)
VerifyDatabaseState(next) ==
    IF ~Openable THEN "failed"
    ELSE IF \A k \in KeysToCheck : Recovered[k] \in Allowed(k) THEN next
    ELSE "alarm"

VerifyCycle ==
    /\ pc = "verify"
    /\ pc' = IF cfg.verify THEN VerifyDatabaseState("cycle") ELSE "cycle"
    /\ cycle' = cycle + 1
    /\ UNCHANGED <<ops, cfg, queueIndex, retryIndex, statuses, oracle,
                   workerVars, pipeVars, readerVars, dbVars, histVars>>

VerifyFinalState ==
    /\ pc = "cycle" /\ ~MoreToDo
    /\ pc' = VerifyDatabaseState("done")
    /\ UNCHANGED <<ops, cfg, controlVars, workerVars, pipeVars, readerVars,
                   dbVars, histVars>>

Controller ==
    \/ StartWorker \/ WorkerReady \/ WorkerNotReady \/ SendOperation \/ NothingToSend
    \/ TerminalEvent \/ ChannelClosed \/ CloseStdin \/ WaitWorker \/ JoinReader
    \/ DrainEvent \/ CycleEnds \/ VerifyCycle \/ VerifyFinalState

-----------------------------------------------------------------------------

Next == Controller \/ ReadyTimeout \/ TimerKill \/ Reader \/ Worker \/ WorkerDies

(* Both processes and the reader goroutine are scheduled; neither the      *)
(* timer nor a death of the worker is relied upon.                         *)
Spec ==
    /\ Init /\ [][Next]_vars
    /\ WF_vars(Controller) /\ WF_vars(Reader) /\ WF_vars(Worker)

-----------------------------------------------------------------------------
(* PROPERTIES *)

Verifying == pc = "verify" \/ (pc = "cycle" /\ ~MoreToDo)

(* Every variable has its type.                                            *)
TypeOK ==
    /\ pc \in {"cycle", "await", "send", "terminal", "closing", "waiting",
               "joining", "drain", "verify", "done", "failed", "alarm"}
    /\ cycle \in 0..Cycles
    /\ queueIndex \in 0..Len(ops) /\ retryIndex \in 0..queueIndex
    /\ statuses \in [DOMAIN ops -> {"planned", "started", "acked", "failed"}]
    /\ oracle.state \in [Keys -> Nat] /\ oracle.touched \subseteq Keys
    /\ wpc \in {"opening", "idle", "executing", "appended", "applied",
                "failing", "dead"}
    /\ Len(stdin) <= 1 /\ Len(eventCh) <= EventChCap
    /\ readerErr \in {"none", "nil", "closed"}

(* Whenever the controller is about to verify, a reopened database is, as  *)
(* a whole, what the acknowledged operations make of it, or that and the   *)
(* one operation the controller would send again: what the worker did is   *)
(* never more than one operation ahead of what the controller knows,       *)
(* wherever it was killed and however the retries went.  (An operation     *)
(* whose WAL sync failed may surface at any time; see NoFalseAlarm.)       *)
OneInDoubt ==
    Verifying /\ failedOps = {} =>
      Recovered \in {promised}
        \cup {ApplyItems(promised, ops[i]) : i \in {retryIndex} \ {0}}

(* Every acknowledgement that a worker wrote before it was killed counts:  *)
(* the state that verification requires is the one of all acknowledged     *)
(* operations in their order, those included whose ack was still in the    *)
(* pipe or the channel when the worker died.                               *)
AcksRequired == Verifying => oracle.state = promised

(* The harness never blames an engine that lost nothing: verification      *)
(* fails only if an operation failed after its record was in the WAL's     *)
(* buffer, which neither outcome of the oracle provides for.               *)
NoFalseAlarm == pc = "alarm" => failedOps # {}

(* Every payload in the WAL decodes to the batch it was made from; no      *)
(* proper beginning of it decodes at all, nor does the payload with that   *)
(* of a record behind it.                                                  *)
PayloadsStrict ==
    \A i \in DOMAIN wal :
      LET p == wal[i] IN
      /\ DecodeBatch(p).err = "nil" /\ EncodeOperations(DecodeBatch(p).ops) = p
      /\ \A n \in 0..(Len(p) - 1) : DecodeBatch(SubSeq(p, 1, n)).err # "nil"
      /\ \A j \in DOMAIN wal : DecodeBatch(p \o wal[j]).err # "nil"

(* A run comes to an end: no order of kills, events and pipe operations    *)
(* leaves controller, reader and worker waiting for each other.            *)
RunEnds == <>(pc \in {"done", "failed", "alarm"})

=============================================================================
