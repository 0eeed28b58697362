# BeachDB: TLA+ models and proofs

BeachDB is a small LSM key-value engine in Go: a write-ahead log, a skip-list
memtable, immutable SSTables and a MANIFEST that says which SSTables are live.
This directory holds TLA+ models of its engine, the TLC configurations that
check them, a model of its crash harness, and TLAPS proofs of the safety
properties of all of them.
Paths below are relative to the repository.

## 1. The system

### Components

| Component | State | Operations | Correct when |
|---|---|---|---|
| `engine/db.go`, flush pipeline | `mu`, `cond`, `mem`, `immMem`, `flushErr`, `flushDoneCh`, `closed` | `Write`, `Flush`, `Close`, goroutine `flushLoop` | nobody sleeps for ever, no write leaves the readable set, a successful `Flush` is on disk, errors stick |
| `engine/db.go`, write and read path | `seqno`, WAL, memtables, `ssts` | `Write`, `Get` | acknowledged writes are visible, newest version wins |
| `engine/db.go`, recovery | MANIFEST, WAL, `.sst` files | `Open`: `replayExistingManifest`, `cleanupOrphanSSTables`, `replayWAL` | every crash leaves a directory that opens; batches come back whole and in order |
| `engine/db.go` + `internal/manifest/current.go`, bootstrap | CURRENT, CURRENT.tmp, MANIFEST-n | `openManifest`, `bootstrapFreshManifest`, `WriteCurrent` | CURRENT is a commit barrier |
| `internal/wal` | buffer, file | `Append`, `Sync`, `Close`; `Next`, `ValidOffset` | a torn tail is recognised and cut off |
| `internal/manifest` | record stream, `VersionEdit`, `Version` | `Append`, `NextEdit`, edit codec, `Version.Apply` | replay rebuilds the version in memory, levels keep their order |
| `internal/record` | none (framing) | `Encode`, `DecodeHeader`, `ValidatePayload` | truncation is told apart from corruption |
| `internal/memtable` | skip list | `Put`, `Get`, iterator | sorted, newest visible version |
| `internal/sstable` | blocks, index, footer | writer `Add`/`Close`, reader `Get`, iterator | reader and iterator see what was written |
| `engine/batch.go`, `internal/keys` | operations, internal keys | codecs | decoding inverts encoding |
| `internal/crashhook` | one-shot hooks | `CrashIfArmed`, `MaybeFault` | a hook fires once, in the first worker |
| `cmd/crash` | queue, retry, statuses and oracle of the controller; a worker process, two pipes, a reader goroutine and a channel | `runCycle`, `verifyCycle`, `verifyFinalState`; `runWorker` | it demands what was acknowledged, accepts what may have happened, and ends |
| `internal/fs` | none | `SyncDir`, `MkdirAllAndSync` | directory entries are durable |
| options, errors, coding, checksum, dump tools, examples, test utilities | - | - | - |

### Interaction and what is hard

All state of an open DB is guarded by `db.mu`; writers, `Flush` callers and
the flusher share one condition variable and one slot (`immMem`).  SSTables are
written outside the lock, so state read before the unlock is used after the
lock is taken again.  A flush makes three files agree (`.sst`, MANIFEST, WAL)
through an ordering of fsyncs; the WAL is never truncated, so every restart
replays all of it on top of the SSTables with new sequence numbers.  Crashes
can fall between any two of these steps, and each file operation can fail on
its own.  The crash harness is a distributed system of its own: two processes
and a goroutine, connected by pipes and a channel, one of them killed at any
time with messages in flight.  The hazards are listed one by one, with their lines and the
properties that watch them, in `PROJECT.json`.

## 2. Modules

| Module | Models | Kind |
|---|---|---|
| `FlushPipeline` | who waits for whom in an open DB | specification |
| `MCFlushPipeline` | symmetry for TLC | instance |
| `FlushPipelineProofs` | invariants of `FlushPipeline` for all constants | TLAPS |
| `Engine` | data and durability of one directory across restarts | specification |
| `EngineProofs` | durability, order and reads of `Engine`, and that it implements `KVStore`, for all constants | TLAPS |
| `NaturalFacts` | least elements of sets of naturals, induction from them, what folds and other iterations compute | TLAPS |
| `KVStore` | what an `engine.DB` with sync-on-write promises | abstract specification |
| `MCEngine` | keys and batches for TLC | instance |
| `Bootstrap` | creation and discovery of CURRENT and MANIFEST | specification and instance |
| `BootstrapProofs` | the commit barrier for all constants | TLAPS |
| `RecordLog` | one log file cell by cell: framing, buffered writer, reader, trimming | specification and instance |
| `RecordLogProofs` | cuts and damage of a log for all sizes | TLAPS |
| `InternalKeys` | internal keys, their order, and what a lookup should answer | definitions |
| `SkipList` | the memtable's towers and its iterator | component |
| `SSTable` | writer, reader and iterator of one table | component |
| `FlushPath` | composes `SkipList` and `SSTable`: the flush of one memtable | specification and instance |
| `FlushPathProofs` | lookups, scans, towers and blocks for all sizes | TLAPS |
| `VersionEdits` | the edits of the manifest, their codec, and `Version.Apply` | definitions |
| `Manifest` | the MANIFEST as a log of `VersionEdits` that Open replays | specification and instance |
| `ManifestProofs` | codec, replay and levels for all keys, limits and numbers of edits | TLAPS |
| `Batch` | the codec of a batch, the payload of a WAL record | definitions |
| `Harness` | the crash harness: controller, reader, worker, oracle; its WAL holds `Batch` payloads | specification |
| `MCHarness` | workloads for TLC | instance |
| `HarnessProofs` | oracle, operation in doubt, alarms and WAL payloads for all workloads | TLAPS |

The first three specifications look at the same engine at three grains.
`FlushPipeline` keeps every critical section and wait and abstracts a
memtable to a set of write identifiers and an SSTable write to success or
failure.  `Engine` keeps files, entries and sequence numbers and abstracts the
waiting to the guards that survive it.  `Bootstrap` keeps directory entries.
`Engine` starts from a directory that `Bootstrap` has committed.  `RecordLog`,
`FlushPath` and `Manifest` open three boxes that `Engine` keeps closed: that a
log is a sequence of whole records with at most one torn one at its end, that a
memtable and the SSTable made of it answer alike, and that an edit read back is
the edit that was logged.  `Harness` looks at the engine from outside, as the
program that tests it does.

### FlushPipeline

An action is what a goroutine does between acquiring `db.mu` and releasing it
through `Unlock` or `cond.Wait`.  `waiting` is the set of goroutines parked in
`Wait`; `Signal` removes any one of them, `Broadcast` all; a woken goroutine
resumes at any later time.  `pc[g]` names the place where goroutine `g`
resumes: `stall` in `waitForFlushSlotLocked`, `fwait1` and `fwait2` in the two
loops of `flushMemtable`, `io` in `writeSSTable`, `closing` in `Close` before
its final section, `loop`, `returned` and `gone` for `flushLoop`.  `target`,
`written` and `ret` are history.  `sync.Cond` and `sync.RWMutex` are external:
modelled from how the engine uses them.  Get takes the lock for reading and
changes nothing, so it is not an action; `NothingLost` is the fact it needs.

### Engine

WAL and MANIFEST are sequences of records with the number of records that have
left the process's buffer (`walFlushed`) and that are durable (`walSynced`,
`manSynced`).  An `.sst` file is absent, partial or complete.  An entry is an
internal key plus the operation that wrote it, so that a value can be traced
to its batch.  `Write` is three steps under the lock (append, sync, apply), a
flush is pick-up, file, edit, install; `Kill` and `PowerLoss` may come between
any two.  `Open` is the manifest part in one step, then one step per WAL record,
then the truncation of a torn tail.

File-system model: a crash keeps a prefix of an append-only file and possibly
one incomplete record; a process crash keeps what reached the file, a power
loss only what was synced for certain.  A failed fsync leaves the record in
the file, where a later successful fsync makes it durable.  A `bufio.Writer`
that met an error stays failed.  Bytes in the middle of a file do not rot.
`Close` is modelled with no SSTable in flight; the race of `Close` with a
synchronous `Flush` belongs to `FlushPipeline`, as does a `Flush` of an empty
memtable.

### KVStore and the refinement

The abstract store has the batches handed to `Write`, the set that a restart
would recover, the set acknowledged and, while it is up, a value per key.
`Engine` maps `survivors` to the records in the WAL, `kv` to what `Get`
returns.  `Recover` must produce the outcome of exactly the surviving batches,
in order, each whole; `Remains` says that an acknowledged batch is never lost.

### Bootstrap

The directory exists twice, as processes see it and as it is on stable storage,
and `SyncDir` makes the second equal to the first.  A power loss keeps or drops
each pending change independently of the others.  `committed` is history: the
manifest of the last `Open` that succeeded.

### RecordLog

The file and the writer's buffer are sequences of cells, so that a crash, a
full `bufio` buffer or a failed flush can cut a record anywhere.  A header is
three cells (magic with version and type; length; checksum), and the checksum
is perfect: it accepts exactly the payload it was made from.  `NextAt` is the
classification that `wal.Reader.Next` and `manifest.Reader.Next` share,
`ReplayEnd` the trimming at `ValidOffset`.  The manifest's writer, which writes
a record and syncs it, behaves like `WalAppend` that passes everything to the
file, followed by `Sync`.  `Corrupt` changes one cell of a complete record at
rest.  `Uint32` is the conversion of a payload's length in `Encode`;
`SizeAssumption` keeps the payloads below its span.

### FlushPath

`SkipList` has the forward pointers of every level as functions on the entries
that are high enough, and `Put` takes the height as a parameter, so every
outcome of `randomLevel` is explored.  `SSTable` keeps blocks as sequences of
entries and the index as the last key of each.  `FlushPath` fills a memtable,
lets a client scan it, writes it out entry by entry as `writeMemtableEntries`
does, with failures at every step, and reads the table with `Get` and the
iterator while the reader may be closed.  `seen` and `target` are history: the
entries that the current scan has stood on, and the key it was positioned at
(none, or one).  A sequence number identifies a
value, so an entry keeps only the length of its value, and a length of zero is
there for the difference between an empty value and none.

### VersionEdits and Manifest

An encoded edit is a sequence of naturals, one per tag and field, in the order
of `Encode`; the decoder is a loop over tags with the error paths of
`decodeTag`, `decodeAddedFile`, `readLengthPrefixedBytes` and
`DecodeInternalKey`.  A user key is a natural that is its own length (a string
of equal bytes), because its length is what the limit `maxLengthPrefixedField`
is about.  `LogAndApply` is `publishFlushedSSTLocked`: append, sync, apply.
`LogFails` is the same cut short by a crash or an error, with nothing, a part or
all of the record in the file; an error is sticky until the restart, which
`FlushPipeline` shows of `flushErr`.  `Open` replays and trims.  `SortFiles` is
some order of the files without a descent, which is what `slices.SortFunc` promises.  The engine logs
only additions at level 0; the edits with deletions and levels (`OtherEdits`)
are what the package accepts, `Version.Apply` implements and the tests of both
packages append.  They include an edit that moves a file, which is where
`applyEditToReplay` and `Version.Apply` differ.  `edits` is history.

### Batch and Harness

`Batch` is the codec at the grain of fields: version, reserved, count, and per
operation type, key and value.  In `Harness` the controller's program counter
`pc` walks through `runCycle`: `await` (waitForReady), `send`, `terminal` (the
select loop), `closing`, `waiting` (`cmd.Wait`), `joining` (`readerWG.Wait`),
`drain`, `verify`.  The worker has one step per thing that can be separated by a
kill: receive and report the start, append, sync, acknowledge.  `stdin`,
`stdout` and `eventCh` are queues.  `cmd.Wait` closes the read end of `stdout`
while the reader may still be reading; the reader then ends with an error, and
so does the run.  The database is its WAL, since a worker opens it with default
options and never flushes; a killed process leaves any prefix of its buffered
records.  `Present` keeps an empty value, which the workload generator makes,
apart from a key that is missing.  An error of `wal.Append` is left to `Engine`:
to the controller it is a failed operation, as after `WorkerSyncFails`.  `promised` (the state that the acknowledgements written to the pipe
imply) and `failedOps` are history.

## 3. Runs

| Run | Result | What it shows |
|---|---|---|
| `PipelineAuto` | passes | with the flusher: no lost wake-up, single-flight, no write lost, `Flush` persists, `Close` waits, empty rotations are harmless, errors stick; every call returns and every frozen memtable leaves the slot |
| `PipelineSync` | passes | without the flusher: an SSTable's path and recorded id agree, and no id is used twice; the other guarantees of `PipelineAuto` are proved for both modes |
| `EngineSync` | passes | all faults together: the next file id in step with the manifest, acknowledged writes visible, layers ordered by sequence number, every restart recovers, live SSTables never rewritten |
| `EngineRefine` | passes | process crashes and I/O failures: `Engine` implements `KVStore` |
| `BootstrapCrash` | passes | crashes and failures before the commit point: CURRENT names a replayable manifest, an opened database stays, orphans are not reused |
| `RecordLog` | passes | synced records survive any cuts, a torn tail never passes for corruption also after repeated trimming, a damaged payload is never replayed, damage outside a length is refused |
| `FlushPath` | passes | for all node heights: memtable and SSTable give the reference answer to every lookup, towers are linked, key range and counts are exact, blocks keep their size, scans are complete or report an error |
| `Manifest` | passes | replaying the encoded edits rebuilds the Version and the counters in memory, L0 keeps the order of flushes and other levels that of keys, Open is refused only for an over-long key or a re-added live file |
| `Harness` | passes | the database is never more than one operation ahead of the controller, every acknowledgement counts, no false alarm without a failed operation, batch payloads decode strictly, every run ends |
| `PipelineSyncClose` | violation | `Close` during a synchronous `Flush` ends in a nil dereference |
| `EngineReplayedLost` | violation | a process crash, a flush and a power loss break the atomicity of a batch |
| `BootstrapSyncDir` | violation | a failed directory sync after the rename leaves CURRENT dangling for ever |

The three violations are disagreements between the code and its comments or
docs; `PROJECT.json` quotes the lines.  Others were met and have no run of their
own:

* `Flush` "is a no-op if the memtable is empty" (`engine/db.go:257`), but
  without the flusher two `Flush` calls can race for one memtable; the second
  freezes the fresh, empty one (`db.go:620`) and makes `ErrFlushEmptyMemtable`
  the sticky `flushErr`.  `PipelineSync.cfg` with `EmptyRotationHarmless` as an
  invariant shows it.
* `Encode` "returns ErrRecordTooLarge when len(payload) exceeds
  f.MaxPayloadSize" (`internal/record/record.go:98`), but the length is
  converted to `uint32` before the comparison (`record.go:101`), so a payload of
  4 GiB or a little more is written with a short length.  With `LengthSpan = 4`
  and `PayloadSizes` up to 5 in `RecordLog`, `TornNotCorrupt` is violated: the
  next `Open` refuses a log that nobody damaged.
* "A batch is committed only after `fsync` returns"
  (`docs/formats/wal.md:99`), but a `Write` whose WAL sync failed leaves its
  record in the log, and the batch becomes visible after a restart.  The crash
  harness knows neither outcome for it, hence the exception in `NoFalseAlarm`.
* "Replaying N edits in order always rebuilds the same `Version`"
  (`docs/formats/manifest.md:11`), but the limit of 64 KiB on a key is enforced
  only by the decoder (`internal/manifest/edit.go:326`): a longer key is
  accepted by `Put`, flushed and logged, and every later `Open` fails with
  `ErrEditFieldTooLarge`.  An edit that moves a file between levels is applied
  in memory and refused on replay.  `OpenRefusesOnly` names both exceptions.
* The crash harness promises whole outcomes (`cmd/crash/README.md`) but
  compares key by key, so it would accept a half-visible batch; `OneInDoubt`
  states the whole-state fact of the engine.  Its worker never flushes, so the
  `flush_*`, `manifest_*` and `sst_*` hooks are never reached in a run.
* "Corruption is surfaced, not hidden" (`docs/formats/wal.md:93`) has one
  exception, a damaged length that reaches beyond the end of the file, which
  replay takes for a torn tail (`AckedSurvive` excludes it by name).
* `Flush` "stalls until that specific flush finishes" (`engine/db.go:260`) but
  parks again when another rotation takes the slot before it resumes.
* `nextAvailableManifestID` "returns the smallest MANIFEST file ID not yet
  present" but returns one more than the largest, which is the safe choice.

The atomicity violation of `EngineReplayedLost` also happens without
sync-on-write and with a process crash alone (set `SyncOnWrite = FALSE`): a
flush then publishes batches whose WAL records are still in the buffer.

### Bounds

* `FlushPipeline`: three callers, because two stalled writers and a third
  party are needed for an empty rotation, and for a `Flush` that finds the slot
  taken again.  Threshold 1 makes every write rotate; three writes fill the
  active memtable and the slot with one more to stall; `PipelineSync` uses four.
  `CHECK_DEADLOCK FALSE` in the synchronous runs because a panicked process
  stops.
* `Engine`: two keys and the batches {put a, put b} and {delete a} are the
  least that can show a batch torn in two and a deletion undone.  Three batches
  and two SSTables allow a flush, a restart and a second flush on top;
  threshold 2 lets a rotation happen with one batch or with two.
* `Bootstrap`: four manifest ids allow three crashed bootstraps before a
  good one.

* `RecordLog`: three records and three crashes allow a log that is torn,
  trimmed, continued and torn again; payloads of one and two cells make a
  length that is too small and one that reaches into the next record or beyond
  the end of the file.  `LengthSpan` is any number above the payloads.
* `FlushPath`: three versions over two keys, two levels.  With entries of one
  and of three cells and a target of two, blocks hold one entry, exactly fill,
  or are exceeded by one oversized entry, and three versions of one key can lie
  in three blocks.  `CHECK_DEADLOCK FALSE` because a failed flush ends the
  story of that memtable.
* `Manifest`: three edits after the initial one allow two files at level 1 in
  the wrong order and one between them, or an addition, a deletion and a re-use
  of the id.  With a limit of 12 bytes, keys of length 0, 3 and 4 are the empty
  key, one exactly at the limit and one beyond it.  `CHECK_DEADLOCK FALSE`
  because a refused Open ends the story.
* `Harness`: three cycles allow an operation that is in doubt twice before it
  is acknowledged; workloads of two and three operations over two keys have
  overwrites, deletions and batches.  A channel of two events (the code has
  eight) is the smallest that the one operation in flight fits into, so that a
  larger one is not what makes the run end.  One failing disk sync.
  `CHECK_DEADLOCK FALSE` because a run ends.

### Fairness

`FairSpec` assumes weak fairness of each goroutine's own continuation: a
goroutine that is runnable after `Signal`, `Broadcast`, `Unlock` or the end of
its I/O eventually gets the lock.  The Go scheduler is preemptive and
`sync.RWMutex` hands over to waiting writers, and the number of writes is
bounded, so no stream of newcomers competes for ever.  Calls of the API are not
fair: nobody has to call `Write`, `Flush` or `Close`.

`Harness` assumes weak fairness of the controller, of the reader goroutine and
of the worker process: each keeps running while it can.  Neither the kill timer
nor the ready timeout nor a death of the worker is relied upon, so `RunEnds`
also says that a run without any of them ends.

## 4. Proofs

Every theorem below holds for all values of the constants that satisfy the
`ASSUME`s of the module it is about.  Each inductive invariant was checked with
TLC, on the constants of the module's run, before it was proved.

### FlushPipelineProofs

For any set of callers, any threshold and any bound on the writes:

| Theorem | Statement |
|---|---|
| `TypeCorrect` | `Spec => []TypeOK` |
| `WakeupsNotLost` | `Spec => []NoLostWakeup` |
| `FlushSingleFlight` | `Spec => []SingleFlight` |
| `CloseWaits` | `Spec => []CloseWaitsForFlush` |
| `WritesNotLost` | `Spec => []NothingLost` |
| `FlushIsDurable` | `Spec => []FlushPersists` |
| `IDsUnique` | `Spec => []PublishedPathIsID` |
| `ErrorSticky` | `Spec => FlushErrSticky` |
| `EmptyRotationsSkipped` | `AutoFlush` implies `Spec => []EmptyRotationHarmless` |
| `BackgroundNoPanic` | `AutoFlush` implies `Spec => []NoPanic` |

The argument has two layers.  The control invariant says where each goroutine
can be and what that implies for the slot: whoever is in `io` owns the slot and
its job is the frozen memtable; a parked flusher means an empty slot and a
parked caller a full one; after `closed` or a flush error nobody is parked;
`flushDoneCh` tells whether the flusher still runs; and only one thread is ever
in `closing`.  `NoLostWakeup` is not inductive without it: that a `Signal`
reaches the flusher needs to know that at a rotation no caller is parked.  The
data invariant, proved on top of it, places every write in exactly one of the
memtables and published SSTables, and every `Flush` caller's `target` in the
frozen memtable or the published ones as long as the call can still return nil.
The assumptions are the two `ASSUME`s of `FlushPipeline`: the flusher is not a
caller, the bounds are naturals, and `Nil` is no memtable.

`AutoFlush` (a positive flush size, so that the flusher runs) is needed by the
last two theorems.  Without the flusher a `Flush` caller writes the SSTable
itself: `PipelineSyncClose` is the counterexample to `NoPanic`, and the race of
two `Flush` calls for one memtable that section 3 describes makes
`EmptyRotationHarmless` false.

### EngineProofs

For any keys, batches, flush size, bounds on batches and files and, unless a
hypothesis says otherwise, any choice of `SyncOnWrite` and of faults, power
losses included:

| Theorem | Statement |
|---|---|
| `EngineProofs!TypeCorrect` | `Spec => []TypeOK`, of which `NextIDRecorded` is a part: `db.nextSSTID` is the `NextFileID` that the manifest has for the next Open |
| `OpenAccepts` | `Spec => []RecoverySucceeds` |
| `LayersOrdered` | `Spec => []LayerOrder` |
| `NamedTablesImmutable` | `Spec => SSTImmutable` |
| `AckedStayVisible` | `Spec => []AckedWritesVisible` |
| `EngineImplementsStore` | `SyncOnWrite` and `"power" \notin Faults` imply `Spec => ImplementsKVStore` |

The invariant is `Core`.  `WalInv`: records are batches in the
order of `Write`, and only the last can be torn.  `ManifestInv`: the i-th edit
adds file i - 1, so that `nextSSTID`, `manifest` and `ssts` count the same
tables except between an edit and its installation, or after a failed one;
this is what rules out that a flush reuses an id that the manifest names
(`NamedTablesImmutable`).  `NamedInv`: a table is complete before its edit is in
the file, below the sequence number in that edit, and above every older table,
also for tables that are on disk only.  `LayerOrder` is not inductive without
it, since a restart starts from the tables on disk.  `DurableInv`: with
`SyncOnWrite` an acknowledged batch is in the durable part of the WAL.

For reads it is extended by how sequence numbers follow the order of the operations.
While the WAL is replayed the memtable has exactly the operations of the records
so far, numbered in their order (`ReplayInv`); in an open DB an acknowledged
operation has an entry above which there are only later operations
(`VisibleInv`).  Replay numbers everything anew above what the manifest
recorded, which is why the first holds whatever the SSTables contain, and at the
end of replay the second follows from the first and `DurableInv`.

The refinement maps every action of `Engine` to an action of `KVStore` or to
a stuttering step.  It needs that entries are operations of written batches with
distinct sequence numbers (`EntriesInv`) and that all entries of memtables and
SSTables are in the part of the WAL that a process crash keeps (`LoggedInv`).
The second is where the hypotheses come in.  A process crash leaves records that
were never synced; Open replays them, a flush puts them into an SSTable, and a
power loss may then take the record but not the table.  `EngineReplayedLost`
is that counterexample, and without `SyncOnWrite` the buffer makes another one.

### BootstrapProofs

For any number of manifest ids; the first three for every choice of `Faults`
without "syncdir":

| Theorem | Statement |
|---|---|
| `CommitBarrier` | `Spec => []CurrentIsReplayable` |
| `CommitLasts` | `Spec => []CommittedStays` |
| `OrphansLeftAlone` | `Spec => []OrphanNotReused` |
| `BootstrapProofs!TypeCorrect` | `Spec => []TypeOK` |

The assumption is needed: `BootstrapSyncDir` is the counterexample without it.
None of the three is inductive.  `ProgressInv` ties the contents of the new
manifest, visible and durable, to how far Open is, and says that there is no
CURRENT before the rename, which is what makes removing the manifest harmless.
`BarrierInv` says that the manifest named by CURRENT is durable before CURRENT
is, that CURRENT on stable storage is the visible one or none, and that a
committed one is durable, so that whatever mixture a power loss leaves is one
of the states before or after the commit.

### RecordLogProofs

For any limit on the payload size below the span of a `uint32`, any number of
records and crashes, and wherever the buffer spills:

| Theorem | Statement |
|---|---|
| `RecordLogProofs!TypeCorrect` | `Spec => []TypeOK` |
| `AckedRecordsSurvive` | `Spec => []AckedSurvive` |
| `TearsNotCorruption` | `Spec => []TornNotCorrupt` |
| `ReplayYieldsPrefix` | `Spec => []ReplaysPrefix` |

The invariant `LogInv` says that there are offsets `off` and a cell `d` (0 for
none) such that file and buffer together are the records of `log`, the i-th at
`off[i]`, cut somewhere and changed at most at `d`.  The offsets are a witness
and not a recursive function of the log, so no induction is needed: appending a
record adds one, a trim removes the last ones.  Replay stands at an offset and
has not passed `d`.  The lemmas about `NextAt` then say what the reader answers
at an offset: the record if it is whole, "truncated" if the file ends inside it,
and at the damaged one "corrupt", or "truncated" for a length that reaches
beyond the end, but never a payload.

### HarnessProofs

For any workload that `IsWorkload` admits, any number of cycles and any capacity
of the event channel:

| Theorem | Statement |
|---|---|
| `AcksCounted` | `Spec => []AcksRequired` |
| `DoubtBounded` | `Spec => []OneInDoubt` |
| `NoFalseAlarms` | `Spec => []NoFalseAlarm` |
| `PayloadsDecodeStrictly` | `Spec => []PayloadsStrict` |
| `HarnessProofs!TypeCorrect` | `Spec => []TypeOK` |

`AckInv` has two ideas.  At most one acknowledgement is under way, in `stdout` or
in `eventCh`, and it is the last event there, because the controller sends the
next operation only after the terminal event of the one before; the oracle lacks
exactly that one (`OracleInv`).  And events lost with the pipe, which
`cmd.Wait` closes, make the reader end with an error and doom the run to
"failed" before it verifies (`Doomed`).

`DoubtInv` stands on top of it and holds as long as nothing has failed
(`Sound`).  `WorkInv`: the worker is in no other operation than the one that
would be sent again (`retryIndex`), and only that one's record can be in its
buffer.  `AheadInv`: the database is `promised`, or `promised` with that one
operation applied, and in that case its start event has been seen or is under
way and no acknowledgement is.  The operation may run again when the database
already has it; `ApplyTwice` says that then nothing changes, since an operation
only sets and clears keys.  So at verification the database is `promised` or one
started operation ahead, both of which the oracle admits
(`VerificationAccepts`).

`LogsInv` says that the WAL and the buffer hold payloads of operations.  What a
payload decodes to is proved about the codec itself: `Lays` has the encoding of
the first k operations, for each k, as a witness, whose length is where the next
one begins, and `DecodesAlong` follows the decoder's loop from one operation to
the next; a payload cut short fails inside some operation, and a continued one
fails the final check for trailing data.

What the folds (`ApplyItems`, `Replay`, encoder and decoder) compute are lemmas
of their own (`ItemsInOrder`, `ReplayInOrder`, `EncodedFacts`, `DecodesAlong`) on
`FoldExists` and `FoldIterates` of `NaturalFacts`.  Induction there is over a set
of naturals, which takes the place of the predicate that the provers cannot
instantiate.

### FlushPathProofs

For any user keys, value lengths, number of versions, number of levels and
target size of a block, and for every choice of node heights:

| Theorem | Statement |
|---|---|
| `FlushPathProofs!TypeCorrect` | `Spec => []TypeOK` |
| `AnswersCorrect` | `Spec => []SameAnswers` |
| `TowersCorrect` | `Spec => []TowersLinked` |
| `TableDescribed` | `Spec => []TableDescribesMemtable` |
| `PackingCorrect` | `Spec => []BlocksPacked` |
| `ScansCorrect` | `Spec => []ScansComplete` |
| `FlushCorrect` | `Spec => []FlushInv`, from which the others follow |

`Linked` says that each level is a chain through its nodes in the order of the
keys, and a subset of the level below; `ListInv` adds that `sl.level` is the
highest level with a node on it, or 1.  On a chain the loop of
`findPredecessors` ends on the last node before the key (`WalkRightEnds`), and
since it starts on each level where the level above left it, one pass down finds
the predecessor on every level (`Predecessors`); `PutLinks` says that splicing
the new node in there, up to its height, leaves chains.  Lookups and `Seek` use
the same fact on the lowest level.  The loops are recursive functions, so for
each there is first a lemma that a function with that recursion exists
(`WalkExists`, `GetsExists`).

`WriterInv` and `PackedInv` extend the properties of the finished blocks to the
one being filled, and `WriteInv` ties them to the cursor: what has been written
is exactly what the cursor has passed, which is why the writer's order check
never fires and the first and last key are those of the memtable.  `ScanInv` says
that a scan has seen exactly the wanted entries up to the one it stands on; for
the table's two-level iterator, that the entry after the last of a block is the
first of the next (`NextEntry`).  `SSTGetAnswers` follows `Reader.Get` through
the index to the first block whose last key is not before the wanted one and on
through the following blocks.

### ManifestProofs

For any user keys, any limit on a field and any number of edits:

| Theorem | Statement |
|---|---|
| `LogCorrect` | `Spec => [](LogInv /\ ReplayInv)` |
| `ReplayCorrect` | `Spec => []ReplayRebuilds` |
| `RefusalsCorrect` | `Spec => []OpenRefusesOnly` |
| `LevelsCorrect` | `Spec => []LevelsOrdered` |

`LogInv`: the file is the encodings of the logged edits, in order, with a torn
record behind them only while nothing more is logged, so that it is always the
last one and the only one.  `ReplayInv`: replaying those encodings gives the
counters and the Version of the open DB, with all ids in use below the next one,
or it is refused and the history has an edit that explains it.  It has to speak
of replay at every moment and not only at Open, since the history that Open
finds may have been left by a DB that is long gone.

Three groups of lemmas carry this.  `DecodesEncoded`: decoding an encoded edit
gives the edit back unless a key is beyond the limit.  The decoder's loop is
followed from one part of the encoding to the next (`CounterStep`,
`DeletionStep`, `AdditionStep`), and stands still at the end (`Stalls`).
`ReplayFolds` and `ReplayAppend`: a fold over the records takes one after the
other, so that one more record is one more step.  `LiveIDAppend` and
`RefusableStays`: how the live ids, and the reasons for a refusal, follow from
the edits.

`LevelInv`, on top of both, says that the Version in memory, and the one that
replay would build, hold exactly the files that the history left live, in levels
that have their order.  `Applied` is the lemma behind it: deletions, additions
and the sort take a Version to a Version.  A file that is added is new in two
ways: its id is not in use once the deletions of its edit are applied, and its
sequence number is above all others (`SeqsBelow`), so that its place in a sorted
level is unique (`BehindSorts` gives the permutation, `SortedLevel` says that
whatever order without a descent the sort picks is then strict).  At level 0 its
id is the largest, which is what keeps the order of the flushes.

### Only model-checked

Liveness (`CallsReturn`, `HandoffCompletes`, `RunEnds`), which needs fairness and
ENABLED.  Every invariant and every action property of the passing runs, and the
refinement of `KVStore`, has a theorem.

## 5. Not modelled

Byte layouts and integer coding of blocks, index and footer (edits and batches
are modelled by their fields); the checksums of SSTable blocks, except that
loading a block may fail; `Batch.Reset` and the copies `Batch` makes of its
arguments; the harness's artifact files, its JSON and base64 messages (a message
is the operation it carries), its command line and the random draw of a
workload; `MkdirAllAndSync`; context cancellation beyond "the write is not
applied"; the dump tools, examples, test utilities; `raft/` and `server/`, which
are empty.

## 6. State and plan

`FlushPipeline`, `Bootstrap`, `RecordLog`, `Engine`, `FlushPath`, `Manifest` and
`Harness` are modelled and checked, with proofs of their safety properties;
`SkipList` and `SSTable` are composed in `FlushPath`, `VersionEdits` in
`Manifest`, `Batch` in `Harness`.  What would come next:

1. `RecordLog` and `Manifest` as refinements of the logs that `Engine` assumes,
   and `FlushPath` as one of its flush, so that the three models are joined by
   theorems and not by the reading of section 2.
2. Levels above 1 in the edits of `Manifest`, once a compaction logs them.
