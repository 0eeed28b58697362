------------------------------ MODULE Manifest ------------------------------
(***************************************************************************)
(* The MANIFEST file and the Version it stands for (engine/db.go over      *)
(* internal/manifest): an edit is encoded, appended and applied in memory, *)
(* and Open replays the file.  Appends fail or are cut by a crash, before, *)
(* within or behind the record.                                            *)
(*                                                                         *)
(* The engine itself logs the initial edit and one edit per flush.  Edits  *)
(* that delete files or use levels above 0 come from no code of the engine *)
(* yet; they are those that the package accepts and that its tests and the *)
(* engine's replay tests append (version_test.go, db_manifest_test.go).    *)
(***************************************************************************)
EXTENDS VersionEdits, FiniteSets

CONSTANTS
    UserKeys,     \* user keys, by their length
    MaxEdits      \* bound on the edits logged after the initial one

ASSUME ManifestAssumption == UserKeys \subseteq Nat /\ MaxEdits \in Nat

VARIABLES
    file,         \* the records of the MANIFEST: payloads, or Torn
    mode,         \* "down", "open", or "refused" by Open
    version, nextSSTID, seqno, logno,     \* of the open DB
    flushErr,     \* an append has failed: nothing is logged until a restart
    edits         \* history: the edits whose records are in the file, whole

dbVars == <<version, nextSSTID, seqno, logno>>
vars   == <<file, mode, dbVars, flushErr, edits>>

Torn == <<0>>     \* the beginning of a record

(* bootstrapFreshManifest. *)
InitialEdit == VersionEdit(<<1>>, <<0>>, <<0>>, <<>>, <<>>)

Init ==
    /\ file = <<Encode(InitialEdit)>> /\ edits = <<InitialEdit>>
    /\ mode = "open" /\ flushErr = FALSE
    /\ version = Apply(NewVersion, InitialEdit)
    /\ nextSSTID = 1 /\ seqno = 0 /\ logno = 0

-----------------------------------------------------------------------------
(* The edits. *)

(* A file with a key range; sequence numbers and sizes of its own.         *)
LastSeq == 2 * Len(edits)
FileMetadata(level, id, u, v) ==
    [level |-> level, id |-> id, size |-> 10 + id,
     smallest |-> InternalKey(u, LastSeq, KindPut),
     largest  |-> InternalKey(v, LastSeq - 1, KindDelete)]

(* publishFlushedSSTLocked. *)
FlushEdits ==
    {VersionEdit(<<nextSSTID + 1>>, <<LastSeq>>, <<>>, <<>>,
                 <<FileMetadata(0, nextSSTID, r[1], r[2])>>) :
       r \in {r \in UserKeys \X UserKeys : r[1] <= r[2]}}

IDs(list) == {list[i].id : i \in DOMAIN list}
KnownIDs  == UNION {IDs(edits[i].added) : i \in DOMAIN edits}

(* A deletion, of a live file or not, and an addition at level 1: of a new *)
(* file, or of one whose id is not in use, or no longer: it was deleted    *)
(* before, or is by this edit, which then moves it.  LogNumber is optional.*)
OtherEdits ==
    LET Deletions == {<<>>} \cup {<<[level |-> l, id |-> i]>> : l \in 0..1, i \in KnownIDs}
        Free(d)   == KnownIDs \ IDs(AllFiles(FoldLeft(DeleteFile, version, d)))
        Added(d)  == {<<FileMetadata(1, i, u, u)>> :
                        i \in Free(d) \cup {nextSSTID}, u \in UserKeys}
    IN UNION {{VersionEdit(IF IDs(a) = {nextSSTID} THEN <<nextSSTID + 1>> ELSE <<>>,
                           <<>>, log, d, a) :
                 a \in {<<>>} \cup Added(d), log \in {<<>>, <<Len(edits)>>}} :
              d \in Deletions}

Edits == FlushEdits \cup OtherEdits

-----------------------------------------------------------------------------
(* A counter after an edit.                                                *)
Counter(old, c) == IF c = <<>> THEN old ELSE c[1]

(* Append with its sync, then the edit is applied.                         *)
LogAndApply(e) ==
    /\ mode = "open" /\ ~flushErr /\ Len(edits) <= MaxEdits
    /\ file' = Append(file, Encode(e)) /\ edits' = Append(edits, e)
    /\ version' = Apply(version, e)
    /\ nextSSTID' = Counter(nextSSTID, e.next)
    /\ seqno' = Counter(seqno, e.last)
    /\ logno' = Counter(logno, e.log)
    /\ UNCHANGED <<mode, flushErr>>

(* Append is cut short by a crash or returns an error, which is sticky.    *)
(* Its record is in the file, or not, or the beginning of it is.           *)
LogFails(e) ==
    /\ mode = "open" /\ ~flushErr /\ Len(edits) <= MaxEdits
    /\ \/ UNCHANGED <<file, edits>>
       \/ file' = Append(file, Torn) /\ UNCHANGED edits
       \/ file' = Append(file, Encode(e)) /\ edits' = Append(edits, e)
    /\ \/ mode' = "down" /\ UNCHANGED flushErr
       \/ flushErr' = TRUE /\ UNCHANGED mode
    /\ UNCHANGED dbVars

(* Close, or a crash elsewhere.                                            *)
Stop ==
    /\ mode = "open"
    /\ mode' = "down"
    /\ UNCHANGED <<file, dbVars, flushErr, edits>>

-----------------------------------------------------------------------------
(* Replay: res and liveFiles of replayManifestStream.                      *)

Replaying(v, n, s, l, live) ==
    [version |-> v, next |-> n, seqno |-> s, logno |-> l, live |-> live, err |-> "nil"]
ReplayStart == Replaying(NewVersion, <<>>, 0, 0, {})
Refused(err) == [ReplayStart EXCEPT !.err = err]

(* An addition is of a live file, or of one that the edit has added before.*)
DuplicateAdd(live, added) ==
    \E i \in DOMAIN added : added[i].id \in live \cup IDs(SubSeq(added, 1, i - 1))

(* Mutant: the log number is taken from every edit.                        *)
ApplyEditToReplayNoFlag(res, e) ==
    IF DuplicateAdd(res.live, e.added) THEN Refused("duplicate AddFile")
    ELSE Replaying(Apply(res.version, e), IF e.next = <<>> THEN res.next ELSE e.next,
                   Counter(res.seqno, e.last), Counter(0, e.log),
                   (res.live \cup IDs(e.added)) \ IDs(e.deleted))

(* Additions are checked before the edit's own deletions are seen.         *)
ApplyEditToReplay(res, e) ==
    IF DuplicateAdd(res.live, e.added) THEN Refused("duplicate AddFile")
    ELSE Replaying(Apply(res.version, e), IF e.next = <<>> THEN res.next ELSE e.next,
                   Counter(res.seqno, e.last), Counter(res.logno, e.log),
                   (res.live \cup IDs(e.added)) \ IDs(e.deleted))

ReplayRecord(res, payload) ==
    LET d == DecodeVersionEdit(payload) IN
    IF res.err # "nil" THEN res
    ELSE IF d.err # "nil" THEN Refused(d.err)
    ELSE ApplyEditToReplay(res, d.edit)

ValidRecords == IF Last(file) = Torn THEN Front(file) ELSE file

ReplayManifestStream ==
    LET res == FoldLeft(ReplayRecord, ReplayStart, ValidRecords) IN
    IF res.err = "nil" /\ res.next = <<>> THEN Refused("no NextFileID") ELSE res

(* replayExistingManifest: a torn tail is cut off once replay succeeded.   *)
Open ==
    /\ mode = "down"
    /\ LET res == ReplayManifestStream IN
       IF res.err # "nil"
       THEN /\ mode' = "refused"
            /\ UNCHANGED <<file, dbVars, flushErr>>
       ELSE /\ mode' = "open" /\ flushErr' = FALSE
            /\ file' = ValidRecords
            /\ version' = res.version /\ nextSSTID' = res.next[1]
            /\ seqno' = res.seqno /\ logno' = res.logno
    /\ UNCHANGED edits

Next ==
    \/ \E e \in Edits : LogAndApply(e) \/ LogFails(e)
    \/ Stop \/ Open

Spec == Init /\ [][Next]_vars

-----------------------------------------------------------------------------
(* PROPERTIES *)

InStep == mode = "open" /\ ~flushErr

(* Deterministic replay: whatever was logged, failed, torn and trimmed     *)
(* before, replaying the file rebuilds exactly the Version and the         *)
(* counters that the open DB has, unless Open would be refused.            *)
ReplayRebuilds ==
    InStep /\ ReplayManifestStream.err = "nil" =>
      LET res == ReplayManifestStream IN
      /\ res.version = version /\ res.next = <<nextSSTID>>
      /\ res.seqno = seqno /\ res.logno = logno

(* The files an edit history leaves: each one added and not deleted from   *)
(* its level by a later edit.                                              *)
Live(i) ==
    {f \in ToSet(edits[i].added) :
       \A j \in (i + 1)..Len(edits) :
         \A k \in DOMAIN edits[j].deleted :
           edits[j].deleted[k] # [level |-> f.level, id |-> f.id]}

(* The Version holds exactly the live files, each at its level; L0 keeps   *)
(* the order of the flushes, which reads rely on, and the other levels are *)
(* sorted by their smallest keys.                                          *)
LevelsOrdered ==
    InStep =>
      /\ ToSet(AllFiles(version)) = UNION {Live(i) : i \in DOMAIN edits}
      /\ \A l \in DOMAIN version : \A i, j \in DOMAIN version[l] :
           /\ version[l][i].level = l - 1
           /\ i < j => IF l = 1 THEN version[l][i].id < version[l][j].id
                       ELSE KeyLess(version[l][i].smallest, version[l][j].smallest)

TooLong(f) == \E k \in {f.smallest, f.largest} : KeyLen(k) > MaxField

(* The edit adds an id again that was added, and not deleted, before it.   *)
AddsLiveID(i) ==
    \E f \in ToSet(edits[i].added) : \E h \in 1..(i - 1) :
      /\ f.id \in IDs(edits[h].added)
      /\ \A j \in h..(i - 1) : f.id \notin IDs(edits[j].deleted)

(* Open refuses a manifest only for an edit that re-adds a live id (moving *)
(* a file between levels in one edit is one) or that has a key longer than *)
(* the decoder's limit, which the encoder does not enforce: no crash, torn *)
(* record or failed append makes a database unopenable.                    *)
OpenRefusesOnly ==
    mode = "refused" =>
      \E i \in DOMAIN edits :
        AddsLiveID(i) \/ \E f \in ToSet(edits[i].added) : TooLong(f)

=============================================================================
