----------------------------- MODULE Bootstrap -----------------------------
(***************************************************************************)
(* Creation and discovery of a database directory: openManifest,           *)
(* bootstrapFreshManifest and nextAvailableManifestID (engine/db.go),      *)
(* WriteCurrent and ReadCurrent (internal/manifest/current.go), NewWriter  *)
(* (internal/manifest/writer.go) and SyncDir (internal/fs/fs.go).          *)
(*                                                                         *)
(* Each directory operation is a step.  The directory as processes see it  *)
(* and as it is on stable storage differ until SyncDir: a power loss keeps *)
(* or drops every pending change independently of the others.              *)
(***************************************************************************)
EXTENDS Naturals, Sequences, FiniteSets

CONSTANTS
    MaxManifests,  \* bound on the MANIFEST ids
    Faults         \* which calls may fail: create, append, install, syncdir,
                   \* remove; which crashes happen: kill, power

IDs == 1..MaxManifests

ASSUME BootstrapConstants ==
    /\ MaxManifests \in Nat
    /\ Faults \subseteq {"create", "append", "install", "syncdir", "remove",
                         "kill", "power"}

(* A MANIFEST file is the sequence of its records: the initial edit, or    *)
(* the remains of one.                                                     *)
Records == {"edit", "torn"}
Absent  == <<"absent">>
Initial == <<"edit">>
Files   == Seq(Records) \cup {Absent}

NoCurrent    == 0                  \* CURRENT does not exist
EmptyCurrent == MaxManifests + 1   \* CURRENT exists without its contents

VARIABLES
    man,        \* the MANIFEST files by id, as processes see them
    manDisk,    \* the same on stable storage
    cur,        \* the id CURRENT names
    curDisk,    \* the same on stable storage
    curSynced,  \* the contents of the file behind CURRENT are durable
    tmp,        \* CURRENT.tmp: "absent", "written" or "synced"
    pc,         \* how far Open is; "down" when no DB is open
    id,         \* the manifest that Open works on
    committed   \* history: the manifest of the last Open that succeeded

dirVars == <<man, manDisk, cur, curDisk, curSynced>>
vars    == <<dirVars, tmp, pc, id, committed>>

-----------------------------------------------------------------------------
(* Mutant: the id is hardcoded, as it was before orphans were considered.  *)
NextAvailableIDFixed(n) == n = 1

(* nextAvailableManifestID is n: one more than the highest id in use.      *)
NextAvailableID(n) ==
    /\ \A m \in IDs : man[m] # Absent => m < n
    /\ n > 1 => man[n - 1] # Absent

(* fs.SyncDir: the directory on stable storage is the visible one.  (It    *)
(* makes no contents durable; the one file whose contents matter is empty  *)
(* or already fsynced when it is called.)                                  *)
SyncDir ==
    /\ manDisk' = man
    /\ curDisk' = cur

(* os.Remove of the new manifest, its error ignored.                       *)
RemoveManifest ==
    \/ man' = [man EXCEPT ![id] = Absent]
    \/ "remove" \in Faults /\ UNCHANGED man

Init ==
    /\ man = [m \in IDs |-> Absent] /\ manDisk = man
    /\ cur = NoCurrent /\ curDisk = NoCurrent /\ curSynced = TRUE
    /\ tmp = "absent"
    /\ pc = "down" /\ id = 0
    /\ committed = NoCurrent

-----------------------------------------------------------------------------
(* bootstrapFreshManifest: CURRENT does not exist.                         *)

(* NewWriter opens the file with O_CREATE and O_APPEND ...                 *)
CreateManifest ==
    /\ pc = "down" /\ cur = NoCurrent
    /\ \E n \in IDs :
         /\ NextAvailableID(n)
         /\ id' = n
         /\ man' = [man EXCEPT ![n] = IF @ = Absent THEN <<>> ELSE @]
    /\ pc' = "created"
    /\ UNCHANGED <<manDisk, cur, curDisk, curSynced, tmp, committed>>

(* ... and syncs the directory; when that fails the file stays behind.     *)
CreateSyncDir ==
    /\ pc = "created"
    /\ SyncDir
    /\ pc' = "append"
    /\ UNCHANGED <<man, cur, curSynced, tmp, id, committed>>

CreateFails ==
    /\ "create" \in Faults
    /\ pc = "created"
    /\ pc' = "down"
    /\ UNCHANGED <<dirVars, tmp, id, committed>>

(* Mutant: the manifest is not fsynced.                                    *)
AppendInitialEditNoSync ==
    /\ pc = "append"
    /\ man' = [man EXCEPT ![id] = Append(@, "edit")]
    /\ pc' = "tmp"
    /\ UNCHANGED <<manDisk, cur, curDisk, curSynced, tmp, id, committed>>

(* The initial edit is appended and fsynced.                               *)
AppendInitialEdit ==
    /\ pc = "append"
    /\ man' = [man EXCEPT ![id] = Append(@, "edit")]
    /\ manDisk' = [manDisk EXCEPT ![id] = man'[id]]
    /\ pc' = "tmp"
    /\ UNCHANGED <<cur, curDisk, curSynced, tmp, id, committed>>

(* What an append that did not finish may leave.                           *)
Unfinished == {man[id], Append(man[id], "torn"), Append(man[id], "edit")}

AppendFails ==
    /\ "append" \in Faults
    /\ pc = "append"
    /\ \/ man' = [man EXCEPT ![id] = Absent]
       \/ /\ "remove" \in Faults
          /\ \E left \in Unfinished : man' = [man EXCEPT ![id] = left]
    /\ pc' = "down"
    /\ UNCHANGED <<manDisk, cur, curDisk, curSynced, tmp, id, committed>>

(* Mutant: WriteCurrent does not fsync CURRENT.tmp.                        *)
WriteTmpNoSync ==
    /\ pc = "tmp"
    /\ tmp' = "written"
    /\ pc' = "rename"
    /\ UNCHANGED <<dirVars, id, committed>>

(* WriteCurrent truncates and writes CURRENT.tmp, ...                      *)
WriteTmp ==
    /\ pc = "tmp"
    /\ tmp' = "written"
    /\ pc' = "synctmp"
    /\ UNCHANGED <<dirVars, id, committed>>

(* ... fsyncs it, ...                                                      *)
SyncTmp ==
    /\ pc = "synctmp"
    /\ tmp' = "synced"
    /\ pc' = "rename"
    /\ UNCHANGED <<dirVars, id, committed>>

(* ... renames it onto CURRENT ...                                         *)
RenameTmp ==
    /\ pc = "rename"
    /\ cur' = id
    /\ curSynced' = (tmp = "synced")
    /\ tmp' = "absent"
    /\ pc' = "syncdir"
    /\ UNCHANGED <<man, manDisk, curDisk, id, committed>>

(* ... and syncs the directory: Open succeeds.                             *)
CommitSyncDir ==
    /\ pc = "syncdir"
    /\ SyncDir
    /\ pc' = "open"
    /\ committed' = id
    /\ UNCHANGED <<man, cur, curSynced, tmp, id>>

(* The steps of WriteCurrent that may fail: up to the rename, or also the  *)
(* last one, the directory sync after it.                                  *)
InstallFaults ==
    (IF "install" \in Faults THEN {"tmp", "synctmp", "rename"} ELSE {})
      \cup (IF "syncdir" \in Faults THEN {"syncdir"} ELSE {})

(* WriteCurrent fails: it removes CURRENT.tmp (unless it could not open    *)
(* it), and bootstrap removes the manifest, wherever the failure was.      *)
InstallFails ==
    /\ pc \in InstallFaults
    /\ \/ tmp' = "absent"
       \/ pc = "tmp" /\ UNCHANGED tmp
       \/ "remove" \in Faults /\ UNCHANGED tmp
    /\ RemoveManifest
    /\ pc' = "down"
    /\ UNCHANGED <<manDisk, cur, curDisk, curSynced, id, committed>>

-----------------------------------------------------------------------------
(* replayExistingManifest: CURRENT names a manifest that can be replayed.  *)
(* When it cannot, Open returns an error and changes nothing.              *)
Replayable == cur \in IDs /\ man[cur] = Initial

OpenExisting ==
    /\ pc = "down" /\ Replayable
    /\ id' = cur
    /\ pc' = "reopen"
    /\ UNCHANGED <<dirVars, tmp, committed>>

(* Mutant: NewWriter syncs the directory only for a file it has created.   *)
ReopenNoSyncDir ==
    /\ pc = "reopen"
    /\ pc' = "open"
    /\ committed' = id
    /\ UNCHANGED <<dirVars, tmp, id>>

(* NewWriter on the existing manifest syncs the directory: this makes a    *)
(* CURRENT durable whose bootstrap was killed after the rename.            *)
ReopenSyncDir ==
    /\ pc = "reopen"
    /\ SyncDir
    /\ pc' = "open"
    /\ committed' = id
    /\ UNCHANGED <<man, cur, curSynced, tmp, id>>

ReopenFails ==
    /\ "create" \in Faults
    /\ pc = "reopen"
    /\ pc' = "down"
    /\ UNCHANGED <<dirVars, tmp, id, committed>>

Close ==
    /\ pc = "open"
    /\ pc' = "down"
    /\ UNCHANGED <<dirVars, tmp, id, committed>>

-----------------------------------------------------------------------------
(* Crashes. *)

Kill ==
    /\ "kill" \in Faults
    /\ pc # "down"
    /\ pc' = "down"
    /\ \E left \in IF pc = "append" THEN Unfinished ELSE {Absent} :
          man' = IF pc = "append" THEN [man EXCEPT ![id] = left] ELSE man
    /\ UNCHANGED <<manDisk, cur, curDisk, curSynced, tmp, id, committed>>

(* The files a power loss may leave of manifest m.                         *)
ManifestAfter(m) ==
    {man[m], manDisk[m]} \cup IF pc = "append" /\ m = id THEN Unfinished ELSE {}

PowerLoss ==
    /\ "power" \in Faults
    /\ pc' = "down"
    /\ man' \in {f \in [IDs -> UNION {ManifestAfter(m) : m \in IDs}] :
                   \A m \in IDs : f[m] \in ManifestAfter(m)}
    /\ manDisk' = man'
    /\ cur' \in {cur, curDisk} \cup
                IF curSynced THEN {} ELSE {EmptyCurrent}
    /\ curDisk' = cur'
    /\ curSynced' = TRUE
    /\ tmp' \in {tmp, "absent"}
    /\ UNCHANGED <<id, committed>>

-----------------------------------------------------------------------------
Next ==
    \/ CreateManifest \/ CreateSyncDir \/ CreateFails
    \/ AppendInitialEdit \/ AppendFails
    \/ WriteTmp \/ SyncTmp \/ RenameTmp \/ InstallFails
    \/ CommitSyncDir
    \/ OpenExisting \/ ReopenSyncDir \/ ReopenFails
    \/ Close \/ Kill \/ PowerLoss

Spec == Init /\ [][Next]_vars

-----------------------------------------------------------------------------
(* Every variable has its type, and CURRENT.tmp is durable before it is    *)
(* renamed onto CURRENT.                                                   *)
TypeOK ==
    /\ man \in [IDs -> Files] /\ manDisk \in [IDs -> Files]
    /\ cur \in 0..EmptyCurrent /\ curDisk \in 0..EmptyCurrent
    /\ curSynced \in BOOLEAN
    /\ tmp \in {"absent", "written", "synced"}
    /\ pc \in {"down", "created", "append", "tmp", "synctmp", "rename",
               "syncdir", "reopen", "open"}
    /\ pc = "rename" => tmp = "synced"
    /\ id \in 0..MaxManifests
    /\ committed \in 0..MaxManifests

(* The commit barrier of bootstrap: whatever crashes and failures came     *)
(* before, a directory without CURRENT is fresh, and one with CURRENT      *)
(* holds the manifest that it names, with its initial edit.                *)
CurrentIsReplayable == cur # NoCurrent => Replayable

(* A database is not forgotten: once an Open has succeeded, CURRENT names  *)
(* its manifest after every crash, so no later Open bootstraps over it.    *)
CommittedStays == committed # NoCurrent => cur = committed

(* The initial edit goes to a file of its own, never behind what a crashed *)
(* bootstrap has left (nextAvailableManifestID).                           *)
OrphanNotReused == pc \in {"created", "append"} => man[id] = <<>>

=============================================================================
