-------------------------- MODULE BootstrapProofs --------------------------
(***************************************************************************)
(* Bootstrap's commit barrier, for any number of manifest ids and any mix  *)
(* of crashes and failures except that of the last directory sync of       *)
(* WriteCurrent, which the run BootstrapSyncDir shows to break it.         *)
(***************************************************************************)
EXTENDS Bootstrap, TLAPS

(* Where Open is says what the new manifest holds.  Until the rename there *)
(* is no CURRENT, so a manifest may be removed; from the append on its     *)
(* edit is durable, so CURRENT may name it.                                *)
ProgressInv ==
    /\ pc \in {"created", "append", "tmp", "synctmp", "rename"} =>
          id \in IDs /\ cur = NoCurrent
    /\ pc \in {"syncdir", "reopen", "open"} => id \in IDs /\ cur = id
    /\ pc \in {"created", "append"} => man[id] = <<>>
    /\ pc = "append" => manDisk[id] = <<>>
    /\ pc \in {"tmp", "synctmp", "rename"} =>
          man[id] = Initial /\ manDisk[id] = Initial

(* The manifest that CURRENT names is durable before CURRENT is, and a     *)
(* committed CURRENT is durable itself.                                    *)
BarrierInv ==
    /\ curSynced = TRUE
    /\ cur # NoCurrent => cur \in IDs /\ man[cur] = Initial /\ manDisk[cur] = Initial
    /\ curDisk \in {NoCurrent, cur}
    /\ committed # NoCurrent => cur = committed /\ curDisk = committed

BootInv == TypeOK /\ ProgressInv /\ BarrierInv

USE DEF IDs, NoCurrent, EmptyCurrent

(* What a MANIFEST can hold.                                               *)
LEMMA FileFacts ==
    /\ <<>> \in Files /\ Absent \in Files /\ Initial \in Files
    /\ <<"torn">> \in Files
    /\ Append(<<>>, "edit") = Initial /\ Append(<<>>, "torn") = <<"torn">>
    /\ Absent # Initial /\ <<>> # Initial
BY DEF Files, Records, Absent, Initial

LEMMA InitBoot == Init => BootInv
BY BootstrapConstants, FileFacts DEF Init, BootInv, TypeOK, ProgressInv, BarrierInv

(* One step preserves the invariant.                                       *)
LEMMA StepBoot ==
    ASSUME "syncdir" \notin Faults, BootInv, [Next]_vars
    PROVE  BootInv'
<1> USE BootstrapConstants, FileFacts
        DEF BootInv, TypeOK, ProgressInv, BarrierInv
<1>1. CASE CreateManifest
  BY <1>1 DEF CreateManifest, NextAvailableID
<1>2. CASE CreateSyncDir
  BY <1>2 DEF CreateSyncDir, SyncDir
<1>3. CASE CreateFails
  BY <1>3 DEF CreateFails, dirVars
<1>4. CASE AppendInitialEdit
  BY <1>4 DEF AppendInitialEdit
<1>5. CASE AppendFails
  BY <1>5 DEF AppendFails, Unfinished
<1>6. CASE WriteTmp
  BY <1>6 DEF WriteTmp, dirVars
<1>7. CASE SyncTmp
  BY <1>7 DEF SyncTmp, dirVars
<1>8. CASE RenameTmp
  <2>1. tmp = "synced" /\ curSynced' = (tmp = "synced")
    BY <1>8 DEF RenameTmp
  <2>2. curSynced' = TRUE
    BY <2>1
  <2> QED
    BY <1>8, <2>2 DEF RenameTmp
<1>9. CASE InstallFails
  BY <1>9 DEF InstallFails, InstallFaults, RemoveManifest
<1>10. CASE CommitSyncDir
  BY <1>10 DEF CommitSyncDir, SyncDir
<1>11. CASE OpenExisting
  BY <1>11 DEF OpenExisting, Replayable, dirVars
<1>12. CASE ReopenSyncDir
  BY <1>12 DEF ReopenSyncDir, SyncDir
<1>13. CASE ReopenFails
  BY <1>13 DEF ReopenFails, dirVars
<1>14. CASE Close
  BY <1>14 DEF Close, dirVars
<1>15. CASE Kill
  <2>1. CASE pc = "append"
    <3>1. PICK left \in Unfinished : man' = [man EXCEPT ![id] = left]
      BY <1>15, <2>1 DEF Kill
    <3>2. left \in Files
      BY <2>1 DEF Unfinished
    <3>3. man' \in [IDs -> Files]
      BY <3>1, <3>2
    <3> QED
      BY <1>15, <2>1, <3>3 DEF Kill
  <2>2. CASE pc # "append"
    <3>1. man' = man
      BY <1>15, <2>2 DEF Kill
    <3> QED
      BY <1>15, <3>1 DEF Kill
  <2> QED
    BY <2>1, <2>2
<1>16. CASE PowerLoss
  <2>1. \A m \in IDs : ManifestAfter(m) \subseteq Files
    BY DEF ManifestAfter, Unfinished
  <2>2. man' \in [IDs -> Files]
    BY <1>16, <2>1 DEF PowerLoss
  <2>3. cur' \in {cur, curDisk}
    BY <1>16 DEF PowerLoss
  <2>4. ASSUME cur' # NoCurrent
        PROVE  cur' = cur /\ man'[cur] = Initial
    <3>1. cur' = cur /\ cur \in IDs /\ pc # "append"
      BY <2>3, <2>4
    <3>2. ManifestAfter(cur) = {Initial}
      BY <3>1 DEF ManifestAfter
    <3>3. man'[cur] \in ManifestAfter(cur)
      BY <1>16, <3>1 DEF PowerLoss
    <3> QED
      BY <3>1, <3>2, <3>3
  <2>5. committed # NoCurrent => cur' = committed
    BY <2>3
  <2> QED
    BY <1>16, <2>2, <2>3, <2>4, <2>5 DEF PowerLoss
<1>17. CASE UNCHANGED vars
  BY <1>17 DEF vars, dirVars
<1> QED
  BY <1>1, <1>2, <1>3, <1>4, <1>5, <1>6, <1>7, <1>8, <1>9, <1>10, <1>11,
     <1>12, <1>13, <1>14, <1>15, <1>16, <1>17 DEF Next

(* The invariant holds in every reachable state.                           *)
LEMMA BootAlways ==
    ASSUME "syncdir" \notin Faults
    PROVE  Spec => []BootInv
<1>1. BootInv /\ [Next]_vars => BootInv'
  BY StepBoot
<1> QED
  BY InitBoot, <1>1, PTL DEF Spec

(* CURRENT is a commit barrier (WriteCurrent): if its directory syncs do   *)
(* not fail, CURRENT never names a manifest that Open cannot replay.       *)
THEOREM CommitBarrier ==
    ASSUME "syncdir" \notin Faults
    PROVE  Spec => []CurrentIsReplayable
<1>1. BootInv => CurrentIsReplayable
  BY DEF BootInv, BarrierInv, CurrentIsReplayable, Replayable
<1> QED
  BY BootAlways, <1>1, PTL

(* A directory that an Open has returned is never bootstrapped again.      *)
THEOREM CommitLasts ==
    ASSUME "syncdir" \notin Faults
    PROVE  Spec => []CommittedStays
<1>1. BootInv => CommittedStays
  BY DEF BootInv, BarrierInv, CommittedStays
<1> QED
  BY BootAlways, <1>1, PTL

(* nextAvailableManifestID never returns a file that a crashed bootstrap   *)
(* has left: the initial edit is the first record of its file.             *)
THEOREM OrphansLeftAlone ==
    ASSUME "syncdir" \notin Faults
    PROVE  Spec => []OrphanNotReused
<1>1. BootInv => OrphanNotReused
  BY DEF BootInv, ProgressInv, OrphanNotReused
<1> QED
  BY BootAlways, <1>1, PTL

-----------------------------------------------------------------------------
(* Types, whatever fails.                                                  *)

(* Open works on a manifest that exists, and appends to a record sequence. *)
PlaceInv ==
    /\ pc # "down" => id \in IDs
    /\ pc \in {"created", "append"} => man[id] \in Seq(Records)

LEMMA StepType ==
    ASSUME TypeOK, PlaceInv, [Next]_vars
    PROVE  TypeOK' /\ PlaceInv'
<1> USE BootstrapConstants, FileFacts DEF TypeOK, PlaceInv
<1>a. /\ Absent \in Files /\ Seq(Records) \subseteq Files
      /\ \A s \in Seq(Records) : Append(s, "edit") \in Seq(Records) /\ Append(s, "torn") \in Seq(Records)
  BY DEF Files, Records
<1>b. \A f \in Files : f # Absent => f \in Seq(Records)
  BY DEF Files
<1>c. pc = "append" => Unfinished \subseteq Files
  BY <1>a DEF Unfinished
<1>d. <<>> \in Seq(Records)
  OBVIOUS
<1>1. CASE CreateManifest
  <2>1. PICK n \in IDs : /\ id' = n
                         /\ man' = [man EXCEPT ![n] = IF @ = Absent THEN <<>> ELSE @]
    BY <1>1 DEF CreateManifest
  <2>2. man' \in [IDs -> Files] /\ man'[n] \in Seq(Records)
    BY <1>a, <1>b, <1>d, <2>1
  <2> QED
    BY <1>1, <2>1, <2>2 DEF CreateManifest
<1>2. CASE CreateSyncDir \/ CommitSyncDir \/ ReopenSyncDir
  BY <1>2 DEF CreateSyncDir, CommitSyncDir, ReopenSyncDir, SyncDir
<1>3. CASE CreateFails \/ WriteTmp \/ SyncTmp \/ ReopenFails \/ Close
  BY <1>3 DEF CreateFails, WriteTmp, SyncTmp, ReopenFails, Close, dirVars
<1>4. CASE AppendInitialEdit
  <2>1. Append(man[id], "edit") \in Files
    BY <1>4, <1>a DEF AppendInitialEdit
  <2> QED
    BY <1>4, <2>1 DEF AppendInitialEdit
<1>5. CASE AppendFails
  BY <1>5, <1>a, <1>c DEF AppendFails
<1>6. CASE RenameTmp
  <2>1. curSynced' \in BOOLEAN
    BY <1>6 DEF RenameTmp
  <2> QED
    BY <1>6, <2>1 DEF RenameTmp
<1>7. CASE InstallFails
  BY <1>7, <1>a DEF InstallFails, RemoveManifest
<1>8. CASE OpenExisting
  BY <1>8 DEF OpenExisting, Replayable, dirVars
<1>9. CASE Kill
  <2>1. man' \in [IDs -> Files]
    BY <1>9, <1>c DEF Kill
  <2> QED
    BY <1>9, <2>1 DEF Kill
<1>10. CASE PowerLoss
  <2>1. \A m \in IDs : ManifestAfter(m) \subseteq Files
    BY <1>c DEF ManifestAfter
  <2>2. man' \in [IDs -> Files]
    BY <1>10, <2>1 DEF PowerLoss
  <2>3. cur' \in 0..EmptyCurrent
    BY <1>10 DEF PowerLoss
  <2> QED
    BY <1>10, <2>2, <2>3 DEF PowerLoss
<1>11. CASE UNCHANGED vars
  BY <1>11 DEF vars, dirVars
<1> QED
  BY <1>1, <1>2, <1>3, <1>4, <1>5, <1>6, <1>7, <1>8, <1>9, <1>10, <1>11 DEF Next

(* Every variable keeps its type under every fault and crash, the failed   *)
(* directory sync included, and CURRENT is only replaced by a CURRENT.tmp  *)
(* whose contents were synced (WriteCurrent).                              *)
THEOREM TypeCorrect == Spec => []TypeOK
<1>1. Init => TypeOK /\ PlaceInv
  BY BootstrapConstants, FileFacts DEF Init, TypeOK, PlaceInv
<1>2. TypeOK /\ PlaceInv /\ [Next]_vars => (TypeOK /\ PlaceInv)'
  BY StepType
<1> QED
  BY <1>1, <1>2, PTL DEF Spec

=============================================================================
