----------------------------- MODULE RecordLog -----------------------------
(***************************************************************************)
(* The record framing (internal/record) that WAL and manifest share, under *)
(* the WAL's buffered writer and replay: records are cut anywhere by a     *)
(* crash, the reader tells a torn tail from corruption, and Open trims the *)
(* tail and appends behind it.  The file is a sequence of cells; a header  *)
(* is three of them (magic with version and type, length, checksum).       *)
(***************************************************************************)
EXTENDS Naturals, Sequences, SequencesExt

CONSTANTS
    MaxPayloadSize,   \* f.MaxPayloadSize, in cells
    LengthSpan,       \* how many lengths a uint32 tells apart
    MaxRecords,       \* bound on the records appended
    MaxCrashes        \* bound on the crashes

(* The payloads that are tried are shorter than the span of a uint32.      *)
ASSUME SizeAssumption ==
    /\ MaxPayloadSize \in Nat \ {0} /\ MaxRecords \in Nat /\ MaxCrashes \in Nat
    /\ LengthSpan \in Nat /\ MaxPayloadSize + 1 < LengthSpan

HeaderSize == 3
PayloadSizes == 1..(MaxPayloadSize + 1)     \* the last one is refused

VARIABLES
    file,      \* cells of the file
    buf,       \* w.buf
    synced,    \* how many cells of the file a power loss leaves
    mode,      \* "down", "replay", "open", "broken" (bufio error) or "refused"
    pos,       \* r.pos, the end of the last valid record
    replayed,  \* payloads replay has yielded
    log,       \* history: the payloads in file and buf since Open, in order
    acked,     \* history: those whose Sync succeeded
    damage,    \* history: what the storage corrupted, at most once
    crashes,
    appended   \* records so far, which names them

vars == <<file, buf, synced, mode, pos, replayed, log, acked, damage, crashes, appended>>
readerVars == <<pos, replayed>>

Cell(f, r, v) == [field |-> f, rec |-> r, val |-> v]

(* payloadLen: the conversion comes before the comparison with the limit.  *)
Uint32(n) == n % LengthSpan

(* The payload of record r, n cells long, and its encoding.                *)
PayloadOf(r, n) == [i \in 1..n |-> Cell("payload", r, i)]

Encode(r, n) ==
    <<Cell("magic", r, 0), Cell("length", r, Uint32(n)), Cell("checksum", r, n)>>
      \o PayloadOf(r, n)

Init ==
    /\ file = <<>> /\ buf = <<>> /\ synced = 0
    /\ mode = "down" /\ pos = 0 /\ replayed = <<>>
    /\ log = <<>> /\ acked = <<>> /\ damage = "none"
    /\ crashes = 0 /\ appended = 0

-----------------------------------------------------------------------------
(* Writer.  bufio passes any part of what it holds on to the file when it  *)
(* is full, so a record may be in the file in part.                        *)
WalAppend(n) ==
    /\ mode = "open" /\ appended < MaxRecords
    /\ Uint32(n) <= MaxPayloadSize              \* else ErrRecordTooLarge
    /\ LET r == appended + 1
           all == buf \o Encode(r, n) IN
       /\ \E k \in 0..Len(all) :
            /\ file' = file \o SubSeq(all, 1, k)
            /\ buf' = SubSeq(all, k + 1, Len(all))
       /\ log' = Append(log, PayloadOf(r, n))
       /\ appended' = r
    /\ UNCHANGED <<synced, mode, readerVars, acked, damage, crashes>>

(* Mutant: Sync without the flush of the buffer.                           *)
FlushedNot == file

Flushed == file \o buf

Sync ==
    /\ mode = "open"
    /\ file' = Flushed /\ buf' = <<>>
    /\ synced' = Len(file')
    /\ acked' = log
    /\ UNCHANGED <<mode, readerVars, log, damage, crashes, appended>>

(* A write of the flush fails: part of the buffer is in the file, and      *)
(* bufio fails every later Write and Flush.                                *)
FlushFails ==
    /\ mode = "open" /\ buf # <<>>
    /\ \E k \in 0..(Len(buf) - 1) : file' = file \o SubSeq(buf, 1, k)
    /\ buf' = <<>>
    /\ mode' = "broken"
    /\ UNCHANGED <<synced, readerVars, log, acked, damage, crashes, appended>>

(* Close flushes and syncs if it can.                                      *)
Close ==
    /\ mode \in {"open", "broken"}
    /\ file' = Flushed /\ buf' = <<>>
    /\ synced' = Len(file')
    /\ acked' = IF mode = "open" THEN log ELSE acked
    /\ mode' = "down"
    /\ UNCHANGED <<readerVars, log, damage, crashes, appended>>

-----------------------------------------------------------------------------
(* Crashes and corruption (external).                                      *)

Crash(keep) ==
    /\ mode # "refused" /\ crashes < MaxCrashes
    /\ file' = SubSeq(file, 1, keep)
    /\ buf' = <<>>
    /\ mode' = "down"
    /\ crashes' = crashes + 1
    /\ UNCHANGED <<readerVars, log, acked, damage, appended>>

Kill == Crash(Len(file)) /\ UNCHANGED synced

PowerLoss ==
    \E keep \in synced..Len(file) : Crash(keep) /\ synced' = keep

(* A complete record starts at cell s.                                     *)
Complete(s) ==
    /\ file[s].field = "magic" /\ s < Len(file)
    /\ s + HeaderSize + file[s + 1].val <= Len(file) + 1

(* One cell of a complete record at rest changes; a length may become any  *)
(* other one.                                                              *)
Corrupt(i) ==
    /\ mode = "down" /\ damage = "none"
    /\ \E s \in 1..i : Complete(s) /\ file[s].rec = file[i].rec
    /\ damage' = file[i].field
    /\ \/ /\ file[i].field = "length"
          /\ \E v \in (0..(MaxPayloadSize + 1)) \ {file[i].val} :
               file' = [file EXCEPT ![i].val = v]
       \/ /\ file[i].field # "length"
          /\ file' = [file EXCEPT ![i].field = "bad"]
    /\ UNCHANGED <<buf, synced, mode, readerVars, log, acked, crashes, appended>>

-----------------------------------------------------------------------------
(* Reader. *)

DecodeHeader(h) ==
    IF h[1].field # "magic" THEN "ErrBadMagic"
    ELSE IF h[2].val > MaxPayloadSize THEN "ErrRecordTooLarge"
    ELSE "nil"

Left(p)    == Len(file) - p
Header(p)  == SubSeq(file, p + 1, p + HeaderSize)
Length(p)  == Header(p)[2].val
Payload(p) == SubSeq(file, p + HeaderSize + 1, p + HeaderSize + Length(p))

(* Mutant: only the presence of a checksum is looked at.                   *)
ValidatePayloadLax(p) == Header(p)[3].field = "checksum"

(* CRC-32C, taken to be perfect: the payload is the one it was made from.  *)
ValidatePayload(p) ==
    LET sum == Header(p)[3] IN
    sum.field = "checksum" /\ Payload(p) = PayloadOf(sum.rec, sum.val)

(* What Next finds at offset p.                                            *)
NextAt(p) ==
    IF Left(p) = 0 THEN "EOF"
    ELSE IF Left(p) < HeaderSize THEN "ErrTruncated"
    ELSE IF DecodeHeader(Header(p)) # "nil" THEN DecodeHeader(Header(p))
    ELSE IF Left(p) < HeaderSize + Length(p) THEN "ErrTruncated"
    ELSE IF ValidatePayload(p) THEN "record" ELSE "ErrChecksum"

NewReader ==
    /\ mode \in {"down", "refused"}
    /\ mode' = "replay" /\ pos' = 0 /\ replayed' = <<>>
    /\ UNCHANGED <<file, buf, synced, log, acked, damage, crashes, appended>>

(* Mutant: the position counts the header twice.                           *)
PosAfterTwice == pos + HeaderSize + HeaderSize + Length(pos)

PosAfter == pos + HeaderSize + Length(pos)

ReplayRecord ==
    /\ mode = "replay" /\ NextAt(pos) = "record"
    /\ replayed' = Append(replayed, Payload(pos))
    /\ pos' = PosAfter
    /\ UNCHANGED <<file, buf, synced, mode, log, acked, damage, crashes, appended>>

(* Mutant: the torn tail stays in the file.                                *)
TailTrimmedNot == file

(* os.Truncate at ValidOffset.                                             *)
TailTrimmed == SubSeq(file, 1, pos)

(* The end of the log, or a torn tail that is trimmed; the writer then     *)
(* appends behind it.                                                      *)
ReplayEnd ==
    /\ mode = "replay"
    /\ \/ NextAt(pos) = "EOF" /\ UNCHANGED file
       \/ NextAt(pos) = "ErrTruncated" /\ file' = TailTrimmed
    /\ synced' = IF synced > pos THEN pos ELSE synced
    /\ mode' = "open"
    /\ log' = replayed
    /\ UNCHANGED <<buf, readerVars, acked, damage, crashes, appended>>

(* Anything else fails Open.                                               *)
ReplayFails ==
    /\ mode = "replay" /\ NextAt(pos) \notin {"EOF", "ErrTruncated", "record"}
    /\ mode' = "refused"
    /\ UNCHANGED <<file, buf, synced, readerVars, log, acked, damage, crashes, appended>>

-----------------------------------------------------------------------------

Next ==
    \/ \E n \in PayloadSizes : WalAppend(n)
    \/ Sync \/ FlushFails \/ Close
    \/ Kill \/ PowerLoss
    \/ \E i \in 1..Len(file) : Corrupt(i)
    \/ NewReader \/ ReplayRecord \/ ReplayEnd \/ ReplayFails

Spec == Init /\ [][Next]_vars

-----------------------------------------------------------------------------
(* PROPERTIES *)

(* Every variable has its type; the valid offset and the durable prefix    *)
(* lie within the file.                                                    *)
TypeOK ==
    /\ mode \in {"down", "replay", "open", "broken", "refused"}
    /\ synced \in 0..Len(file)
    /\ mode \in {"replay", "open"} => pos \in 0..Len(file)
    /\ appended \in 0..MaxRecords /\ crashes \in 0..MaxCrashes
    /\ damage \in {"none", "magic", "length", "checksum", "payload"}

(* After any number of crashes that cut the log at any cell, the log that  *)
(* Open continues holds every record whose Sync succeeded, in order.  A    *)
(* changed length is the one corruption that can take some away: it is     *)
(* not covered by the checksum, and a record that seems to reach beyond    *)
(* the end of the file passes for a torn tail.                             *)
AckedSurvive == mode = "open" /\ damage # "length" => IsPrefix(acked, log)

(* A crash never passes for corruption, however often the log was torn,    *)
(* trimmed and continued before: without damage Open is never refused.     *)
TornNotCorrupt == damage = "none" => mode # "refused"

(* Replay yields payloads that were appended, unchanged, in their order    *)
(* and without a gap, whatever cell was damaged, a length included; and a  *)
(* damaged cell other than a length is never behind an Open that succeeded.*)
ReplaysPrefix ==
    /\ mode = "replay" => IsPrefix(replayed, log)
    /\ mode = "open" => \A i \in 1..Len(file) : file[i].field # "bad"

=============================================================================
