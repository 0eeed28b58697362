----------------------------- MODULE FlushPath -----------------------------
(***************************************************************************)
(* A memtable on its way to an SSTable: writeMemtableEntries and           *)
(* writeSSTable (engine/db.go) compose the skip list and the table.  The   *)
(* memtable is filled and scanned, frozen, written entry by entry, and     *)
(* the table is then read through Get and an iterator.                     *)
(***************************************************************************)
EXTENDS SkipList, SSTable

VARIABLES
    phase,      \* "fill", "write", "readable" or "failed"
    smallest,   \* the key range returned by writeMemtableEntries
    largest,
    \* history of the scan going on, by either iterator
    target,     \* first user key it asked for, as a set; empty before any Seek
    seen        \* the entries it has stood on, in that order

scanVars == <<target, seen>>
vars == <<memVars, sstVars, phase, smallest, largest, scanVars>>

FromStart == 0

Init ==
    /\ MemInit /\ SSTInit
    /\ phase = "fill"
    /\ smallest = NoKey /\ largest = NoKey
    /\ target = {} /\ seen = <<>>

(* The iterator starts a scan, moves on, or is closed; "here" is the entry *)
(* it now stands on, as a sequence of length at most one.                  *)
Restart(k, here) == target' = {k} /\ seen' = here
Advance(here)    == seen' = seen \o here /\ UNCHANGED target
Forget           == target' = {} /\ seen' = <<>>

CursorEntry == IF cursor' = NoNode THEN <<>> ELSE <<cursor'>>
TableEntry  == IF it'.valid THEN <<blocks[it'.block][it'.idx]>> ELSE <<>>

-----------------------------------------------------------------------------
(* applyOperations: the next sequence number, as a node of any height.     *)
Put(k, kind, len, h) ==
    /\ phase = "fill" /\ length < MaxPuts
    /\ MemPut([key |-> k, seq |-> length + 1, kind |-> kind, len |-> len], h)
    /\ UNCHANGED <<sstVars, phase, smallest, largest, scanVars>>

(* A client's iterator over the memtable.                                  *)
MemScan ==
    /\ phase = "fill"
    /\ \/ IterSeekToFirst /\ Restart(FromStart, CursorEntry)
       \/ \E k \in UserKeys : IterSeek(k) /\ Restart(k, CursorEntry)
       \/ locked /\ IterNext /\ Advance(CursorEntry)
       \/ locked /\ IterClose /\ Forget
    /\ UNCHANGED <<sstVars, phase, smallest, largest>>

-----------------------------------------------------------------------------
(* The memtable is frozen and writeSSTable runs on it.                     *)
FlushStart ==
    /\ phase = "fill" /\ ~locked
    /\ phase' = "write"
    /\ IterSeekToFirst /\ Restart(FromStart, CursorEntry)
    /\ UNCHANGED <<sstVars, smallest, largest>>

(* Mutant: the smallest key follows the iterator too.                      *)
SmallestLatest == cursor

SmallestKey == IF smallest = NoKey THEN cursor ELSE smallest

WriteEntry ==
    /\ phase = "write" /\ cursor # NoNode
    /\ SSTAdd(cursor)
    /\ smallest' = SmallestKey
    /\ largest' = cursor
    /\ IterNext /\ Advance(CursorEntry)
    /\ UNCHANGED phase

(* The file as os.Remove leaves it.                                        *)
FileRemoved ==
    /\ blocks' = <<>> /\ index' = <<>> /\ current' = <<>> /\ lastKey' = NoKey
    /\ footer' = NoFooter /\ entryCount' = 0
    /\ UNCHANGED readVars

(* Creating the file, Add, or Close fails, or the memtable was empty       *)
(* (ErrFlushEmptyMemtable).                                                *)
WriteFails ==
    /\ phase = "write"
    /\ phase' = "failed"
    /\ IterClose /\ Forget
    /\ FileRemoved
    /\ smallest' = NoKey /\ largest' = NoKey

(* Every entry is in: the iterator and the writer are closed, the directory *)
(* is synced and the file opened for reading.                              *)
WriteDone ==
    /\ phase = "write" /\ cursor = NoNode /\ smallest # NoKey
    /\ IterClose /\ Forget
    /\ SSTClose
    /\ \/ phase' = "readable" /\ SSTOpenReader /\ UNCHANGED <<smallest, largest>>
       \/ /\ phase' = "failed" /\ UNCHANGED readVars    \* the file stays behind
          /\ smallest' = NoKey /\ largest' = NoKey

-----------------------------------------------------------------------------
(* Clients of the reader.                                                  *)
TableScan ==
    /\ phase = "readable"
    /\ \/ ~it.open /\ SSTNewIterator /\ Forget
       \/ SSTSeekToFirst /\ Restart(FromStart, TableEntry)
       \/ \E k \in UserKeys : SSTSeek(k) /\ Restart(k, TableEntry)
       \/ SSTNext /\ Advance(TableEntry)
       \/ SSTIterClose /\ Forget
    /\ UNCHANGED <<memVars, phase, smallest, largest>>

ReaderClose ==
    /\ phase = "readable"
    /\ SSTReaderClose
    /\ UNCHANGED <<memVars, phase, smallest, largest, scanVars>>

Next ==
    \/ \E k \in UserKeys, len \in Lengths, h \in Levels : Put(k, "put", len, h)
    \/ \E k \in UserKeys, h \in Levels : Put(k, "delete", 0, h)
    \/ MemScan
    \/ FlushStart \/ WriteEntry \/ WriteFails \/ WriteDone
    \/ TableScan \/ ReaderClose

Spec == Init /\ [][Next]_vars

-----------------------------------------------------------------------------
(* PROPERTIES *)

(* Every variable has its type: towers stay within the list's levels and   *)
(* the iterator within the table.                                          *)
TypeOK ==
    /\ phase \in {"fill", "write", "readable", "failed"}
    /\ InMemtable \subseteq Entry
    /\ \A l \in Levels : \A n \in DOMAIN next[l] :
         next[l][n] \in DOMAIN next[l] \cup {NoNode}
    /\ level \in Levels /\ length \in 0..MaxPuts
    /\ cursor \in InMemtable \cup {NoNode} /\ locked \in BOOLEAN
    /\ readerOpen \in BOOLEAN
    /\ it.block \in 0..(Len(index) + 1)
    /\ it.valid => it.idx \in 1..Len(blocks[it.block])

(* Whatever heights randomLevel chose, the memtable answers every lookup   *)
(* with the newest version at or before the sequence number; and once it   *)
(* has been flushed the table gives the same answers, also when the        *)
(* versions of a key straddle blocks and when the value is empty.          *)
SameAnswers ==
    \A k \in UserKeys, s \in 0..MaxSeqno :
      LET answer == Lookup(InMemtable, k, s) IN
      /\ MemGet(k, s) = answer
      /\ phase = "readable" /\ readerOpen => SSTGet(k, s) = answer

(* The towers: the chain of each level visits, in ascending order, exactly *)
(* the nodes that are high enough, so the search of findPredecessors       *)
(* misses none; and sl.level is the height of the tallest, or 1.           *)
TowersLinked ==
    \A l \in Levels :
      LET nodes == DOMAIN next[l] \ {ListHead}
          after(n) == {m \in nodes : n = ListHead \/ Less(n, m)}
      IN  /\ l > 1 => nodes \subseteq DOMAIN next[l - 1]
          /\ l > 1 => (nodes # {} <=> l <= level)
          /\ \A n \in DOMAIN next[l] :
               IF after(n) = {} THEN next[l][n] = NoNode
               ELSE /\ next[l][n] \in after(n)
                    /\ \A m \in after(n) : ~Less(m, next[l][n])

(* What publishFlushedSSTLocked puts into the manifest, and the footer,    *)
(* describe the memtable: its first and last key, and all its entries.     *)
(* The writer never refuses the memtable's order.                          *)
TableDescribesMemtable ==
    /\ phase = "write" /\ cursor # NoNode => InOrder(cursor)
    /\ phase = "readable" =>
         /\ {smallest, largest} \subseteq InMemtable
         /\ \A e \in InMemtable : ~Less(e, smallest) /\ ~Less(largest, e)
         /\ footer = [blocks |-> Len(blocks), entries |-> Cardinality(InMemtable),
                      written |-> TRUE]

(* A block is over the target size only when it holds one oversized entry, *)
(* and it was closed only because the entry after it did not fit.          *)
BlocksPacked ==
    \A i \in 1..Len(blocks) :
      /\ Len(blocks[i]) > 1 => BlockSize(blocks[i]) <= TargetBlockSize
      /\ i < Len(blocks) =>
           BlockSize(blocks[i]) + EncodedEntrySize(blocks[i + 1][1]) > TargetBlockSize

(* A scan, by the memtable's or the table's iterator, stands on the        *)
(* entries from its target on, in order, without a gap or a repetition; if *)
(* it ends without an error it has stood on all of them.  An iterator that *)
(* loses its file under way reports it, and never passes for exhausted.    *)
ScansComplete ==
    LET wanted == {e \in InMemtable : \E k \in target : e.key >= k}
        stood  == {seen[i] : i \in 1..Len(seen)}
        ended  == \/ locked /\ cursor = NoNode
                  \/ it.open /\ ~it.valid /\ it.err = "nil"
    IN  /\ stood \subseteq wanted
        /\ \A i, j \in 1..Len(seen) : i < j => Less(seen[i], seen[j])
        /\ \A e \in stood, f \in wanted \ stood : Less(e, f)
        /\ ended => stood = wanted

=============================================================================
