------------------------------ MODULE SSTable ------------------------------
(***************************************************************************)
(* One SSTable (internal/sstable): the writer that cuts a sorted stream of *)
(* entries into blocks and indexes them, the reader's Get, and the         *)
(* two-level iterator.  A block is the sequence of its entries; an index   *)
(* entry is the last key of the block it points to.                        *)
(***************************************************************************)
EXTENDS InternalKeys, Sequences

CONSTANTS
    Overhead,         \* encoded size of an entry without its value
    TargetBlockSize   \* targetBlockSize

ASSUME SizesAssumption == Overhead \in Nat /\ TargetBlockSize \in Nat \ {0}

NoKey == [kind |-> "none"]

VARIABLES
    \* the file and its writer
    blocks,    \* data blocks in the file
    index,     \* w.indexEntries, later the index block
    current,   \* w.currentBlock
    lastKey,   \* w.lastKey, NoKey while w.hasEntries is false
    footer,    \* [blocks, entries] once Close has written it
    entryCount,
    \* the reader and one iterator
    readerOpen,
    it         \* [open, block, idx, valid, err]; block is also the loaded one

fileVars   == <<blocks, index, current, lastKey, footer, entryCount>>
readVars   == <<readerOpen, it>>
sstVars    == <<fileVars, readVars>>

NoFooter == [blocks |-> 0, entries |-> 0, written |-> FALSE]
Fresh    == [open |-> TRUE, block |-> 0, idx |-> 0, valid |-> FALSE, err |-> "nil"]
NoIter   == [Fresh EXCEPT !.open = FALSE, !.err = "ErrIteratorClosed"]

-----------------------------------------------------------------------------
(* Writer. *)

SSTInit ==
    /\ blocks = <<>> /\ index = <<>> /\ current = <<>>
    /\ lastKey = NoKey /\ footer = NoFooter /\ entryCount = 0
    /\ readerOpen = FALSE /\ it = NoIter

EncodedEntrySize(e) == Overhead + e.len

BlockSize(b) ==
    LET size[i \in 0..Len(b)] ==
          IF i = 0 THEN 0 ELSE size[i - 1] + EncodedEntrySize(b[i])
    IN size[Len(b)]

(* Add refuses what is not strictly above the last key.                    *)
InOrder(e) == lastKey # NoKey => Less(lastKey, e)

(* Mutant: the entry that does not fit any more is still added.            *)
OverflowsLate(e) ==
    current # <<>> /\ BlockSize(current) >= TargetBlockSize

(* The entry would overflow a block that has others.                       *)
Overflows(e) ==
    current # <<>> /\ BlockSize(current) + EncodedEntrySize(e) > TargetBlockSize

FlushCurrentBlock ==
    /\ blocks' = Append(blocks, current)
    /\ index' = Append(index, current[Len(current)])

SSTAdd(e) ==
    /\ InOrder(e)
    /\ \/ /\ Overflows(e)
          /\ FlushCurrentBlock
          /\ current' = <<e>>
       \/ /\ ~Overflows(e)
          /\ current' = Append(current, e)
          /\ UNCHANGED <<blocks, index>>
    /\ lastKey' = e
    /\ entryCount' = entryCount + 1
    /\ UNCHANGED <<footer, readVars>>

(* Close flushes the last partial block and writes index and footer.       *)
SSTClose ==
    /\ \/ current # <<>> /\ FlushCurrentBlock
       \/ current = <<>> /\ UNCHANGED <<blocks, index>>
    /\ current' = <<>>
    /\ footer' = [blocks |-> Len(blocks'), entries |-> entryCount, written |-> TRUE]
    /\ UNCHANGED <<lastKey, entryCount>>

-----------------------------------------------------------------------------
(* Reader. *)

(* OpenReader reads footer and index back.                                 *)
SSTOpenReader == readerOpen' = TRUE /\ UNCHANGED it

(* seekBlock: the first block whose last key is not below the synthetic    *)
(* maximal version of k; one past the last when there is none.             *)
SeekBlock(k) ==
    LET from == [key |-> k, seq |-> MaxSeqno]
        cand == {i \in 1..Len(index) : ~Less(index[i], from)}
    IN  IF cand = {} THEN Len(index) + 1
        ELSE CHOOSE i \in cand : \A j \in cand : i <= j

NoValue == [kind |-> "nil"]
CorruptBlock == [kind |-> "ErrCorruptBlock"]

(* Mutant: an empty value comes back as nil.                               *)
CloneValueDropsEmpty(e) == IF e.len = 0 THEN NoValue ELSE e

(* slices.Clone of a slice of the block: never nil, also when it is empty. *)
CloneValue(e) == e

(* scanBlock: the first entry of k at or before s, which is the newest.    *)
ScanBlock(b, k, s) ==
    LET hits == {i \in 1..Len(b) : b[i].key = k /\ b[i].seq <= s}
        hit  == b[CHOOSE i \in hits : \A j \in hits : i <= j]
    IN  IF hits = {}
        THEN [found |-> \E i \in 1..Len(b) : b[i].key = k, val |-> NoValue]
        ELSE [found |-> TRUE,
              val   |-> IF hit.kind = "delete" THEN Deleted ELSE CloneValue(hit)]

(* Get goes on to the next block while k is there but not visible yet.     *)
SSTGet(k, s) ==
    LET n == Len(index)
        get[i \in 1..(n + 1)] ==
          IF i = n + 1 THEN NotFound
          ELSE IF ~readerOpen THEN CorruptBlock
          ELSE LET r == ScanBlock(blocks[i], k, s) IN
               IF ~r.found THEN NotFound
               ELSE IF r.val # NoValue THEN r.val ELSE get[i + 1]
    IN  get[SeekBlock(k)]

-----------------------------------------------------------------------------
(* Iterator.  Loading a block may fail, and does so once the reader is     *)
(* closed: the load takes no lock, and a Close at the same time makes it   *)
(* read through a nil or a closed file, which is ErrCorruptBlock too.      *)

At(i, j)   == [it EXCEPT !.block = i, !.idx = j, !.valid = TRUE, !.err = "nil"]
Exhausted  == [it EXCEPT !.valid = FALSE, !.err = "nil"]
LoadFailed(b) == [it EXCEPT !.block = b, !.valid = FALSE, !.err = "ErrCorruptBlock"]

SSTNewIterator ==
    /\ it' = Fresh
    /\ UNCHANGED <<fileVars, readerOpen>>

SSTSeekToFirst ==
    /\ it.open
    /\ \/ index = <<>> /\ it' = Exhausted
       \/ index # <<>> /\ readerOpen /\ it' = At(1, 1)
       \/ index # <<>> /\ it' = LoadFailed(1)
    /\ UNCHANGED <<fileVars, readerOpen>>

(* The places at or behind block "from" whose user key is not below k.     *)
Places(from, k) ==
    {p \in (from..Len(index)) \X (1..MaxPuts) :
       p[2] <= Len(blocks[p[1]]) /\ blocks[p[1]][p[2]].key >= k}

FirstPlace(P) ==
    CHOOSE p \in P : \A q \in P : p[1] < q[1] \/ (p[1] = q[1] /\ p[2] <= q[2])

SSTSeek(k) ==
    LET from == SeekBlock(k) IN
    /\ it.open
    /\ \/ Places(from, k) = {} /\ it' = Exhausted
       \/ /\ Places(from, k) # {} /\ readerOpen
          /\ LET p == FirstPlace(Places(from, k)) IN it' = At(p[1], p[2])
       \/ from <= Len(index) /\ it' = LoadFailed(it.block)
    /\ UNCHANGED <<fileVars, readerOpen>>

(* Mutant: the position within the block is not reset.                     *)
NextBlockKeepsIdx ==
    LET b == it.block + 1 IN
    \/ b > Len(index) /\ it' = [it EXCEPT !.block = b, !.valid = FALSE]
    \/ /\ b <= Len(index) /\ readerOpen
       /\ it' = [it EXCEPT !.block = b, !.valid = it.idx <= Len(blocks[b])]
    \/ b <= Len(index) /\ it' = LoadFailed(b)

(* The current block is exhausted: on to the first entry of the next one.  *)
NextBlock ==
    LET b == it.block + 1 IN
    \/ b > Len(index) /\ it' = [it EXCEPT !.block = b, !.idx = 1, !.valid = FALSE]
    \/ b <= Len(index) /\ readerOpen /\ it' = [it EXCEPT !.block = b, !.idx = 1]
    \/ b <= Len(index) /\ it' = LoadFailed(b)

SSTNext ==
    /\ it.open /\ it.valid
    /\ \/ it.idx < Len(blocks[it.block]) /\ it' = [it EXCEPT !.idx = @ + 1]
       \/ it.idx = Len(blocks[it.block]) /\ NextBlock
    /\ UNCHANGED <<fileVars, readerOpen>>

SSTIterClose ==
    /\ it.open
    /\ it' = NoIter
    /\ UNCHANGED <<fileVars, readerOpen>>

SSTReaderClose ==
    /\ readerOpen
    /\ readerOpen' = FALSE
    /\ UNCHANGED <<fileVars, it>>

=============================================================================
