------------------------------ MODULE SkipList ------------------------------
(***************************************************************************)
(* The memtable (internal/memtable/skiplist.go): a skip list of entries    *)
(* and an iterator over it.  A node is known by its entry; next[l] has a   *)
(* pointer for the head and for every node of height l or more.            *)
(***************************************************************************)
EXTENDS InternalKeys, FiniteSets

CONSTANT MaxLevel   \* maxLevel

ASSUME LevelAssumption == MaxLevel \in Nat \ {0}

Levels   == 1..MaxLevel
ListHead == [kind |-> "head"]
NoNode   == [kind |-> "nil"]

VARIABLES
    next,     \* forward pointers by level
    level,    \* the highest level in use
    length,   \* the number of entries
    cursor,   \* the node of the iterator, NoNode when it is not valid
    locked    \* the iterator holds the read lock

listVars == <<next, level, length>>
iterVars == <<cursor, locked>>
memVars  == <<listVars, iterVars>>

InMemtable == DOMAIN next[1] \ {ListHead}

-----------------------------------------------------------------------------
(* The rightmost node at level l, from node "from" on, below key.          *)
WalkRight(l, from, key) ==
    LET walk[n \in DOMAIN next[l]] ==
          IF next[l][n] # NoNode /\ Less(next[l][n], key)
          THEN walk[next[l][n]] ELSE n
    IN walk[from]

(* The search goes down level by level and never back to the left.         *)
FindPredecessors(key) ==
    LET preds[l \in Levels] ==
          WalkRight(l, IF l = MaxLevel THEN ListHead ELSE preds[l + 1], key)
    IN [l \in Levels |-> preds[l]]

MemInit ==
    /\ next = [l \in Levels |-> [n \in {ListHead} |-> NoNode]]
    /\ level = 1
    /\ length = 0
    /\ cursor = NoNode
    /\ locked = FALSE

(* Mutants: sl.level stays, or grows with every node.                      *)
RaisedLevelNever(h) == level
RaisedLevelAlways(h) == level + 1

(* sl.level grows to the height of the tallest node.                       *)
RaisedLevel(h) == IF h > level THEN h ELSE level

(* Put of entry e as a node of height h, which randomLevel has chosen; the *)
(* levels that were not in use yet have the head as predecessor.           *)
MemPut(e, h) ==
    LET found == FindPredecessors(e)
        preds == [l \in Levels |-> IF l > level THEN ListHead ELSE found[l]]
    IN
    /\ ~locked
    /\ next' = [l \in Levels |->
         IF l > h THEN next[l]
         ELSE [n \in DOMAIN next[l] \cup {e} |->
                 CASE n = e        -> next[l][preds[l]]
                   [] n = preds[l] -> e
                   [] OTHER        -> next[l][n]]]
    /\ level' = RaisedLevel(h)
    /\ length' = length + 1
    /\ UNCHANGED iterVars

(* Get of user key k at sequence number s.                                 *)
MemGet(k, s) ==
    LET pred == FindPredecessors([key |-> k, seq |-> s])[1]
        node == next[1][pred]
    IN  IF node = NoNode THEN NotFound
        ELSE IF node.key # k \/ node.seq > s THEN NotFound
        ELSE IF node.kind = "delete" THEN Deleted
        ELSE node

-----------------------------------------------------------------------------
(* The iterator.  Seek and SeekToFirst take the read lock if it does not   *)
(* hold it yet, Close gives it back.                                       *)

IterSeekToFirst ==
    /\ cursor' = next[1][ListHead]
    /\ locked' = TRUE
    /\ UNCHANGED listVars

(* Seek looks for the synthetic newest version of user key k.              *)
IterSeek(k) ==
    /\ cursor' = next[1][FindPredecessors([key |-> k, seq |-> MaxSeqno])[1]]
    /\ locked' = TRUE
    /\ UNCHANGED listVars

IterNext ==
    /\ cursor' = IF cursor = NoNode THEN NoNode ELSE next[1][cursor]
    /\ UNCHANGED <<listVars, locked>>

IterClose ==
    /\ cursor' = NoNode
    /\ locked' = FALSE
    /\ UNCHANGED listVars

=============================================================================
