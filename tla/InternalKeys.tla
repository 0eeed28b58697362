---------------------------- MODULE InternalKeys ----------------------------
(***************************************************************************)
(* The entries that memtables and SSTables hold, in the order of           *)
(* keys.InternalKey.Compare (internal/keys/keys.go).                       *)
(***************************************************************************)
EXTENDS Naturals

CONSTANTS
    UserKeys,   \* a set of naturals: user keys and their order
    Lengths,    \* lengths a value may have
    MaxPuts     \* bound on the entries, and on the sequence numbers

ASSUME KeysAssumption ==
    UserKeys \subseteq Nat /\ Lengths \subseteq Nat /\ MaxPuts \in Nat

Seqnos    == 1..MaxPuts
MaxSeqno  == MaxPuts + 1        \* stands for math.MaxUint64

(* A sequence number names one value, so an entry keeps only its length.   *)
Entry == [key : UserKeys, seq : Seqnos, kind : {"put"}, len : Lengths]
           \cup [key : UserKeys, seq : Seqnos, kind : {"delete"}, len : {0}]

(* Compare(a, b) < 0: user keys ascend, versions of a key descend.         *)
Less(a, b) == a.key < b.key \/ (a.key = b.key /\ a.seq > b.seq)

(* What a lookup answers: the entry whose value it returns, or one of      *)
Deleted  == [kind |-> "ErrKeyDeleted"]
NotFound == [kind |-> "ErrKeyNotFound"]

-----------------------------------------------------------------------------
(* The reference: the newest version of k at or before s in a set of       *)
(* entries, whatever structure holds them.                                 *)
Visible(S, k, s) == {e \in S : e.key = k /\ e.seq <= s}

Lookup(S, k, s) ==
    IF Visible(S, k, s) = {} THEN NotFound
    ELSE LET newest == CHOOSE e \in Visible(S, k, s) :
                         \A f \in Visible(S, k, s) : f.seq <= e.seq IN
         IF newest.kind = "delete" THEN Deleted ELSE newest

=============================================================================
