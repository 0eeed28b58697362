---------------------------- MODULE VersionEdits ----------------------------
(***************************************************************************)
(* internal/manifest/edit.go and version.go: the changes to the set of     *)
(* SSTables, their encoding, and the Version they add up to.               *)
(*                                                                         *)
(* An encoded edit is a sequence of naturals, one for each tag and field,  *)
(* so that a misplaced field is read as another.  A user key is a natural  *)
(* that is also its length: a key of n equal bytes, for which the order of *)
(* bytes.Compare is that of n.                                             *)
(***************************************************************************)
EXTENDS Naturals, Sequences, SequencesExt

CONSTANT MaxField     \* maxLengthPrefixedField

ASSUME MaxFieldAssumption == MaxField \in Nat

tagAddFile      == 1
tagDeleteFile   == 2
tagNextFileID   == 3
tagLastSequence == 4
tagLogNumber    == 5

KindPut    == 1
KindDelete == 2
KeyTrailer == 9       \* bytes of sequence number and kind behind a user key

InternalKey(u, s, kind) == [user |-> u, seq |-> s, kind |-> kind]

(* A counter is <<>> or, if its Has flag is set, <<value>>.                *)
VersionEdit(next, last, log, deleted, added) ==
    [next |-> next, last |-> last, log |-> log, deleted |-> deleted,
     added |-> added]
EmptyEdit == VersionEdit(<<>>, <<>>, <<>>, <<>>, <<>>)

-----------------------------------------------------------------------------
(* Encode *)

KeyLen(k) == k.user + KeyTrailer

EncodeCounter(tag, c) == IF c = <<>> THEN <<>> ELSE <<tag>> \o c
EncodeDeleted(d)      == <<tagDeleteFile, d.level, d.id>>
EncodeKey(k)          == <<KeyLen(k), k.user, k.seq, k.kind>>
EncodeAdded(f) ==
    <<tagAddFile, f.level, f.id, f.size>> \o EncodeKey(f.smallest)
                                          \o EncodeKey(f.largest)

(* Counters first, then deletions, then additions, in input order.         *)
Encode(e) ==
    EncodeCounter(tagNextFileID, e.next)
      \o EncodeCounter(tagLastSequence, e.last)
      \o EncodeCounter(tagLogNumber, e.log)
      \o FoldLeft(LAMBDA buf, d : buf \o EncodeDeleted(d), <<>>, e.deleted)
      \o FoldLeft(LAMBDA buf, f : buf \o EncodeAdded(f), <<>>, e.added)

-----------------------------------------------------------------------------
(* DecodeVersionEdit, with r.pos fields read and r.edit collected.         *)

Decoding(pos, edit) == [pos |-> pos, edit |-> edit, err |-> "nil"]
Failed(err)         == [pos |-> 0, edit |-> EmptyEdit, err |-> err]

(* Mutant: a field of exactly the maximal size is refused.                 *)
TooLargeOffByOne(n) == n >= MaxField

TooLarge(n) == n > MaxField

(* readLengthPrefixedBytes behind p fields: its error.                     *)
ReadKeyError(data, p) ==
    IF p >= Len(data) THEN "ErrTruncatedEdit"
    ELSE IF TooLarge(data[p + 1]) THEN "ErrEditFieldTooLarge"
    ELSE IF p + 4 > Len(data) THEN "ErrTruncatedEdit"
    ELSE "nil"

(* keys.DecodeInternalKey on what was read there.                          *)
KeyValid(data, p)  == data[p + 1] >= KeyTrailer /\ data[p + 4] \in {KindPut, KindDelete}
KeyDecoded(data, p) == InternalKey(data[p + 2], data[p + 3], data[p + 4])

DecodeAddedFile(data, r) ==
    LET p == r.pos + 1 IN
    IF p + 3 > Len(data) THEN Failed("ErrTruncatedEdit")
    ELSE IF ReadKeyError(data, p + 3) # "nil" THEN Failed(ReadKeyError(data, p + 3))
    ELSE IF ReadKeyError(data, p + 7) # "nil" THEN Failed(ReadKeyError(data, p + 7))
    ELSE IF ~KeyValid(data, p + 3) \/ ~KeyValid(data, p + 7)
    THEN Failed("ErrCorruptInternalKey")
    ELSE Decoding(p + 11, [r.edit EXCEPT !.added = Append(@,
           [level |-> data[p + 1], id |-> data[p + 2], size |-> data[p + 3],
            smallest |-> KeyDecoded(data, p + 3), largest |-> KeyDecoded(data, p + 7)])])

DecodeDeletedFile(data, r) ==
    LET p == r.pos + 1 IN
    IF p + 2 > Len(data) THEN Failed("ErrTruncatedEdit")
    ELSE Decoding(p + 2, [r.edit EXCEPT !.deleted =
                            Append(@, [level |-> data[p + 1], id |-> data[p + 2]])])

(* decodeTag, or nothing at the end of the data or after an error.         *)
DecodeTag(data, r) ==
    IF r.err # "nil" \/ r.pos = Len(data) THEN r
    ELSE LET tag == data[r.pos + 1]
             p   == r.pos + 1
         IN
         IF tag = tagAddFile THEN DecodeAddedFile(data, r)
         ELSE IF tag = tagDeleteFile THEN DecodeDeletedFile(data, r)
         ELSE IF tag \notin {tagNextFileID, tagLastSequence, tagLogNumber}
         THEN Failed("ErrUnknownTag")
         ELSE IF p + 1 > Len(data) THEN Failed("ErrTruncatedEdit")
         ELSE LET value == <<data[p + 1]>> IN
              Decoding(p + 1,
                CASE tag = tagNextFileID   -> [r.edit EXCEPT !.next = value]
                  [] tag = tagLastSequence -> [r.edit EXCEPT !.last = value]
                  [] tag = tagLogNumber    -> [r.edit EXCEPT !.log = value])

DecodeVersionEdit(data) ==
    LET after[i \in 0..Len(data)] ==
          IF i = 0 THEN Decoding(0, EmptyEdit) ELSE DecodeTag(data, after[i - 1])
    IN after[Len(data)]

-----------------------------------------------------------------------------
(* Version: version[l + 1] is the sequence of files at level l.            *)

NewVersion == <<>>

(* InternalKey.Compare < 0.                                                *)
KeyLess(a, b) == a.user < b.user \/ (a.user = b.user /\ a.seq > b.seq)

(* An order of the files without a descent.                                *)
SortFiles(files) ==
    LET Sorts(p) == \A i, j \in DOMAIN files :
                      i < j => ~KeyLess(files[p[j]].smallest, files[p[i]].smallest)
        perm == CHOOSE p \in Bijection(DOMAIN files, DOMAIN files) : Sorts(p)
    IN  [i \in DOMAIN files |-> files[perm[i]]]

(* A deletion of what is not there changes nothing.                        *)
DeleteFile(v, d) ==
    IF d.level >= Len(v) THEN v
    ELSE [v EXCEPT ![d.level + 1] = RemoveFirstMatch(@, LAMBDA f : f.id = d.id)]

Grown(v, n) == [i \in 1..(IF n > Len(v) THEN n ELSE Len(v)) |->
                  IF i <= Len(v) THEN v[i] ELSE <<>>]

AddFile(v, f) ==
    [Grown(v, f.level + 1) EXCEPT ![f.level + 1] = Append(@, f)]

TouchedLevels(e) ==
    {e.deleted[i].level : i \in DOMAIN e.deleted}
      \cup {e.added[i].level : i \in DOMAIN e.added}

(* Mutant: files stay in the order of their addition.                      *)
ApplyUnsorted(v, e) == FoldLeft(AddFile, FoldLeft(DeleteFile, v, e.deleted), e.added)

(* Apply: deletions, additions, then a sort of the touched levels but L0.  *)
Apply(v, e) ==
    LET w == FoldLeft(AddFile, FoldLeft(DeleteFile, v, e.deleted), e.added) IN
    [i \in DOMAIN w |-> IF i > 1 /\ i - 1 \in TouchedLevels(e)
                        THEN SortFiles(w[i]) ELSE w[i]]

AllFiles(v) == FlattenSeq(v)

=============================================================================
