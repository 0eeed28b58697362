------------------------------- MODULE Batch -------------------------------
(***************************************************************************)
(* engine/batch.go: the payload of a WAL record.  An operation is a record *)
(* [type, key, value]; a payload is the sequence of its fields: version,   *)
(* reserved, count, and then type, key and, for a Put, value of each       *)
(* operation.  A length prefix and the bytes it announces are one field.   *)
(* Fields are naturals, so that a misplaced one is read as another.        *)
(***************************************************************************)
EXTENDS Naturals, Sequences, SequencesExt

OpTypePut    == 1
OpTypeDelete == 2

EncodingVersion == 1
HeaderFields    == 3    \* version, reserved, count

NoValue == 0            \* the value of a Delete, which is not encoded

PutOp(k, v) == [type |-> OpTypePut, key |-> k, value |-> v]
DeleteOp(k) == [type |-> OpTypeDelete, key |-> k, value |-> NoValue]

(* A Batch is the sequence of its operations; Put and Delete append to it. *)
NewBatch            == <<>>
BatchPut(b, k, v)   == Append(b, PutOp(k, v))
BatchDelete(b, k)   == Append(b, DeleteOp(k))

-----------------------------------------------------------------------------
EncodeOp(op) ==
    IF op.type = OpTypePut THEN <<op.type, op.key, op.value>>
                           ELSE <<op.type, op.key>>

EncodeOperations(ops) ==
    <<EncodingVersion, 0, Len(ops)>>
      \o FoldLeft(LAMBDA data, op : data \o EncodeOp(op), <<>>, ops)

-----------------------------------------------------------------------------
(* The state of a decoder: the fields read, the operations, the error.     *)
Reading(pos, ops) == [pos |-> pos, ops |-> ops, err |-> "nil"]
Failing(err)      == [pos |-> 0, ops |-> <<>>, err |-> err]

(* decodeOperation, with r.pos fields consumed.                            *)
DecodeOperation(data, r) ==
    IF r.err # "nil" THEN r
    ELSE IF r.pos = Len(data) THEN Failing("ErrCorruptBatch")
    ELSE LET type  == data[r.pos + 1]
             isPut == type = OpTypePut
             end   == r.pos + (IF isPut THEN 3 ELSE 2) IN
         IF type \notin {OpTypePut, OpTypeDelete} THEN Failing("ErrUnknownOpType")
         ELSE IF end > Len(data) THEN Failing("ErrTruncatedBatch")
         ELSE Reading(end, IF isPut THEN BatchPut(r.ops, data[end - 1], data[end])
                                    ELSE BatchDelete(r.ops, data[end]))

(* The decoder after n operations.                                         *)
DecodeOperations(data, n) ==
    LET after[i \in 0..n] ==
          IF i = 0 THEN Reading(HeaderFields, <<>>)
                   ELSE DecodeOperation(data, after[i - 1])
    IN after[n]

(* What the header says: "nil", or the error that DecodeBatch returns.     *)
HeaderError(data) ==
    IF data = <<>> THEN "ErrCorruptBatch"
    ELSE IF data[1] # EncodingVersion THEN "ErrBadVersion"
    ELSE IF Len(data) < HeaderFields \/ data[2] # 0 THEN "ErrCorruptBatch"
    ELSE "nil"

(* Mutant: bytes behind the last operation are ignored.                    *)
DecodeBatchLax(data) ==
    IF HeaderError(data) # "nil" THEN Failing(HeaderError(data))
    ELSE DecodeOperations(data, data[3])

DecodeBatch(data) ==
    IF HeaderError(data) # "nil" THEN Failing(HeaderError(data))
    ELSE LET r == DecodeOperations(data, data[3]) IN
         IF r.err = "nil" /\ r.pos # Len(data) THEN Failing("ErrCorruptBatch")
         ELSE r

=============================================================================
