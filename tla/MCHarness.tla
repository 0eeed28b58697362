----------------------------- MODULE MCHarness -----------------------------
(* Workloads for TLC: two keys, every kind of operation, values that name  *)
(* the item which wrote them, or the empty one.                            *)
EXTENDS Harness

Put(k, v) == <<PutOp(k, v)>>
Del(k)    == <<DeleteOp(k)>>

TwoKeys == {1, 2}

MixedWorkloads ==
    { <<Put(1, 1), Put(1, 2)>>,
      <<Put(1, 0), Del(1), Put(2, 3)>>,
      <<<<PutOp(1, 1), PutOp(2, 2)>>, <<DeleteOp(1), PutOp(2, 3)>>>> }

=============================================================================
