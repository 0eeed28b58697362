------------------------------ MODULE MCEngine ------------------------------
(* Engine on small instances. *)
EXTENDS Engine, TLC

CONSTANTS a, b

Put(k) == [key |-> k, del |-> FALSE]
Del(k) == [key |-> k, del |-> TRUE]

TwoKeys == {a, b}

(* A batch over both keys, and one that deletes a key and writes it again. *)
PairAndDelete == {<<Put(a), Put(b)>>, <<Del(a)>>}

=============================================================================
