------------------------------ MODULE KVStore ------------------------------
(***************************************************************************)
(* What an engine.DB with SyncOnWrite promises its clients across          *)
(* restarts: batches apply whole and in order, an acknowledged batch is    *)
(* never lost, and a restart recovers the outcome of exactly the batches   *)
(* that survived.                                                          *)
(***************************************************************************)
EXTENDS Naturals, Sequences

CONSTANTS Keys, Batches, SyncOnWrite

VARIABLES
    batches,   \* every batch handed to Write, in order
    survivors, \* those a restart would recover
    acked,     \* those whose Write returned nil
    up,        \* the DB is open
    kv         \* for each key the operation {<<id, i>>} that wrote its value

vars == <<batches, survivors, acked, up, kv>>

-----------------------------------------------------------------------------
(* The operations of the batches in S on key k, as pairs <<batch, index>>. *)
OpsOn(S, k) ==
    {x \in UNION {{<<id, i>> : i \in 1..Len(batches[id])} : id \in S} :
       batches[x[1]][x[2]].key = k}

(* The last of them.                                                       *)
LastOp(ops) ==
    CHOOSE x \in ops : \A y \in ops :
      x[1] > y[1] \/ (x[1] = y[1] /\ x[2] >= y[2])

(* The value of k once the batches in S have been applied in order.        *)
View(S, k) ==
    LET ops == OpsOn(S, k) IN
    IF ops = {} THEN {}
    ELSE LET last == LastOp(ops) IN
         IF batches[last[1]][last[2]].del THEN {} ELSE {last}

Nothing == [k \in Keys |-> {}]

-----------------------------------------------------------------------------
Init ==
    /\ batches = <<>> /\ survivors = {} /\ acked = {}
    /\ up = FALSE
    /\ kv = Nothing

(* What may be left of the set S of batches: with SyncOnWrite, at least    *)
(* the acknowledged ones.                                                  *)
Remains(S) == {T \in SUBSET S : SyncOnWrite => acked \subseteq T}

(* The value of each key after one more batch b, written as batch id.      *)
Updated(b, id) ==
    [k \in Keys |->
       LET on == {i \in 1..Len(b) : b[i].key = k} IN
       IF on = {} THEN kv[k]
       ELSE LET i == CHOOSE i \in on : \A j \in on : j <= i IN
            IF b[i].del THEN {} ELSE {<<id, i>>}]

(* A batch is handed to Write.                                             *)
Issue(b) ==
    /\ up
    /\ batches' = Append(batches, b)
    /\ survivors' = survivors \cup {Len(batches) + 1}
    /\ UNCHANGED <<acked, up, kv>>

(* It takes effect as a whole; its Write returns nil now or has to wait.   *)
Apply ==
    LET id == Len(batches) IN
    /\ up /\ id \in survivors
    /\ acked' \in {acked, acked \cup {id}}
    /\ kv' = Updated(batches[id], id)
    /\ UNCHANGED <<batches, survivors, up>>

(* A Write that fails may take earlier unacknowledged batches with it.     *)
Fail ==
    /\ up
    /\ survivors' \in Remains(survivors)
    /\ UNCHANGED <<batches, acked, up, kv>>

(* A waiting Write returns nil.                                            *)
Acknowledge ==
    /\ up
    /\ \E id \in survivors : acked' = acked \cup {id}
    /\ UNCHANGED <<batches, survivors, up, kv>>

(* The DB is closed, or dies, or loses power.                              *)
GoDown ==
    /\ up' = FALSE
    /\ survivors' \in Remains(survivors)
    /\ kv' = Nothing
    /\ UNCHANGED <<batches, acked>>

Recover ==
    /\ ~up /\ up' = TRUE
    /\ kv' = [k \in Keys |-> View(survivors, k)]
    /\ UNCHANGED <<batches, survivors, acked>>

Next ==
    \/ \E b \in Batches : Issue(b)
    \/ Apply \/ Fail \/ Acknowledge \/ GoDown \/ Recover

Spec == Init /\ [][Next]_vars

=============================================================================
