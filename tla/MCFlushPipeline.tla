-------------------------- MODULE MCFlushPipeline --------------------------
(* FlushPipeline on small instances. *)
EXTENDS FlushPipeline, TLC

(* Caller goroutines are interchangeable: sound for the safety runs. *)
ThreadSymmetry == Permutations(Threads)

=============================================================================
