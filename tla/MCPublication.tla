---------------------------- MODULE MCPublication ----------------------------
(* Model values for TLC: two workers over one batch of data with two       *)
(* faults, and one worker over two with three.                             *)
EXTENDS Publication
CONSTANTS w1, w2
BothSetups == {[crew |-> {w1, w2}, batches |-> 1, faults |-> 2],
               [crew |-> {w1}, batches |-> 2, faults |-> 3]}
=============================================================================
