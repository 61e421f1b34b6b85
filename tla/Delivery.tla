------------------------------- MODULE Delivery -------------------------------
(***************************************************************************)
(* What "Exactly-Once" promises (frun.bash, --resume): the durable output, *)
(* the part a user keeps when a run fails, only grows, by the output of    *)
(* stretches of input that are not in it yet, and when the pipeline is     *)
(* done every wanted byte of the input is in it once.                      *)
(***************************************************************************)
EXTENDS Naturals

CONSTANT Input        \* the bytes of the input: a set of numbers

VARIABLES wanted,     \* the bytes the user asked for: all, or those of -n lines
          copies,     \* byte -> times it is in the durable output
          closed      \* the pipeline has reported success

Init == wanted \subseteq Input /\ copies = [b \in Input |-> 0] /\ closed = FALSE

Added == {b \in Input : copies'[b] # copies[b]}

Deliver ==
  /\ Added # {} /\ ~closed
  /\ \A b \in Added : copies[b] = 0 /\ copies'[b] = 1
  /\ \A b, c \in Added : \A d \in Input : b <= d /\ d <= c => d \in Added
  /\ UNCHANGED <<wanted, closed>>

Close ==
  /\ closed' /\ ~closed
  /\ wanted = {b \in Input : copies[b] = 1}
  /\ UNCHANGED <<wanted, copies>>

Next == Deliver \/ Close

Spec == Init /\ [][Next]_<<copies, closed>>
=============================================================================
