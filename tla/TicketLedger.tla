----------------------------- MODULE TicketLedger -----------------------------
(***************************************************************************)
(* What the engine promises about a ticket, whatever runs inside: it is    *)
(* issued once, in order; from then on it is held, queued for a retry,     *)
(* acked or lost, one of them at a time; acked and lost are final.         *)
(***************************************************************************)
EXTENDS Integers

VARIABLES issued, held, queued, acked, lost

ledger == <<issued, held, queued, acked, lost>>

Init == issued = 0 /\ held = {} /\ queued = {} /\ acked = {} /\ lost = {}

Issue ==
  /\ held' = held \union {issued}
  /\ issued' = issued + 1
  /\ UNCHANGED <<queued, acked, lost>>

Ack(i) ==
  /\ i \in held
  /\ held' = held \ {i} /\ acked' = acked \union {i}
  /\ UNCHANGED <<issued, queued, lost>>

(* The holder died; somebody else will run the batch.                      *)
Orphan(i) ==
  /\ i \in held
  /\ held' = held \ {i} /\ queued' = queued \union {i}
  /\ UNCHANGED <<issued, acked, lost>>

Retake(i) ==
  /\ i \in queued
  /\ queued' = queued \ {i} /\ held' = held \union {i}
  /\ UNCHANGED <<issued, acked, lost>>

(* Let go of, by its holder or on its way out of the queue.                *)
Lose(i) ==
  /\ i \in held \union queued
  /\ held' = held \ {i} /\ queued' = queued \ {i} /\ lost' = lost \union {i}
  /\ UNCHANGED <<issued, acked>>

Next ==
  \/ Issue
  \/ \E i \in held : Ack(i) \/ Orphan(i)
  \/ \E i \in queued : Retake(i)
  \/ \E i \in held \union queued : Lose(i)

Spec == Init /\ [][Next]_ledger

=============================================================================
