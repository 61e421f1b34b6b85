----------------------------- MODULE RingPromises -----------------------------
(***************************************************************************)
(* What the comments and documents of the repository say of the engine and *)
(* the code does not keep.  Each definition is the statement; a run whose  *)
(* configuration is the smallest that matters shows the behaviour that     *)
(* breaks it.                                                              *)
(***************************************************************************)
EXTENDS RingEngine

(* "Scanner done and we overshot -> nothing left for us"                   *)
(* (do_lockfree_claim): an overshot ticket that is let go of names no      *)
(* batch of data.                                                          *)
OvershotNamesNothing ==
  \A d \in dropped : d.why = "overshoot" => d.idx >= DataBatches
=============================================================================
