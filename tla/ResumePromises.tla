---------------------------- MODULE ResumePromises ----------------------------
(***************************************************************************)
(* What the documentation says of checkpoint and resume and the code does  *)
(* not keep; a run of its own shows it.                                    *)
(***************************************************************************)
EXTENDS Resume

(* "Buffered/Ordered modes: Provides Exactly-Once semantics" (frun.bash,   *)
(* --resume): a resumed pipeline that ends well has put out every line.    *)
ResumeLosesNothing ==
  outcome = "ok" /\ alarm = 0 /\ mode # "realtime" /\ ~fellBack =>
    Wanted \subseteq OutputBytes(Len(out))
=============================================================================
