------------------------------ MODULE MCResume --------------------------------
(* Instances of Resume: batch sizes of the three modes.                    *)
EXTENDS ResumePromises

(* Ordered: the batch size adapts; buffered and realtime: a fixed one.     *)
OrderedAdapts == [m \in Modes |-> CASE m = "ordered" -> {1, 2} [] m = "buffered" -> {1} [] OTHER -> {2}]

OrderedLimits == [m \in Modes |-> IF m = "ordered" THEN {0, 2} ELSE {0}]

(* A buffered pipeline whose batch size adapts, the default.               *)
Adaptive == [m \in Modes |-> {1, 4}]

NoLimit == [m \in Modes |-> {0}]
=============================================================================
