----------------------------- MODULE MCPipelineRuns -----------------------------
(* A user who is later enrolled in a second course. *)
EXTENDS PipelineRuns

CONSTANT ann

MCOwner == [c \in Courses |-> ann]
=============================================================================
