----------------------------- MODULE MCPipeline -----------------------------
(* Constant values for model checking Pipeline. *)
EXTENDS Pipeline

OneKey == [m \in Msgs |-> "a"]
OneRelease == [i \in Instances |-> {"a"}]

\* No step of the pipeline reads an id, so one choice of keyed stands for all.
KeyedInit == PipeInit /\ keyed = Rows
KeyedSpec == KeyedInit /\ [][PipeNext]_pipeVars /\ Fairness /\ Pub!Fairness
=============================================================================
