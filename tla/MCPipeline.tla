------------------------------ MODULE MCPipeline ------------------------------
(* A small instance of Pipeline, and of its queue alone, for TLC: attempts may overrun. *)
EXTENDS Pipeline, TLC

CONSTANTS w1, w2, doc, k1

VARIABLE part

MCWorkers == {w1, w2}
MCKeys == {k1}
OnlyDoc == {doc}
Nothing == {}

\* Two jobs for the queue, of which the first is the one upload of the pipeline.
MCJobs == 1 .. 2
MCKind == [j \in MCJobs |-> "r2_file"]
MCTarget == [j \in MCJobs |-> doc]
MCKey == [j \in MCJobs |-> k1]

PartsInit == PipeInit /\ part \in {"queue", "upload"}

PartsNext == \/ part = "queue" /\ Next /\ UNCHANGED <<world, inner, part>>
             \/ part = "upload" /\ PipeNext /\ status'[2] = "absent" /\ UNCHANGED part

PartsSpec == PartsInit /\ [][PartsNext]_<<pvars, part>> /\ Fairness
===============================================================================
