-------------------------- MODULE MCPipelineFiles --------------------------
(* PipelineFiles on a merge, two fatal (one refusing), a subtitle and a   *)
(* thumbnail stage.                                                        *)
EXTENDS PipelineFiles

(* What may be configured: the plans whose media the code does process. *)
Configured == {p \in PlanType :
                 /\ p.kind = "merge" => p.ffmpeg /\ p.config # {}
                 /\ p.write \in {{}, {Thumb}}
                 /\ p.ffmpeg \/ p.config = Stages \ {Merge}}

(* A merge with nothing else to do. *)
Unconfigured == {p \in PlanType :
                   /\ p.kind \in {"single", "merge"} /\ p.ffmpeg
                   /\ p.write = {} /\ p.brought = {}}
=============================================================================
