----------------------------- MODULE MCPipeline -----------------------------
(* Instances of Phase2Pipeline for TLC.                                    *)
EXTENDS Phase2Pipeline, TLC

CONSTANTS b1, b2, b3, i1, o1

=============================================================================
