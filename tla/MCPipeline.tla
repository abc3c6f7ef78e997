------------------------------ MODULE MCPipeline ------------------------------
(* Stages for TLC: a program, a builtin, redirections, and nothing at all. *)
EXTENDS Pipeline

stageOf(c, r) == [command |-> c, redirs |-> r]

PlainStages == {stageOf(c, << >>) : c \in {"program", "builtin", "none"}}

RedirectedStages == {stageOf("program", << >>), stageOf("builtin", <<"out", "in", "out">>)}

===============================================================================
