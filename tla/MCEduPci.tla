------------------------------ MODULE MCEduPci ------------------------------
(* EduPci on three ring slots, the first of them under the DMA test buffer,  *)
(* with the programs of the threads for each run.                            *)
EXTENDS EduPci, TLC

CONSTANTS a, b, e1

MCTag     == {0, 1, 2, 9}
MCOpcode  == {0, EDU_OP_FACTORIAL, EDU_OP_DMA_TEST, 85}
MCOperand == {0, 3, 4}
MCResult  == {0, 1, 3, 4, 6, 24}
MCPattern == [tag |-> 9, opcode |-> 85, operand |-> 0]

MixedOpcode == {EDU_OP_FACTORIAL, EDU_OP_DMA_TEST, 85}
ValidOpcode == {EDU_OP_FACTORIAL, EDU_OP_DMA_TEST}

\* Two threads of legacy calls.
LegacyProgram == (a :> {"factorial", "dma_test", "inject_fault"})
                 @@ (b :> {"factorial", "dma_test"})
\* Legacy calls against ring calls, in any order.
MixedProgram == (a :> {"factorial", "dma_test"}) @@ (b :> {"submit", "poll"})

\* One thread, one command at a time: legacy calls alone, with ring commands,
\* and ring commands of a process that may die and be started again.
LegacyClient  == (a :> {"factorial", "dma_test"}) @@ (b :> {})
CombinedClient == (a :> {"factorial", "submit", "poll"}) @@ (b :> {})
RestartClient == (a :> {"submit", "poll", "restart"}) @@ (b :> {})
\* Two ring commands outstanding.
PipelineClient == (a :> {"submit", "poll"}) @@ (b :> {})
BadOpcode     == {EDU_OP_FACTORIAL, 85}
FactOpcode    == {EDU_OP_FACTORIAL}
=============================================================================
