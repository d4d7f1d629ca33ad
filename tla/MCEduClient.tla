---------------------------- MODULE MCEduClient -----------------------------
(* EduClient with the smallest ring and one entry of it under the DMA buffer: *)
(* a has the object, b sleeps on its eventfd and may poll early.              *)
EXTENDS EduClient, TLC

CONSTANTS a, b, e1

MCTag     == {0, 1, 2, 9}
MCOpcode  == {0, EDU_OP_FACTORIAL, EDU_OP_DMA_TEST, 85}
MCOperand == {0, 3, 4}
MCResult  == {0, 1, 3, 4, 6, 24}
MCPattern == [tag |-> 9, opcode |-> 85, operand |-> 0]

ValidOpcode == {EDU_OP_FACTORIAL, EDU_OP_DMA_TEST}

ObjectProgram == (a :> {"submit", "poll", "set_eventfd", "open"}) @@ (b :> {"wait_eventfd", "poll"})
=============================================================================
