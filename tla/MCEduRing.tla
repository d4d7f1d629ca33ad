----------------------------- MODULE MCEduRing ------------------------------
(* EduStats, and the rings of EduRing in it, with submissions of an opcode    *)
(* that is kept in flight and of one that is not.                             *)
EXTENDS EduStats

CONSTANTS w1, w2

MCOpcode == {0, EDU_OP_FACTORIAL}
=============================================================================
