---------------------------- MODULE MCLifecycle -----------------------------
(* EduHandles over Lifecycle: two objects that are alike, and the descriptors *)
(* both of them need together, which the rest of the process competes for.    *)
EXTENDS EduHandles, TLC

CONSTANTS o1, o2

Objects == Permutations(Obj)
=============================================================================
