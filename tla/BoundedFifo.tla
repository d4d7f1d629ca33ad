---------------------------- MODULE BoundedFifo ----------------------------
(***************************************************************************)
(* What a bounded ring promises to the two sides that use it: a queue of   *)
(* at most Capacity values, delivered in the order they were put, each     *)
(* once.  The completion ring of edu_pci.c and the command ring of         *)
(* pcie_prototype_ring/kernel/proto_pcie.c are shown to implement it.      *)
(***************************************************************************)
EXTENDS Naturals, Sequences

CONSTANTS
    Capacity,   \* how many values fit
    Value       \* what is queued

VARIABLE q

FifoInit == q = <<>>

\* The producer appends a value; it never does so when the queue is full.
Put(v) == /\ Len(q) < Capacity
          /\ q' = Append(q, v)

\* The consumer takes the oldest value.
Get == /\ q # <<>>
       /\ q' = Tail(q)

\* Both ends are reset: every queued value is given up.
Clear == q' = <<>>

FifoNext == (\E v \in Value : Put(v)) \/ Get \/ Clear

FifoSpec == FifoInit /\ [][FifoNext]_q
=============================================================================
