------------------------------ MODULE EduRing ------------------------------
(***************************************************************************)
(* The submission and completion rings of edu_pci.c: the state ring_lock   *)
(* protects and the four critical sections that change it.                 *)
(*                                                                         *)
(*   edu_ring_submit  -> SubmitLocked     edu_irq_handler -> PostCompletion*)
(*   edu_poll_cq      -> PollCq           edu_open        -> ResetRing     *)
(*                                                                         *)
(* The slab that holds both rings is also written without the lock: the    *)
(* SQ through the mmap of edu_mmap (EduDevice::submit_zc) and, as its      *)
(* first bytes are the buffer of the legacy DMA test, by edu_run_dma_test. *)
(* SlabWrite is any such write of SQ entries.  Nothing in the repository   *)
(* writes CQ entries through the mapping.                                  *)
(***************************************************************************)
EXTENDS Integers, FiniteSets

CONSTANTS
    RING_SIZE,  \* slots of each ring (64 in the driver)
    Tag,        \* caller-chosen tags, 16 bits in the driver
    Opcode,     \* opcode bytes callers may pass, valid or not
    Operand,    \* operands callers may pass
    Result      \* values of the FACT register

EDU_OP_FACTORIAL == 1
EDU_OP_DMA_TEST  == 2

ASSUME RingAssumption ==
    /\ RING_SIZE \in Nat /\ RING_SIZE >= 2
    /\ Opcode \subseteq Nat
    /\ 0 \in Tag /\ 0 \in Opcode /\ 0 \in Operand /\ 0 \in Result

VARIABLES
    sq,         \* submission entries
    cq,         \* completion entries
    sq_tail,    \* next slot the driver writes in sq
    cq_tail,    \* next slot the interrupt handler writes in cq
    cq_head,    \* next slot the consumer reads from cq
    inflight    \* opcode in flight per slot, 0 when there is none

ringVars == <<sq, cq, sq_tail, cq_tail, cq_head, inflight>>

Slot    == 0 .. RING_SIZE - 1
SqEntry == [tag : Tag, opcode : Opcode, operand : Operand]
CqEntry == [tag : Tag, status : {0}, result : Result]

\* dma_alloc_coherent and the kzalloc of struct edu_dev give zeroed memory.
ZeroSq  == [tag |-> 0, opcode |-> 0, operand |-> 0]
ZeroCq  == [tag |-> 0, status |-> 0, result |-> 0]

RingInit ==
    /\ sq = [i \in Slot |-> ZeroSq]
    /\ cq = [i \in Slot |-> ZeroCq]
    /\ sq_tail = 0 /\ cq_tail = 0 /\ cq_head = 0
    /\ inflight = [i \in Slot |-> 0]

\* Deviation: the mask of ring_next is forgotten.
ring_nextUnmasked(idx) == idx + 1

\* Deviation: the full test of a ring with free-running indices.
ring_fullFreeRunning(tail, head) == tail = head + RING_SIZE

ring_next(idx)        == (idx + 1) % RING_SIZE
ring_full(tail, head) == ring_next(tail) = head
InflightSlots         == {i \in Slot : inflight[i] # 0}

\* The locked part of edu_ring_submit.  The opcode is not looked at: the
\* switch that rejects an unknown one comes after the unlock.  A full ring is
\* reported to the caller with -ENOSPC and nothing changes.
SubmitLocked(req) ==
    /\ ~ring_full(sq_tail, cq_head)
    /\ sq' = [sq EXCEPT ![sq_tail] = req]
    /\ inflight' = [inflight EXCEPT ![sq_tail] = req.opcode]
    /\ sq_tail' = ring_next(sq_tail)
    /\ UNCHANGED <<cq, cq_tail, cq_head>>

\* The entry that completes slot i, from what its submission entry says now; fact
\* is the FACT register.
CompletionOf(i, fact) ==
    [tag    |-> sq[i].tag,
     status |-> 0,
     result |-> IF sq[i].opcode = EDU_OP_FACTORIAL THEN fact ELSE 0]

\* Deviations: the slot stays marked in flight; cq_tail moves before the entry is
\* written.
InflightKept(i)   == inflight
PostSlotNext      == ring_next(cq_tail)

InflightWithout(i) == [inflight EXCEPT ![i] = 0]
PostSlot           == cq_tail

\* The locked scan of edu_irq_handler completes the lowest slot in flight.
PostCompletion(fact) ==
    \E i \in InflightSlots :
        /\ \A j \in InflightSlots : i <= j
        /\ cq' = [cq EXCEPT ![PostSlot] = CompletionOf(i, fact)]
        /\ cq_tail' = ring_next(cq_tail)
        /\ inflight' = InflightWithout(i)
        /\ UNCHANGED <<sq, sq_tail, cq_head>>

\* edu_poll_cq, when there is an entry (-EAGAIN changes nothing).  The entry
\* handed to the caller is PolledEntry.
PolledEntry == cq[cq_head]

PollCq ==
    /\ cq_head # cq_tail
    /\ cq_head' = ring_next(cq_head)
    /\ UNCHANGED <<sq, cq, sq_tail, cq_tail, inflight>>

\* edu_open: indices and in-flight marks, not the entries.
ResetRing ==
    /\ sq_tail' = 0 /\ cq_tail' = 0 /\ cq_head' = 0
    /\ inflight' = [i \in Slot |-> 0]
    /\ UNCHANGED <<sq, cq>>

\* A write of submission entries that does not take ring_lock.
SlabWrite(entries) ==
    /\ sq' = entries
    /\ UNCHANGED <<cq, sq_tail, cq_tail, cq_head, inflight>>

RingNext ==
    \/ \E req \in SqEntry : SubmitLocked(req)
    \/ \E fact \in Result : PostCompletion(fact)
    \/ PollCq
    \/ ResetRing
    \/ sq' \in [Slot -> SqEntry] /\ SlabWrite(sq')

RingSpec == RingInit /\ [][RingNext]_ringVars

-----------------------------------------------------------------------------
RingTypeOK ==
    /\ sq \in [Slot -> SqEntry]
    /\ cq \in [Slot -> CqEntry]
    /\ sq_tail \in Slot /\ cq_tail \in Slot /\ cq_head \in Slot
    /\ inflight \in [Slot -> Opcode]

Used  == (sq_tail - cq_head) % RING_SIZE   \* submitted, not yet polled
Ready == (cq_tail - cq_head) % RING_SIZE   \* completed, not yet polled

\* The handler posts without looking at cq_head.  What keeps it from running
\* over the consumer is the check of edu_ring_submit against cq_head, and that
\* a post takes an in-flight slot: completions ready and slots in flight
\* together never outnumber the submissions not yet polled.
InflightWithinUsed == Ready + Cardinality(InflightSlots) <= Used

\* The handler never posts into the last free entry, which would make a full
\* completion ring look empty to edu_poll_cq, although it has no check of its
\* own (edu_irq_handler, e->cq_tail = ring_next(e->cq_tail)).
CqNeverOverrun ==
    [][(\E fact \in Result : PostCompletion(fact)) => ring_next(cq_tail) # cq_head]_ringVars

\* Between submissions, posts, polls and opens in any order, the completions
\* are a FIFO of RING_SIZE - 1 entries: an entry that is ready is neither lost,
\* overwritten, reordered nor delivered twice, and what the handler puts there is
\* the completion of a command in flight.
ReadyEntries == [i \in 1 .. Ready |-> cq[(cq_head + i - 1) % RING_SIZE]]

CompletionFifo == INSTANCE BoundedFifo
                  WITH Capacity <- RING_SIZE - 1, Value <- CqEntry, q <- ReadyEntries
CompletionsAreFifo ==
    /\ CompletionFifo!FifoSpec
    /\ [][\A fact \in Result : PostCompletion(fact) =>
             \E i \in InflightSlots : CompletionFifo!Put(CompletionOf(i, fact))]_ringVars
=============================================================================
