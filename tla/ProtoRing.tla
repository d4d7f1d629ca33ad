----------------------------- MODULE ProtoRing ------------------------------
(***************************************************************************)
(* pcie_prototype_ring/kernel/proto_pcie.c in simulation mode: a command   *)
(* ring that callers fill, and a processing call that empties it into the  *)
(* DMA buffer and logs a completion for each command.                      *)
(*                                                                         *)
(* Every ioctl runs under d->lock from its first line to its last.  Reset  *)
(* and send are one step each; a processing call is one step per command,  *)
(* and processing says that it holds the lock.                             *)
(***************************************************************************)
EXTENDS Integers, Sequences

CONSTANTS
    RING_ENTRIES,   \* slots of each ring (64 in the driver)
    MAX_PAYLOAD,    \* PROTO_PCIE_MAX_PAYLOAD
    Opcode,
    Length,         \* lengths callers pass, beyond MAX_PAYLOAD too
    Payload,        \* payloads callers pass
    ZeroPayload,    \* zeroed memory
    MaxSeqno        \* bound on the commands between two resets

ASSUME ProtoAssumption ==
    /\ RING_ENTRIES \in Nat \ {0}
    /\ MAX_PAYLOAD \in Nat /\ Length \subseteq Nat
    /\ 0 \in Opcode
    /\ MaxSeqno \in Nat

READY == 1      \* STATUS_READY
DONE  == 2      \* STATUS_DONE

VARIABLES
    cmd_ring, cmd_payloads, cmd_head, cmd_tail, cmd_pending,
    comp_ring, comp_tail, comp_pending,
    completed_total, last_opcode, last_length, last_status, next_seqno,
    dma_buf,
    processing      \* a processing call is in its loop, holding d->lock

cmdVars  == <<cmd_ring, cmd_payloads, cmd_head, cmd_tail, cmd_pending>>
compVars == <<comp_ring, comp_tail, comp_pending, completed_total>>
lastVars == <<last_opcode, last_length, last_status>>
vars == <<cmdVars, compVars, lastVars, next_seqno, dma_buf, processing>>

Slot      == 0 .. RING_ENTRIES - 1
Seqno     == 0 .. MaxSeqno
LengthIn  == 0 .. MAX_PAYLOAD       \* lengths kept in the rings
CmdEntry  == [opcode : Opcode, length : LengthIn, seqno : Seqno]
CompEntry == [opcode : Opcode, status : {0, READY + DONE}, length : LengthIn, seqno : Seqno]

ZeroCmd  == [opcode |-> 0, length |-> 0, seqno |-> 0]
ZeroComp == [opcode |-> 0, status |-> 0, length |-> 0, seqno |-> 0]

\* proto_sim_probe leaves what a reset leaves.
Init ==
    /\ cmd_ring = [i \in Slot |-> ZeroCmd]
    /\ cmd_payloads = [i \in Slot |-> ZeroPayload]
    /\ cmd_head = 0 /\ cmd_tail = 0 /\ cmd_pending = 0
    /\ comp_ring = [i \in Slot |-> ZeroComp]
    /\ comp_tail = 0 /\ comp_pending = 0
    /\ completed_total = 0 /\ last_opcode = 0 /\ last_length = 0
    /\ last_status = READY
    /\ next_seqno = 1
    /\ dma_buf = ZeroPayload
    /\ processing = FALSE

\* Deviation: an index that does not wrap.
nextUnwrapped(i) == i + 1

next(i) == (i + 1) % RING_ENTRIES

\* Deviation: the totals survive a reset.
ClearTotalsNot == UNCHANGED <<completed_total, last_opcode, last_length>>

ClearTotals == completed_total' = 0 /\ last_opcode' = 0 /\ last_length' = 0

\* PROTO_PCIE_IOC_RESET: proto_finish_reset and proto_sim_clear_rings.
Reset ==
    /\ ~processing
    /\ cmd_ring' = [i \in Slot |-> ZeroCmd]
    /\ cmd_payloads' = [i \in Slot |-> ZeroPayload]
    /\ cmd_head' = 0 /\ cmd_tail' = 0 /\ cmd_pending' = 0
    /\ comp_ring' = [i \in Slot |-> ZeroComp]
    /\ comp_tail' = 0 /\ comp_pending' = 0
    /\ ClearTotals
    /\ last_status' = READY
    /\ next_seqno' = 1
    /\ dma_buf' = ZeroPayload
    /\ UNCHANGED processing

Clip(length) == IF length <= MAX_PAYLOAD THEN length ELSE MAX_PAYLOAD

\* Deviation: off by one.
RoomForOneMore == cmd_pending <= RING_ENTRIES

RoomInRing == cmd_pending < RING_ENTRIES

\* PROTO_PCIE_IOC_SEND_CMD: proto_sim_enqueue_command.  A full ring is -ENOSPC
\* and changes nothing.  The payload stands for its first Clip(length) bytes.
SendCommand(opcode, length, payload) ==
    /\ ~processing
    /\ next_seqno <= MaxSeqno
    /\ RoomInRing
    /\ cmd_ring' = [cmd_ring EXCEPT ![cmd_tail] =
                      [opcode |-> opcode, length |-> Clip(length), seqno |-> next_seqno]]
    /\ cmd_payloads' = [cmd_payloads EXCEPT ![cmd_tail] = payload]
    /\ cmd_tail' = next(cmd_tail)
    /\ cmd_pending' = cmd_pending + 1
    /\ next_seqno' = next_seqno + 1
    /\ last_status' = READY
    /\ UNCHANGED <<cmd_head, compVars, last_opcode, last_length, dma_buf, processing>>

\* PROTO_PCIE_IOC_PROCESS_PENDING takes the lock.
BeginProcess ==
    /\ ~processing
    /\ processing' = TRUE
    /\ UNCHANGED <<cmdVars, compVars, lastVars, next_seqno, dma_buf>>

\* Deviations: the count is not held at the size of the log; the tail moves before
\* the entry is written.
LogCountUnbounded == comp_pending + 1
LogSlotNext       == next(comp_tail)

LogCount == IF comp_pending < RING_ENTRIES THEN comp_pending + 1 ELSE comp_pending
LogSlot  == comp_tail

\* proto_sim_store_completion: the oldest completion gives way when the log is
\* full, and comp_head is never moved.
StoreCompletion(entry) ==
    /\ comp_ring' = [comp_ring EXCEPT ![LogSlot] =
                       [opcode |-> entry.opcode, status |-> READY + DONE,
                        length |-> entry.length, seqno |-> entry.seqno]]
    /\ comp_tail' = next(comp_tail)
    /\ comp_pending' = LogCount

\* One round of the loop of proto_sim_process_pending.
ProcessOne ==
    LET entry == cmd_ring[cmd_head] IN
    /\ processing /\ cmd_pending > 0
    /\ dma_buf' = cmd_payloads[cmd_head]
    /\ last_opcode' = entry.opcode /\ last_length' = entry.length
    /\ last_status' = READY + DONE
    /\ completed_total' = completed_total + 1
    /\ StoreCompletion(entry)
    /\ cmd_head' = next(cmd_head)
    /\ cmd_pending' = cmd_pending - 1
    /\ UNCHANGED <<cmd_ring, cmd_payloads, cmd_tail, next_seqno, processing>>

EndProcess ==
    /\ processing /\ cmd_pending = 0
    /\ processing' = FALSE
    /\ UNCHANGED <<cmdVars, compVars, lastVars, next_seqno, dma_buf>>

Next ==
    \/ Reset
    \/ \E opcode \in Opcode, length \in Length, payload \in Payload :
          SendCommand(opcode, length, payload)
    \/ BeginProcess \/ ProcessOne \/ EndProcess

Spec == Init /\ [][Next]_vars

-----------------------------------------------------------------------------
TypeOK ==
    /\ cmd_ring \in [Slot -> CmdEntry]
    /\ cmd_payloads \in [Slot -> Payload \cup {ZeroPayload}]
    /\ cmd_head \in Slot /\ cmd_tail \in Slot /\ cmd_pending \in 0 .. RING_ENTRIES
    /\ comp_ring \in [Slot -> CompEntry]
    /\ comp_tail \in Slot /\ comp_pending \in 0 .. RING_ENTRIES
    /\ completed_total \in Seqno
    /\ last_opcode \in Opcode /\ last_length \in LengthIn /\ last_status \in {READY, READY + DONE}
    /\ next_seqno \in 1 .. MaxSeqno + 1
    /\ dma_buf \in Payload \cup {ZeroPayload}
    /\ processing \in BOOLEAN

\* Every command sent since the last reset is pending or completed, never both
\* and never neither (next_seqno++, completed_total++ and cmd_pending are kept
\* by different calls).
Accounted == completed_total + cmd_pending = next_seqno - 1

\* The pending commands are the slots from cmd_head on, with consecutive
\* sequence numbers that end at the last one given out.
PendingInOrder ==
    /\ cmd_tail = (cmd_head + cmd_pending) % RING_ENTRIES
    /\ \A k \in 0 .. cmd_pending - 1 :
          cmd_ring[(cmd_head + k) % RING_ENTRIES].seqno = completed_total + 1 + k

\* The completion log holds the newest completions, as many as fit, and they lie
\* behind comp_tail in the order of their sequence numbers, although nothing
\* drains it and comp_head stays 0.
LogHoldsNewest ==
    /\ comp_pending = IF completed_total < RING_ENTRIES THEN completed_total ELSE RING_ENTRIES
    /\ \A k \in 1 .. comp_pending :
          comp_ring[(comp_tail - k) % RING_ENTRIES].seqno = completed_total + 1 - k

\* The status, opcode and length a caller reads are those of the newest log entry
\* unless a command was sent since.
LastIsLogged ==
    completed_total > 0 =>
        LET newest == comp_ring[(comp_tail - 1) % RING_ENTRIES] IN
        /\ last_opcode = newest.opcode /\ last_length = newest.length
        /\ last_status = newest.status \/ (cmd_pending > 0 /\ last_status = READY)

\* The command ring is a FIFO of RING_ENTRIES commands with their payloads: the
\* processing call hands each to the DMA buffer once and in the order sent.
PendingEntry(k) ==
    [cmd     |-> cmd_ring[(cmd_head + k) % RING_ENTRIES],
     payload |-> cmd_payloads[(cmd_head + k) % RING_ENTRIES]]
PendingCommands == [i \in 1 .. cmd_pending |-> PendingEntry(i - 1)]

CommandFifo == INSTANCE BoundedFifo
               WITH Capacity <- RING_ENTRIES, q <- PendingCommands,
                    Value <- [cmd : CmdEntry, payload : Payload \cup {ZeroPayload}]
CommandsAreFifo == CommandFifo!FifoSpec
=============================================================================
