------------------------------ MODULE ProtoHw -------------------------------
(***************************************************************************)
(* pcie_prototype_sim/kernel/proto_pcie.c in both of its modes, with the   *)
(* device of pcie_prototype_async/qemu/proto_pcie_device.c behind its      *)
(* hardware mode.  The drivers of pcie_prototype and pcie_prototype_ring   *)
(* have the same hardware path.                                            *)
(*                                                                         *)
(* d->lock admits one ioctl at a time, so one program counter is enough.   *)
(* The interrupt handler takes no lock: it runs between any two accesses   *)
(* of an ioctl to the device or to last_status, and while dev.irq is up it *)
(* is entered again and again (the line is level-triggered, the device has *)
(* no MSI capability).                                                     *)
(***************************************************************************)
EXTENDS Integers

CONSTANTS
    MAX_PAYLOAD,    \* PROTO_PCIE_MAX_PAYLOAD
    BUF_SIZE,       \* bytes allocated for the DMA buffer (4096)
    Opcode,
    Length,         \* lengths callers pass, beyond MAX_PAYLOAD too
    Payload,        \* payloads callers pass; every byte of one is that payload
    ZeroPayload     \* zeroed memory

ASSUME ProtoHwAssumption ==
    /\ MAX_PAYLOAD \in Nat /\ BUF_SIZE \in Nat /\ MAX_PAYLOAD <= BUF_SIZE
    /\ 0 \in Opcode /\ Length \subseteq Nat

READY == "READY"    \* STATUS_READY
DONE  == "DONE"     \* STATUS_DONE

VARIABLES
    simulate,       \* module parameter
    dma_buf, dma_len, last_status,
    pc,             \* where the ioctl that holds d->lock is
    seen,           \* the STATUS it has read
    isr,            \* the interrupt handler: pc, and the STATUS it has read
    dev,            \* the device
    newest,         \* history: the last command since the buffer was cleared
    lastCall        \* history: the last call that changed something

bufVars == <<dma_buf, dma_len, newest, lastCall>>
vars == <<simulate, bufVars, last_status, pc, seen, isr, dev>>

Byte      == 0 .. BUF_SIZE - 1
Command   == [opcode : Opcode, length : Length, payload : Payload]
NoCommand == [opcode |-> 0, length |-> 0, payload |-> ZeroPayload]

-----------------------------------------------------------------------------
(* The device: proto_pcie_mmio_write, one operator per register.            *)

Realized ==
    [status |-> {READY}, timer |-> FALSE, irq |-> FALSE, opcode |-> 0, dma_len |-> 0]

WriteCommand(d, opcode, n) == [d EXCEPT !.opcode = opcode, !.dma_len = n]

\* Deviation: a start is ignored until the command before has been reset.
StartWhenNotDone(d) ==
    [d EXCEPT !.status = {READY}, !.timer = @ \/ DONE \notin d.status]

\* CTRL_START: (re)arms the timer, and leaves the line as it is.
WriteStart(d) == [d EXCEPT !.status = {READY}, !.timer = TRUE]

\* CTRL_RESET: lowers the line, and leaves the timer as it is.
WriteReset(d) == [d EXCEPT !.status = {READY}, !.irq = FALSE]

\* REG_IRQ_ACK: not a register of the device.
WriteIrqAck(d) == d

\* Deviation: the status is only DONE.
CompleteNotReady ==
    /\ dev.timer
    /\ dev' = [dev EXCEPT !.timer = FALSE, !.status = {DONE}, !.irq = TRUE]
    /\ UNCHANGED <<simulate, bufVars, last_status, pc, seen, isr>>

\* proto_pcie_complete, 25 ms after the last start.
Complete ==
    /\ dev.timer
    /\ dev' = [dev EXCEPT !.timer = FALSE, !.status = {READY, DONE}, !.irq = TRUE]
    /\ UNCHANGED <<simulate, bufVars, last_status, pc, seen, isr>>

-----------------------------------------------------------------------------
(* proto_irq_handler.                                                       *)

\* Deviation: wired to MSI, which interrupts once for each completion.
IrqReadMsi ==
    /\ isr.pc = "idle" /\ dev.irq
    /\ isr' = [pc |-> "store", status |-> dev.status]
    /\ dev' = [dev EXCEPT !.irq = FALSE]
    /\ UNCHANGED <<simulate, bufVars, last_status, pc, seen>>

IrqRead ==
    /\ isr.pc = "idle" /\ dev.irq
    /\ isr' = [pc |-> "store", status |-> dev.status]
    /\ UNCHANGED <<simulate, bufVars, last_status, pc, seen, dev>>

IrqStore ==
    /\ isr.pc = "store"
    /\ last_status' = isr.status
    /\ isr' = [isr EXCEPT !.pc = "ack"]
    /\ UNCHANGED <<simulate, bufVars, pc, seen, dev>>

IrqAck ==
    /\ isr.pc = "ack"
    /\ dev' = WriteIrqAck(dev)
    /\ isr' = [isr EXCEPT !.pc = "idle"]
    /\ UNCHANGED <<simulate, bufVars, last_status, pc, seen>>

IrqStep == IrqRead \/ IrqStore \/ IrqAck

-----------------------------------------------------------------------------
(* The ioctls.                                                              *)

\* Deviation: the length is not cut.
Unclipped(length) == length

Clip(length) == IF length <= MAX_PAYLOAD THEN length ELSE MAX_PAYLOAD

Overwritten(cmd) ==
    [i \in Byte |-> IF i < Clip(cmd.length) THEN cmd.payload ELSE dma_buf[i]]

\* Deviation: nothing is done for an empty payload.
CopyPayloadIfAny(cmd) ==
    IF Clip(cmd.length) > 0
    THEN dma_buf' = Overwritten(cmd) /\ dma_len' = Clip(cmd.length)
    ELSE UNCHANGED <<dma_buf, dma_len>>

\* The buffer is written whatever the device is doing with it.
CopyPayload(cmd) == dma_buf' = Overwritten(cmd) /\ dma_len' = Clip(cmd.length)

\* PROTO_PCIE_IOC_SEND_CMD up to the registers: proto_submit_command.
SendCommand(cmd) ==
    /\ pc = "idle"
    /\ CopyPayload(cmd)
    /\ newest' = cmd /\ lastCall' = "send"
    /\ \/ simulate /\ last_status' = {READY, DONE} /\ UNCHANGED pc
       \/ ~simulate /\ pc' = "kick" /\ UNCHANGED last_status
    /\ UNCHANGED <<simulate, seen, isr, dev>>

\* The register writes, of which only CTRL does more than remember a value.
Kick ==
    /\ pc = "kick"
    /\ dev' = WriteStart(WriteCommand(dev, newest.opcode, dma_len))
    /\ pc' = "read"
    /\ UNCHANGED <<simulate, bufVars, last_status, seen, isr>>

\* PROTO_PCIE_IOC_RESET: proto_finish_reset.  The simulation clears dma_len bytes,
\* the length of the last command; the hardware keeps the buffer.
ResetSimulated ==
    /\ simulate
    /\ dma_buf' = [i \in Byte |-> IF i < dma_len THEN ZeroPayload ELSE dma_buf[i]]
    /\ newest' = NoCommand /\ lastCall' = "reset"
    /\ last_status' = {READY}
    /\ UNCHANGED <<simulate, dma_len, pc, seen, isr, dev>>

ResetDevice ==
    /\ ~simulate /\ pc = "idle"
    /\ dev' = WriteReset(dev)
    /\ lastCall' = "reset"
    /\ pc' = "read"
    /\ UNCHANGED <<simulate, dma_buf, dma_len, newest, last_status, seen, isr>>

\* last_status = proto_readl(REG_STATUS): a read, then a write.
ReadStatus ==
    /\ pc = "read"
    /\ seen' = dev.status
    /\ pc' = "store"
    /\ UNCHANGED <<simulate, bufVars, last_status, isr, dev>>

StoreStatus ==
    /\ pc = "store"
    /\ last_status' = seen
    /\ pc' = "idle"
    /\ UNCHANGED <<simulate, bufVars, seen, isr, dev>>

IoctlStep == Kick \/ ReadStatus \/ StoreStatus

\* Both probes; kzalloc leaves last_status 0 in hardware mode.
Init ==
    /\ simulate \in BOOLEAN
    /\ dma_buf = [i \in Byte |-> ZeroPayload] /\ dma_len = BUF_SIZE
    /\ last_status = IF simulate THEN {READY} ELSE {}
    /\ pc = "idle" /\ seen = {}
    /\ isr = [pc |-> "idle", status |-> {}]
    /\ dev = Realized
    /\ newest = NoCommand /\ lastCall = "none"

Next ==
    \/ \E cmd \in Command : SendCommand(cmd)
    \/ ResetSimulated \/ ResetDevice
    \/ IoctlStep \/ IrqStep \/ Complete

Spec == Init /\ [][Next]_vars

\* An ioctl and the handler run to their ends, a raised line is answered, and the
\* timer fires.  Nobody is obliged to make a call.
FairSpec == Spec /\ WF_vars(IoctlStep) /\ WF_vars(IrqStep) /\ WF_vars(Complete)

-----------------------------------------------------------------------------
Status == SUBSET {READY, DONE}

TypeOK ==
    /\ simulate \in BOOLEAN
    /\ dma_buf \in [Byte -> Payload \cup {ZeroPayload}] /\ dma_len \in 0 .. BUF_SIZE
    /\ last_status \in Status /\ seen \in Status
    /\ pc \in {"idle", "kick", "read", "store"}
    /\ isr \in [pc : {"idle", "store", "ack"}, status : Status]
    /\ dev \in [status : Status, timer : BOOLEAN, irq : BOOLEAN,
                opcode : Opcode, dma_len : 0 .. BUF_SIZE]
    /\ newest \in Command \cup {NoCommand}
    /\ lastCall \in {"none", "send", "reset"}

\* What the device was told agrees with what is in the buffer, unless a call is
\* just about to tell it: the first dma_len bytes are the newest command's, or
\* zero after a simulated reset (proto_submit_command, proto_finish_reset), and the
\* device works with its opcode and its length.
CommandIntact ==
    pc # "kick" =>
        /\ \A i \in Byte : i < dma_len => dma_buf[i] = newest.payload
        /\ dev.timer => dev.opcode = newest.opcode /\ dev.dma_len = dma_len

\* A command that was started is being worked on, or the device shows it as
\* done with its line up: no reset, acknowledgement or completion of an earlier one
\* takes that away (proto_pcie_mmio_write).
NothingForgotten ==
    (~simulate /\ lastCall = "send" /\ pc # "kick") =>
        dev.timer \/ (DONE \in dev.status /\ dev.irq)

\* Once callers are quiet after a command, GET_STATUS comes to say that it is done,
\* and stays with it.  An ioctl that has read READY before the completion can
\* overwrite the DONE of the handler, and a handler that has read the status of
\* the command before can overwrite it too; it is the line, which stays up until a
\* reset, that has the handler correct either.
SendSettles ==
    <>[](pc = "idle" /\ lastCall = "send") => <>[](last_status = {READY, DONE})

\* A command has been sent, and no ioctl is under way.
Sent == ~simulate /\ lastCall = "send" /\ pc = "idle"

\* How far last_status then is from DONE, and from being written over once more.
ToSettle ==
    CASE dev.timer                                               -> 5
      [] ~dev.timer /\ isr.pc = "store" /\ isr.status # {READY, DONE} -> 4
      [] ~dev.timer /\ isr.pc = "store" /\ isr.status = {READY, DONE} ->
            IF last_status = {READY, DONE} THEN 0 ELSE 1
      [] ~dev.timer /\ isr.pc # "store" ->
            IF last_status = {READY, DONE} THEN 0 ELSE IF isr.pc = "idle" THEN 2 ELSE 3

\* Nobody sets last_status back once the callers are quiet: the completion and then
\* every access of the handler bring it nearer to DONE, and keep it there.  With
\* NothingForgotten, by which one of them can come, that is why it settles.
SendApproaches ==
    [][Sent /\ Sent' =>
          /\ ToSettle' <= ToSettle
          /\ Complete \/ (IrqStep /\ ~dev.timer /\ ToSettle > 0) => ToSettle' < ToSettle]_vars
=============================================================================
