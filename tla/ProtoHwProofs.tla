--------------------------- MODULE ProtoHwProofs ----------------------------
(***************************************************************************)
(* The prototypes without a command ring, for every size of payload and    *)
(* buffer: types, the agreement of device and buffer, that a started       *)
(* command is never forgotten, and that last_status comes to say that it   *)
(* is done.                                                                *)
(***************************************************************************)
EXTENDS ProtoHw, TLAPS

-----------------------------------------------------------------------------
(* Types.                                                                   *)

Device ==
    [status : Status, timer : BOOLEAN, irq : BOOLEAN, opcode : Opcode, dma_len : 0 .. BUF_SIZE]

\* A cut length fits the buffer.
LEMMA ClipFits == \A length \in Length : Clip(length) \in 0 .. BUF_SIZE
  BY ProtoHwAssumption DEF Clip

\* The register writes keep the device a device.
LEMMA RegisterTypes ==
    ASSUME NEW d \in Device, NEW opcode \in Opcode, NEW n \in 0 .. BUF_SIZE
    PROVE  /\ WriteStart(WriteCommand(d, opcode, n)) \in Device
           /\ WriteReset(d) \in Device /\ WriteIrqAck(d) \in Device
<1>1. WriteCommand(d, opcode, n) \in Device
  BY DEF WriteCommand, Device
<1>2. ASSUME NEW e \in Device PROVE WriteStart(e) \in Device
  BY <1>2 DEF WriteStart, Device, Status
<1>3. WriteReset(d) \in Device /\ WriteIrqAck(d) \in Device
  BY DEF WriteReset, WriteIrqAck, Device, Status
<1> QED
  BY <1>1, <1>2, <1>3

\* Every call, the handler and the device keep the types.
LEMMA TypeStep == TypeOK /\ [Next]_vars => TypeOK'
<1> SUFFICES ASSUME TypeOK, [Next]_vars PROVE TypeOK'
  OBVIOUS
<1>0. dev \in Device
  BY DEF TypeOK, Device
<1>1. ASSUME NEW cmd \in Command, SendCommand(cmd) PROVE TypeOK'
  <2>1. Clip(cmd.length) \in 0 .. BUF_SIZE /\ cmd.payload \in Payload
    BY ClipFits DEF Command
  <2>2. dma_buf' \in [Byte -> Payload \cup {ZeroPayload}] /\ dma_len' \in 0 .. BUF_SIZE
    BY <1>1, <2>1 DEF SendCommand, CopyPayload, Overwritten, TypeOK
  <2>3. last_status' \in Status /\ pc' \in {"idle", "kick", "read", "store"}
    BY <1>1 DEF SendCommand, TypeOK, Status
  <2> QED
    BY <1>1, <2>2, <2>3 DEF SendCommand, TypeOK
<1>2. CASE ResetSimulated
  <2>1. dma_buf' \in [Byte -> Payload \cup {ZeroPayload}]
    BY <1>2 DEF ResetSimulated, TypeOK
  <2> QED
    BY <1>2, <2>1 DEF ResetSimulated, TypeOK, Status
<1>3. CASE ResetDevice
  <2>1. dev' \in Device
    BY <1>0, <1>3, RegisterTypes, ProtoHwAssumption DEF ResetDevice, WriteReset, Device, Status
  <2> QED
    BY <1>3, <2>1 DEF ResetDevice, TypeOK, Device
<1>4. CASE Kick
  <2>1. newest.opcode \in Opcode /\ dma_len \in 0 .. BUF_SIZE
    BY ProtoHwAssumption DEF TypeOK, Command, NoCommand
  <2>2. dev' \in Device
    BY <1>0, <1>4, <2>1, RegisterTypes DEF Kick
  <2> QED
    BY <1>4, <2>2 DEF Kick, TypeOK, Device, bufVars
<1>5. CASE ReadStatus
  BY <1>5 DEF ReadStatus, TypeOK, bufVars
<1>6. CASE StoreStatus
  BY <1>6 DEF StoreStatus, TypeOK, bufVars
<1>7. CASE IrqRead
  BY <1>7 DEF IrqRead, TypeOK, bufVars
<1>8. CASE IrqStore
  BY <1>8 DEF IrqStore, TypeOK, bufVars
<1>9. CASE IrqAck
  BY <1>9 DEF IrqAck, WriteIrqAck, TypeOK, bufVars
<1>10. CASE Complete
  <2>1. dev' \in Device
    BY <1>0, <1>10 DEF Complete, Device, Status
  <2> QED
    BY <1>10, <2>1 DEF Complete, TypeOK, Device, bufVars
<1>11. CASE UNCHANGED vars
  BY <1>11 DEF vars, bufVars, TypeOK
<1> QED
  BY <1>1, <1>2, <1>3, <1>4, <1>5, <1>6, <1>7, <1>8, <1>9, <1>10, <1>11
     DEF Next, IoctlStep, IrqStep

\* Both probes leave a well-typed driver.
LEMMA TypeInit == Init => TypeOK
<1> SUFFICES ASSUME Init PROVE TypeOK
  OBVIOUS
<1>1. dev \in Device
  BY ProtoHwAssumption DEF Init, Realized, Device, Status
<1>2. BUF_SIZE \in 0 .. BUF_SIZE
  BY ProtoHwAssumption
<1> QED
  BY <1>1, <1>2 DEF Init, TypeOK, Device, Status

-----------------------------------------------------------------------------
(* The buffer and the device.                                               *)

\* CommandIntact holds of the buffer also while a call is on its way to the
\* registers, and the simulation has no device that works.
IntactInv ==
    /\ simulate => pc = "idle" /\ ~dev.timer
    /\ \A i \in Byte : i < dma_len => dma_buf[i] = newest.payload
    /\ pc # "kick" /\ dev.timer => dev.opcode = newest.opcode /\ dev.dma_len = dma_len

\* Every step keeps the device in agreement with the buffer.
LEMMA IntactStep == TypeOK /\ IntactInv /\ [Next]_vars => IntactInv'
<1> SUFFICES ASSUME TypeOK, IntactInv, [Next]_vars PROVE IntactInv'
  OBVIOUS
<1>0. dev \in Device
  BY DEF TypeOK, Device
<1>1. ASSUME NEW cmd \in Command, SendCommand(cmd) PROVE IntactInv'
  <2>1. \A i \in Byte : i < dma_len' => dma_buf'[i] = newest'.payload
    BY <1>1 DEF SendCommand, CopyPayload, Overwritten
  <2> QED
    BY <1>1, <2>1 DEF SendCommand, IntactInv
<1>2. CASE ResetSimulated
  <2>1. \A i \in Byte : i < dma_len' => dma_buf'[i] = newest'.payload
    BY <1>2 DEF ResetSimulated, NoCommand
  <2> QED
    BY <1>2, <2>1 DEF ResetSimulated, IntactInv
<1>3. CASE ResetDevice
  BY <1>0, <1>3 DEF ResetDevice, WriteReset, IntactInv, Device
<1>4. CASE Kick
  <2>1. dev'.opcode = newest.opcode /\ dev'.dma_len = dma_len
    BY <1>0, <1>4 DEF Kick, WriteStart, WriteCommand, Device
  <2> QED
    BY <1>4, <2>1 DEF Kick, IntactInv, bufVars
<1>5. CASE ReadStatus \/ StoreStatus
  BY <1>5 DEF ReadStatus, StoreStatus, IntactInv, bufVars
<1>6. CASE IrqStep
  BY <1>6 DEF IrqStep, IrqRead, IrqStore, IrqAck, WriteIrqAck, IntactInv, bufVars
<1>7. CASE Complete
  BY <1>0, <1>7 DEF Complete, IntactInv, bufVars, Device
<1>8. CASE UNCHANGED vars
  BY <1>8 DEF vars, bufVars, IntactInv
<1> QED
  BY <1>1, <1>2, <1>3, <1>4, <1>5, <1>6, <1>7, <1>8 DEF Next, IoctlStep

\* Every step leaves a started command in the device.
LEMMA ForgottenStep == TypeOK /\ NothingForgotten /\ [Next]_vars => NothingForgotten'
<1> SUFFICES ASSUME TypeOK, NothingForgotten, [Next]_vars PROVE NothingForgotten'
  OBVIOUS
<1>0. dev \in Device
  BY DEF TypeOK, Device
<1>1. ASSUME NEW cmd \in Command, SendCommand(cmd) PROVE NothingForgotten'
  BY <1>1 DEF SendCommand, NothingForgotten
<1>2. CASE ResetSimulated \/ ResetDevice
  BY <1>2 DEF ResetSimulated, ResetDevice, NothingForgotten
<1>3. CASE Kick
  <2>1. dev'.timer
    BY <1>0, <1>3 DEF Kick, WriteStart, WriteCommand, Device
  <2> QED
    BY <2>1 DEF NothingForgotten
<1>4. CASE ReadStatus \/ StoreStatus
  BY <1>4 DEF ReadStatus, StoreStatus, NothingForgotten, bufVars
<1>5. CASE IrqStep
  BY <1>5 DEF IrqStep, IrqRead, IrqStore, IrqAck, WriteIrqAck, NothingForgotten, bufVars
<1>6. CASE Complete
  <2>1. DONE \in dev'.status /\ dev'.irq
    BY <1>0, <1>6 DEF Complete, Device
  <2> QED
    BY <2>1 DEF NothingForgotten
<1>7. CASE UNCHANGED vars
  BY <1>7 DEF vars, bufVars, NothingForgotten
<1> QED
  BY <1>1, <1>2, <1>3, <1>4, <1>5, <1>6, <1>7 DEF Next, IoctlStep

-----------------------------------------------------------------------------
(* What holds of the prototypes without a command ring.                     *)

\* The length given to the device, and every status, keep their types.
THEOREM ProtoHwTypeCorrect == Spec => []TypeOK
  BY TypeInit, TypeStep, PTL DEF Spec

\* The device works with the buffer, opcode and length of the newest command.
THEOREM ProtoHwCommandIntact == Spec => []CommandIntact
<1>1. Init => IntactInv
  BY DEF Init, IntactInv, NoCommand, Realized
<1>2. IntactInv => CommandIntact
  BY DEF IntactInv, CommandIntact
<1> QED
  BY <1>1, <1>2, TypeInit, TypeStep, IntactStep, PTL DEF Spec

\* A started command is in progress or shown as done, until a reset.
THEOREM ProtoHwNothingForgotten == Spec => []NothingForgotten
<1>1. Init => NothingForgotten
  BY DEF Init, NothingForgotten
<1> QED
  BY <1>1, TypeInit, TypeStep, ForgottenStep, PTL DEF Spec

\* READY is on whatever the device does.
ReadyShown == READY \in dev.status

LEMMA ReadyStep == TypeOK /\ ReadyShown /\ [Next]_vars => ReadyShown'
<1> SUFFICES ASSUME TypeOK, ReadyShown, [Next]_vars PROVE ReadyShown'
  OBVIOUS
<1>0. dev \in Device
  BY DEF TypeOK, Device
<1>1. CASE Kick
  BY <1>0, <1>1 DEF Kick, WriteStart, WriteCommand, ReadyShown, Device
<1>2. CASE ResetDevice
  BY <1>0, <1>2 DEF ResetDevice, WriteReset, ReadyShown, Device
<1>3. CASE Complete
  BY <1>0, <1>3 DEF Complete, ReadyShown, Device
<1>4. CASE dev' = dev
  BY <1>4 DEF ReadyShown
<1> QED
  BY <1>1, <1>2, <1>3, <1>4
     DEF Next, SendCommand, ResetSimulated, IoctlStep, ReadStatus, StoreStatus, IrqStep, IrqRead,
         IrqStore, IrqAck, WriteIrqAck, vars

\* When a command that was sent has been completed, what the handler reads is DONE.
LEMMA HandlerReadsDone ==
    ASSUME TypeOK, ReadyShown, NothingForgotten, Sent, ~dev.timer
    PROVE  dev.status = {READY, DONE}
  BY DEF TypeOK, ReadyShown, NothingForgotten, Sent, Status

\* No step of the handler or the device moves last_status away from DONE after a send,
\* and the completion and every access of the handler after it move it nearer: the
\* stale READY of an ioctl, or of a handler that was interrupted, does not last.
THEOREM ProtoHwSendApproaches == Spec => SendApproaches
<1>1. ASSUME TypeOK, ReadyShown, NothingForgotten, [Next]_vars, Sent, Sent'
      PROVE  /\ ToSettle' <= ToSettle
             /\ Complete \/ (IrqStep /\ ~dev.timer /\ ToSettle > 0) => ToSettle' < ToSettle
  <2>0. isr \in [pc : {"idle", "store", "ack"}, status : Status] /\ dev.timer \in BOOLEAN
    BY <1>1 DEF TypeOK
  <2>1. CASE UNCHANGED vars
    <3>1. UNCHANGED <<dev, isr, last_status>>
      BY <2>1 DEF vars
    <3>2. ~Complete
      BY <1>1, <3>1 DEF Complete, TypeOK
    <3>3. ~IrqStep
      BY <2>0, <3>1 DEF IrqStep, IrqRead, IrqStore, IrqAck
    <3> QED
      BY <2>0, <3>1, <3>2, <3>3 DEF ToSettle
  <2>2. CASE Complete
    <3>1. dev.timer /\ ~dev'.timer /\ isr' = isr /\ last_status' = last_status
      BY <1>1, <2>2 DEF Complete, TypeOK
    <3> QED
      BY <2>0, <3>1 DEF ToSettle
  <2>3. CASE IrqStep
    <3>1. dev' = dev
      BY <2>3 DEF IrqStep, IrqRead, IrqStore, IrqAck, WriteIrqAck
    <3>2. CASE dev.timer
      <4>1. ~Complete
        BY <1>1, <3>1, <3>2 DEF Complete, TypeOK
      <4> QED
        BY <3>1, <3>2, <4>1 DEF ToSettle
    <3>3. CASE ~dev.timer
      <4>1. ~Complete
        BY <3>3 DEF Complete
      <4>2. CASE IrqRead
        <5>1. isr.pc = "idle" /\ isr'.pc = "store" /\ isr'.status = {READY, DONE}
              /\ last_status' = last_status
          BY <1>1, <3>3, <4>2, HandlerReadsDone DEF IrqRead
        <5> QED
          BY <3>1, <3>3, <4>1, <5>1 DEF ToSettle
      <4>3. CASE IrqStore
        <5>1. isr.pc = "store" /\ isr'.pc = "ack" /\ last_status' = isr.status
          BY <2>0, <4>3 DEF IrqStore
        <5> QED
          BY <3>1, <3>3, <4>1, <5>1 DEF ToSettle
      <4>4. CASE IrqAck
        <5>1. isr.pc = "ack" /\ isr'.pc = "idle" /\ last_status' = last_status
          BY <2>0, <4>4 DEF IrqAck
        <5> QED
          BY <3>1, <3>3, <4>1, <5>1 DEF ToSettle
      <4> QED
        BY <2>3, <4>2, <4>3, <4>4 DEF IrqStep
    <3> QED
      BY <3>2, <3>3
  <2>4. ~(\E cmd \in Command : SendCommand(cmd)) /\ ~ResetSimulated /\ ~ResetDevice /\ ~IoctlStep
    BY <1>1 DEF Sent, SendCommand, ResetSimulated, ResetDevice, IoctlStep, Kick, ReadStatus, StoreStatus
  <2> QED
    BY <1>1, <2>1, <2>2, <2>3, <2>4 DEF Next
<1>2. TypeOK /\ ReadyShown /\ NothingForgotten /\ [Next]_vars =>
        [Sent /\ Sent' =>
           /\ ToSettle' <= ToSettle
           /\ Complete \/ (IrqStep /\ ~dev.timer /\ ToSettle > 0) => ToSettle' < ToSettle]_vars
  BY <1>1
<1>3. Init => ReadyShown /\ NothingForgotten
  BY DEF Init, Realized, ReadyShown, NothingForgotten
<1> QED
  BY <1>2, <1>3, TypeInit, TypeStep, ReadyStep, ForgottenStep, PTL DEF Spec, SendApproaches
=============================================================================
