-------------------------- MODULE ProtoRingProofs ---------------------------
(***************************************************************************)
(* The simulated rings of pcie_prototype_ring, for every size of the rings,*)
(* every payload limit and every bound on the commands between two resets. *)
(***************************************************************************)
EXTENDS ProtoRing, SequenceTheorems, TLAPS

-----------------------------------------------------------------------------
(* Arithmetic of the indices.                                               *)

\* The slot k places after slot i, without the remainder.
LEMMA SlotAfter ==
    ASSUME NEW i \in Slot, NEW k \in 0 .. RING_ENTRIES
    PROVE  /\ (i + k) % RING_ENTRIES =
                IF i + k >= RING_ENTRIES THEN i + k - RING_ENTRIES ELSE i + k
           /\ (i + k) % RING_ENTRIES \in Slot
  BY ProtoAssumption DEF Slot

\* The slot k places before slot i, without the remainder.
LEMMA SlotBefore ==
    ASSUME NEW i \in Slot, NEW k \in 1 .. RING_ENTRIES
    PROVE  /\ (i - k) % RING_ENTRIES = IF i >= k THEN i - k ELSE i - k + RING_ENTRIES
           /\ (i - k) % RING_ENTRIES \in Slot
  BY ProtoAssumption DEF Slot

\* next, without the remainder.
LEMMA NextSlot ==
    ASSUME NEW i \in Slot
    PROVE  /\ next(i) = IF i = RING_ENTRIES - 1 THEN 0 ELSE i + 1
           /\ next(i) \in Slot
  BY ProtoAssumption DEF Slot, next

-----------------------------------------------------------------------------
(* Type correctness and the accounting of commands, which need each other:  *)
(* completed_total stays below MaxSeqno only because a command that is      *)
(* completed was pending and numbered.                                      *)

Counted == TypeOK /\ Accounted

\* The driver starts well typed and with nothing to account for.
LEMMA CountedInit == Init => Counted
<1> SUFFICES ASSUME Init PROVE Counted
  OBVIOUS
<1>1. ZeroCmd \in CmdEntry /\ ZeroComp \in CompEntry
  BY ProtoAssumption DEF ZeroCmd, ZeroComp, CmdEntry, CompEntry, Seqno, LengthIn
<1>2. 0 \in Slot /\ 0 \in 0 .. RING_ENTRIES /\ 0 \in Seqno /\ 0 \in LengthIn /\ 1 \in 1 .. MaxSeqno + 1
  BY ProtoAssumption DEF Slot, Seqno, LengthIn
<1>3. cmd_ring \in [Slot -> CmdEntry] /\ comp_ring \in [Slot -> CompEntry]
  BY <1>1 DEF Init
<1>4. cmd_payloads \in [Slot -> Payload \cup {ZeroPayload}]
  BY DEF Init
<1>5. Accounted
  BY DEF Init, Accounted
<1>6. processing \in BOOLEAN /\ dma_buf \in Payload \cup {ZeroPayload} /\ last_status \in {READY, READY + DONE}
  BY DEF Init
<1> QED
  BY <1>2, <1>3, <1>4, <1>5, <1>6, ProtoAssumption DEF Init, Counted, TypeOK

\* The length kept for a command fits its payload slot.
LEMMA ClipFits ==
    ASSUME NEW length \in Length
    PROVE  Clip(length) \in LengthIn
  BY ProtoAssumption DEF Clip, LengthIn

\* A command that is sent or processed is counted on the other side, and the
\* entries that are written have their types.
LEMMA CountedStep == Counted /\ [Next]_vars => Counted'
<1> SUFFICES ASSUME Counted, [Next]_vars PROVE Counted'
  OBVIOUS
<1> USE ProtoAssumption DEF Counted, Accounted
<1>1. CASE Reset
  BY <1>1 DEF Reset, ClearTotals, TypeOK, Slot, CmdEntry, CompEntry, ZeroCmd, ZeroComp, Seqno,
     LengthIn, READY, DONE
<1>2. ASSUME NEW opcode \in Opcode, NEW length \in Length, NEW payload \in Payload,
             SendCommand(opcode, length, payload)
      PROVE  Counted'
  <2>1. [opcode |-> opcode, length |-> Clip(length), seqno |-> next_seqno] \in CmdEntry
    BY <1>2, ClipFits DEF SendCommand, TypeOK, CmdEntry, Seqno
  <2>2. cmd_ring' \in [Slot -> CmdEntry] /\ cmd_payloads' \in [Slot -> Payload \cup {ZeroPayload}]
    BY <1>2, <2>1 DEF SendCommand, TypeOK
  <2>3. /\ cmd_tail' \in Slot /\ cmd_pending' \in 0 .. RING_ENTRIES
        /\ next_seqno' \in 1 .. MaxSeqno + 1 /\ Accounted'
    BY <1>2, NextSlot DEF SendCommand, RoomInRing, TypeOK, Seqno, compVars
  <2> QED
    BY <1>2, <2>2, <2>3 DEF SendCommand, TypeOK, compVars, READY, DONE
<1>3. CASE BeginProcess
  BY <1>3 DEF BeginProcess, TypeOK, cmdVars, compVars, lastVars
<1>4. CASE ProcessOne
  <2> DEFINE entry == cmd_ring[cmd_head]
  <2>1. /\ entry \in CmdEntry /\ entry.opcode \in Opcode /\ entry.length \in LengthIn
        /\ entry.seqno \in Seqno
    BY DEF TypeOK, CmdEntry
  <2>2. [opcode |-> entry.opcode, status |-> READY + DONE, length |-> entry.length,
         seqno |-> entry.seqno] \in CompEntry
    BY <2>1 DEF CompEntry
  <2>3. StoreCompletion(entry)
    BY <1>4 DEF ProcessOne
  <2>4. comp_ring' \in [Slot -> CompEntry]
    BY <2>2, <2>3 DEF StoreCompletion, LogSlot, TypeOK
  <2>5. comp_tail' \in Slot /\ comp_pending' \in 0 .. RING_ENTRIES
    BY <2>3, NextSlot DEF StoreCompletion, LogCount, TypeOK
  <2>6. /\ cmd_head' \in Slot /\ cmd_pending' \in 0 .. RING_ENTRIES
        /\ completed_total' \in Seqno /\ Accounted'
    BY <1>4, NextSlot DEF ProcessOne, TypeOK, Seqno
  <2> QED
    BY <1>4, <2>1, <2>4, <2>5, <2>6 DEF ProcessOne, TypeOK
<1>5. CASE EndProcess
  BY <1>5 DEF EndProcess, TypeOK, cmdVars, compVars, lastVars
<1>6. CASE UNCHANGED vars
  BY <1>6 DEF vars, TypeOK, cmdVars, compVars, lastVars
<1> QED
  BY <1>1, <1>2, <1>3, <1>4, <1>5, <1>6 DEF Next

\* The driver is always well typed.
THEOREM ProtoTypeCorrect == Spec => []TypeOK
<1>1. Counted => TypeOK
  BY DEF Counted
<1> QED
  BY <1>1, CountedInit, CountedStep, PTL DEF Spec

\* Every command since the last reset is pending or completed, once.
THEOREM ProtoAccounted == Spec => []Accounted
<1>1. Counted => Accounted
  BY DEF Counted
<1> QED
  BY <1>1, CountedInit, CountedStep, PTL DEF Spec
-----------------------------------------------------------------------------
(* The pending commands lie in order from cmd_head on.                      *)

OrderInv == Counted /\ PendingInOrder

\* The slots of the pending commands are not the one a submission fills.
LEMMA TailIsFree ==
    ASSUME OrderInv, RoomInRing, NEW k \in 0 .. cmd_pending - 1
    PROVE  (cmd_head + k) % RING_ENTRIES # cmd_tail
<1>1. /\ cmd_head \in Slot /\ cmd_tail \in Slot /\ cmd_pending \in 0 .. RING_ENTRIES
      /\ cmd_tail = (cmd_head + cmd_pending) % RING_ENTRIES /\ cmd_pending < RING_ENTRIES
  BY DEF OrderInv, Counted, TypeOK, PendingInOrder, RoomInRing
<1>2. k \in 0 .. RING_ENTRIES
  BY <1>1, ProtoAssumption
<1>3. (cmd_head + k) % RING_ENTRIES =
        IF cmd_head + k >= RING_ENTRIES THEN cmd_head + k - RING_ENTRIES ELSE cmd_head + k
  BY <1>1, <1>2, SlotAfter
<1>4. (cmd_head + cmd_pending) % RING_ENTRIES =
        IF cmd_head + cmd_pending >= RING_ENTRIES THEN cmd_head + cmd_pending - RING_ENTRIES
        ELSE cmd_head + cmd_pending
  BY <1>1, SlotAfter
<1> QED
  BY <1>1, <1>2, <1>3, <1>4, ProtoAssumption DEF Slot

\* The slot after the last pending command is the next tail.
LEMMA TailMoves ==
    ASSUME NEW h \in Slot, NEW n \in 0 .. RING_ENTRIES - 1
    PROVE  next((h + n) % RING_ENTRIES) = (h + (n + 1)) % RING_ENTRIES
<1>1. n \in 0 .. RING_ENTRIES /\ n + 1 \in 0 .. RING_ENTRIES
  BY ProtoAssumption
<1>2. /\ (h + n) % RING_ENTRIES = IF h + n >= RING_ENTRIES THEN h + n - RING_ENTRIES ELSE h + n
      /\ (h + n) % RING_ENTRIES \in Slot
  BY <1>1, SlotAfter
<1>3. (h + (n + 1)) % RING_ENTRIES =
        IF h + (n + 1) >= RING_ENTRIES THEN h + (n + 1) - RING_ENTRIES ELSE h + (n + 1)
  BY <1>1, SlotAfter
<1>4. next((h + n) % RING_ENTRIES) =
        IF (h + n) % RING_ENTRIES = RING_ENTRIES - 1 THEN 0 ELSE ((h + n) % RING_ENTRIES) + 1
  BY <1>2, NextSlot
<1> QED
  BY <1>1, <1>2, <1>3, <1>4, ProtoAssumption DEF Slot

\* Counting from the slot after the head is counting one further from the head.
LEMMA HeadMoves ==
    ASSUME NEW h \in Slot, NEW n \in 0 .. RING_ENTRIES - 1
    PROVE  (next(h) + n) % RING_ENTRIES = (h + (n + 1)) % RING_ENTRIES
<1>1. n \in 0 .. RING_ENTRIES /\ n + 1 \in 0 .. RING_ENTRIES
  BY ProtoAssumption
<1>2. next(h) \in Slot /\ next(h) = IF h = RING_ENTRIES - 1 THEN 0 ELSE h + 1
  BY NextSlot
<1>3. (next(h) + n) % RING_ENTRIES =
        IF next(h) + n >= RING_ENTRIES THEN next(h) + n - RING_ENTRIES ELSE next(h) + n
  BY <1>1, <1>2, SlotAfter
<1>4. (h + (n + 1)) % RING_ENTRIES =
        IF h + (n + 1) >= RING_ENTRIES THEN h + (n + 1) - RING_ENTRIES ELSE h + (n + 1)
  BY <1>1, SlotAfter
<1> QED
  BY <1>1, <1>2, <1>3, <1>4, ProtoAssumption DEF Slot

\* Nothing is pending at first.
LEMMA OrderInit == Init => OrderInv
<1>1. Init => PendingInOrder
  BY ProtoAssumption DEF Init, PendingInOrder
<1> QED
  BY <1>1, CountedInit DEF OrderInv

\* A submission numbers the slot behind the pending ones, a round of processing
\* takes the first, and a reset leaves none.
LEMMA OrderStep == OrderInv /\ [Next]_vars => OrderInv'
<1> SUFFICES ASSUME OrderInv, [Next]_vars PROVE PendingInOrder'
  BY CountedStep DEF OrderInv
<1> USE DEF OrderInv
<1>0. /\ TypeOK /\ cmd_head \in Slot /\ cmd_tail \in Slot /\ cmd_pending \in 0 .. RING_ENTRIES
      /\ completed_total \in Nat /\ completed_total + cmd_pending = next_seqno - 1
      /\ next_seqno \in Nat
  BY ProtoAssumption DEF Counted, TypeOK, Accounted, Seqno
<1>1. CASE Reset
  BY <1>1, ProtoAssumption DEF Reset, ClearTotals, PendingInOrder
<1>2. ASSUME NEW opcode \in Opcode, NEW length \in Length, NEW payload \in Payload,
             SendCommand(opcode, length, payload)
      PROVE  PendingInOrder'
  <2>0. /\ RoomInRing
        /\ cmd_ring' = [cmd_ring EXCEPT ![cmd_tail] =
                          [opcode |-> opcode, length |-> Clip(length), seqno |-> next_seqno]]
        /\ cmd_tail' = next(cmd_tail) /\ cmd_head' = cmd_head
        /\ cmd_pending' = cmd_pending + 1 /\ completed_total' = completed_total
    BY <1>2 DEF SendCommand, compVars
  <2>1. cmd_pending \in 0 .. RING_ENTRIES - 1
    BY <1>0, <2>0, ProtoAssumption DEF RoomInRing
  <2>2. cmd_tail' = (cmd_head' + cmd_pending') % RING_ENTRIES
    BY <2>0, <2>1, <1>0, TailMoves DEF PendingInOrder
  <2>3. ASSUME NEW k \in 0 .. cmd_pending
        PROVE  cmd_ring'[(cmd_head + k) % RING_ENTRIES].seqno = completed_total + 1 + k
    <3>1. CASE k = cmd_pending
      <4>1. cmd_ring'[cmd_tail].seqno = next_seqno
        BY <2>0, <1>0 DEF TypeOK
      <4>2. next_seqno = completed_total + 1 + cmd_pending
        BY <1>0
      <4> QED
        BY <3>1, <4>1, <4>2 DEF PendingInOrder
    <3>2. CASE k # cmd_pending
      <4>1. k \in 0 .. cmd_pending - 1 /\ k \in 0 .. RING_ENTRIES
        BY <3>2, <1>0, ProtoAssumption
      <4>2. (cmd_head + k) % RING_ENTRIES # cmd_tail /\ (cmd_head + k) % RING_ENTRIES \in Slot
        BY <4>1, <2>0, <1>0, TailIsFree, SlotAfter
      <4>3. cmd_ring'[(cmd_head + k) % RING_ENTRIES] = cmd_ring[(cmd_head + k) % RING_ENTRIES]
        BY <4>2, <2>0, <1>0 DEF TypeOK
      <4> QED
        BY <4>1, <4>3 DEF PendingInOrder
    <3> QED
      BY <3>1, <3>2
  <2>4. cmd_pending' - 1 = cmd_pending
    BY <2>0, <1>0
  <2> QED
    BY <2>0, <2>2, <2>3, <2>4 DEF PendingInOrder
<1>3. CASE ProcessOne
  <2>1. /\ cmd_pending > 0 /\ cmd_ring' = cmd_ring /\ cmd_tail' = cmd_tail
        /\ cmd_head' = next(cmd_head) /\ cmd_pending' = cmd_pending - 1
        /\ completed_total' = completed_total + 1
    BY <1>3 DEF ProcessOne
  <2>2. /\ cmd_pending - 1 \in 0 .. RING_ENTRIES - 1 /\ (cmd_pending - 1) + 1 = cmd_pending
    BY <2>1, <1>0, ProtoAssumption
  <2>3. cmd_tail' = (cmd_head' + cmd_pending') % RING_ENTRIES
    BY <2>1, <2>2, <1>0, HeadMoves DEF PendingInOrder
  <2>4. ASSUME NEW k \in 0 .. cmd_pending - 2
        PROVE  cmd_ring[(next(cmd_head) + k) % RING_ENTRIES].seqno = completed_total + 2 + k
    <3>1. k \in 0 .. RING_ENTRIES - 1 /\ k + 1 \in 0 .. cmd_pending - 1
      BY <1>0, ProtoAssumption
    <3>2. (next(cmd_head) + k) % RING_ENTRIES = (cmd_head + (k + 1)) % RING_ENTRIES
      BY <3>1, <1>0, HeadMoves
    <3>3. cmd_ring[(cmd_head + (k + 1)) % RING_ENTRIES].seqno = completed_total + 1 + (k + 1)
      BY <3>1 DEF PendingInOrder
    <3>4. completed_total + 1 + (k + 1) = completed_total + 2 + k
      BY <1>0
    <3> QED
      BY <3>2, <3>3, <3>4
  <2>5. /\ cmd_pending' - 1 = cmd_pending - 2
        /\ \A k \in Int : completed_total' + 1 + k = completed_total + 2 + k
    BY <2>1, <1>0
  <2> QED
    BY <2>1, <2>3, <2>4, <2>5 DEF PendingInOrder
<1>4. CASE BeginProcess \/ EndProcess \/ UNCHANGED vars
  BY <1>4 DEF BeginProcess, EndProcess, vars, cmdVars, compVars, PendingInOrder
<1> QED
  BY <1>1, <1>2, <1>3, <1>4 DEF Next

\* The pending commands are the slots from cmd_head on, numbered one after the
\* other up to the last number given out.
THEOREM ProtoPendingInOrder == Spec => []PendingInOrder
<1>1. OrderInv => PendingInOrder
  BY DEF OrderInv
<1> QED
  BY <1>1, OrderInit, OrderStep, PTL DEF Spec

-----------------------------------------------------------------------------
(* The completion log.                                                      *)

LogInv == OrderInv /\ LogHoldsNewest

\* Counting back from the slot after the tail is counting back one less from the
\* tail.
LEMMA LogMoves ==
    ASSUME NEW t \in Slot
    PROVE  /\ (next(t) - 1) % RING_ENTRIES = t
           /\ \A k \in 2 .. RING_ENTRIES :
                /\ (next(t) - k) % RING_ENTRIES = (t - (k - 1)) % RING_ENTRIES
                /\ (t - (k - 1)) % RING_ENTRIES # t
<1>1. next(t) \in Slot /\ next(t) = IF t = RING_ENTRIES - 1 THEN 0 ELSE t + 1
  BY NextSlot
<1>2. (next(t) - 1) % RING_ENTRIES = t
  <2>1. 1 \in 1 .. RING_ENTRIES
    BY ProtoAssumption
  <2>2. (next(t) - 1) % RING_ENTRIES =
          IF next(t) >= 1 THEN next(t) - 1 ELSE next(t) - 1 + RING_ENTRIES
    BY <1>1, <2>1, SlotBefore
  <2> QED
    BY <1>1, <2>2, ProtoAssumption DEF Slot
<1>3. ASSUME NEW k \in 2 .. RING_ENTRIES
      PROVE  /\ (next(t) - k) % RING_ENTRIES = (t - (k - 1)) % RING_ENTRIES
             /\ (t - (k - 1)) % RING_ENTRIES # t
  <2>1. k \in 1 .. RING_ENTRIES /\ k - 1 \in 1 .. RING_ENTRIES
    BY ProtoAssumption
  <2>2. (next(t) - k) % RING_ENTRIES =
          IF next(t) >= k THEN next(t) - k ELSE next(t) - k + RING_ENTRIES
    BY <1>1, <2>1, SlotBefore
  <2>3. (t - (k - 1)) % RING_ENTRIES =
          IF t >= k - 1 THEN t - (k - 1) ELSE t - (k - 1) + RING_ENTRIES
    BY <2>1, SlotBefore
  <2> QED
    BY <1>1, <2>1, <2>2, <2>3, ProtoAssumption DEF Slot
<1> QED
  BY <1>2, <1>3

\* The log is empty at first.
LEMMA LogInit == Init => LogInv
<1>1. Init => LogHoldsNewest
  BY ProtoAssumption DEF Init, LogHoldsNewest
<1> QED
  BY <1>1, OrderInit DEF LogInv

\* A round of processing logs the command with the next number over the oldest
\* entry; nothing else but a reset touches the log.
LEMMA LogStep == LogInv /\ [Next]_vars => LogInv'
<1> SUFFICES ASSUME LogInv, [Next]_vars PROVE LogHoldsNewest'
  BY OrderStep DEF LogInv
<1>0. /\ TypeOK /\ PendingInOrder /\ LogHoldsNewest
      /\ comp_tail \in Slot /\ cmd_head \in Slot /\ comp_pending \in 0 .. RING_ENTRIES
      /\ completed_total \in Nat /\ cmd_pending \in 0 .. RING_ENTRIES
  BY ProtoAssumption DEF LogInv, OrderInv, Counted, TypeOK, Seqno
<1>1. CASE Reset
  BY <1>1, ProtoAssumption DEF Reset, ClearTotals, LogHoldsNewest
<1>2. CASE ProcessOne
  <2> DEFINE entry == cmd_ring[cmd_head]
  <2>1. /\ cmd_pending > 0 /\ completed_total' = completed_total + 1
        /\ StoreCompletion(entry)
    BY <1>2 DEF ProcessOne
  <2>2. /\ comp_ring' = [comp_ring EXCEPT ![comp_tail] =
                           [opcode |-> entry.opcode, status |-> READY + DONE,
                            length |-> entry.length, seqno |-> entry.seqno]]
        /\ comp_tail' = next(comp_tail)
        /\ comp_pending' = LogCount
    BY <2>1 DEF StoreCompletion, LogSlot
  <2>3. entry.seqno = completed_total + 1
    <3>1. 0 \in 0 .. cmd_pending - 1 /\ (cmd_head + 0) % RING_ENTRIES = cmd_head
      BY <1>0, <2>1, ProtoAssumption DEF Slot
    <3>2. cmd_ring[(cmd_head + 0) % RING_ENTRIES].seqno = completed_total + 1 + 0
      BY <1>0, <3>1 DEF PendingInOrder
    <3> QED
      BY <1>0, <3>1, <3>2
  <2>4. comp_pending' = IF completed_total' < RING_ENTRIES THEN completed_total'
                        ELSE RING_ENTRIES
    BY <1>0, <2>1, <2>2, ProtoAssumption DEF LogHoldsNewest, LogCount
  <2>5. comp_pending' \in 0 .. RING_ENTRIES /\ comp_pending' - 1 <= comp_pending
    BY <1>0, <2>2, ProtoAssumption DEF LogCount
  <2>6. ASSUME NEW k \in 1 .. comp_pending'
        PROVE  comp_ring'[(next(comp_tail) - k) % RING_ENTRIES].seqno =
                 completed_total + 1 + 1 - k
    <3>1. CASE k = 1
      <4>1. (next(comp_tail) - k) % RING_ENTRIES = comp_tail
        BY <1>0, <3>1, LogMoves
      <4>2. comp_ring'[comp_tail].seqno = entry.seqno
        BY <1>0, <2>2 DEF TypeOK
      <4> QED
        BY <1>0, <3>1, <4>1, <4>2, <2>3
    <3>2. CASE k # 1
      <4> DEFINE n == comp_pending'
      <4>0. n \in 0 .. RING_ENTRIES /\ n - 1 <= comp_pending /\ k \in 1 .. n
        BY <2>5
      <4> HIDE DEF n
      <4>1. k \in 2 .. RING_ENTRIES /\ k - 1 \in 1 .. comp_pending /\ k - 1 \in 1 .. RING_ENTRIES
        BY <3>2, <1>0, <4>0, ProtoAssumption
      <4>2. /\ (next(comp_tail) - k) % RING_ENTRIES = (comp_tail - (k - 1)) % RING_ENTRIES
            /\ (comp_tail - (k - 1)) % RING_ENTRIES # comp_tail
        BY <1>0, <4>1, LogMoves
      <4>3. (comp_tail - (k - 1)) % RING_ENTRIES \in Slot
        BY <1>0, <4>1, SlotBefore
      <4>4. comp_ring'[(comp_tail - (k - 1)) % RING_ENTRIES] =
              comp_ring[(comp_tail - (k - 1)) % RING_ENTRIES]
        BY <1>0, <2>2, <4>2, <4>3 DEF TypeOK
      <4>5. comp_ring[(comp_tail - (k - 1)) % RING_ENTRIES].seqno = completed_total + 1 - (k - 1)
        BY <1>0, <4>1 DEF LogHoldsNewest
      <4>6. completed_total + 1 - (k - 1) = completed_total + 1 + 1 - k
        BY <1>0, <4>1
      <4> QED
        BY <4>2, <4>4, <4>5, <4>6
    <3> QED
      BY <3>1, <3>2
  <2> QED
    BY <2>1, <2>2, <2>4, <2>6 DEF LogHoldsNewest
<1>3. CASE UNCHANGED compVars
  BY <1>0, <1>3 DEF compVars, LogHoldsNewest
<1> QED
  BY <1>1, <1>2, <1>3 DEF Next, SendCommand, BeginProcess, EndProcess, vars

\* The completion log holds the newest completions in order, as many as fit.
THEOREM ProtoLogHoldsNewest == Spec => []LogHoldsNewest
<1>1. LogInv => LogHoldsNewest
  BY DEF LogInv
<1> QED
  BY <1>1, LogInit, LogStep, PTL DEF Spec

LastInv == Counted /\ LastIsLogged

\* The newest log entry and the last_ fields are written together; a submission
\* sets last_status alone, and leaves a command pending.
LEMMA LastStep == LastInv /\ [Next]_vars => LastInv'
<1> SUFFICES ASSUME LastInv, [Next]_vars PROVE LastIsLogged'
  BY CountedStep DEF LastInv
<1>0. /\ TypeOK /\ LastIsLogged /\ comp_tail \in Slot /\ cmd_pending \in 0 .. RING_ENTRIES
  BY DEF LastInv, Counted, TypeOK
<1>1. CASE Reset
  <2>1. completed_total' = 0
    BY <1>1 DEF Reset, ClearTotals
  <2> QED
    BY <2>1 DEF LastIsLogged
<1>2. ASSUME NEW opcode \in Opcode, NEW length \in Length, NEW payload \in Payload,
             SendCommand(opcode, length, payload)
      PROVE  LastIsLogged'
  <2>1. /\ comp_ring' = comp_ring /\ comp_tail' = comp_tail
        /\ completed_total' = completed_total /\ last_opcode' = last_opcode
        /\ last_length' = last_length /\ last_status' = READY
        /\ cmd_pending' = cmd_pending + 1
    BY <1>2 DEF SendCommand, compVars
  <2>2. cmd_pending' > 0
    BY <1>0, <2>1
  <2> QED
    BY <1>0, <2>1, <2>2 DEF LastIsLogged
<1>3. CASE ProcessOne
  <2> DEFINE entry == cmd_ring[cmd_head]
  <2>1. /\ comp_ring' = [comp_ring EXCEPT ![comp_tail] =
                           [opcode |-> entry.opcode, status |-> READY + DONE,
                            length |-> entry.length, seqno |-> entry.seqno]]
        /\ comp_tail' = next(comp_tail)
        /\ last_opcode' = entry.opcode /\ last_length' = entry.length
        /\ last_status' = READY + DONE
    BY <1>3 DEF ProcessOne, StoreCompletion, LogSlot
  <2>2. (comp_tail' - 1) % RING_ENTRIES = comp_tail
    BY <1>0, <2>1, LogMoves
  <2>3. comp_ring'[comp_tail] = [opcode |-> entry.opcode, status |-> READY + DONE,
                                 length |-> entry.length, seqno |-> entry.seqno]
    BY <1>0, <2>1 DEF TypeOK
  <2> QED
    BY <2>1, <2>2, <2>3 DEF LastIsLogged
<1>4. CASE UNCHANGED <<cmdVars, compVars, lastVars>>
  BY <1>0, <1>4 DEF cmdVars, compVars, lastVars, LastIsLogged
<1> QED
  BY <1>1, <1>2, <1>3, <1>4 DEF Next, BeginProcess, EndProcess, vars

\* What GET_STATUS and GET_RING_STATE report agrees with the newest log entry,
\* unless a command was sent since.
THEOREM ProtoLastIsLogged == Spec => []LastIsLogged
<1>1. Init => LastInv
  BY CountedInit DEF Init, LastInv, LastIsLogged
<1>2. LastInv => LastIsLogged
  BY DEF LastInv
<1> QED
  BY <1>1, <1>2, LastStep, PTL DEF Spec

-----------------------------------------------------------------------------
(* The commands are a bounded FIFO.                                         *)

PendingValue == [cmd : CmdEntry, payload : Payload \cup {ZeroPayload}]

\* The pending commands as a sequence.
LEMMA PendingCommandsSeq ==
    Counted => /\ cmd_pending \in 0 .. RING_ENTRIES
               /\ PendingCommands \in Seq(PendingValue) /\ Len(PendingCommands) = cmd_pending
<1> SUFFICES ASSUME Counted
             PROVE  /\ cmd_pending \in 0 .. RING_ENTRIES
                    /\ PendingCommands \in Seq(PendingValue)
                    /\ Len(PendingCommands) = cmd_pending
  OBVIOUS
<1>1. /\ cmd_pending \in 0 .. RING_ENTRIES /\ cmd_pending \in Nat /\ cmd_head \in Slot
      /\ cmd_ring \in [Slot -> CmdEntry] /\ cmd_payloads \in [Slot -> Payload \cup {ZeroPayload}]
  BY ProtoAssumption DEF Counted, TypeOK
<1>2. ASSUME NEW i \in 1 .. cmd_pending PROVE PendingEntry(i - 1) \in PendingValue
  <2>1. i - 1 \in 0 .. RING_ENTRIES
    BY <1>1, ProtoAssumption
  <2>2. (cmd_head + (i - 1)) % RING_ENTRIES \in Slot
    BY <1>1, <2>1, SlotAfter
  <2> QED
    BY <1>1, <2>2 DEF PendingEntry, PendingValue
<1>3. PendingCommands \in [1 .. cmd_pending -> PendingValue]
  BY <1>2 DEF PendingCommands
<1>4. PendingCommands \in Seq(PendingValue)
  BY <1>1, <1>3, SeqDef
<1>5. DOMAIN PendingCommands = 1 .. cmd_pending
  BY <1>3
<1>6. Len(PendingCommands) = cmd_pending
  BY <1>1, <1>4, <1>5, LenProperties
<1> QED
  BY <1>1, <1>4, <1>6

\* The same of the commands pending after a step.
LEMMA PendingCommandsSeqNext ==
    Counted' => (/\ cmd_pending \in 0 .. RING_ENTRIES
                 /\ PendingCommands \in Seq(PendingValue)
                 /\ Len(PendingCommands) = cmd_pending)'
  BY PendingCommandsSeq, PTL

\* A submission appends a command to the queue, which has room for it.
LEMMA SendAppends ==
    ASSUME OrderInv, OrderInv', NEW opcode \in Opcode, NEW length \in Length,
           NEW payload \in Payload, SendCommand(opcode, length, payload)
    PROVE  \E v \in PendingValue : CommandFifo!Put(v)
<1> DEFINE c == [opcode |-> opcode, length |-> Clip(length), seqno |-> next_seqno]
           v == [cmd |-> c, payload |-> payload]
<1>0. /\ Counted /\ Counted' /\ TypeOK /\ PendingInOrder
      /\ cmd_pending \in 0 .. RING_ENTRIES /\ cmd_head \in Slot /\ cmd_tail \in Slot
  BY DEF OrderInv, Counted, TypeOK
<1>1. c \in CmdEntry
  BY ClipFits, <1>0 DEF SendCommand, TypeOK, CmdEntry, Seqno
<1>2. v \in PendingValue
  BY <1>1 DEF PendingValue
<1>3. /\ RoomInRing
      /\ cmd_ring' = [cmd_ring EXCEPT ![cmd_tail] = c]
      /\ cmd_payloads' = [cmd_payloads EXCEPT ![cmd_tail] = payload]
      /\ cmd_head' = cmd_head /\ cmd_pending' = cmd_pending + 1
  BY DEF SendCommand
<1> HIDE DEF c
<1>4. /\ PendingCommands \in Seq(PendingValue) /\ Len(PendingCommands) = cmd_pending
  BY <1>0, PendingCommandsSeq
<1>5. /\ PendingCommands' \in Seq(PendingValue) /\ Len(PendingCommands') = cmd_pending + 1
  BY <1>0, <1>3, PendingCommandsSeqNext
<1>6. cmd_pending < RING_ENTRIES /\ cmd_pending \in Nat
  BY <1>0, <1>3 DEF RoomInRing
<1>7. ASSUME NEW k \in 1 .. cmd_pending + 1
      PROVE  PendingCommands'[k] = Append(PendingCommands, v)[k]
  <2>0. PendingCommands'[k] = [cmd |-> cmd_ring'[(cmd_head + (k - 1)) % RING_ENTRIES],
                               payload |-> cmd_payloads'[(cmd_head + (k - 1)) % RING_ENTRIES]]
    BY <1>3 DEF PendingCommands, PendingEntry
  <2>1. CASE k = cmd_pending + 1
    <3>1. (cmd_head + (k - 1)) % RING_ENTRIES = cmd_tail
      <4>1. k - 1 = cmd_pending
        BY <2>1, <1>6
      <4> QED
        BY <4>1, <1>0 DEF PendingInOrder
    <3>2. PendingCommands'[k] = v
      BY <2>0, <3>1, <1>0, <1>3 DEF TypeOK
    <3> QED
      BY <2>1, <3>2, <1>2, <1>4, AppendProperties
  <2>2. CASE k # cmd_pending + 1
    <3>1. k \in 1 .. cmd_pending /\ k - 1 \in 0 .. cmd_pending - 1 /\ k - 1 \in 0 .. RING_ENTRIES
      BY <2>2, <1>6, ProtoAssumption
    <3>2. /\ (cmd_head + (k - 1)) % RING_ENTRIES # cmd_tail
          /\ (cmd_head + (k - 1)) % RING_ENTRIES \in Slot
      BY <3>1, <1>0, <1>3, TailIsFree, SlotAfter
    <3>3. PendingCommands'[k] = PendingEntry(k - 1)
      BY <2>0, <3>2, <1>0, <1>3 DEF TypeOK, PendingEntry
    <3>4. PendingCommands[k] = PendingEntry(k - 1)
      BY <3>1 DEF PendingCommands
    <3> QED
      BY <3>1, <3>3, <3>4, <1>2, <1>4, AppendProperties
  <2> QED
    BY <2>1, <2>2
<1>8. PendingCommands' = Append(PendingCommands, v)
  <2>1. /\ Append(PendingCommands, v) \in Seq(PendingValue)
        /\ Len(Append(PendingCommands, v)) = cmd_pending + 1
    BY <1>2, <1>4, AppendProperties
  <2> QED
    BY <2>1, <1>5, <1>7, SeqEqual
<1> QED
  BY <1>2, <1>4, <1>6, <1>8 DEF CommandFifo!Put

\* A round of processing takes the oldest command.
LEMMA ProcessTakesHead ==
    ASSUME OrderInv, OrderInv', ProcessOne
    PROVE  CommandFifo!Get
<1>0. Counted /\ Counted' /\ cmd_pending \in 0 .. RING_ENTRIES /\ cmd_head \in Slot
  BY DEF OrderInv, Counted, TypeOK
<1>1. /\ cmd_pending > 0 /\ cmd_ring' = cmd_ring /\ cmd_payloads' = cmd_payloads
      /\ cmd_head' = next(cmd_head) /\ cmd_pending' = cmd_pending - 1
  BY DEF ProcessOne
<1>2. /\ PendingCommands \in Seq(PendingValue) /\ Len(PendingCommands) = cmd_pending
  BY <1>0, PendingCommandsSeq
<1>3. /\ PendingCommands' \in Seq(PendingValue) /\ Len(PendingCommands') = cmd_pending - 1
  BY <1>0, <1>1, PendingCommandsSeqNext
<1>4. PendingCommands # <<>>
  BY <1>0, <1>1, <1>2, EmptySeq
<1>5. ASSUME NEW k \in 1 .. cmd_pending - 1
      PROVE  PendingCommands'[k] = Tail(PendingCommands)[k]
  <2>1. /\ k + 1 \in 1 .. cmd_pending /\ k - 1 \in 0 .. RING_ENTRIES - 1
        /\ (k - 1) + 1 = k /\ (k + 1) - 1 = k
    BY <1>0, ProtoAssumption
  <2>2. (next(cmd_head) + (k - 1)) % RING_ENTRIES = (cmd_head + k) % RING_ENTRIES
    <3>1. (next(cmd_head) + (k - 1)) % RING_ENTRIES = (cmd_head + ((k - 1) + 1)) % RING_ENTRIES
      BY <1>0, <2>1, HeadMoves
    <3> QED
      BY <2>1, <3>1
  <2>3. PendingCommands'[k] =
          [cmd |-> cmd_ring[(next(cmd_head) + (k - 1)) % RING_ENTRIES],
           payload |-> cmd_payloads[(next(cmd_head) + (k - 1)) % RING_ENTRIES]]
    BY <1>1 DEF PendingCommands, PendingEntry
  <2>4. PendingCommands[k + 1] = PendingEntry(k)
    BY <2>1 DEF PendingCommands
  <2>5. Tail(PendingCommands)[k] = PendingCommands[k + 1]
    BY <1>2, <1>4, HeadTailProperties
  <2> QED
    BY <2>2, <2>3, <2>4, <2>5 DEF PendingEntry
<1>6. PendingCommands' = Tail(PendingCommands)
  <2>1. Tail(PendingCommands) \in Seq(PendingValue) /\ Len(Tail(PendingCommands)) = cmd_pending - 1
    BY <1>2, <1>4, HeadTailProperties
  <2> QED
    BY <2>1, <1>3, <1>5, SeqEqual
<1> QED
  BY <1>4, <1>6 DEF CommandFifo!Get

\* With no command pending the queue is empty.
LEMMA NonePending ==
    ASSUME cmd_pending = 0
    PROVE  PendingCommands = <<>>
  BY DEF PendingCommands

\* The command ring implements a FIFO of RING_ENTRIES commands: a submission puts
\* one, a round of processing takes the oldest, a reset drops them all.
THEOREM ProtoRingImplementsFifo == Spec => CommandsAreFifo
<1>1. Init => CommandFifo!FifoInit
  BY NonePending DEF Init, CommandFifo!FifoInit
<1>2. OrderInv /\ OrderInv' /\ [Next]_vars => [CommandFifo!FifoNext]_PendingCommands
  <2> SUFFICES ASSUME OrderInv, OrderInv', [Next]_vars
               PROVE  CommandFifo!FifoNext \/ UNCHANGED PendingCommands
    OBVIOUS
  <2>1. CASE Reset
    <3>1. PendingCommands' = <<>>
      BY <2>1 DEF Reset, PendingCommands
    <3> QED
      BY <3>1 DEF CommandFifo!FifoNext, CommandFifo!Clear
  <2>2. ASSUME NEW opcode \in Opcode, NEW length \in Length, NEW payload \in Payload,
               SendCommand(opcode, length, payload)
        PROVE  CommandFifo!FifoNext
    BY <2>2, SendAppends DEF CommandFifo!FifoNext, PendingValue
  <2>3. CASE ProcessOne
    BY <2>3, ProcessTakesHead DEF CommandFifo!FifoNext
  <2>4. CASE UNCHANGED cmdVars
    BY <2>4 DEF cmdVars, PendingCommands, PendingEntry
  <2> QED
    BY <2>1, <2>2, <2>3, <2>4 DEF Next, BeginProcess, EndProcess, vars
<1> QED
  BY <1>1, <1>2, OrderInit, OrderStep, PTL DEF Spec, CommandsAreFifo, CommandFifo!FifoSpec

=============================================================================
