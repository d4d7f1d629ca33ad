--------------------------- MODULE EduPciProofs -----------------------------
(***************************************************************************)
(* The whole driver of edu_pci.c, for every set of threads and programs:   *)
(* it implements the rings of EduRing, and so inherits their theorems, and *)
(* its mutex keeps the blocking calls apart.                               *)
(***************************************************************************)
EXTENDS EduPci, EduRingProofs

-----------------------------------------------------------------------------
(* The inductive invariant: types by group of variables, with what a later  *)
(* step of a call relies on.                                                *)

InLegacy == {"kick", "reinit", "wait"}

\* A thread between kick and reply is in a blocking call, and one that is about to
\* kick the device for the ring carries a request it may submit.
CallInv ==
    /\ pc \in [Thread -> InLegacy \cup {"idle", "ring_kick", "drain"}]
    /\ call \in [Thread -> [op : Call \cup LegacyOp \cup {"none"}, req : SqEntry]]
    /\ ret \in [Thread -> [err : {"none", "ok", "EIO", "ETIMEDOUT"},
                           out : Result, irq : SUBSET {"FACT", "DMA"}]]
    /\ \A t \in Thread : /\ pc[t] \in InLegacy => call[t].op \in LegacyOp
                         /\ pc[t] = "ring_kick" => call[t].req \in CallerReq

SharedInv ==
    /\ lock \subseteq Thread /\ irq_done \in BOOLEAN
    /\ last_irq \subseteq {"FACT", "DMA"}
    /\ last_fact_in \in Operand /\ last_fact_out \in Result
    /\ dma_ok \in {0, 1} /\ inject_fault \in {0, 1}
    /\ evt_ctx \subseteq Eventfd /\ signalled \subseteq Eventfd
    /\ isr \in [pc : {"idle", "ring", "signal", "wake"}, pending : BOOLEAN]

\* While a factorial is computed the FACT register shows its input.
Device ==
    [fact : Result, busy : BOOLEAN, irqEn : BOOLEAN, factFor : CallerTag \cup {Nobody},
     dma : {"idle", "to_edu", "to_ram"}, dmaFor : CallerTag \cup {Nobody},
     buf : [DmaSlot -> SqEntry], irq : SUBSET {"FACT", "DMA"}]

DevInv == dev \in Device /\ (dev.busy => dev.fact \in Operand)

TrackInv ==
    track \in [CallerTag -> [state : {"free", "running", "done", "rejected"}, req : SqEntry]]

PciInv == RingTypeOK /\ CallInv /\ SharedInv /\ DevInv /\ TrackInv

\* The parts make up the type invariant.
LEMMA PciInvTypes == PciInv => TypeOK
  BY DEF PciInv, CallInv, SharedInv, DevInv, Device, TrackInv, TypeOK, InLegacy

\* The zero entry, the pattern and every request callers make are entries.
LEMMA Entries ==
    /\ ZeroSq \in SqEntry /\ PatternEntry \in SqEntry /\ CallerReq \subseteq SqEntry
    /\ \A n \in CallerOperand : [ZeroSq EXCEPT !.operand = n] \in SqEntry
    /\ NoCall \in [op : Call \cup LegacyOp \cup {"none"}, req : SqEntry]
<1>1. ZeroSq \in SqEntry
  BY RingAssumption DEF ZeroSq, SqEntry
<1>2. PatternEntry \in SqEntry
  BY PciAssumption
<1>3. CallerReq \subseteq SqEntry
  BY PciAssumption DEF CallerReq, SqEntry
<1>4. \A n \in CallerOperand : [ZeroSq EXCEPT !.operand = n] \in SqEntry
  BY RingAssumption, PciAssumption DEF ZeroSq, SqEntry
<1>5. NoCall \in [op : Call \cup LegacyOp \cup {"none"}, req : SqEntry]
  BY <1>1 DEF NoCall
<1> QED
  BY <1>1, <1>2, <1>3, <1>4, <1>5

\* The driver starts in the invariant.
LEMMA PciInvInit == Init => PciInv
<1> SUFFICES ASSUME Init PROVE PciInv
  OBVIOUS
<1>1. RingTypeOK
  BY RingTypeInit DEF Init
<1>2. CallInv
  BY Entries, RingAssumption DEF Init, CallInv, InLegacy
<1>3. SharedInv
  BY RingAssumption DEF Init, SharedInv
<1>4. DevInv
  BY Entries, RingAssumption DEF Init, DevInit, DevInv, Device
<1>5. TrackInv
  BY Entries DEF Init, TrackInv
<1> QED
  BY <1>1, <1>2, <1>3, <1>4, <1>5 DEF PciInv

-----------------------------------------------------------------------------
(* Every step of the driver is a step of the rings.                         *)

\* Submissions, posts, polls and opens are the critical sections of EduRing; the
\* DMA test and the end of a transfer write submission entries without the lock;
\* nothing else touches the rings.
LEMMA RingStep == PciInv /\ [Next]_vars => [RingNext]_ringVars
<1> SUFFICES ASSUME PciInv, [Next]_vars PROVE RingNext \/ UNCHANGED ringVars
  OBVIOUS
<1>0. /\ sq \in [Slot -> SqEntry] /\ dev.fact \in Result
      /\ dev.buf \in [DmaSlot -> SqEntry] /\ DmaSlot \subseteq Slot
  BY PciAssumption, RingAssumption DEF PciInv, RingTypeOK, DevInv, Device, DmaSlot, Slot
<1>1. ASSUME NEW t \in Thread, NEW req \in CallerReq, Submit(t, req) PROVE RingNext
  BY <1>1, Entries DEF Submit, RingNext
<1>2. ASSUME NEW entry \in SqEntry, FillSlab(entry) PROVE RingNext
  BY <1>2, <1>0 DEF FillSlab, SlabWrite, RingNext
<1>3. ASSUME NEW t \in Thread, DmaTest(t) \/ DmaTurn(t) PROVE RingNext
  BY <1>2, <1>3, Entries DEF DmaTest, DmaTurn
<1>4. ASSUME NEW t \in Thread, Poll(t) \/ Drain(t) PROVE RingNext \/ UNCHANGED ringVars
  BY <1>4 DEF Poll, Drain, RingNext
<1>5. ASSUME NEW t \in Thread, Open(t) PROVE RingNext
  BY <1>5 DEF Open, RingNext
<1>6. CASE IsrPost
  BY <1>0, <1>6 DEF IsrPost, RingNext
<1>7. CASE DmaDone
  <2>1. [i \in Slot |-> IF i \in DmaSlot /\ dev.dma = "to_ram" THEN dev.buf[i] ELSE sq[i]]
          \in [Slot -> SqEntry]
    BY <1>0
  <2> QED
    BY <1>7, <2>1 DEF DmaDone, SlabWrite, RingNext
<1>8. CASE UNCHANGED ringVars
  BY <1>8
<1>9. ASSUME NEW t \in Thread, ThreadCall(t) PROVE RingNext \/ UNCHANGED ringVars
  BY <1>9, <1>1, <1>3, <1>4, <1>5
     DEF ThreadCall, LegacyCall, Factorial, WaitEventfd, SetEventfd, InjectFault
<1>10. ASSUME NEW t \in Thread, ThreadStep(t) PROVE RingNext \/ UNCHANGED ringVars
  BY <1>10, <1>3, <1>4
     DEF ThreadStep, LegacyStep, Kick, Reinit, FactorialReply, DmaVerify, Timeout, RingKick
<1> QED
  BY <1>6, <1>7, <1>8, <1>9, <1>10
     DEF Next, IsrStep, IsrEnter, IsrSignal, IsrWake, DeviceStep, FactDone, vars
-----------------------------------------------------------------------------
(* Where threads are, the calls they are in and what calls returned.        *)

\* A thread that moves to a place in a call that fits the place keeps CallInv.
LEMMA EnterKeeps ==
    ASSUME CallInv, NEW t \in Thread, NEW req \in SqEntry,
           NEW at \in InLegacy \cup {"idle", "ring_kick", "drain"},
           NEW op \in Call \cup LegacyOp \cup {"none"},
           at \in InLegacy => op \in LegacyOp, at = "ring_kick" => req \in CallerReq,
           Enter(t, at, op, req)
    PROVE  CallInv'
<1>1. /\ pc' = [pc EXCEPT ![t] = at] /\ call' = [call EXCEPT ![t] = [op |-> op, req |-> req]]
      /\ ret' = ret
  BY DEF Enter
<1>2. [op |-> op, req |-> req] \in [op : Call \cup LegacyOp \cup {"none"}, req : SqEntry]
  OBVIOUS
<1>3. /\ pc' \in [Thread -> InLegacy \cup {"idle", "ring_kick", "drain"}]
      /\ call' \in [Thread -> [op : Call \cup LegacyOp \cup {"none"}, req : SqEntry]]
  BY <1>1, <1>2 DEF CallInv
<1>4. ASSUME NEW u \in Thread
      PROVE  /\ pc'[u] \in InLegacy => call'[u].op \in LegacyOp
             /\ pc'[u] = "ring_kick" => call'[u].req \in CallerReq
  <2>1. CASE u = t
    BY <1>1, <2>1 DEF CallInv
  <2>2. CASE u # t
    BY <1>1, <2>2 DEF CallInv
  <2> QED
    BY <2>1, <2>2
<1> QED
  BY <1>1, <1>3, <1>4 DEF CallInv

\* So does one that moves on inside a blocking call,
LEMMA MoveKeeps ==
    ASSUME CallInv, NEW t \in Thread, NEW at \in InLegacy, pc[t] \in InLegacy, MoveTo(t, at)
    PROVE  CallInv'
  BY DEF CallInv, MoveTo, InLegacy

\* one that returns from a blocking call,
LEMMA ReturnKeeps ==
    ASSUME CallInv, NEW t \in Thread, NEW err \in {"none", "ok", "EIO", "ETIMEDOUT"},
           NEW out \in Result, NEW irq \in SUBSET {"FACT", "DMA"}, Return(t, err, out, irq)
    PROVE  CallInv'
<1>1. /\ pc' = [pc EXCEPT ![t] = "idle"] /\ call' = call
      /\ ret' = [ret EXCEPT ![t] = [err |-> err, out |-> out, irq |-> irq]]
  BY DEF Return
<1>2. pc' \in [Thread -> InLegacy \cup {"idle", "ring_kick", "drain"}]
  BY <1>1 DEF CallInv
<1>3. ret' \in [Thread -> [err : {"none", "ok", "EIO", "ETIMEDOUT"},
                           out : Result, irq : SUBSET {"FACT", "DMA"}]]
  BY <1>1 DEF CallInv
<1>4. \A u \in Thread : /\ pc'[u] \in InLegacy => call'[u].op \in LegacyOp
                        /\ pc'[u] = "ring_kick" => call'[u].req \in CallerReq
  BY <1>1 DEF CallInv, InLegacy
<1> QED
  BY <1>1, <1>2, <1>3, <1>4 DEF CallInv

\* and one that leaves another call.
LEMMA LeaveKeeps ==
    ASSUME CallInv, NEW t \in Thread, Leave(t)
    PROVE  CallInv'
<1>1. /\ pc' = [pc EXCEPT ![t] = "idle"] /\ call' = [call EXCEPT ![t] = NoCall] /\ ret' = ret
  BY DEF Leave
<1>2. /\ pc' \in [Thread -> InLegacy \cup {"idle", "ring_kick", "drain"}]
      /\ call' \in [Thread -> [op : Call \cup LegacyOp \cup {"none"}, req : SqEntry]]
  BY <1>1, Entries DEF CallInv
<1>3. \A u \in Thread : /\ pc'[u] \in InLegacy => call'[u].op \in LegacyOp
                        /\ pc'[u] = "ring_kick" => call'[u].req \in CallerReq
  BY <1>1 DEF CallInv, InLegacy
<1> QED
  BY <1>1, <1>2, <1>3 DEF CallInv

\* Every step keeps CallInv.
LEMMA CallStep == PciInv /\ [Next]_vars => CallInv'
<1> SUFFICES ASSUME PciInv, [Next]_vars PROVE CallInv'
  OBVIOUS
<1>0. CallInv /\ dev.fact \in Result /\ last_irq \in SUBSET {"FACT", "DMA"} /\ 0 \in Result
  BY RingAssumption DEF PciInv, DevInv, Device, SharedInv
<1>1. ASSUME NEW t \in Thread, NEW n \in CallerOperand, Factorial(t, n) PROVE CallInv'
  <2>1. Enter(t, "kick", "factorial", [ZeroSq EXCEPT !.operand = n])
    BY <1>1 DEF Factorial
  <2> QED
    BY <2>1, <1>0, Entries, EnterKeeps DEF InLegacy, LegacyOp
<1>2. ASSUME NEW t \in Thread, DmaTest(t) PROVE CallInv'
  <2>1. Enter(t, "kick", "dma_out", ZeroSq)
    BY <1>2 DEF DmaTest
  <2> QED
    BY <2>1, <1>0, Entries, EnterKeeps DEF InLegacy, LegacyOp
<1>3. ASSUME NEW t \in Thread, NEW req \in CallerReq, Submit(t, req) PROVE CallInv'
  <2>1. Enter(t, "ring_kick", "submit", req)
    BY <1>3 DEF Submit
  <2>2. "submit" \in Call /\ "ring_kick" \notin InLegacy
    BY DEF Call, InLegacy
  <2> QED
    BY <2>1, <2>2, <1>0, Entries, EnterKeeps
<1>4. ASSUME NEW t \in Thread, WaitEventfd(t) PROVE CallInv'
  <2>1. Enter(t, "drain", "wait_eventfd", ZeroSq)
    BY <1>4 DEF WaitEventfd
  <2>2. "wait_eventfd" \in Call /\ "drain" \notin InLegacy
    BY DEF Call, InLegacy
  <2> QED
    BY <2>1, <2>2, <1>0, Entries, EnterKeeps
<1>5. ASSUME NEW t \in Thread, Kick(t) PROVE CallInv'
  <2>1. pc[t] \in InLegacy /\ MoveTo(t, "reinit") /\ "reinit" \in InLegacy
    BY <1>5 DEF Kick, InLegacy
  <2> QED
    BY <2>1, <1>0, MoveKeeps
<1>6. ASSUME NEW t \in Thread, Reinit(t) PROVE CallInv'
  <2>1. pc[t] \in InLegacy /\ MoveTo(t, "wait") /\ "wait" \in InLegacy
    BY <1>6 DEF Reinit, InLegacy
  <2> QED
    BY <2>1, <1>0, MoveKeeps
<1>7. ASSUME NEW t \in Thread, FactorialReply(t) PROVE CallInv'
  <2>1. Return(t, "ok", dev.fact, last_irq)
    BY <1>7 DEF FactorialReply
  <2> QED
    BY <2>1, <1>0, ReturnKeeps
<1>8. ASSUME NEW t \in Thread, DmaTurn(t) PROVE CallInv'
  <2>1. Enter(t, "kick", "dma_back", ZeroSq)
    BY <1>8 DEF DmaTurn
  <2> QED
    BY <2>1, <1>0, Entries, EnterKeeps DEF InLegacy, LegacyOp
<1>9. ASSUME NEW t \in Thread, DmaVerify(t) PROVE CallInv'
  <2>1. Return(t, IF RoundTripOK /\ inject_fault = 0 THEN "ok" ELSE "EIO", 0, {})
    BY <1>9 DEF DmaVerify
  <2> QED
    BY <2>1, <1>0, ReturnKeeps
<1>10. ASSUME NEW t \in Thread, Timeout(t) PROVE CallInv'
  <2>1. Return(t, "ETIMEDOUT", 0, {})
    BY <1>10 DEF Timeout
  <2> QED
    BY <2>1, <1>0, ReturnKeeps
<1>11. ASSUME NEW t \in Thread, RingKick(t) PROVE CallInv'
  BY <1>0, <1>11, LeaveKeeps DEF RingKick
<1>12. CASE UNCHANGED callVars
  BY <1>0, <1>12 DEF callVars, CallInv
<1>13. ASSUME NEW t \in Thread, Drain(t) PROVE CallInv'
  BY <1>0, <1>12, <1>13, LeaveKeeps DEF Drain
<1>14. ASSUME NEW t \in Thread, ThreadCall(t) PROVE CallInv'
  BY <1>14, <1>1, <1>2, <1>3, <1>4, <1>12 DEF ThreadCall, LegacyCall, Poll, SetEventfd, Open, InjectFault
<1>15. ASSUME NEW t \in Thread, ThreadStep(t) PROVE CallInv'
  BY <1>15, <1>5, <1>6, <1>7, <1>8, <1>9, <1>10, <1>11, <1>13 DEF ThreadStep, LegacyStep
<1> QED
  BY <1>12, <1>14, <1>15 DEF Next, IsrStep, IsrEnter, IsrPost, IsrSignal, IsrWake,
     DeviceStep, FactDone, DmaDone, vars
-----------------------------------------------------------------------------
(* The other groups of variables.                                           *)

\* What the calls and the handler share keeps its types.
LEMMA SharedStep == PciInv /\ [Next]_vars => SharedInv'
<1> SUFFICES ASSUME PciInv, [Next]_vars PROVE SharedInv'
  OBVIOUS
<1>0. SharedInv /\ dev.fact \in Result /\ dev.irq \in SUBSET {"FACT", "DMA"}
  BY DEF PciInv, DevInv, Device
<1>1. CASE UNCHANGED <<legacyVars, inject_fault, eventVars, isr>>
  BY <1>0, <1>1 DEF SharedInv, legacyVars, eventVars
<1>2. ASSUME NEW t \in Thread, NEW n \in CallerOperand, Factorial(t, n) PROVE SharedInv'
  BY <1>0, <1>2, PciAssumption DEF Factorial, Lock, SharedInv, eventVars
<1>3. ASSUME NEW t \in Thread, DmaTest(t) PROVE SharedInv'
  BY <1>0, <1>3 DEF DmaTest, Lock, SharedInv, eventVars
<1>4. ASSUME NEW t \in Thread, Reinit(t) PROVE SharedInv'
  BY <1>0, <1>4 DEF Reinit, SharedInv, eventVars
<1>5. ASSUME NEW t \in Thread, FactorialReply(t) PROVE SharedInv'
  BY <1>0, <1>5 DEF FactorialReply, Unlock, SharedInv, eventVars
<1>6. ASSUME NEW t \in Thread, DmaTurn(t) PROVE SharedInv'
  BY <1>0, <1>6 DEF DmaTurn, SharedInv, eventVars
<1>7. ASSUME NEW t \in Thread, DmaVerify(t) PROVE SharedInv'
  <2>1. dma_ok' \in {0, 1} /\ inject_fault' \in {0, 1} /\ lock' \subseteq Thread
    BY <1>0, <1>7 DEF DmaVerify, FaultLeft, Unlock, SharedInv
  <2> QED
    BY <1>0, <1>7, <2>1 DEF DmaVerify, SharedInv, eventVars
<1>8. ASSUME NEW t \in Thread, Timeout(t) PROVE SharedInv'
  BY <1>0, <1>8 DEF Timeout, Unlock, SharedInv, eventVars
<1>9. ASSUME NEW t \in Thread, WaitEventfd(t) PROVE SharedInv'
  BY <1>0, <1>9 DEF WaitEventfd, SharedInv, legacyVars
<1>10. ASSUME NEW t \in Thread, NEW fd \in Eventfd, SetEventfd(t, fd) PROVE SharedInv'
  BY <1>0, <1>10 DEF SetEventfd, SharedInv, legacyVars
<1>11. ASSUME NEW t \in Thread, NEW val \in {0, 1}, InjectFault(t, val) PROVE SharedInv'
  BY <1>0, <1>11 DEF InjectFault, SharedInv, legacyVars, eventVars
<1>12. CASE IsrEnter
  BY <1>0, <1>12 DEF IsrEnter, SharedInv, eventVars
<1>13. CASE IsrPost
  BY <1>0, <1>13 DEF IsrPost, SharedInv, legacyVars, eventVars
<1>14. CASE IsrSignal
  BY <1>0, <1>14 DEF IsrSignal, SharedInv, legacyVars
<1>15. CASE IsrWake
  BY <1>0, <1>15 DEF IsrWake, SharedInv, eventVars
<1>16. ASSUME NEW t \in Thread, ThreadCall(t) PROVE SharedInv'
  BY <1>16, <1>1, <1>2, <1>3, <1>9, <1>10, <1>11 DEF ThreadCall, LegacyCall, Submit, Poll, Open
<1>17. ASSUME NEW t \in Thread, ThreadStep(t) PROVE SharedInv'
  BY <1>17, <1>1, <1>4, <1>5, <1>6, <1>7, <1>8 DEF ThreadStep, LegacyStep, Kick, RingKick, Drain
<1> QED
  BY <1>1, <1>12, <1>13, <1>14, <1>15, <1>16, <1>17
     DEF Next, IsrStep, DeviceStep, FactDone, DmaDone, vars

\* A register write keeps the device well typed.
LEMMA RegisterWrites ==
    ASSUME DevInv, NEW n \in Operand, NEW for \in CallerTag \cup {Nobody}, NEW on \in BOOLEAN
    PROVE  /\ dev' = StartFact(FactIrq(dev, on), n, for) => DevInv'
           /\ dev' = StartDma(FactIrq(dev, on), "to_edu", for) => DevInv'
           /\ dev' = StartDma(dev, "to_ram", for) => DevInv'
<1>1. ASSUME NEW d \in Device, d.busy => d.fact \in Operand
      PROVE  /\ StartFact(d, n, for) \in Device
             /\ StartFact(d, n, for).busy => StartFact(d, n, for).fact \in Operand
  <2>1. n \in Result
    BY PciAssumption
  <2> QED
    BY <1>1, <2>1 DEF StartFact, Device
<1>2. ASSUME NEW d \in Device, d.busy => d.fact \in Operand,
             NEW direction \in {"to_edu", "to_ram"}
      PROVE  /\ StartDma(d, direction, for) \in Device
             /\ StartDma(d, direction, for).busy => StartDma(d, direction, for).fact \in Operand
  BY <1>2 DEF StartDma, Device
<1>3. /\ FactIrq(dev, on) \in Device
      /\ FactIrq(dev, on).busy => FactIrq(dev, on).fact \in Operand
  BY DEF DevInv, FactIrq, Device
<1> QED
  BY <1>1, <1>2, <1>3 DEF DevInv

\* The device keeps its types, and the input of a factorial while it is computed.
LEMMA DevStep == PciInv /\ [Next]_vars => DevInv'
<1> SUFFICES ASSUME PciInv, [Next]_vars PROVE DevInv'
  OBVIOUS
<1>0. /\ DevInv /\ CallInv /\ sq \in [Slot -> SqEntry] /\ DmaSlot \subseteq Slot
      /\ Nobody \in CallerTag \cup {Nobody}
  BY PciAssumption, RingAssumption DEF PciInv, RingTypeOK, DmaSlot, Slot
<1>1. CASE UNCHANGED dev
  BY <1>0, <1>1 DEF DevInv
<1>2. ASSUME NEW t \in Thread, Kick(t) PROVE DevInv'
  <2>1. call[t].op \in LegacyOp /\ call[t].req.operand \in Operand
    BY <1>0, <1>2 DEF Kick, CallInv, InLegacy, SqEntry
  <2>2. CASE call[t].op = "factorial"
    <3>1. dev' = StartFact(FactIrq(dev, TRUE), call[t].req.operand, Nobody)
      BY <1>2, <2>2 DEF Kick
    <3> QED
      BY <3>1, <2>1, <1>0, RegisterWrites
  <2>3. CASE call[t].op = "dma_out"
    <3>1. dev' = StartDma(FactIrq(dev, FALSE), "to_edu", Nobody)
      BY <1>2, <2>3 DEF Kick
    <3> QED
      BY <3>1, <2>1, <1>0, RegisterWrites
  <2>4. CASE call[t].op = "dma_back"
    <3>1. dev' = StartDma(dev, "to_ram", Nobody)
      BY <1>2, <2>4 DEF Kick
    <3> QED
      BY <3>1, <2>1, <1>0, RegisterWrites
  <2> QED
    BY <2>1, <2>2, <2>3, <2>4 DEF LegacyOp
<1>3. ASSUME NEW t \in Thread, RingKick(t) PROVE DevInv'
  <2> DEFINE req == call[t].req
  <2>1. req \in CallerReq /\ req.tag \in CallerTag \cup {Nobody} /\ req.operand \in Operand
    BY <1>0, <1>3, PciAssumption DEF RingKick, CallInv, CallerReq
  <2>2. \/ dev' = StartFact(FactIrq(dev, TRUE), req.operand, req.tag)
        \/ dev' = StartDma(FactIrq(dev, FALSE), "to_edu", req.tag)
        \/ dev' = dev
    BY <1>3 DEF RingKick
  <2> QED
    BY <1>0, <1>1, <2>1, <2>2, RegisterWrites
<1>4. ASSUME NEW t \in Thread, Open(t) PROVE DevInv'
  BY <1>0, <1>4 DEF Open, DevInv, Device
<1>5. CASE IsrEnter
  BY <1>0, <1>5 DEF IsrEnter, DevInv, Device
<1>6. CASE FactDone
  <2>1. Fact[dev.fact] \in Result
    BY <1>0, <1>6, FactAssumption DEF FactDone, DevInv, Device
  <2> QED
    BY <1>0, <1>6, <2>1 DEF FactDone, DevInv, Device
<1>7. CASE DmaDone
  <2>1. [i \in DmaSlot |-> sq[i]] \in [DmaSlot -> SqEntry]
    BY <1>0
  <2> QED
    BY <1>0, <1>7, <2>1 DEF DmaDone, DevInv, Device
<1>8. ASSUME NEW t \in Thread, ThreadCall(t) PROVE DevInv'
  BY <1>8, <1>1, <1>4 DEF ThreadCall, LegacyCall, Factorial, DmaTest, Submit, Poll, WaitEventfd,
     SetEventfd, InjectFault
<1>9. ASSUME NEW t \in Thread, ThreadStep(t) PROVE DevInv'
  BY <1>9, <1>1, <1>2, <1>3 DEF ThreadStep, LegacyStep, Reinit, FactorialReply, DmaTurn, DmaVerify,
     Timeout, Drain
<1> QED
  BY <1>1, <1>5, <1>6, <1>7, <1>8, <1>9
     DEF Next, IsrStep, IsrPost, IsrSignal, IsrWake, DeviceStep, vars

\* The record of what became of each tag keeps its type.
LEMMA TrackStep == PciInv /\ [Next]_vars => TrackInv'
<1> SUFFICES ASSUME PciInv, [Next]_vars PROVE TrackInv'
  OBVIOUS
<1>0. TrackInv /\ CallInv /\ ZeroSq \in SqEntry /\ CallerReq \subseteq SqEntry
  BY Entries DEF PciInv
<1>1. CASE UNCHANGED track
  BY <1>0, <1>1 DEF TrackInv
<1>2. ASSUME NEW for, track' = Finished(for) PROVE TrackInv'
  BY <1>0, <1>2 DEF Finished, TrackInv
<1>3. ASSUME NEW tag, Untrack(tag) PROVE TrackInv'
  BY <1>0, <1>3 DEF Untrack, TrackInv
<1>4. ASSUME NEW t \in Thread, NEW req \in CallerReq, Submit(t, req) PROVE TrackInv'
  BY <1>0, <1>4 DEF Submit, TrackInv, CallerReq
<1>5. ASSUME NEW t \in Thread, RingKick(t) PROVE TrackInv'
  <2>1. call[t].req.tag \in CallerTag
    BY <1>0, <1>5 DEF RingKick, CallInv, CallerReq
  <2> QED
    BY <1>0, <1>5, <2>1 DEF RingKick, TrackInv
<1>6. ASSUME NEW t \in Thread, Open(t) PROVE TrackInv'
  BY <1>0, <1>6 DEF Open, TrackInv
<1>7. ASSUME NEW t \in Thread, Poll(t) \/ Drain(t) PROVE TrackInv'
  BY <1>7, <1>1, <1>3 DEF Poll, Drain
<1>8. ASSUME NEW t \in Thread, ThreadCall(t) PROVE TrackInv'
  BY <1>8, <1>1, <1>4, <1>6, <1>7 DEF ThreadCall, LegacyCall, Factorial, DmaTest, WaitEventfd,
     SetEventfd, InjectFault
<1>9. ASSUME NEW t \in Thread, ThreadStep(t) PROVE TrackInv'
  BY <1>9, <1>1, <1>5, <1>7 DEF ThreadStep, LegacyStep, Kick, Reinit, FactorialReply, DmaTurn,
     DmaVerify, Timeout
<1> QED
  BY <1>1, <1>2, <1>8, <1>9 DEF Next, IsrStep, IsrEnter, IsrPost, IsrSignal, IsrWake,
     DeviceStep, FactDone, DmaDone, vars

\* The invariant is inductive.
LEMMA PciInvStep == PciInv /\ [Next]_vars => PciInv'
<1>1. PciInv /\ [Next]_vars => RingTypeOK'
  BY RingStep, RingTypeStep DEF PciInv
<1> QED
  BY <1>1, CallStep, SharedStep, DevStep, TrackStep DEF PciInv

-----------------------------------------------------------------------------
(* The mutex of the blocking calls.                                         *)

\* A thread that takes the mutex on its way in is the only one in a blocking call,
LEMMA LockKeeps ==
    ASSUME CallInv, LegacyExclusive, NEW t \in Thread, pc[t] = "idle", Lock(t),
           NEW at \in InLegacy, NEW op, NEW req, Enter(t, at, op, req)
    PROVE  LegacyExclusive'
  BY DEF CallInv, LegacyExclusive, InLegacy, Lock, Enter

\* one that gives it back leaves none in one,
LEMMA UnlockKeeps ==
    ASSUME CallInv, LegacyExclusive, NEW t \in Thread, pc[t] \in InLegacy, Unlock,
           NEW err, NEW out, NEW irq, Return(t, err, out, irq)
    PROVE  LegacyExclusive'
  BY DEF CallInv, LegacyExclusive, InLegacy, Unlock, Return

\* and nothing changes while a thread stays in a blocking call, or stays out of one.
LEMMA StayKeeps ==
    ASSUME CallInv, LegacyExclusive, NEW t \in Thread, lock' = lock,
           NEW at, pc' = [pc EXCEPT ![t] = at], pc[t] \in InLegacy <=> at \in InLegacy
    PROVE  LegacyExclusive'
<1>1. ASSUME NEW u \in Thread
      PROVE  pc'[u] \in InLegacy <=> u \in lock
  <2>1. CASE u = t
    BY <2>1 DEF CallInv, LegacyExclusive, InLegacy
  <2>2. CASE u # t
    BY <2>2 DEF CallInv, LegacyExclusive, InLegacy
  <2> QED
    BY <2>1, <2>2
<1> QED
  BY <1>1 DEF LegacyExclusive, InLegacy

\* Every step keeps the blocking calls apart.
LEMMA LegacyExclusiveStep == PciInv /\ LegacyExclusive /\ [Next]_vars => LegacyExclusive'
<1> SUFFICES ASSUME PciInv, LegacyExclusive, [Next]_vars PROVE LegacyExclusive'
  OBVIOUS
<1>0. CallInv
  BY DEF PciInv
<1>1. CASE UNCHANGED <<pc, lock>>
  BY <1>1 DEF LegacyExclusive
<1>2. ASSUME NEW t \in Thread, NEW n \in CallerOperand, Factorial(t, n) PROVE LegacyExclusive'
  <2>1. /\ pc[t] = "idle" /\ Lock(t) /\ "kick" \in InLegacy
        /\ Enter(t, "kick", "factorial", [ZeroSq EXCEPT !.operand = n])
    BY <1>2 DEF Factorial, MayStart, MayCall, InLegacy
  <2> QED
    BY <2>1, <1>0, LockKeeps
<1>3. ASSUME NEW t \in Thread, DmaTest(t) PROVE LegacyExclusive'
  <2>1. /\ pc[t] = "idle" /\ Lock(t) /\ "kick" \in InLegacy
        /\ Enter(t, "kick", "dma_out", ZeroSq)
    BY <1>3 DEF DmaTest, MayStart, MayCall, InLegacy
  <2> QED
    BY <2>1, <1>0, LockKeeps
<1>4. ASSUME NEW t \in Thread, FactorialReply(t) PROVE LegacyExclusive'
  <2>1. pc[t] \in InLegacy /\ Unlock /\ Return(t, "ok", dev.fact, last_irq)
    BY <1>4 DEF FactorialReply, Woken, InLegacy
  <2> QED
    BY <2>1, <1>0, UnlockKeeps
<1>5. ASSUME NEW t \in Thread, DmaVerify(t) PROVE LegacyExclusive'
  <2>1. /\ pc[t] \in InLegacy /\ Unlock
        /\ Return(t, IF RoundTripOK /\ inject_fault = 0 THEN "ok" ELSE "EIO", 0, {})
    BY <1>5 DEF DmaVerify, Woken, InLegacy
  <2> QED
    BY <2>1, <1>0, UnlockKeeps
<1>6. ASSUME NEW t \in Thread, Timeout(t) PROVE LegacyExclusive'
  <2>1. pc[t] \in InLegacy /\ Unlock /\ Return(t, "ETIMEDOUT", 0, {})
    BY <1>6 DEF Timeout, InLegacy
  <2> QED
    BY <2>1, <1>0, UnlockKeeps
<1>7. ASSUME NEW t \in Thread, Kick(t) \/ Reinit(t) \/ DmaTurn(t) PROVE LegacyExclusive'
  <2>1. PICK at \in InLegacy : pc' = [pc EXCEPT ![t] = at]
    BY <1>7 DEF Kick, Reinit, DmaTurn, MoveTo, Enter, InLegacy
  <2>2. pc[t] \in InLegacy /\ lock' = lock
    BY <1>7 DEF Kick, Reinit, DmaTurn, Woken, InLegacy, legacyVars
  <2> QED
    BY <2>1, <2>2, <1>0, StayKeeps
<1>8. ASSUME NEW t \in Thread, NEW req \in CallerReq, Submit(t, req) PROVE LegacyExclusive'
  <2>1. /\ pc' = [pc EXCEPT ![t] = "ring_kick"] /\ lock' = lock
        /\ pc[t] \notin InLegacy /\ "ring_kick" \notin InLegacy
    BY <1>8 DEF Submit, MayStart, MayCall, Enter, InLegacy, legacyVars
  <2> QED
    BY <2>1, <1>0, StayKeeps
<1>9. ASSUME NEW t \in Thread, WaitEventfd(t) PROVE LegacyExclusive'
  <2>1. /\ pc' = [pc EXCEPT ![t] = "drain"] /\ lock' = lock
        /\ pc[t] \notin InLegacy /\ "drain" \notin InLegacy
    BY <1>9 DEF WaitEventfd, MayCall, Enter, InLegacy, legacyVars
  <2> QED
    BY <2>1, <1>0, StayKeeps
<1>10. ASSUME NEW t \in Thread, RingKick(t) \/ Drain(t) PROVE LegacyExclusive'
  <2>1. /\ pc' = [pc EXCEPT ![t] = "idle"] \/ pc' = pc
        /\ lock' = lock /\ pc[t] \notin InLegacy /\ "idle" \notin InLegacy
    BY <1>10 DEF RingKick, Drain, Leave, InLegacy, legacyVars, callVars
  <2> QED
    BY <2>1, <1>0, <1>1, StayKeeps
<1>11. ASSUME NEW t \in Thread, ThreadCall(t) PROVE LegacyExclusive'
  BY <1>11, <1>1, <1>2, <1>3, <1>8, <1>9
     DEF ThreadCall, LegacyCall, Poll, SetEventfd, Open, InjectFault, callVars, legacyVars
<1>12. ASSUME NEW t \in Thread, ThreadStep(t) PROVE LegacyExclusive'
  BY <1>12, <1>4, <1>5, <1>6, <1>7, <1>10 DEF ThreadStep, LegacyStep
<1> QED
  BY <1>1, <1>11, <1>12 DEF Next, IsrStep, IsrEnter, IsrPost, IsrSignal, IsrWake,
     DeviceStep, FactDone, DmaDone, callVars, legacyVars, vars

-----------------------------------------------------------------------------
(* What holds of the driver.                                                *)

\* Every variable of the driver keeps its type, whatever threads, handler and
\* device do.
THEOREM PciTypeCorrect == Spec => []TypeOK
  BY PciInvTypes, PciInvInit, PciInvStep, PTL DEF Spec

\* The driver, with all its threads, its handler and the device, implements the
\* rings of EduRing.
THEOREM PciImplementsRing == Spec => RingRefined
<1>1. Init => RingInit
  BY DEF Init
<1> QED
  BY <1>1, RingStep, PciInvInit, PciInvStep, PTL DEF Spec, RingRefined, RingSpec

\* So its handler never posts over the consumer's index,
THEOREM PciNoOverrun == Spec => CqNeverOverrun
  BY PciImplementsRing, NoOverrun DEF RingRefined

\* and its completions are a FIFO, whatever its callers do.
THEOREM PciCompletionsAreFifo == Spec => CompletionsAreFifo
  BY PciImplementsRing, RingImplementsFifo DEF RingRefined

\* Completions and slots in flight never outnumber the submissions not yet polled.
THEOREM PciInflightWithinUsed == Spec => []InflightWithinUsed
  BY PciImplementsRing, RingInvariant DEF RingRefined

\* The blocking calls run one at a time, and every way out of one gives the mutex
\* back.
THEOREM PciLegacyExclusive == Spec => []LegacyExclusive
<1>1. Init => LegacyExclusive
  BY DEF Init, LegacyExclusive
<1> QED
  BY <1>1, LegacyExclusiveStep, PciInvInit, PciInvStep, PTL DEF Spec
=============================================================================
