--------------------------- MODULE EduLegacyProofs --------------------------
(***************************************************************************)
(* The blocking calls of edu_pci.c, when callers make no ring call and the *)
(* device answers within the second: each factorial that is reported done  *)
(* is the factorial of its own input, and a DMA test fails only because a  *)
(* fault was armed, for any threads, operands and sizes.                   *)
(***************************************************************************)
EXTENDS EduPciProofs

\* Every step of the driver without ring calls is one of the driver.
LEMMA LegacyNextIsNext == [LegacyNext]_vars => [Next]_vars
  BY DEF LegacyNext, Next, ThreadCall, ThreadStep

\* The driver without ring calls is the driver, so its theorems hold here.
THEOREM LegacyImplements == LegacySpec => Spec
  BY LegacyNextIsNext, PTL DEF LegacySpec, Spec

-----------------------------------------------------------------------------
(* What the thread in a blocking call may rely on.                          *)

Quiescent == ~InterruptComing

\* The pattern is in the device.
BufferHolds == \A i \in DmaSlot : dev.buf[i] = PatternEntry

\* From the kick to the reply: the device computes, its interrupt is pending, or the
\* handler has taken it and noted it in last_irq.
FactUnderWay(n) ==
    /\ dev.dma = "idle"
    /\ \/ dev.busy /\ dev.irqEn /\ dev.fact = n /\ dev.irq = {} /\ isr.pc = "idle"
       \/ ~dev.busy /\ dev.fact = Fact[n] /\ dev.irq = {"FACT"} /\ isr.pc = "idle"
       \/ ~dev.busy /\ dev.fact = Fact[n] /\ dev.irq = {} /\ last_irq = {"FACT"}

\* The transfer runs, and the pattern is where it takes it from; or it is over, and
\* the pattern is where it went.
TransferOver == dev.dma = "idle" /\ (dev.irq = {} \/ (dev.irq = {"DMA"} /\ isr.pc = "idle"))

OutUnderWay ==
    /\ ~dev.busy
    /\ \/ dev.dma = "to_edu" /\ RoundTripOK /\ dev.irq = {} /\ isr.pc = "idle"
       \/ TransferOver /\ BufferHolds

BackUnderWay ==
    /\ ~dev.busy
    /\ \/ dev.dma = "to_ram" /\ BufferHolds /\ dev.irq = {} /\ isr.pc = "idle"
       \/ TransferOver /\ RoundTripOK

\* A call finds the device at rest and leaves it at rest; what woke a caller was the
\* last thing the device had to say.
Phase(t) ==
    /\ pc[t] = "kick" =>
          /\ Quiescent
          /\ call[t].op = "dma_out" => RoundTripOK
          /\ call[t].op = "dma_back" => BufferHolds
    /\ pc[t] \in {"reinit", "wait"} =>
          /\ call[t].op = "factorial" => FactUnderWay(call[t].req.operand)
          /\ call[t].op = "dma_out" => OutUnderWay
          /\ call[t].op = "dma_back" => BackUnderWay
    /\ pc[t] = "wait" /\ irq_done => Quiescent

Returned(t) ==
    (pc[t] = "idle" /\ call[t].op = "factorial" /\ ret[t].err = "ok") =>
        /\ ret[t].out = Fact[call[t].req.operand]
        /\ ret[t].irq = {"FACT"}

LegacyInv ==
    /\ PciInv /\ LegacyExclusive
    /\ lock = {} => Quiescent
    /\ \A t \in Thread : Phase(t) /\ Returned(t)

\* The driver starts at rest.
LEMMA LegacyInvInit == Init => LegacyInv
<1> SUFFICES ASSUME Init PROVE LegacyInv
  OBVIOUS
<1>1. PciInv
  BY PciInvInit
<1>2. LegacyExclusive
  BY DEF Init, LegacyExclusive
<1>3. Quiescent
  BY DEF Init, DevInit, Quiescent, InterruptComing
<1>4. \A t \in Thread : pc[t] = "idle" /\ ret[t].err = "none"
  BY DEF Init
<1> QED
  BY <1>1, <1>2, <1>3, <1>4 DEF LegacyInv, Phase, Returned

-----------------------------------------------------------------------------
(* The device and the handler.                                              *)

\* A step of the device or the handler moves the call under way along.
LEMMA DeviceMoves ==
    ASSUME LegacyInv, IsrStep \/ DeviceStep, NEW t \in Thread
    PROVE  Phase(t)' /\ Returned(t)'
<1>0. /\ PciInv /\ LegacyExclusive /\ Phase(t) /\ Returned(t)
      /\ lock = {} => Quiescent
  BY DEF LegacyInv
<1>1. /\ pc' = pc /\ call' = call /\ ret' = ret /\ lock' = lock
  BY DEF IsrStep, IsrEnter, IsrPost, IsrSignal, IsrWake, DeviceStep, FactDone, DmaDone,
         callVars, legacyVars
<1>2. ~Quiescent
  BY DEF Quiescent, InterruptComing, IsrStep, IsrEnter, IsrPost, IsrSignal, IsrWake,
         DeviceStep, FactDone, DmaDone
<1>3. lock # {} /\ pc[t] # "kick" /\ ~(pc[t] = "wait" /\ irq_done)
  BY <1>0, <1>2 DEF Phase
<1>4. Returned(t)'
  BY <1>0, <1>1 DEF Returned
<1>5. pc[t] \in {"reinit", "wait"} =>
        /\ call[t].op = "factorial" => FactUnderWay(call[t].req.operand)
        /\ call[t].op = "dma_out" => OutUnderWay
        /\ call[t].op = "dma_back" => BackUnderWay
        /\ call[t].op \in LegacyOp
  BY <1>0 DEF Phase, PciInv, CallInv, InLegacy
<1>6. dev \in Device /\ sq \in [Slot -> SqEntry] /\ DmaSlot \subseteq Slot
  BY <1>0, PciAssumption, RingAssumption DEF PciInv, DevInv, RingTypeOK, DmaSlot, Slot
<1>a. CASE FactDone
  <2>1. /\ dev.busy /\ isr' = isr /\ last_irq' = last_irq /\ irq_done' = irq_done /\ sq' = sq
        /\ dev' = [dev EXCEPT !.busy = FALSE, !.factFor = Nobody, !.fact = Fact[dev.fact],
                              !.irq = IF dev.irqEn THEN @ \cup {"FACT"} ELSE @]
    BY <1>a DEF FactDone, legacyVars, ringVars
  <2>2. /\ ~dev'.busy /\ dev'.fact = Fact[dev.fact] /\ dev'.dma = dev.dma
        /\ dev.irqEn => dev'.irq = dev.irq \cup {"FACT"}
    BY <2>1, <1>6 DEF Device
  <2> QED
    BY <1>1, <1>3, <1>4, <1>5, <2>1, <2>2
       DEF Phase, FactUnderWay, OutUnderWay, BackUnderWay, LegacyOp
<1>b. CASE DmaDone
  <2>1. /\ dev.dma # "idle" /\ isr' = isr /\ last_irq' = last_irq /\ irq_done' = irq_done
        /\ dev'.dma = "idle" /\ dev'.busy = dev.busy /\ dev'.irq = dev.irq \cup {"DMA"}
    BY <1>b, <1>6 DEF DmaDone, Device, legacyVars
  <2>2. dev.dma = "to_edu" /\ RoundTripOK => BufferHolds'
    BY <1>b, <1>6 DEF DmaDone, Device, RoundTripOK, BufferHolds
  <2>3. dev.dma = "to_ram" /\ BufferHolds => RoundTripOK'
    BY <1>b, <1>6 DEF DmaDone, SlabWrite, RoundTripOK, BufferHolds
  <2> QED
    BY <1>1, <1>3, <1>4, <1>5, <2>1, <2>2, <2>3
       DEF Phase, FactUnderWay, OutUnderWay, BackUnderWay, TransferOver, LegacyOp
<1>c. CASE IsrEnter
  <2>1. /\ dev.irq # {} /\ isr.pc = "idle" /\ irq_done' = irq_done /\ sq' = sq
        /\ last_irq' = dev.irq /\ dev' = [dev EXCEPT !.irq = {}]
    BY <1>c DEF IsrEnter, ringVars
  <2>2. /\ dev'.irq = {} /\ dev'.busy = dev.busy /\ dev'.fact = dev.fact
        /\ dev'.dma = dev.dma /\ dev'.buf = dev.buf
    BY <2>1, <1>6 DEF Device
  <2> QED
    BY <1>1, <1>3, <1>4, <1>5, <2>1, <2>2
       DEF Phase, FactUnderWay, OutUnderWay, BackUnderWay, TransferOver, LegacyOp,
           RoundTripOK, BufferHolds
<1>d. CASE IsrPost \/ IsrSignal
  <2>1. /\ isr.pc # "idle" /\ irq_done' = irq_done /\ last_irq' = last_irq /\ dev' = dev
        /\ sq' = sq
    BY <1>d DEF IsrPost, IsrSignal, PostCompletion, legacyVars, ringVars
  <2> QED
    BY <1>1, <1>3, <1>4, <1>5, <2>1
       DEF Phase, FactUnderWay, OutUnderWay, BackUnderWay, TransferOver, LegacyOp,
           RoundTripOK, BufferHolds
<1>e. CASE IsrWake
  <2>1. /\ isr.pc # "idle" /\ isr'.pc = "idle" /\ last_irq' = last_irq /\ dev' = dev
        /\ sq' = sq
    BY <1>e, <1>0 DEF IsrWake, PciInv, SharedInv, ringVars
  <2> QED
    BY <1>1, <1>3, <1>4, <1>5, <2>1
       DEF Phase, FactUnderWay, OutUnderWay, BackUnderWay, TransferOver, LegacyOp,
           RoundTripOK, BufferHolds, Quiescent, InterruptComing
<1> QED
  BY <1>1, <1>3, <1>a, <1>b, <1>c, <1>d, <1>e DEF IsrStep, DeviceStep

-----------------------------------------------------------------------------
(* The threads.  While one is in a blocking call no other is, so a step of  *)
(* it is the only one to look at.                                           *)

\* A step of a thread that ends a call, or keeps it, leaves the others alone.
LEMMA OthersOut ==
    ASSUME LegacyInv, NEW t \in Thread, t \in lock \/ lock = {},
           \A u \in Thread : u # t =>
              pc'[u] = pc[u] /\ call'[u] = call[u] /\ ret'[u] = ret[u],
           Phase(t)', Returned(t)'
    PROVE  \A u \in Thread : Phase(u)' /\ Returned(u)'
<1> SUFFICES ASSUME NEW u \in Thread, u # t PROVE Phase(u)' /\ Returned(u)'
  OBVIOUS
<1>1. u \notin lock
  BY DEF LegacyInv, LegacyExclusive
<1>2. pc'[u] \notin InLegacy
  BY <1>1 DEF LegacyInv, LegacyExclusive, InLegacy
<1>3. Returned(u)'
  BY DEF LegacyInv, Returned
<1> QED
  BY <1>2, <1>3 DEF Phase, InLegacy

\* What a move of a thread to another place of its call, or into a call, says.
LEMMA EnterEffect ==
    ASSUME PciInv, NEW t \in Thread, NEW at, NEW op, NEW req, Enter(t, at, op, req)
    PROVE  /\ pc'[t] = at /\ call'[t].op = op /\ call'[t].req = req
           /\ \A u \in Thread : u # t =>
                 pc'[u] = pc[u] /\ call'[u] = call[u] /\ ret'[u] = ret[u]
  BY DEF PciInv, CallInv, Enter

LEMMA MoveEffect ==
    ASSUME PciInv, NEW t \in Thread, NEW at, MoveTo(t, at)
    PROVE  /\ pc'[t] = at /\ call' = call /\ ret' = ret
           /\ \A u \in Thread : u # t =>
                 pc'[u] = pc[u] /\ call'[u] = call[u] /\ ret'[u] = ret[u]
  BY DEF PciInv, CallInv, MoveTo

LEMMA ReturnEffect ==
    ASSUME PciInv, NEW t \in Thread, NEW err, NEW out, NEW irq, Return(t, err, out, irq)
    PROVE  /\ pc'[t] = "idle" /\ call' = call
           /\ ret'[t].err = err /\ ret'[t].out = out /\ ret'[t].irq = irq
           /\ \A u \in Thread : u # t =>
                 pc'[u] = pc[u] /\ call'[u] = call[u] /\ ret'[u] = ret[u]
  BY DEF PciInv, CallInv, Return

\* Filling the slab with an entry puts it into every slot under the DMA buffer.
LEMMA FillEffect ==
    ASSUME NEW entry, FillSlab(entry)
    PROVE  \A i \in DmaSlot : sq'[i] = entry
  BY PciAssumption, RingAssumption DEF FillSlab, SlabWrite, DmaSlot, Slot

\* A call takes the mutex from a device at rest.
LEMMA CallKeeps ==
    ASSUME LegacyInv, NEW t \in Thread, LegacyCall(t)
    PROVE  /\ \A u \in Thread : Phase(u)' /\ Returned(u)'
           /\ lock' = {} => Quiescent'
<1>0. PciInv /\ (lock = {} => Quiescent)
  BY DEF LegacyInv
<1>a. ASSUME NEW n \in CallerOperand, Factorial(t, n)
      PROVE  /\ \A u \in Thread : Phase(u)' /\ Returned(u)'
             /\ lock' = {} => Quiescent'
  <2>1. /\ lock = {} /\ lock' = {t} /\ dev' = dev /\ isr' = isr
        /\ Enter(t, "kick", "factorial", [ZeroSq EXCEPT !.operand = n])
    BY <1>a DEF Factorial, Lock
  <2>2. Quiescent'
    BY <1>0, <2>1 DEF Quiescent, InterruptComing
  <2>3. pc'[t] = "kick" /\ call'[t].op = "factorial"
    BY <1>0, <2>1, EnterEffect
  <2>4. Phase(t)' /\ Returned(t)'
    BY <2>2, <2>3 DEF Phase, Returned
  <2> QED
    BY <1>0, <2>1, <2>2, <2>4, EnterEffect, OthersOut
<1>b. ASSUME DmaTest(t)
      PROVE  /\ \A u \in Thread : Phase(u)' /\ Returned(u)'
             /\ lock' = {} => Quiescent'
  <2>1. /\ lock = {} /\ lock' = {t} /\ dev' = dev /\ isr' = isr
        /\ Enter(t, "kick", "dma_out", ZeroSq) /\ FillSlab(PatternEntry)
    BY <1>b DEF DmaTest, Lock
  <2>2. Quiescent' /\ RoundTripOK'
    BY <1>0, <2>1, FillEffect DEF Quiescent, InterruptComing, RoundTripOK
  <2>3. pc'[t] = "kick" /\ call'[t].op = "dma_out"
    BY <1>0, <2>1, EnterEffect
  <2>4. Phase(t)' /\ Returned(t)'
    BY <2>2, <2>3 DEF Phase, Returned
  <2> QED
    BY <1>0, <2>1, <2>2, <2>4, EnterEffect, OthersOut
<1>c. ASSUME NEW val \in {0, 1}, InjectFault(t, val)
      PROVE  /\ \A u \in Thread : Phase(u)' /\ Returned(u)'
             /\ lock' = {} => Quiescent'
  <2>1. UNCHANGED <<ringVars, callVars, legacyVars, isr, dev>>
    BY <1>c DEF InjectFault
  <2> QED
    BY <2>1 DEF LegacyInv, Phase, Returned, FactUnderWay, OutUnderWay, BackUnderWay,
       TransferOver, RoundTripOK, BufferHolds, Quiescent, InterruptComing,
       ringVars, callVars, legacyVars
<1> QED
  BY <1>a, <1>b, <1>c DEF LegacyCall

\* A call goes on from where it is, and leaves the device at rest: by its reply,
\* because the wake-up was the last thing that was to come, and by its timeout,
\* because a device that answers in time has nothing left to say.
LEMMA StepKeeps ==
    ASSUME LegacyInv, ~SlowDevice, NEW t \in Thread, LegacyStep(t)
    PROVE  /\ \A u \in Thread : Phase(u)' /\ Returned(u)'
           /\ lock' = {} => Quiescent'
<1>0. /\ PciInv /\ LegacyExclusive /\ Phase(t) /\ Returned(t)
  BY DEF LegacyInv
<1>1. pc[t] \in InLegacy /\ t \in lock /\ call[t].op \in LegacyOp
  BY <1>0 DEF LegacyStep, Kick, Reinit, FactorialReply, DmaTurn, DmaVerify, Timeout, Woken,
              InLegacy, LegacyExclusive, PciInv, CallInv
<1>2. dev \in Device /\ lock # {}
  BY <1>0, <1>1 DEF PciInv, DevInv
<1> SUFFICES /\ Phase(t)' /\ Returned(t)' /\ (lock' = {} => Quiescent')
             /\ \A u \in Thread : u # t =>
                   pc'[u] = pc[u] /\ call'[u] = call[u] /\ ret'[u] = ret[u]
  BY <1>1, OthersOut
<1>a. CASE Kick(t)
  <2>1. /\ pc[t] = "kick" /\ MoveTo(t, "reinit") /\ lock' = lock /\ isr' = isr /\ sq' = sq
    BY <1>a DEF Kick, legacyVars, ringVars
  <2>2. pc'[t] = "reinit" /\ call' = call
    BY <1>0, <2>1, MoveEffect
  <2>3. ~dev.busy /\ dev.dma = "idle" /\ dev.irq = {} /\ isr.pc = "idle"
    BY <1>0, <2>1 DEF Phase, Quiescent, InterruptComing
  <2>4. call[t].op = "factorial" => FactUnderWay(call[t].req.operand)'
    <3> SUFFICES ASSUME call[t].op = "factorial"
                 PROVE  FactUnderWay(call[t].req.operand)'
      OBVIOUS
    <3>1. dev' = StartFact(FactIrq(dev, TRUE), call[t].req.operand, Nobody)
      BY <1>a DEF Kick
    <3>2. /\ dev'.busy /\ dev'.irqEn /\ dev'.fact = call[t].req.operand
          /\ dev'.dma = "idle" /\ dev'.irq = {}
      BY <3>1, <2>3, <1>2 DEF StartFact, FactIrq, Device
    <3> QED
      BY <3>2, <2>1, <2>2, <2>3 DEF FactUnderWay
  <2>5. call[t].op = "dma_out" => OutUnderWay'
    <3> SUFFICES ASSUME call[t].op = "dma_out" PROVE OutUnderWay'
      OBVIOUS
    <3>1. dev' = StartDma(FactIrq(dev, FALSE), "to_edu", Nobody)
      BY <1>a DEF Kick
    <3>2. ~dev'.busy /\ dev'.dma = "to_edu" /\ dev'.irq = {}
      BY <3>1, <2>3, <1>2 DEF StartDma, FactIrq, Device
    <3>3. RoundTripOK'
      BY <1>0, <2>1 DEF Phase, RoundTripOK
    <3> QED
      BY <3>2, <3>3, <2>1, <2>3 DEF OutUnderWay
  <2>6. call[t].op = "dma_back" => BackUnderWay'
    <3> SUFFICES ASSUME call[t].op = "dma_back" PROVE BackUnderWay'
      OBVIOUS
    <3>1. dev' = StartDma(dev, "to_ram", Nobody)
      BY <1>a DEF Kick
    <3>2. ~dev'.busy /\ dev'.dma = "to_ram" /\ dev'.irq = {} /\ dev'.buf = dev.buf
      BY <3>1, <2>3, <1>2 DEF StartDma, Device
    <3>3. BufferHolds'
      BY <1>0, <2>1, <3>2 DEF Phase, BufferHolds
    <3> QED
      BY <3>2, <3>3, <2>1, <2>3 DEF BackUnderWay
  <2> QED
    BY <1>0, <1>2, <2>1, <2>2, <2>4, <2>5, <2>6, MoveEffect DEF Phase, Returned
<1>b. CASE Reinit(t)
  <2>1. /\ pc[t] = "reinit" /\ MoveTo(t, "wait") /\ ~irq_done' /\ lock' = lock
        /\ last_irq' = last_irq /\ dev' = dev /\ isr' = isr /\ sq' = sq
    BY <1>b DEF Reinit, ringVars
  <2>2. pc'[t] = "wait" /\ call' = call
    BY <1>0, <2>1, MoveEffect
  <2> QED
    BY <1>0, <1>2, <2>1, <2>2, MoveEffect
       DEF Phase, Returned, FactUnderWay, OutUnderWay, BackUnderWay, TransferOver,
           RoundTripOK, BufferHolds
<1>c. CASE FactorialReply(t)
  <2>1. /\ pc[t] = "wait" /\ irq_done /\ call[t].op = "factorial"
        /\ Return(t, "ok", dev.fact, last_irq) /\ dev' = dev /\ isr' = isr
    BY <1>c DEF FactorialReply, Woken
  <2>2. /\ pc'[t] = "idle" /\ call' = call
        /\ ret'[t].out = dev.fact /\ ret'[t].irq = last_irq
    BY <1>0, <2>1, ReturnEffect
  <2>3. Quiescent /\ FactUnderWay(call[t].req.operand)
    BY <1>0, <2>1 DEF Phase
  <2>4. dev.fact = Fact[call[t].req.operand] /\ last_irq = {"FACT"}
    BY <2>3 DEF Quiescent, InterruptComing, FactUnderWay
  <2>5. Quiescent'
    BY <2>1, <2>3 DEF Quiescent, InterruptComing
  <2> QED
    BY <1>0, <2>1, <2>2, <2>4, <2>5, ReturnEffect DEF Phase, Returned
<1>d. CASE DmaTurn(t)
  <2>1. /\ pc[t] = "wait" /\ irq_done /\ call[t].op = "dma_out" /\ lock' = lock
        /\ Enter(t, "kick", "dma_back", ZeroSq) /\ dev' = dev /\ isr' = isr
    BY <1>d DEF DmaTurn, Woken
  <2>2. pc'[t] = "kick" /\ call'[t].op = "dma_back"
    BY <1>0, <2>1, EnterEffect
  <2>3. Quiescent /\ OutUnderWay
    BY <1>0, <2>1 DEF Phase
  <2>4. Quiescent' /\ BufferHolds'
    BY <2>1, <2>3 DEF Quiescent, InterruptComing, OutUnderWay, BufferHolds
  <2> QED
    BY <1>0, <1>2, <2>1, <2>2, <2>4, EnterEffect DEF Phase, Returned
<1>e. CASE DmaVerify(t) \/ Timeout(t)
  <2>1. /\ dev' = dev /\ isr' = isr
        /\ \/ Return(t, IF RoundTripOK /\ inject_fault = 0 THEN "ok" ELSE "EIO", 0, {})
              /\ call[t].op = "dma_back"
           \/ Return(t, "ETIMEDOUT", 0, {})
    BY <1>e DEF DmaVerify, Timeout, Woken
  <2>2. Quiescent
    BY <1>0, <1>e DEF DmaVerify, Timeout, Woken, Phase, Quiescent
  <2>3. Quiescent'
    BY <2>1, <2>2 DEF Quiescent, InterruptComing
  <2>4. /\ pc'[t] = "idle" /\ call' = call
        /\ call[t].op = "dma_back" \/ ret'[t].err = "ETIMEDOUT"
        /\ \A u \in Thread : u # t =>
              pc'[u] = pc[u] /\ call'[u] = call[u] /\ ret'[u] = ret[u]
    BY <1>0, <2>1, ReturnEffect
  <2> QED
    BY <2>3, <2>4 DEF Phase, Returned
<1> QED
  BY <1>a, <1>b, <1>c, <1>d, <1>e DEF LegacyStep

\* Every step keeps the invariant.
LEMMA LegacyInvStep ==
    ~SlowDevice => (LegacyInv /\ [LegacyNext]_vars => LegacyInv')
<1> SUFFICES ASSUME ~SlowDevice, LegacyInv, [LegacyNext]_vars PROVE LegacyInv'
  OBVIOUS
<1>1. PciInv' /\ LegacyExclusive'
  BY LegacyNextIsNext, PciInvStep, LegacyExclusiveStep DEF LegacyInv
<1> SUFFICES /\ \A u \in Thread : Phase(u)' /\ Returned(u)'
             /\ lock' = {} => Quiescent'
  BY <1>1 DEF LegacyInv
<1>2. ASSUME NEW t \in Thread, LegacyCall(t) \/ LegacyStep(t)
      PROVE  /\ \A u \in Thread : Phase(u)' /\ Returned(u)'
             /\ lock' = {} => Quiescent'
  BY <1>2, CallKeeps, StepKeeps
<1>3. CASE IsrStep \/ DeviceStep
  <2>1. lock # {} /\ lock' = lock
    <3>1. lock' = lock
      BY <1>3 DEF IsrStep, IsrEnter, IsrPost, IsrSignal, IsrWake, DeviceStep, FactDone,
                  DmaDone, legacyVars
    <3>2. ~Quiescent
      BY <1>3 DEF Quiescent, InterruptComing, IsrStep, IsrEnter, IsrPost, IsrSignal, IsrWake,
                  DeviceStep, FactDone, DmaDone
    <3> QED
      BY <3>1, <3>2 DEF LegacyInv
  <2> QED
    BY <1>3, <2>1, DeviceMoves
<1>4. CASE UNCHANGED vars
  BY <1>4 DEF LegacyInv, Phase, Returned, FactUnderWay, OutUnderWay, BackUnderWay,
     TransferOver, RoundTripOK, BufferHolds, Quiescent, InterruptComing,
     vars, ringVars, callVars, legacyVars
<1> QED
  BY <1>2, <1>3, <1>4 DEF LegacyNext

-----------------------------------------------------------------------------
\* A factorial that edu_run_factorial reports done is that of its own input, with the
\* interrupt status of its own command, if the device answers within the second.
THEOREM LegacyFactorials == ~SlowDevice /\ LegacySpec => []LegacyFactorialCorrect
<1>1. LegacyInv => LegacyFactorialCorrect
  BY DEF LegacyInv, Returned, LegacyFactorialCorrect
<1>2. CASE ~SlowDevice
  <2>1. LegacyInv /\ [LegacyNext]_vars => LegacyInv'
    BY <1>2, LegacyInvStep
  <2> QED
    BY <1>1, <2>1, LegacyInvInit, PTL DEF LegacySpec
<1> QED
  BY <1>2

\* The DMA test of edu_run_dma_test then compares the pattern with itself: it fails
\* only by the fault that was armed, which it takes.
THEOREM LegacyEioTakesFault == ~SlowDevice /\ LegacySpec => EioTakesFault
<1>1. LegacyInv /\ [LegacyNext]_vars =>
        [\A t \in Thread : (DmaVerify(t) /\ ret'[t].err = "EIO") =>
            (inject_fault = 1 /\ inject_fault' = 0)]_vars
  <2> SUFFICES ASSUME LegacyInv, NEW t \in Thread, DmaVerify(t), ret'[t].err = "EIO"
               PROVE  inject_fault = 1 /\ inject_fault' = 0
    OBVIOUS
  <2>1. Phase(t) /\ PciInv
    BY DEF LegacyInv
  <2>2. /\ pc[t] = "wait" /\ irq_done /\ call[t].op = "dma_back"
        /\ Return(t, IF RoundTripOK /\ inject_fault = 0 THEN "ok" ELSE "EIO", 0, {})
        /\ inject_fault' = FaultLeft
    BY DEF DmaVerify, Woken
  <2>3. RoundTripOK
    BY <2>1, <2>2 DEF Phase, Quiescent, InterruptComing, BackUnderWay
  <2>4. inject_fault \in {0, 1}
    BY <2>1 DEF PciInv, SharedInv
  <2>5. ret'[t].err = IF RoundTripOK /\ inject_fault = 0 THEN "ok" ELSE "EIO"
    BY <2>1, <2>2, ReturnEffect
  <2> QED
    BY <2>2, <2>3, <2>4, <2>5 DEF FaultLeft
<1>2. CASE ~SlowDevice
  <2>1. LegacyInv /\ [LegacyNext]_vars => LegacyInv'
    BY <1>2, LegacyInvStep
  <2> QED
    BY <1>1, <2>1, LegacyInvInit, PTL DEF LegacySpec, EioTakesFault
<1> QED
  BY <1>2
=============================================================================
