------------------------------- MODULE EduPci -------------------------------
(***************************************************************************)
(* edu_pci.c: the threads in its system calls, its interrupt handler and   *)
(* the EDU device, around the rings of EduRing.                            *)
(*                                                                         *)
(* A step of a thread runs from one access to state another actor can      *)
(* change to the next: taking the mutex, the critical section of a         *)
(* submission, the register writes that start the device, reinit_completion*)
(* and the wake-up are steps of their own.  The register writes of one     *)
(* kick are one step: only the last of them starts the device.             *)
(*                                                                         *)
(* The device is external.  What it does is what the driver relies on:     *)
(* one factorial and one DMA at a time, each dropped when its unit is busy,*)
(* the FACT register showing the input until the result is there, and an   *)
(* interrupt status bit per unit, FACT's only when STATUS enables it.      *)
(***************************************************************************)
EXTENDS EduRing

CONSTANTS
    Thread,        \* threads that have the device open
    Program,       \* which calls each thread makes, Program[t] \subseteq Call
    CallerTag,     \* tags callers choose
    CallerOpcode,  \* opcodes callers submit
    CallerOperand, \* operands callers submit, and factorial inputs
    Eventfd,       \* eventfds callers can register
    DMA_SLOTS,     \* ring slots under the DMA test buffer (4 in the driver)
    PatternEntry,  \* what an SQ slot reads as under the test pattern
    OneAtATime,    \* callers wait for a command to complete before the next
    SlowDevice     \* the device may take longer than the one-second timeout

Call == {"factorial", "dma_test", "submit", "poll", "wait_eventfd",
         "set_eventfd", "open", "restart", "inject_fault"}

ASSUME PciAssumption ==
    /\ Program \in [Thread -> SUBSET Call]
    /\ CallerTag \subseteq Tag /\ CallerTag \subseteq Nat
    /\ CallerOpcode \subseteq Opcode /\ CallerOperand \subseteq Operand
    /\ Operand \subseteq Nat /\ Operand \subseteq Result
    /\ DMA_SLOTS \in 1 .. RING_SIZE
    /\ PatternEntry \in SqEntry
    /\ OneAtATime \in BOOLEAN /\ SlowDevice \in BOOLEAN

VARIABLES
    pc,            \* where each thread is in its call
    call,          \* the call it is in, or the last legacy call, and its request
    ret,           \* what its last legacy call returned
    lock,          \* holders of e->lock
    irq_done,      \* the completion legacy callers wait on
    last_irq, last_fact_in, last_fact_out, dma_ok,
    inject_fault,
    evt_ctx,       \* the registered eventfd, as a set of at most one
    signalled,     \* eventfds that read as ready
    isr,           \* the interrupt handler: pc, and its ring_pending
    dev,           \* the EDU device
    track          \* history: what became of the command of each tag

legacyVars == <<lock, irq_done, last_irq, last_fact_in, last_fact_out, dma_ok>>
eventVars  == <<evt_ctx, signalled>>
callVars   == <<pc, call, ret>>
vars == <<ringVars, callVars, legacyVars, inject_fault, eventVars, isr, dev, track>>

-----------------------------------------------------------------------------
(* The EDU device.                                                          *)

Nobody  == -1       \* a device unit works for no ring command
DmaSlot == 0 .. DMA_SLOTS - 1

Fact[n \in Nat] == IF n = 0 THEN 1 ELSE n * Fact[n - 1]

ASSUME FactAssumption == \A n \in Operand : Fact[n] \in Result

DevInit ==
    [fact |-> 0, busy |-> FALSE, irqEn |-> FALSE, factFor |-> Nobody,
     dma |-> "idle", dmaFor |-> Nobody, buf |-> [i \in DmaSlot |-> ZeroSq],
     irq |-> {}]

\* Deviation: the write of STATUS is left out.
FactIrqKept(d, on) == d

\* A write of STATUS enables or disables the interrupt of FACT.
FactIrq(d, on) == [d EXCEPT !.irqEn = on]

\* A write of FACT starts a factorial, and is dropped while one is computed.
StartFact(d, n, for) ==
    IF d.busy THEN d ELSE [d EXCEPT !.fact = n, !.busy = TRUE, !.factFor = for]

\* A write of DMA_CMD starts a transfer; the DMA registers ignore writes while
\* one runs.
StartDma(d, direction, for) ==
    IF d.dma # "idle" THEN d ELSE [d EXCEPT !.dma = direction, !.dmaFor = for]

Finished(for) ==
    IF for \in CallerTag /\ track[for].state = "running"
    THEN [track EXCEPT ![for].state = "done"] ELSE track

FactDone ==
    /\ dev.busy
    /\ dev' = [dev EXCEPT !.busy = FALSE, !.factFor = Nobody, !.fact = Fact[dev.fact],
                          !.irq = IF dev.irqEn THEN @ \cup {"FACT"} ELSE @]
    /\ track' = Finished(dev.factFor)
    /\ UNCHANGED <<ringVars, callVars, legacyVars, inject_fault, eventVars, isr>>

\* The transfer reads or writes the slab when it ends.
DmaDone ==
    /\ dev.dma # "idle"
    /\ dev' = [dev EXCEPT !.dma = "idle", !.dmaFor = Nobody, !.irq = @ \cup {"DMA"},
                          !.buf = IF dev.dma = "to_edu" THEN [i \in DmaSlot |-> sq[i]] ELSE @]
    /\ SlabWrite([i \in Slot |-> IF i \in DmaSlot /\ dev.dma = "to_ram"
                                 THEN dev.buf[i] ELSE sq[i]])
    /\ track' = Finished(dev.dmaFor)
    /\ UNCHANGED <<callVars, legacyVars, inject_fault, eventVars, isr>>

DeviceStep == FactDone \/ DmaDone

-----------------------------------------------------------------------------
(* edu_irq_handler.                                                         *)

\* Deviation: IRQ_ACK is not written.
IsrEnterNoAck ==
    /\ isr.pc = "idle" /\ dev.irq # {}
    /\ last_irq' = dev.irq
    /\ isr' = [isr EXCEPT !.pc = "ring"]
    /\ UNCHANGED <<ringVars, callVars, lock, irq_done, last_fact_in, last_fact_out, dma_ok,
                   inject_fault, eventVars, dev, track>>

\* Read IRQ_STAT, write it back to IRQ_ACK, note it in last_irq.  A bit raised
\* between the read and the acknowledgement is lost with the ones read, as it
\* is when raised before the read.
IsrEnter ==
    /\ isr.pc = "idle" /\ dev.irq # {}
    /\ last_irq' = dev.irq
    /\ dev' = [dev EXCEPT !.irq = {}]
    /\ isr' = [isr EXCEPT !.pc = "ring"]
    /\ UNCHANGED <<ringVars, callVars, lock, irq_done, last_fact_in, last_fact_out, dma_ok,
                   inject_fault, eventVars, track>>

\* Deviation: ring_pending is set in the branch of factorials only.
IsrPostPendingFact ==
    /\ isr.pc = "ring"
    /\ isr' = [pc |-> "signal",
               pending |-> \E i \in InflightSlots : sq[i].opcode = EDU_OP_FACTORIAL]
    /\ IF InflightSlots = {} THEN UNCHANGED ringVars ELSE PostCompletion(dev.fact)
    /\ UNCHANGED <<callVars, legacyVars, inject_fault, eventVars, dev, track>>

\* The critical section: complete the lowest slot in flight, if there is one.
IsrPost ==
    /\ isr.pc = "ring"
    /\ isr' = [pc |-> "signal", pending |-> InflightSlots # {}]
    /\ IF InflightSlots = {} THEN UNCHANGED ringVars ELSE PostCompletion(dev.fact)
    /\ UNCHANGED <<callVars, legacyVars, inject_fault, eventVars, dev, track>>

\* evt_ctx is read without a lock.
IsrSignal ==
    /\ isr.pc = "signal"
    /\ signalled' = IF isr.pending THEN signalled \cup evt_ctx ELSE signalled
    /\ isr' = [pc |-> "wake", pending |-> FALSE]
    /\ UNCHANGED <<ringVars, callVars, legacyVars, inject_fault, evt_ctx, dev, track>>

\* complete_all, whoever the interrupt was for.
IsrWake ==
    /\ isr.pc = "wake"
    /\ irq_done' = TRUE
    /\ isr' = [isr EXCEPT !.pc = "idle"]
    /\ UNCHANGED <<ringVars, callVars, lock, last_irq, last_fact_in, last_fact_out, dma_ok,
                   inject_fault, eventVars, dev, track>>

IsrStep == IsrEnter \/ IsrPost \/ IsrSignal \/ IsrWake

-----------------------------------------------------------------------------
(* Threads.  A call that starts the device is made, under OneAtATime, only  *)
(* when every earlier command of every caller has been answered, as         *)
(* demo.cpp and the Python tests do.                                        *)

Answered(tag) == track[tag].state \in {"free", "rejected"}
Quiet         == (\A u \in Thread : pc[u] = "idle") /\ (\A tag \in CallerTag : Answered(tag))

MayCall(t, op)  == pc[t] = "idle" /\ op \in Program[t]
MayStart(t, op) == MayCall(t, op) /\ (OneAtATime => Quiet)

NoCall == [op |-> "none", req |-> ZeroSq]

Enter(t, at, op, req) ==
    /\ pc' = [pc EXCEPT ![t] = at]
    /\ call' = [call EXCEPT ![t] = [op |-> op, req |-> req]]
    /\ UNCHANGED ret

Return(t, err, out, irq) ==
    /\ pc' = [pc EXCEPT ![t] = "idle"]
    /\ ret' = [ret EXCEPT ![t] = [err |-> err, out |-> out, irq |-> irq]]
    /\ UNCHANGED call

MoveTo(t, at) == pc' = [pc EXCEPT ![t] = at] /\ UNCHANGED <<call, ret>>

\* Back from a call whose result no property looks at.
Leave(t) ==
    /\ pc' = [pc EXCEPT ![t] = "idle"]
    /\ call' = [call EXCEPT ![t] = NoCall]
    /\ UNCHANGED ret

\* Deviations: mutex_lock does not wait; mutex_unlock is missed on the way out.
LockAnyway(t)   == lock' = {t}
UnlockForgotten == lock' = lock

Lock(t) == lock = {} /\ lock' = {t}
Unlock  == lock' = {}

\* EDU_IOC_RUN_FACTORIAL and EDU_IOC_RUN_DMA_TEST, up to the kick.  The test
\* pattern goes to the start of the slab, over the first submission entries.
Factorial(t, n) ==
    /\ MayStart(t, "factorial") /\ Lock(t)
    /\ Enter(t, "kick", "factorial", [ZeroSq EXCEPT !.operand = n])
    /\ last_fact_in' = n /\ last_irq' = {}
    /\ UNCHANGED <<ringVars, irq_done, last_fact_out, dma_ok, inject_fault, eventVars,
                   isr, dev, track>>

FillSlab(entry) == SlabWrite([i \in Slot |-> IF i \in DmaSlot THEN entry ELSE sq[i]])

DmaTest(t) ==
    /\ MayStart(t, "dma_test") /\ Lock(t)
    /\ Enter(t, "kick", "dma_out", ZeroSq)
    /\ FillSlab(PatternEntry)
    /\ last_irq' = {}
    /\ UNCHANGED <<irq_done, last_fact_in, last_fact_out, dma_ok, inject_fault, eventVars,
                   isr, dev, track>>

\* The register writes of a legacy call.  Only the first half of the DMA test
\* writes STATUS.
Kick(t) ==
    /\ pc[t] = "kick"
    /\ MoveTo(t, "reinit")
    /\ dev' = CASE call[t].op = "factorial" ->
                     StartFact(FactIrq(dev, TRUE), call[t].req.operand, Nobody)
                [] call[t].op = "dma_out" ->
                     StartDma(FactIrq(dev, FALSE), "to_edu", Nobody)
                [] call[t].op = "dma_back" -> StartDma(dev, "to_ram", Nobody)
    /\ UNCHANGED <<ringVars, legacyVars, inject_fault, eventVars, isr, track>>

\* edu_wait_irq begins with reinit_completion, after the kick.
Reinit(t) ==
    /\ pc[t] = "reinit"
    /\ MoveTo(t, "wait")
    /\ irq_done' = FALSE
    /\ UNCHANGED <<ringVars, lock, last_irq, last_fact_in, last_fact_out, dma_ok, inject_fault,
                   eventVars, isr, dev, track>>

Woken(t, op) == pc[t] = "wait" /\ irq_done /\ call[t].op = op

FactorialReply(t) ==
    /\ Woken(t, "factorial")
    /\ Return(t, "ok", dev.fact, last_irq)
    /\ last_fact_out' = dev.fact
    /\ Unlock
    /\ UNCHANGED <<ringVars, irq_done, last_irq, last_fact_in, dma_ok, inject_fault, eventVars,
                   isr, dev, track>>

\* The way out is done: clear the buffer and fetch the pattern back.
DmaTurn(t) ==
    /\ Woken(t, "dma_out")
    /\ Enter(t, "kick", "dma_back", ZeroSq)
    /\ FillSlab(ZeroSq)
    /\ last_irq' = {}
    /\ UNCHANGED <<lock, irq_done, last_fact_in, last_fact_out, dma_ok, inject_fault, eventVars,
                   isr, dev, track>>

\* memcmp, then the injected fault, which atomic_cmpxchg disarms.
RoundTripOK == \A i \in DmaSlot : sq[i] = PatternEntry

\* Deviation: the fault is counted down instead of exchanged for 0.
FaultCountedDown == inject_fault - 1

FaultLeft == IF RoundTripOK THEN 0 ELSE inject_fault

DmaVerify(t) ==
    /\ Woken(t, "dma_back")
    /\ Return(t, IF RoundTripOK /\ inject_fault = 0 THEN "ok" ELSE "EIO", 0, {})
    /\ inject_fault' = FaultLeft
    /\ dma_ok' = IF RoundTripOK /\ inject_fault = 0 THEN 1 ELSE dma_ok
    /\ Unlock
    /\ UNCHANGED <<ringVars, irq_done, last_irq, last_fact_in, last_fact_out, eventVars,
                   isr, dev, track>>

\* wait_for_completion_timeout gives up.  With a device that answers well
\* within the second, it does so only when no interrupt can still come.
InterruptComing == dev.busy \/ dev.dma # "idle" \/ dev.irq # {} \/ isr.pc # "idle"

\* Deviation: the wait is begun again.
TimeoutWaitsAgain(t) ==
    /\ pc[t] = "wait" /\ ~irq_done
    /\ SlowDevice \/ ~InterruptComing
    /\ MoveTo(t, "reinit")
    /\ UNCHANGED <<ringVars, legacyVars, inject_fault, eventVars, isr, dev, track>>

Timeout(t) ==
    /\ pc[t] = "wait" /\ ~irq_done
    /\ SlowDevice \/ ~InterruptComing
    /\ Return(t, "ETIMEDOUT", 0, {})
    /\ Unlock
    /\ UNCHANGED <<ringVars, irq_done, last_irq, last_fact_in, last_fact_out, dma_ok,
                   inject_fault, eventVars, isr, dev, track>>

\* EDU_IOC_SUBMIT; -ENOSPC changes nothing.  Callers pick a tag that is not in
\* use; a client that sleeps on its eventfd has registered it first (the
\* EduDevice constructor).
Submit(t, req) ==
    /\ MayStart(t, "submit") /\ track[req.tag].state = "free"
    /\ (\E u \in Thread : "wait_eventfd" \in Program[u]) => evt_ctx # {}
    /\ SubmitLocked(req)
    /\ Enter(t, "ring_kick", "submit", req)
    /\ track' = [track EXCEPT ![req.tag] = [state |-> "running", req |-> req]]
    /\ UNCHANGED <<legacyVars, inject_fault, eventVars, isr, dev>>

\* Deviation: an unknown opcode is taken back by a decrement outside ring_lock.
RingKickTakesBack(t) ==
    /\ pc[t] = "ring_kick"
    /\ sq_tail' = IF call[t].req.opcode \in {EDU_OP_FACTORIAL, EDU_OP_DMA_TEST}
                  THEN sq_tail ELSE (sq_tail - 1) % RING_SIZE
    /\ Leave(t)
    /\ UNCHANGED <<sq, cq, cq_tail, cq_head, inflight, legacyVars, inject_fault, eventVars,
                   isr, dev, track>>

\* The switch after the unlock.  An unknown opcode is refused here, with its
\* entry and in-flight mark left in the ring.
RingKick(t) ==
    LET req == call[t].req IN
    /\ pc[t] = "ring_kick"
    /\ \/ /\ req.opcode = EDU_OP_FACTORIAL
          /\ dev' = StartFact(FactIrq(dev, TRUE), req.operand, req.tag)
          /\ Leave(t) /\ UNCHANGED track
       \/ /\ req.opcode = EDU_OP_DMA_TEST
          /\ dev' = StartDma(FactIrq(dev, FALSE), "to_edu", req.tag)
          /\ Leave(t) /\ UNCHANGED track
       \/ /\ req.opcode \notin {EDU_OP_FACTORIAL, EDU_OP_DMA_TEST}
          /\ Leave(t)
          /\ track' = [track EXCEPT ![req.tag].state = "rejected"]
          /\ UNCHANGED dev
    /\ UNCHANGED <<ringVars, legacyVars, inject_fault, eventVars, isr>>

\* EDU_IOC_POLL_CQ; -EAGAIN changes nothing.  The entry goes to the caller, whose
\* tag is free again.
Untrack(tag) ==
    track' = IF tag \in CallerTag THEN [track EXCEPT ![tag] = [state |-> "free", req |-> ZeroSq]]
             ELSE track

Poll(t) ==
    /\ MayCall(t, "poll")
    /\ PollCq
    /\ Untrack(PolledEntry.tag)
    /\ UNCHANGED <<callVars, legacyVars, inject_fault, eventVars, isr, dev>>

\* An event-driven client: sleep until the registered eventfd is ready, read it,
\* then poll until there is nothing left.
WaitEventfd(t) ==
    /\ MayCall(t, "wait_eventfd") /\ evt_ctx # {} /\ evt_ctx \subseteq signalled
    /\ signalled' = signalled \ evt_ctx
    /\ Enter(t, "drain", "wait_eventfd", ZeroSq)
    /\ UNCHANGED <<ringVars, legacyVars, inject_fault, evt_ctx, isr, dev, track>>

Drain(t) ==
    /\ pc[t] = "drain"
    /\ \/ /\ PollCq
          /\ Untrack(PolledEntry.tag)
          /\ UNCHANGED callVars
       \/ /\ cq_head = cq_tail
          /\ Leave(t)
          /\ UNCHANGED <<ringVars, track>>
    /\ UNCHANGED <<legacyVars, inject_fault, eventVars, isr, dev>>

\* EDU_IOC_SET_EVENTFD replaces what was registered.
SetEventfd(t, fd) ==
    /\ MayStart(t, "set_eventfd")
    /\ evt_ctx' = {fd}
    /\ UNCHANGED <<ringVars, callVars, legacyVars, inject_fault, signalled, isr, dev, track>>

\* edu_open, by a process that starts over and knows of no earlier command: when
\* the one before is through ("open"), or wherever it died ("restart").  The
\* device is not told: what it runs, it goes on running for nobody.
Open(t) ==
    /\ MayStart(t, "open") \/ MayCall(t, "restart")
    /\ ResetRing
    /\ track' = [tag \in CallerTag |-> [state |-> "free", req |-> ZeroSq]]
    /\ dev' = [dev EXCEPT !.factFor = Nobody, !.dmaFor = Nobody]
    /\ UNCHANGED <<callVars, legacyVars, inject_fault, eventVars, isr>>

\* A write of the sysfs attribute (values above 1 are refused).
InjectFault(t, val) ==
    /\ MayCall(t, "inject_fault")
    /\ inject_fault' = val
    /\ UNCHANGED <<ringVars, callVars, legacyVars, eventVars, isr, dev, track>>

CallerReq == [tag : CallerTag, opcode : CallerOpcode, operand : CallerOperand]

LegacyCall(t) ==
    \/ \E n \in CallerOperand : Factorial(t, n)
    \/ DmaTest(t)
    \/ \E val \in {0, 1} : InjectFault(t, val)

LegacyStep(t) ==
    Kick(t) \/ Reinit(t) \/ FactorialReply(t) \/ DmaTurn(t) \/ DmaVerify(t) \/ Timeout(t)

ThreadCall(t) ==
    \/ LegacyCall(t)
    \/ \E req \in CallerReq : Submit(t, req)
    \/ Poll(t)
    \/ WaitEventfd(t)
    \/ \E fd \in Eventfd : SetEventfd(t, fd)
    \/ Open(t)

ThreadStep(t) == LegacyStep(t) \/ RingKick(t) \/ Drain(t)

Init ==
    /\ RingInit
    /\ pc = [t \in Thread |-> "idle"]
    /\ call = [t \in Thread |-> NoCall]
    /\ ret = [t \in Thread |-> [err |-> "none", out |-> 0, irq |-> {}]]
    /\ lock = {} /\ irq_done = FALSE
    /\ last_irq = {} /\ last_fact_in = 0 /\ last_fact_out = 0 /\ dma_ok = 0
    /\ inject_fault = 0
    /\ evt_ctx = {} /\ signalled = {}
    /\ isr = [pc |-> "idle", pending |-> FALSE]
    /\ dev = DevInit
    /\ track = [tag \in CallerTag |-> [state |-> "free", req |-> ZeroSq]]

Next == (\E t \in Thread : ThreadCall(t) \/ ThreadStep(t)) \/ IsrStep \/ DeviceStep

Spec == Init /\ [][Next]_vars

\* The driver when its callers make no ring call.
LegacyNext == (\E t \in Thread : LegacyCall(t) \/ LegacyStep(t)) \/ IsrStep \/ DeviceStep

LegacySpec == Init /\ [][LegacyNext]_vars

\* A thread inside a call runs on, and its timer fires; a pending interrupt is
\* taken and its handler runs to the end; the device finishes what it runs; a
\* client that waits for its eventfd wakes when it is ready.  Nobody is obliged
\* to make a call.
Fairness ==
    /\ \A t \in Thread : WF_vars(ThreadStep(t)) /\ WF_vars(WaitEventfd(t))
    /\ WF_vars(IsrStep) /\ WF_vars(FactDone) /\ WF_vars(DmaDone)

-----------------------------------------------------------------------------
LegacyOp == {"factorial", "dma_out", "dma_back"}

TypeOK ==
    /\ RingTypeOK
    /\ pc \in [Thread -> {"idle", "kick", "reinit", "wait", "ring_kick", "drain"}]
    /\ call \in [Thread -> [op : Call \cup LegacyOp \cup {"none"}, req : SqEntry]]
    /\ ret \in [Thread -> [err : {"none", "ok", "EIO", "ETIMEDOUT"},
                           out : Result, irq : SUBSET {"FACT", "DMA"}]]
    /\ lock \subseteq Thread /\ irq_done \in BOOLEAN
    /\ last_irq \subseteq {"FACT", "DMA"}
    /\ last_fact_in \in Operand /\ last_fact_out \in Result
    /\ dma_ok \in {0, 1} /\ inject_fault \in {0, 1}
    /\ evt_ctx \subseteq Eventfd /\ signalled \subseteq Eventfd
    /\ isr \in [pc : {"idle", "ring", "signal", "wake"}, pending : BOOLEAN]
    /\ dev \in [fact : Result, busy : BOOLEAN, irqEn : BOOLEAN,
                factFor : CallerTag \cup {Nobody},
                dma : {"idle", "to_edu", "to_ram"}, dmaFor : CallerTag \cup {Nobody},
                buf : [DmaSlot -> SqEntry], irq : SUBSET {"FACT", "DMA"}]
    /\ track \in [CallerTag -> [state : {"free", "running", "done", "rejected"}, req : SqEntry]]

\* The mutex of the legacy calls: the thread between its kick and its reply is
\* the only one and holds e->lock, and every way out of a call gives it back.
LegacyExclusive ==
    /\ \A t \in Thread : pc[t] \in {"kick", "reinit", "wait"} <=> t \in lock
    /\ \A t, u \in lock : t = u

ReadyIndex   == {(cq_head + k) % RING_SIZE : k \in 0 .. Ready - 1}
Expected(req) == IF req.opcode = EDU_OP_FACTORIAL THEN Fact[req.operand] ELSE 0

\* With one command at a time, a completion the caller can poll carries the
\* tag of its command and the result of that command, which the device has
\* finished (edu_irq_handler pairs them through inflight[] and the FACT
\* register only).
EchoOK ==
    \A i \in ReadyIndex :
        /\ cq[i].tag \in CallerTag
        /\ track[cq[i].tag].state = "done"
        /\ cq[i].result = Expected(track[cq[i].tag].req)

\* With one command at a time, every accepted command is answered, to a
\* client that is sure to poll only when its eventfd tells it to.
EveryCommandAnswered ==
    \A tag \in CallerTag : track[tag].state = "running" ~> track[tag].state = "free"

\* Every call returns: a legacy caller whose interrupt is lost, dropped or taken
\* for a ring command leaves by its timeout and gives the mutex back.
CallsReturn == \A t \in Thread : pc[t] # "idle" ~> pc[t] = "idle"

\* EDU_IOC_RUN_FACTORIAL, when it succeeds, returns the factorial of its own
\* input and the interrupt status of its own command.
LegacyFactorialCorrect ==
    \A t \in Thread :
        (pc[t] = "idle" /\ call[t].op = "factorial" /\ ret[t].err = "ok") =>
            /\ ret[t].out = Fact[call[t].req.operand]
            /\ ret[t].irq = {"FACT"}

\* The DMA test fails only when a fault was armed, and then disarms it
\* (the memcmp of edu_run_dma_test never fails by itself).
EioTakesFault ==
    [][\A t \in Thread : (DmaVerify(t) /\ ret'[t].err = "EIO") =>
          (inject_fault = 1 /\ inject_fault' = 0)]_vars

\* The steps of all of them are steps of the rings.
RingRefined == RingSpec

\* EDU_IOC_RUN_FACTORIAL and EDU_IOC_RUN_DMA_TEST do not time out when the device
\* answers in time.
NoSpuriousTimeout == \A t \in Thread : ret[t].err # "ETIMEDOUT"

\* No completion, and so no status 0, is posted for a command whose submission
\* was refused with -EINVAL.
RejectedNotCompleted ==
    \A i \in ReadyIndex : cq[i].tag \in CallerTag => track[cq[i].tag].state # "rejected"

\* A submission the ring has room for takes a slot whose command has been completed
\* (the full test of edu_ring_submit looks at the indices only).
NextSlotFree == ~ring_full(sq_tail, cq_head) => inflight[sq_tail] = 0
=============================================================================
