--------------------------- MODULE EduClientProofs --------------------------
(***************************************************************************)
(* What an EduDevice object may rely on, for every ring size, every set of *)
(* tags and operands and any number of sleeping threads: a client that has *)
(* one command at a time gets the answer to it, also when it has written   *)
(* the command through the mapping; the loop of wait_completion is all it  *)
(* takes to have one command at a time; and no completion is slept through.*)
(***************************************************************************)
EXTENDS EduClient, EduPciProofs

-----------------------------------------------------------------------------
(* The life of a command, when there is one at a time.                      *)

DeviceRests == ~dev.busy /\ dev.dma = "idle" /\ dev.irq = {} /\ isr.pc # "ring"

NoneInFlight == [i \in Slot |-> 0]

\* No command is under way: every one has been answered.
Rest ==
    /\ \A tag \in CallerTag : track[tag].state = "free"
    /\ inflight = NoneInFlight /\ cq_tail = cq_head /\ sq_tail = cq_head
    /\ DeviceRests

\* The command of req is the only one, and the consumer is at its slot.
Only(req, state) ==
    /\ track[req.tag] = [state |-> state, req |-> req]
    /\ \A tag \in CallerTag \ {req.tag} : track[tag].state = "free"
    /\ sq_tail = ring_next(cq_head)

InRing(req) ==
    /\ cq_tail = cq_head /\ sq[cq_head] = req
    /\ inflight = [i \in Slot |-> IF i = cq_head THEN req.opcode ELSE 0]

\* It goes from the ring to the device, where its interrupt is raised, to the handler
\* and to the consumer.
Accepted(req) == Only(req, "running") /\ InRing(req) /\ DeviceRests

Computing(req) ==
    /\ Only(req, "running") /\ InRing(req)
    /\ IF req.opcode = EDU_OP_FACTORIAL
       THEN /\ dev.busy /\ dev.irqEn /\ dev.fact = req.operand /\ dev.factFor = req.tag
            /\ dev.dma = "idle"
       ELSE ~dev.busy /\ dev.dma = "to_edu" /\ dev.dmaFor = req.tag
    /\ dev.irq = {} /\ isr.pc # "ring"

Computed(req) ==
    /\ Only(req, "done") /\ InRing(req)
    /\ ~dev.busy /\ dev.dma = "idle"
    /\ req.opcode = EDU_OP_FACTORIAL => dev.fact = Fact[req.operand]
    /\ dev.irq = {} <=> isr.pc = "ring"

Posted(req) ==
    /\ Only(req, "done") /\ DeviceRests
    /\ inflight = NoneInFlight /\ cq_tail = ring_next(cq_head)
    /\ cq[cq_head] = [tag |-> req.tag, status |-> 0, result |-> Expected(req)]

Kicked(req) == Computing(req) \/ Computed(req) \/ Posted(req)

-----------------------------------------------------------------------------
(* The object.                                                              *)

\* What is asked of the caller: one command at a time, or the loop of wait_completion
\* and a device that answers in time; opcodes the driver knows; and no process that
\* died inside a call (EduPci's restart).
KnownOpcodes == CallerOpcode \subseteq {EDU_OP_FACTORIAL, EDU_OP_DMA_TEST}
NoRestart    == "restart" \notin Program[Owner]
Answers      == mode = "wait" /\ ~SlowDevice
Disciplined  == KnownOpcodes /\ NoRestart /\ (OneAtATime \/ Answers)

ClientTypeOK ==
    /\ mode \in {"wait", "event"}
    /\ client \in [at : {"none", "opened", "ready", "written", "submitting", "submitted",
                         "waiting"},
                   tail : Slot, mapped : BOOLEAN, req : CallerReq \cup {ZeroSq}]
    /\ At("written") \/ At("submitted") \/ At("waiting") \/ client.mapped => mode = "wait"
    /\ mode = "wait" => \A t \in Thread \ {Owner} : pc[t] = "idle"
    /\ At("none") \/ At("opened") \/ At("ready") => client.req = ZeroSq
    /\ At("written") \/ At("submitting") \/ At("submitted") => client.req \in CallerReq

\* The shadow tail is the driver's, but for the command it is submitting.
TailFollows ==
    IF At("submitting") THEN ring_next(client.tail) = sq_tail ELSE client.tail = sq_tail

CommandInv ==
    /\ IF At("submitting")
       THEN /\ Accepted(client.req)
            /\ pc[Owner] = "ring_kick" /\ call[Owner].req = client.req
       ELSE /\ Rest \/ \E req \in CallerReq : Kicked(req)
            /\ pc[Owner] = "idle"
    /\ At("none") \/ At("opened") \/ At("written") => Rest
    /\ At("written") => sq[client.tail] = client.req

\* The command the owner waits for is its own.
OwnerInv ==
    Answers =>
        /\ At("ready") => Rest
        /\ At("submitted") => Kicked(client.req)
        /\ At("waiting") => \/ client.req = ZeroSq /\ Rest
                            \/ client.req \in CallerReq /\ Kicked(client.req)

ClientInv ==
    /\ PciInv /\ ClientTypeOK
    /\ Disciplined => TailFollows /\ CommandInv /\ OwnerInv

-----------------------------------------------------------------------------
(* The object is a caller of the driver, but for what it writes through the *)
(* mapping.                                                                 *)

LEMMA ClientCalls ==
    ClientTypeOK /\ [ClientNext]_allVars => [Next]_vars \/ WriteSlot
<1> SUFFICES ASSUME ClientTypeOK, [ClientNext]_allVars PROVE [Next]_vars \/ WriteSlot
  OBVIOUS
<1>1. OwnerStep => [Next]_vars \/ WriteSlot
  <2>1. Construct \/ RegisterEventfd \/ SubmitIoctl \/ WaitReturns => Next
    BY ClientAssumption
       DEF Construct, RegisterEventfd, SubmitIoctl, WaitReturns, Next, ThreadCall
  <2>2. SubmitReturns => Next
    BY ClientAssumption DEF SubmitReturns, Next, ThreadStep
  <2>3. SubmitWritten => Next
    BY ClientAssumption DEF SubmitWritten, ClientTypeOK, Next, ThreadCall
  <2>4. MapRings \/ UnmapRings \/ StartWait \/ WaitGivesUp => UNCHANGED vars
    BY DEF MapRings, UnmapRings, StartWait, WaitGivesUp
  <2> QED
    BY <2>1, <2>2, <2>3, <2>4 DEF OwnerStep
<1>2. ASSUME NEW t \in Thread, EventStep(t) PROVE Next
  BY <1>2 DEF EventStep, Next, ThreadCall, ThreadStep
<1>3. IsrStep \/ DeviceStep => Next
  BY DEF Next
<1> QED
  BY <1>1, <1>2, <1>3 DEF ClientNext, allVars

\* Every step keeps the types of the object.
LEMMA ClientTypeStep == PciInv /\ ClientTypeOK /\ [ClientNext]_allVars => ClientTypeOK'
<1> SUFFICES ASSUME PciInv, ClientTypeOK, [ClientNext]_allVars PROVE ClientTypeOK'
  OBVIOUS
<1> USE DEF ClientTypeOK, At
<1>0. /\ pc \in [Thread -> InLegacy \cup {"idle", "ring_kick", "drain"}]
      /\ 0 \in Slot /\ Owner \in Thread
      /\ \A req : TailAfter(req) \in Slot
  BY NextInRing, RingAssumption, ClientAssumption DEF PciInv, CallInv, Slot, TailAfter
<1>1. CASE UNCHANGED allVars
  BY <1>1 DEF allVars, clientVars, vars, callVars
<1>2. CASE OwnerStep /\ UNCHANGED mode
  <2>1. \A t \in Thread \ {Owner} : pc'[t] = pc[t]
    BY <1>0, <1>2
       DEF OwnerStep, Construct, Open, RegisterEventfd, SetEventfd, MapRings, UnmapRings,
           SubmitIoctl, Submit, WriteSlot, SubmitWritten, SubmitReturns, RingKick, StartWait,
           WaitReturns, Poll, WaitGivesUp, Enter, Leave, callVars, vars
  <2>2. CASE Construct
    BY <1>0, <1>2, <2>1, <2>2 DEF Construct
  <2>3. CASE RegisterEventfd \/ MapRings \/ UnmapRings
    BY <1>2, <2>1, <2>3 DEF RegisterEventfd, MapRings, UnmapRings, Goto
  <2>4. CASE SubmitIoctl \/ WriteSlot \/ SubmitWritten
    BY <1>2, <2>1, <2>4 DEF SubmitIoctl, WriteSlot, SubmitWritten, Goto
  <2>5. CASE SubmitReturns
    BY <1>0, <1>2, <2>1, <2>5 DEF SubmitReturns
  <2>6. CASE StartWait \/ WaitReturns \/ WaitGivesUp
    BY <1>2, <2>1, <2>6 DEF StartWait, WaitReturns, WaitGivesUp, Goto
  <2> QED
    BY <1>2, <2>2, <2>3, <2>4, <2>5, <2>6 DEF OwnerStep
<1>3. CASE (\E t \in Thread \ {Owner} : EventStep(t)) /\ UNCHANGED clientVars
  BY <1>3 DEF EventStep, clientVars
<1>4. CASE (IsrStep \/ DeviceStep) /\ UNCHANGED clientVars
  BY <1>4 DEF IsrStep, IsrEnter, IsrPost, IsrSignal, IsrWake, DeviceStep, FactDone, DmaDone,
     callVars, clientVars
<1> QED
  BY <1>1, <1>2, <1>3, <1>4 DEF ClientNext

\* An entry written through the mapping is an entry.
LEMMA WriteKeeps == PciInv /\ WriteSlot => PciInv' /\ RingNext
<1> SUFFICES ASSUME PciInv, WriteSlot PROVE PciInv' /\ RingNext
  OBVIOUS
<1>1. PICK req \in CallerReq : SlabWrite([sq EXCEPT ![client.tail] = req])
  BY DEF WriteSlot
<1>2. sq' \in [Slot -> SqEntry] /\ SlabWrite(sq')
  BY <1>1, Entries DEF SlabWrite, PciInv, RingTypeOK
<1>3. UNCHANGED <<callVars, legacyVars, inject_fault, eventVars, isr, dev, track>>
  BY DEF WriteSlot
<1>4. RingTypeOK'
  BY <1>2 DEF SlabWrite, PciInv, RingTypeOK
<1>5. CallInv' /\ SharedInv' /\ DevInv' /\ TrackInv'
  BY <1>3 DEF PciInv, CallInv, SharedInv, DevInv, TrackInv, callVars, legacyVars, eventVars
<1> QED
  BY <1>2, <1>4, <1>5 DEF PciInv, RingNext

\* So what the theorems say of the rings they say of the client's.
LEMMA ClientPciStep ==
    PciInv /\ ClientTypeOK /\ [ClientNext]_allVars => PciInv' /\ [RingNext]_ringVars
  BY ClientCalls, WriteKeeps, PciInvStep, RingStep

-----------------------------------------------------------------------------
(* What the handler, the device and the consumer do to a command.           *)

\* The types of what a command goes through.
LEMMA CommandShape ==
    ASSUME PciInv
    PROVE  /\ sq \in [Slot -> SqEntry] /\ cq \in [Slot -> CqEntry]
           /\ sq_tail \in Slot /\ cq_tail \in Slot /\ cq_head \in Slot
           /\ dev \in Device /\ isr \in [pc : {"idle", "ring", "signal", "wake"}, pending : BOOLEAN]
           /\ track \in [CallerTag -> [state : {"free", "running", "done", "rejected"},
                                       req : SqEntry]]
           /\ ring_next(cq_head) \in Slot /\ ring_next(cq_head) # cq_head
           /\ \A req \in CallerReq : req.tag \in CallerTag
<1>1. cq_head \in Slot
  BY DEF PciInv, RingTypeOK
<1>2. ring_next(cq_head) \in Slot /\ ring_next(cq_head) # cq_head
  BY <1>1, NextInRing, NextIndex, RingAssumption DEF Slot
<1> QED
  BY <1>1, <1>2 DEF PciInv, RingTypeOK, DevInv, SharedInv, TrackInv, CallerReq

\* Handler and device look at no caller and move no index of the consumer's.
LEMMA DriverFrame ==
    ASSUME IsrStep \/ DeviceStep
    PROVE  UNCHANGED <<pc, call, sq_tail, cq_head>>
  BY DEF IsrStep, IsrEnter, IsrPost, IsrSignal, IsrWake, DeviceStep, FactDone, DmaDone,
     PostCompletion, SlabWrite, callVars, ringVars

\* The handler, when the device has nothing to say: it ends what it has begun.
LEMMA IdleHandler ==
    ASSUME PciInv, DeviceRests, inflight = NoneInFlight \/ isr.pc # "ring",
           IsrStep \/ DeviceStep
    PROVE  DeviceRests' /\ UNCHANGED <<ringVars, track, dev>>
  BY CommandShape
     DEF DeviceRests, IsrStep, IsrEnter, IsrPost, IsrSignal, IsrWake, DeviceStep, FactDone,
         DmaDone

LEMMA RestStays ==
    ASSUME PciInv, Rest, IsrStep \/ DeviceStep
    PROVE  Rest'
<1>1. DeviceRests' /\ UNCHANGED <<ringVars, track, dev>>
  BY IdleHandler DEF Rest
<1> QED
  BY <1>1 DEF Rest, ringVars

LEMMA AcceptedStays ==
    ASSUME PciInv, NEW req \in CallerReq, Accepted(req), IsrStep \/ DeviceStep
    PROVE  Accepted(req)'
<1>1. DeviceRests' /\ UNCHANGED <<ringVars, track, dev>>
  BY IdleHandler DEF Accepted, DeviceRests
<1> QED
  BY <1>1 DEF Accepted, Only, InRing, ringVars

\* While it is computed, only the device can get it further: the interrupt is that of its
\* own unit, and FACT has its result.
LEMMA ComputingMoves ==
    ASSUME PciInv, KnownOpcodes, NEW req \in CallerReq, Computing(req), IsrStep \/ DeviceStep
    PROVE  Kicked(req)'
<1> USE DEF Computing
<1>1. /\ dev \in Device /\ req.tag \in CallerTag
      /\ track \in [CallerTag -> [state : {"free", "running", "done", "rejected"}, req : SqEntry]]
      /\ isr \in [pc : {"idle", "ring", "signal", "wake"}, pending : BOOLEAN]
  BY CommandShape
<1>2. CASE IsrStep
  <2>1. UNCHANGED <<ringVars, track, dev>> /\ isr'.pc # "ring"
    BY <1>1, <1>2 DEF IsrStep, IsrEnter, IsrPost, IsrSignal, IsrWake
  <2> QED
    BY <2>1 DEF Kicked, Only, InRing, ringVars
<1>3. ASSUME NEW for, for = req.tag, track' = Finished(for), UNCHANGED <<sq_tail, cq_head>>
      PROVE  Only(req, "done")'
  BY <1>1, <1>3 DEF Finished, Only
<1>4. CASE FactDone
  <2>1. /\ dev.busy /\ track' = Finished(dev.factFor) /\ UNCHANGED <<ringVars, isr>>
        /\ dev' = [dev EXCEPT !.busy = FALSE, !.factFor = Nobody, !.fact = Fact[dev.fact],
                              !.irq = IF dev.irqEn THEN @ \cup {"FACT"} ELSE @]
    BY <1>4 DEF FactDone
  <2>2. /\ req.opcode = EDU_OP_FACTORIAL /\ dev.factFor = req.tag /\ dev.dma = "idle"
        /\ dev.irqEn /\ dev.fact = req.operand
    BY <2>1
  <2>3. /\ ~dev'.busy /\ dev'.dma = "idle" /\ dev'.fact = Fact[req.operand]
        /\ dev'.irq # {} /\ isr'.pc # "ring"
    BY <1>1, <2>1, <2>2 DEF Device
  <2>4. Only(req, "done")' /\ InRing(req)'
    BY <1>3, <2>1, <2>2 DEF InRing, ringVars
  <2> QED
    BY <2>3, <2>4 DEF Kicked, Computed
<1>5. CASE DmaDone
  <2>1. /\ dev.dma # "idle" /\ track' = Finished(dev.dmaFor) /\ isr' = isr
        /\ SlabWrite([i \in Slot |-> IF i \in DmaSlot /\ dev.dma = "to_ram"
                                     THEN dev.buf[i] ELSE sq[i]])
        /\ dev' = [dev EXCEPT !.dma = "idle", !.dmaFor = Nobody, !.irq = @ \cup {"DMA"},
                       !.buf = IF dev.dma = "to_edu" THEN [i \in DmaSlot |-> sq[i]] ELSE @]
    BY <1>5 DEF DmaDone
  <2>2. /\ req.opcode # EDU_OP_FACTORIAL /\ dev.dmaFor = req.tag /\ dev.dma = "to_edu"
        /\ ~dev.busy
    BY <2>1
  <2>3. ~dev'.busy /\ dev'.dma = "idle" /\ dev'.irq # {} /\ isr'.pc # "ring"
    BY <1>1, <2>1, <2>2 DEF Device
  <2>4. UNCHANGED ringVars
    BY <2>1, <2>2, CommandShape DEF SlabWrite, ringVars
  <2>5. Only(req, "done")' /\ InRing(req)'
    BY <1>3, <2>1, <2>2, <2>4 DEF InRing, ringVars
  <2> QED
    BY <2>2, <2>3, <2>5 DEF Kicked, Computed
<1> QED
  BY <1>2, <1>4, <1>5 DEF DeviceStep

\* The handler acknowledges the interrupt, and posts the completion of the only slot in
\* flight with what FACT shows.
LEMMA ComputedMoves ==
    ASSUME PciInv, KnownOpcodes, NEW req \in CallerReq, Computed(req), IsrStep \/ DeviceStep
    PROVE  Kicked(req)'
<1> USE DEF Computed
<1>1. /\ dev \in Device /\ isr \in [pc : {"idle", "ring", "signal", "wake"}, pending : BOOLEAN]
      /\ cq_head \in Slot /\ cq \in [Slot -> CqEntry]
  BY CommandShape
<1>2. ~DeviceStep
  BY DEF DeviceStep, FactDone, DmaDone
<1>3. CASE IsrEnter \/ IsrSignal \/ IsrWake
  <2>1. UNCHANGED <<ringVars, track>>
    BY <1>3 DEF IsrEnter, IsrSignal, IsrWake
  <2>2. ~dev'.busy /\ dev'.dma = "idle" /\ dev'.fact = dev.fact /\ (dev'.irq = {} <=> isr'.pc = "ring")
    BY <1>1, <1>3 DEF IsrEnter, IsrSignal, IsrWake, Device
  <2> QED
    BY <2>1, <2>2 DEF Kicked, Only, InRing, ringVars
<1>4. CASE IsrPost
  <2>1. isr.pc = "ring" /\ dev.irq = {} /\ isr'.pc = "signal" /\ UNCHANGED <<dev, track>>
    BY <1>4, <1>1 DEF IsrPost
  <2>2. req.opcode # 0
    BY DEF CallerReq, KnownOpcodes, EDU_OP_FACTORIAL, EDU_OP_DMA_TEST
  <2>3. InflightSlots = {cq_head}
    BY <1>1, <2>2 DEF InRing, InflightSlots
  <2>4. PostCompletion(dev.fact)
    BY <1>4, <2>3 DEF IsrPost
  <2>5. /\ cq' = [cq EXCEPT ![cq_tail] = CompletionOf(cq_head, dev.fact)]
        /\ cq_tail' = ring_next(cq_tail) /\ inflight' = [inflight EXCEPT ![cq_head] = 0]
        /\ UNCHANGED <<sq, sq_tail, cq_head>>
    BY <2>3, <2>4 DEF PostCompletion, PostSlot, InflightWithout
  <2>6. inflight' = NoneInFlight /\ cq_tail' = ring_next(cq_head')
    BY <1>1, <2>5 DEF InRing, NoneInFlight
  <2>7. cq'[cq_head'] = [tag |-> req.tag, status |-> 0, result |-> Expected(req)]
    BY <1>1, <2>5 DEF InRing, CompletionOf, Expected
  <2>8. Only(req, "done")' /\ DeviceRests'
    BY <2>1, <2>5 DEF Only, DeviceRests
  <2> QED
    BY <2>6, <2>7, <2>8 DEF Kicked, Posted
<1> QED
  BY <1>2, <1>3, <1>4 DEF IsrStep

\* A completion waits for its consumer.
LEMMA PostedStays ==
    ASSUME PciInv, NEW req \in CallerReq, Posted(req), IsrStep \/ DeviceStep
    PROVE  Posted(req)'
<1>1. DeviceRests' /\ UNCHANGED <<ringVars, track, dev>>
  BY IdleHandler DEF Posted
<1> QED
  BY <1>1 DEF Posted, Only, ringVars

LEMMA KickedMoves ==
    ASSUME PciInv, KnownOpcodes, NEW req \in CallerReq, Kicked(req), IsrStep \/ DeviceStep
    PROVE  Kicked(req)'
<1>1. CASE Computing(req)
  BY <1>1, ComputingMoves
<1>2. CASE Computed(req)
  BY <1>2, ComputedMoves
<1>3. CASE Posted(req)
  BY <1>3, PostedStays DEF Kicked
<1> QED
  BY <1>1, <1>2, <1>3 DEF Kicked

\* Only what has been posted can be polled, it is the completion of the only command,
\* and then there is none.
LEMMA PollTakes ==
    ASSUME PciInv, NEW req \in CallerReq, Kicked(req), PollCq, Untrack(PolledEntry.tag),
           UNCHANGED <<isr, dev>>
    PROVE  /\ PolledEntry.tag = req.tag /\ PolledEntry.result = Expected(req)
           /\ Rest'
<1>1. Posted(req)
  BY DEF Kicked, Computing, Computed, InRing, PollCq
<1>2. PolledEntry = [tag |-> req.tag, status |-> 0, result |-> Expected(req)]
  BY <1>1 DEF Posted, PolledEntry
<1>3. req.tag \in CallerTag
  BY CommandShape
<1>4. \A tag \in CallerTag : track'[tag].state = "free"
  BY <1>1, <1>2, <1>3, CommandShape DEF Posted, Only, Untrack
<1>5. inflight' = NoneInFlight /\ cq_tail' = cq_head' /\ sq_tail' = cq_head'
  BY <1>1 DEF Posted, Only, PollCq
<1>6. DeviceRests'
  BY <1>1 DEF Posted, DeviceRests
<1> QED
  BY <1>2, <1>4, <1>5, <1>6 DEF Rest

\* Nothing is there to be polled when no command is under way.
LEMMA RestPollsNothing == Rest => ~PollCq
  BY DEF Rest, PollCq

\* The place of a command is a matter of the rings, the device and the handler.
LEMMA CommandFrame ==
    ASSUME UNCHANGED <<ringVars, track, dev, isr>>
    PROVE  /\ Rest => Rest'
           /\ \A req \in CallerReq : /\ Accepted(req) => Accepted(req)'
                                     /\ Kicked(req) => Kicked(req)'
<1>1. Rest => Rest'
  BY DEF Rest, DeviceRests, ringVars
<1>2. ASSUME NEW req \in CallerReq
      PROVE  (Accepted(req) => Accepted(req)') /\ (Kicked(req) => Kicked(req)')
  BY DEF Accepted, Kicked, Computing, Computed, Posted, Only, InRing, DeviceRests, ringVars
<1> QED
  BY <1>1, <1>2

\* The ioctl finds the ring empty and puts the command where the consumer is.
LEMMA SubmitAccepts ==
    ASSUME PciInv, Rest, NEW req \in CallerReq, Submit(Owner, req)
    PROVE  /\ Accepted(req)' /\ sq_tail' = ring_next(sq_tail)
           /\ pc' = [pc EXCEPT ![Owner] = "ring_kick"]
           /\ call' = [call EXCEPT ![Owner] = [op |-> "submit", req |-> req]]
<1>1. /\ sq' = [sq EXCEPT ![sq_tail] = req] /\ inflight' = [inflight EXCEPT ![sq_tail] = req.opcode]
      /\ sq_tail' = ring_next(sq_tail) /\ UNCHANGED <<cq, cq_tail, cq_head, isr, dev>>
      /\ track' = [track EXCEPT ![req.tag] = [state |-> "running", req |-> req]]
      /\ pc' = [pc EXCEPT ![Owner] = "ring_kick"]
      /\ call' = [call EXCEPT ![Owner] = [op |-> "submit", req |-> req]]
  BY DEF Submit, SubmitLocked, Enter
<1>2. sq_tail = cq_head /\ cq_tail = cq_head /\ inflight = NoneInFlight /\ DeviceRests
      /\ \A tag \in CallerTag : track[tag].state = "free"
  BY DEF Rest
<1>3. Only(req, "running")'
  BY <1>1, <1>2, CommandShape DEF Only
<1>4. InRing(req)'
  BY <1>1, <1>2, CommandShape DEF InRing, NoneInFlight
<1>5. DeviceRests'
  BY <1>1, <1>2 DEF DeviceRests
<1> QED
  BY <1>1, <1>3, <1>4, <1>5 DEF Accepted

\* The kick finds the device at rest, so that it does not drop the command.
LEMMA KickComputes ==
    ASSUME PciInv, KnownOpcodes, NEW req \in CallerReq, Accepted(req), RingKick(Owner),
           call[Owner].req = req
    PROVE  /\ Computing(req)' /\ sq_tail' = sq_tail
           /\ pc' = [pc EXCEPT ![Owner] = "idle"]
<1>1. dev \in Device
  BY CommandShape
<1>2. req.opcode \in {EDU_OP_FACTORIAL, EDU_OP_DMA_TEST}
  BY DEF CallerReq, KnownOpcodes
<1>3. /\ UNCHANGED <<ringVars, isr, track>> /\ pc' = [pc EXCEPT ![Owner] = "idle"]
      /\ \/ req.opcode = EDU_OP_FACTORIAL /\ dev' = StartFact(FactIrq(dev, TRUE), req.operand, req.tag)
         \/ /\ req.opcode = EDU_OP_DMA_TEST
            /\ dev' = StartDma(FactIrq(dev, FALSE), "to_edu", req.tag)
  BY <1>2 DEF RingKick, Leave
<1>4. ~dev.busy /\ dev.dma = "idle" /\ dev.irq = {} /\ isr.pc # "ring"
  BY DEF Accepted, DeviceRests
<1>5. Only(req, "running")' /\ InRing(req)'
  BY <1>3 DEF Accepted, Only, InRing, ringVars
<1>6. CASE req.opcode = EDU_OP_FACTORIAL
  <2>1. dev' = StartFact(FactIrq(dev, TRUE), req.operand, req.tag)
    BY <1>3, <1>6 DEF EDU_OP_FACTORIAL, EDU_OP_DMA_TEST
  <2>2. /\ dev'.busy /\ dev'.irqEn /\ dev'.fact = req.operand /\ dev'.factFor = req.tag
        /\ dev'.dma = "idle" /\ dev'.irq = {}
    BY <1>1, <1>4, <2>1 DEF StartFact, FactIrq, Device
  <2> QED
    BY <1>3, <1>4, <1>5, <1>6, <2>2 DEF Computing, ringVars
<1>7. CASE req.opcode = EDU_OP_DMA_TEST
  <2>1. dev' = StartDma(FactIrq(dev, FALSE), "to_edu", req.tag) /\ req.opcode # EDU_OP_FACTORIAL
    BY <1>3, <1>7 DEF EDU_OP_FACTORIAL, EDU_OP_DMA_TEST
  <2>2. ~dev'.busy /\ dev'.dma = "to_edu" /\ dev'.dmaFor = req.tag /\ dev'.irq = {}
    BY <1>1, <1>4, <2>1 DEF StartDma, FactIrq, Device
  <2> QED
    BY <1>3, <1>4, <1>5, <2>1, <2>2 DEF Computing, ringVars
<1> QED
  BY <1>2, <1>6, <1>7

-----------------------------------------------------------------------------
(* The object goes through its program.                                     *)

\* A call that starts something is made when every command has been answered: the
\* caller sees to it, or the loop of wait_completion has.
LEMMA StartsAtRest ==
    ASSUME ClientInv, Disciplined, ~At("submitting"), OneAtATime => Quiet,
           At("none") \/ At("opened") \/ At("ready") \/ At("written")
    PROVE  Rest
<1>1. ASSUME Quiet, NEW req \in CallerReq, Kicked(req) PROVE FALSE
  <2>1. req.tag \in CallerTag /\ track[req.tag].state \in {"running", "done"}
    BY <1>1 DEF CallerReq, Kicked, Computing, Computed, Posted, Only
  <2> QED
    BY <1>1, <2>1 DEF Quiet, Answered
<1> QED
  BY <1>1 DEF ClientInv, CommandInv, OwnerInv, Disciplined

\* What the invariant says of the object and its command.
ObjectInv == TailFollows /\ CommandInv /\ OwnerInv

\* A completion that is polled is that of the command under way, and none is left.
LEMMA PolledIsOwn ==
    ASSUME ClientInv, Disciplined, ~At("submitting"), PollCq, Untrack(PolledEntry.tag),
           UNCHANGED <<isr, dev>>
    PROVE  /\ Rest'
           /\ \E req \in CallerReq : Kicked(req)
           /\ \A req \in CallerReq : Kicked(req) => /\ PolledEntry.tag = req.tag
                                                    /\ PolledEntry.result = Expected(req)
<1>1. \E req \in CallerReq : Kicked(req)
  BY RestPollsNothing DEF ClientInv, CommandInv
<1>2. ASSUME NEW req \in CallerReq, Kicked(req)
      PROVE  Rest' /\ PolledEntry.tag = req.tag /\ PolledEntry.result = Expected(req)
  BY <1>2, PollTakes DEF ClientInv
<1> QED
  BY <1>1, <1>2

\* The handler and the device get a command further.
LEMMA DriverKeeps ==
    ASSUME ClientInv, Disciplined, IsrStep \/ DeviceStep, UNCHANGED clientVars
    PROVE  ObjectInv'
<1>1. UNCHANGED <<pc, call, sq_tail, cq_head, mode, client>>
  BY DriverFrame DEF clientVars
<1>2. Rest => Rest'
  BY RestStays DEF ClientInv
<1>3. \A req \in CallerReq : (Accepted(req) => Accepted(req)') /\ (Kicked(req) => Kicked(req)')
  BY AcceptedStays, KickedMoves DEF ClientInv, Disciplined
<1>4. Rest => sq' = sq
  BY IdleHandler DEF ClientInv, Rest, ringVars
<1>5. TailFollows'
  BY <1>1 DEF ClientInv, TailFollows, At, ring_next
<1>6. CASE At("submitting")
  <2>1. client.req \in CallerReq /\ Accepted(client.req)
    BY <1>6 DEF ClientInv, ClientTypeOK, CommandInv
  <2>2. Accepted(client.req)'
    BY <1>1, <1>3, <2>1
  <2> QED
    BY <1>1, <1>5, <1>6, <2>2 DEF ClientInv, ObjectInv, CommandInv, OwnerInv, At
<1>7. CASE ~At("submitting")
  <2>1. CommandInv'
    BY <1>1, <1>2, <1>3, <1>4, <1>7 DEF ClientInv, CommandInv, At
  <2>2. At("submitted") => client.req \in CallerReq
    BY DEF ClientInv, ClientTypeOK
  <2>3. OwnerInv'
    BY <1>1, <1>2, <1>3, <2>2 DEF ClientInv, OwnerInv, Answers, At
  <2> QED
    BY <1>5, <2>1, <2>3 DEF ObjectInv
<1> QED
  BY <1>6, <1>7

\* A thread that sleeps on the eventfd takes the completion, if there is one.
LEMMA EventKeeps ==
    ASSUME ClientInv, Disciplined, NEW t \in Thread \ {Owner}, EventStep(t), UNCHANGED clientVars
    PROVE  ObjectInv'
<1>1. mode = "event" /\ UNCHANGED <<mode, client, isr, dev, sq_tail>>
  BY DEF EventStep, Poll, WaitEventfd, Drain, PollCq, clientVars, ringVars
<1>2. pc'[Owner] = pc[Owner] /\ call'[Owner] = call[Owner]
  <2>1. \/ UNCHANGED callVars \/ Leave(t) \/ Enter(t, "drain", "wait_eventfd", ZeroSq)
    BY DEF EventStep, Poll, WaitEventfd, Drain
  <2> QED
    BY <2>1, ClientAssumption DEF callVars, Leave, Enter, ClientInv, PciInv, CallInv
<1>3. OwnerInv'
  BY <1>1 DEF OwnerInv, Answers
<1>4. TailFollows'
  BY <1>1 DEF ClientInv, TailFollows, At, ring_next
<1>5. CASE PollCq /\ Untrack(PolledEntry.tag)
  <2>1. ~At("submitting")
    BY <1>5 DEF ClientInv, CommandInv, Accepted, InRing, PollCq
  <2>2. Rest' /\ ~Rest
    BY <1>1, <1>5, <2>1, PolledIsOwn, RestPollsNothing
  <2>3. CommandInv'
    BY <1>1, <1>2, <2>1, <2>2 DEF ClientInv, CommandInv, At
  <2> QED
    BY <1>3, <1>4, <2>3 DEF ObjectInv
<1>6. CASE UNCHANGED <<ringVars, track>>
  <2>1. (Rest => Rest') /\ \A req \in CallerReq : /\ Accepted(req) => Accepted(req)'
                                                  /\ Kicked(req) => Kicked(req)'
    BY <1>1, <1>6, CommandFrame
  <2>2. At("submitting") => client.req \in CallerReq
    BY DEF ClientInv, ClientTypeOK
  <2>3. sq' = sq
    BY <1>6 DEF ringVars
  <2>4. CommandInv'
    BY <1>1, <1>2, <2>1, <2>2, <2>3 DEF ClientInv, CommandInv, At
  <2> QED
    BY <1>3, <1>4, <2>4 DEF ObjectInv
<1> QED
  BY <1>5, <1>6 DEF EventStep, Poll, WaitEventfd, Drain

\* The owner makes its calls.
LEMMA OwnerKeeps ==
    ASSUME ClientInv, Disciplined, OwnerStep, UNCHANGED mode
    PROVE  ObjectInv'
<1> USE DEF At
<1>0. /\ client \in [at : {"none", "opened", "ready", "written", "submitting", "submitted",
                           "waiting"},
                     tail : Slot, mapped : BOOLEAN, req : CallerReq \cup {ZeroSq}]
      /\ pc \in [Thread -> InLegacy \cup {"idle", "ring_kick", "drain"}]
      /\ call \in [Thread -> [op : Call \cup LegacyOp \cup {"none"}, req : SqEntry]]
      /\ Owner \in Thread /\ PciInv /\ KnownOpcodes
      /\ TailFollows /\ CommandInv /\ OwnerInv /\ ClientTypeOK
  BY ClientAssumption DEF ClientInv, ClientTypeOK, PciInv, CallInv, Disciplined
\* A command that is only looked at stays where it is.
<1>1. CASE MapRings \/ UnmapRings \/ StartWait \/ WaitGivesUp
  <2>0. UNCHANGED vars
    BY <1>1 DEF MapRings, UnmapRings, StartWait, WaitGivesUp
  <2>1. (Rest => Rest') /\ \A req \in CallerReq : Kicked(req) => Kicked(req)'
    BY <2>0, CommandFrame DEF vars
  <2>2. UNCHANGED <<pc, sq, sq_tail>>
    BY <2>0 DEF vars, callVars, ringVars
  <2>3. CASE MapRings \/ UnmapRings
    BY <1>0, <2>1, <2>2, <2>3 DEF MapRings, UnmapRings, ObjectInv, TailFollows, CommandInv, OwnerInv,
       Answers
  <2>4. CASE StartWait
    BY <1>0, <2>1, <2>2, <2>4 DEF StartWait, Goto, ObjectInv, TailFollows, CommandInv, OwnerInv,
       Answers, ClientTypeOK
  <2>5. CASE WaitGivesUp
    <3>1. Answers => Rest
      <4>1. ASSUME Answers, NEW req \in CallerReq, Kicked(req) PROVE FALSE
        <5>1. ~InterruptComing /\ cq_head = cq_tail
          BY <2>5, <4>1 DEF WaitGivesUp, LimitReached, Answers
        <5> QED
          BY <4>1, <5>1, CommandShape, <1>0
             DEF Kicked, Computing, Computed, Posted, InterruptComing
      <4> QED
        BY <1>0, <2>5, <4>1 DEF WaitGivesUp, OwnerInv
    <3> QED
      BY <1>0, <2>1, <2>2, <2>5, <3>1
         DEF WaitGivesUp, ObjectInv, TailFollows, CommandInv, OwnerInv, Answers
  <2> QED
    BY <1>1, <2>3, <2>4, <2>5
\* A new object, and its eventfd.
<1>2. CASE Construct
  <2>1. Open(Owner) /\ (OneAtATime => Quiet) /\ pc[Owner] = "idle"
    BY <1>2 DEF Construct, Open, MayStart, MayCall, Disciplined, NoRestart
  <2>2. /\ sq_tail' = 0 /\ cq_tail' = 0 /\ cq_head' = 0 /\ inflight' = NoneInFlight
        /\ track' = [tag \in CallerTag |-> [state |-> "free", req |-> ZeroSq]]
        /\ UNCHANGED <<pc, isr>> /\ dev' = [dev EXCEPT !.factFor = Nobody, !.dmaFor = Nobody]
    BY <2>1 DEF Open, ResetRing, NoneInFlight, callVars
  <2>3. Rest
    BY <1>2, <2>1, StartsAtRest DEF Construct
  <2>4. Rest'
    BY <1>0, <2>2, <2>3, CommandShape DEF Rest, DeviceRests, NoneInFlight, Device
  <2> QED
    BY <1>0, <1>2, <2>1, <2>2, <2>4
       DEF Construct, ObjectInv, TailFollows, CommandInv, OwnerInv, Answers
<1>3. CASE RegisterEventfd
  <2>1. Rest /\ Rest' /\ UNCHANGED <<pc, sq, sq_tail>>
    BY <1>0, <1>3, CommandFrame
       DEF RegisterEventfd, SetEventfd, CommandInv, ringVars, callVars
  <2> QED
    BY <1>0, <1>3, <2>1
       DEF RegisterEventfd, Goto, ObjectInv, TailFollows, CommandInv, OwnerInv, Answers
\* Submissions.
<1>4. ASSUME NEW req \in CallerReq, Submit(Owner, req),
             client' = [client EXCEPT !.at = "submitting", !.req = req],
             At("ready") \/ At("written")
      PROVE  ObjectInv'
  <2>1. Rest
    BY <1>4, StartsAtRest DEF Submit, MayStart
  <2>2. /\ Accepted(req)' /\ sq_tail' = ring_next(sq_tail)
        /\ pc' = [pc EXCEPT ![Owner] = "ring_kick"]
        /\ call' = [call EXCEPT ![Owner] = [op |-> "submit", req |-> req]]
    BY <1>0, <1>4, <2>1, SubmitAccepts
  <2>3. client'.at = "submitting" /\ client'.req = req /\ client'.tail = sq_tail
    BY <1>0, <1>4 DEF TailFollows
  <2>4. TailFollows' /\ OwnerInv'
    BY <2>2, <2>3 DEF TailFollows, OwnerInv, ring_next
  <2>5. CommandInv'
    BY <1>0, <2>2, <2>3 DEF CommandInv
  <2> QED
    BY <2>4, <2>5 DEF ObjectInv
<1>5. CASE SubmitIoctl
  BY <1>4, <1>5 DEF SubmitIoctl
<1>6. CASE SubmitWritten
  <2>1. client.req \in CallerReq /\ client' = [client EXCEPT !.at = "submitting", !.req = client.req]
    BY <1>0, <1>6 DEF SubmitWritten, Goto, ClientTypeOK
  <2> QED
    BY <1>4, <1>6, <2>1 DEF SubmitWritten
<1>7. CASE WriteSlot
  <2>1. Rest
    BY <1>7, StartsAtRest DEF WriteSlot, MayStart
  <2>2. PICK req \in CallerReq : /\ SlabWrite([sq EXCEPT ![client.tail] = req])
                                 /\ client' = [client EXCEPT !.at = "written", !.req = req]
    BY <1>7 DEF WriteSlot
  <2>3. Rest'
    BY <1>7, <2>1, <2>2 DEF WriteSlot, SlabWrite, Rest, DeviceRests
  <2>4. sq'[client'.tail] = client'.req /\ sq_tail' = sq_tail /\ pc' = pc
    BY <1>0, <1>7, <2>2, CommandShape DEF WriteSlot, SlabWrite, callVars
  <2> QED
    BY <1>0, <1>7, <2>2, <2>3, <2>4
       DEF WriteSlot, ObjectInv, TailFollows, CommandInv, OwnerInv, Answers
\* The device is started.
<1>8. CASE SubmitReturns
  <2>1. /\ client.req \in CallerReq /\ Accepted(client.req) /\ RingKick(Owner)
        /\ call[Owner].req = client.req
    BY <1>0, <1>8 DEF SubmitReturns, ClientTypeOK, CommandInv
  <2>2. PICK req \in CallerReq : req = client.req
    BY <2>1
  <2>3. Computing(req)' /\ sq_tail' = sq_tail /\ pc' = [pc EXCEPT ![Owner] = "idle"]
    BY <1>0, <2>1, <2>2, KickComputes
  <2>4. TailAfter(client.req) = sq_tail
    BY <1>0, <1>8, <2>1 DEF TailAfter, KnownOpcodes, CallerReq, TailFollows, SubmitReturns
  <2>5. client'.tail = sq_tail' /\ client'.at \in {"submitted", "ready"}
        /\ (client'.at = "submitted" => client'.req = req) /\ (client'.at = "ready" => mode' # "wait")
    BY <1>0, <1>8, <2>2, <2>3, <2>4 DEF SubmitReturns
  <2>6. Kicked(req)'
    BY <2>3 DEF Kicked
  <2> QED
    BY <1>0, <2>3, <2>5, <2>6 DEF ObjectInv, TailFollows, CommandInv, OwnerInv, Answers
<1>9. CASE WaitReturns
  <2>1. Rest' /\ UNCHANGED <<pc, sq_tail>>
    BY <1>9, PolledIsOwn DEF WaitReturns, Poll, PollCq, callVars
  <2> QED
    BY <1>0, <1>9, <2>1
       DEF WaitReturns, ObjectInv, TailFollows, CommandInv, OwnerInv, Answers
<1> QED
  BY <1>1, <1>2, <1>3, <1>5, <1>6, <1>7, <1>8, <1>9 DEF OwnerStep

\* The object starts in the invariant,
LEMMA ClientInvInit == ClientInit => ClientInv
<1> SUFFICES ASSUME ClientInit PROVE ClientInv
  OBVIOUS
<1>1. PciInv
  BY PciInvInit DEF ClientInit
<1>2. At("none") /\ 0 \in Slot /\ pc = [t \in Thread |-> "idle"] /\ Owner \in Thread
  BY RingAssumption, ClientAssumption DEF ClientInit, Init, At, Slot
<1>3. ClientTypeOK
  BY <1>2 DEF ClientInit, ClientTypeOK, At
<1>4. Rest
  BY DEF ClientInit, Init, RingInit, DevInit, Rest, DeviceRests, NoneInFlight
<1>5. TailFollows /\ CommandInv /\ OwnerInv
  BY <1>2, <1>4 DEF ClientInit, Init, RingInit, TailFollows, CommandInv, OwnerInv, At
<1> QED
  BY <1>1, <1>3, <1>5 DEF ClientInv

\* and every step keeps it.
LEMMA ClientInvStep == ClientInv /\ [ClientNext]_allVars => ClientInv'
<1> SUFFICES ASSUME ClientInv, [ClientNext]_allVars PROVE ClientInv'
  OBVIOUS
<1>1. PciInv' /\ ClientTypeOK'
  BY ClientPciStep, ClientTypeStep DEF ClientInv
<1>2. mode' = mode
  BY DEF ClientNext, allVars, clientVars
<1>3. ASSUME Disciplined' PROVE ObjectInv'
  <2>1. Disciplined
    BY <1>2, <1>3 DEF Disciplined, Answers
  <2>2. CASE OwnerStep /\ UNCHANGED mode
    BY <2>1, <2>2, OwnerKeeps
  <2>3. ASSUME NEW t \in Thread \ {Owner}, EventStep(t), UNCHANGED clientVars PROVE ObjectInv'
    BY <2>1, <2>3, EventKeeps
  <2>4. CASE (IsrStep \/ DeviceStep) /\ UNCHANGED clientVars
    BY <2>1, <2>4, DriverKeeps
  <2>5. CASE UNCHANGED allVars
    <3>1. UNCHANGED <<ringVars, pc, call, isr, dev, track, mode, client>>
      BY <2>5 DEF allVars, vars, callVars, clientVars
    <3>2. (Rest => Rest') /\ \A req \in CallerReq : /\ Accepted(req) => Accepted(req)'
                                                    /\ Kicked(req) => Kicked(req)'
      BY <3>1, CommandFrame
    <3>3. At("submitting") \/ At("submitted") => client.req \in CallerReq
      BY DEF ClientInv, ClientTypeOK
    <3>4. UNCHANGED <<sq, sq_tail>>
      BY <3>1 DEF ringVars
    <3>5. TailFollows' /\ CommandInv'
      BY <2>1, <3>1, <3>2, <3>3, <3>4 DEF ClientInv, TailFollows, CommandInv, At, ring_next
    <3>6. OwnerInv'
      BY <2>1, <3>1, <3>2, <3>3 DEF ClientInv, OwnerInv, Answers, At
    <3> QED
      BY <3>5, <3>6 DEF ObjectInv
  <2> QED
    BY <2>2, <2>3, <2>4, <2>5 DEF ClientNext
<1> QED
  BY <1>1, <1>3 DEF ClientInv, ObjectInv

-----------------------------------------------------------------------------
(* What it gives.                                                           *)

\* An object over the driver steps as the rings do, also with what it writes
\* through the mapping: the theorems of EduRingProofs hold of it.
THEOREM ClientImplementsRing == ClientSpec => RingRefined
<1>1. ClientInit => RingInit
  BY DEF ClientInit, Init
<1>2. ClientInv /\ [ClientNext]_allVars => [RingNext]_ringVars
  BY ClientPciStep DEF ClientInv
<1> QED
  BY <1>1, <1>2, ClientInvInit, ClientInvStep, PTL DEF ClientSpec, RingRefined, RingSpec

\* The entry that can be polled, if there is one, is the consumer's next.
LEMMA ReadyIsNext ==
    ASSUME PciInv
    PROVE  /\ cq_tail = cq_head => ReadyIndex = {}
           /\ cq_tail = ring_next(cq_head) => ReadyIndex = {cq_head}
<1>1. cq_head \in Slot /\ ring_next(cq_head) # cq_head
  BY CommandShape
<1>2. Ready = Distance(cq_tail, cq_head) /\ Distance(cq_head, cq_head) = 0
  BY <1>1, DistanceValue DEF Ready, Distance, Slot
<1>3. CASE cq_tail = cq_head
  <2>1. Ready = 0
    BY <1>2, <1>3
  <2>2. 0 .. Ready - 1 = {}
    BY <2>1
  <2> QED
    BY <2>2, <1>1, <1>3 DEF ReadyIndex
<1>4. CASE cq_tail = ring_next(cq_head)
  <2>1. Ready = 1
    BY <1>1, <1>2, <1>4, DistanceGrows
  <2>2. (cq_head + 0) % RING_SIZE = cq_head
    <3>1. 0 \in 0 .. RING_SIZE - 1
      BY RingAssumption
    <3>2. (cq_head + 0) % RING_SIZE = IF cq_head + 0 >= RING_SIZE THEN cq_head + 0 - RING_SIZE
                                      ELSE cq_head + 0
      BY <1>1, <3>1, SlotAtDistance
    <3> QED
      BY <1>1, <3>2, RingAssumption DEF Slot
  <2>3. 0 .. Ready - 1 = {0}
    BY <2>1
  <2> QED
    BY <2>2, <2>3, <1>1, <1>4 DEF ReadyIndex
<1> QED
  BY <1>1, <1>3, <1>4

\* With one command at a time, as the caller or the loop of wait_completion sees to it,
\* the completion to be polled is that of its command: edu_irq_handler, which pairs
\* them through inflight[] and the FACT register only, pairs them right.
THEOREM ClientEcho == ClientSpec => [](Disciplined => EchoOK)
<1>1. ClientInv => (Disciplined => EchoOK)
  <2> SUFFICES ASSUME ClientInv, Disciplined PROVE EchoOK
    OBVIOUS
  <2>1. CASE cq_tail = cq_head
    BY <2>1, ReadyIsNext DEF ClientInv, EchoOK
  <2>2. ASSUME NEW req \in CallerReq, Posted(req) PROVE EchoOK
    <3>1. ReadyIndex = {cq_head} /\ req.tag \in CallerTag
      BY <2>2, ReadyIsNext, CommandShape DEF ClientInv, Posted
    <3>2. cq[cq_head].tag = req.tag /\ cq[cq_head].result = Expected(req)
      BY <2>2 DEF Posted
    <3>3. track[req.tag].state = "done" /\ track[req.tag].req = req
      BY <2>2 DEF Posted, Only
    <3> QED
      BY <3>1, <3>2, <3>3 DEF EchoOK
  <2> QED
    BY <2>1, <2>2 DEF ClientInv, CommandInv, Rest, Accepted, Kicked, Computing, Computed, InRing
<1> QED
  BY <1>1, ClientInvInit, ClientInvStep, PTL DEF ClientSpec

\* The loop of wait_completion, over a device that answers in time, is all it takes to
\* have one command at a time and a ring with room for it, whatever its caller waits for.
THEOREM WaitKeepsQuiet ==
    ASSUME KnownOpcodes, NoRestart, ~SlowDevice
    PROVE  ClientSpec => []OwnerIsQuiet
<1>1. ClientInv => OwnerIsQuiet
  <2> SUFFICES ASSUME ClientInv, mode = "wait", client.at \in {"ready", "written"}
               PROVE  Quiet /\ ~ring_full(sq_tail, cq_head)
    BY DEF OwnerIsQuiet
  <2>1. Rest /\ pc[Owner] = "idle"
    BY DEF ClientInv, CommandInv, OwnerInv, Disciplined, Answers, At
  <2>2. \A t \in Thread : pc[t] = "idle"
    BY <2>1 DEF ClientInv, ClientTypeOK
  <2>3. Quiet
    BY <2>1, <2>2 DEF Quiet, Answered, Rest
  <2>4. ring_next(cq_head) # cq_head
    BY CommandShape DEF ClientInv
  <2> QED
    BY <2>1, <2>3, <2>4 DEF Rest, ring_full
<1> QED
  BY <1>1, ClientInvInit, ClientInvStep, PTL DEF ClientSpec

\* wait_completion returns the completion of the command submitted before it, and
\* nothing only when there was none.
THEOREM WaitAnswersOwn ==
    ASSUME KnownOpcodes, NoRestart, ~SlowDevice
    PROVE  ClientSpec => WaitGetsOwn
<1>1. ASSUME ClientInv, WaitReturns
      PROVE  /\ client.req # ZeroSq
             /\ PolledEntry.tag = client.req.tag
             /\ PolledEntry.result = Expected(client.req)
  <2>1. At("waiting") /\ PollCq /\ Untrack(PolledEntry.tag) /\ UNCHANGED <<isr, dev>>
    BY <1>1 DEF WaitReturns, Poll
  <2>2. mode = "wait" /\ Disciplined /\ Answers
    BY <1>1, <2>1 DEF ClientInv, ClientTypeOK, Disciplined, Answers
  <2>3. client.req \in CallerReq /\ Kicked(client.req)
    BY <1>1, <2>1, <2>2, RestPollsNothing DEF ClientInv, OwnerInv
  <2>4. PolledEntry.tag = client.req.tag /\ PolledEntry.result = Expected(client.req)
    BY <1>1, <2>1, <2>2, <2>3, PolledIsOwn DEF At
  <2>5. client.req.opcode # 0 /\ ZeroSq.opcode = 0
    BY <2>3 DEF CallerReq, KnownOpcodes, EDU_OP_FACTORIAL, EDU_OP_DMA_TEST, ZeroSq
  <2> QED
    BY <2>4, <2>5
<1>2. ASSUME ClientInv, WaitGivesUp PROVE client.req = ZeroSq
  <2>1. At("waiting") /\ ~InterruptComing /\ cq_head = cq_tail
    BY <1>2 DEF WaitGivesUp, LimitReached
  <2>2. Disciplined /\ Answers
    BY <1>2, <2>1 DEF ClientInv, ClientTypeOK, Disciplined, Answers
  <2>3. ASSUME client.req \in CallerReq, Kicked(client.req) PROVE FALSE
    <3>1. PICK req \in CallerReq : Kicked(req)
      BY <2>3
    <3>2. PciInv
      BY <1>2 DEF ClientInv
    <3> QED
      BY <2>1, <3>1, <3>2, CommandShape
         DEF Kicked, Computing, Computed, Posted, InterruptComing
  <2> QED
    BY <1>2, <2>1, <2>2, <2>3 DEF ClientInv, OwnerInv
<1>3. ClientInv /\ [ClientNext]_allVars =>
        [/\ WaitReturns => /\ client.req # ZeroSq
                           /\ PolledEntry.tag = client.req.tag
                           /\ PolledEntry.result = Expected(client.req)
         /\ WaitGivesUp => client.req = ZeroSq]_allVars
  BY <1>1, <1>2
<1> QED
  BY <1>3, ClientInvInit, ClientInvStep, PTL DEF ClientSpec, WaitGetsOwn

\* The ioctl of submit_zc finds its entry written: the shadow tail of the object is the
\* tail of the driver, and nothing has written over it.
THEOREM WrittenInPlace ==
    ASSUME KnownOpcodes, NoRestart, OneAtATime \/ ~SlowDevice
    PROVE  ClientSpec => ZeroCopyInPlace
<1>1. ASSUME ClientInv, SubmitWritten PROVE sq' = sq
  <2>1. At("written") /\ Submit(Owner, client.req)
    BY <1>1 DEF SubmitWritten
  <2>2. Disciplined
    BY <1>1, <2>1 DEF ClientInv, ClientTypeOK, Disciplined, Answers
  <2>3. client.tail = sq_tail /\ sq[sq_tail] = client.req
    BY <1>1, <2>1, <2>2 DEF ClientInv, TailFollows, CommandInv, At
  <2>4. sq' = [sq EXCEPT ![sq_tail] = client.req] /\ sq \in [Slot -> SqEntry]
    BY <1>1, <2>1, CommandShape DEF Submit, SubmitLocked, ClientInv
  <2> QED
    BY <2>3, <2>4
<1>2. ClientInv /\ [ClientNext]_allVars => [SubmitWritten => sq' = sq]_allVars
  BY <1>1
<1> QED
  BY <1>2, ClientInvInit, ClientInvStep, PTL DEF ClientSpec, ZeroCopyInPlace

\* A submission takes no slot whose command is still in flight: what goes wrong with
\* two commands outstanding (the full test of edu_ring_submit looks at the indices only)
\* cannot with one.
THEOREM ClientSlotFree == ClientSpec => [](Disciplined => NextSlotFree)
<1>1. ClientInv => (Disciplined => NextSlotFree)
  <2> SUFFICES ASSUME ClientInv, Disciplined PROVE inflight[sq_tail] = 0
    BY DEF NextSlotFree
  <2>1. sq_tail \in Slot /\ ring_next(cq_head) # cq_head
    BY CommandShape DEF ClientInv
  <2>2. CASE inflight = NoneInFlight
    BY <2>1, <2>2 DEF NoneInFlight
  <2>3. ASSUME NEW req \in CallerReq, Only(req, "running") \/ Only(req, "done"), InRing(req)
        PROVE  inflight[sq_tail] = 0
    BY <2>1, <2>3 DEF Only, InRing
  <2>4. At("submitting") => client.req \in CallerReq
    BY DEF ClientInv, ClientTypeOK
  <2> QED
    BY <2>2, <2>3, <2>4
       DEF ClientInv, CommandInv, Rest, Accepted, Kicked, Computing, Computed, Posted
<1> QED
  BY <1>1, ClientInvInit, ClientInvStep, PTL DEF ClientSpec

\* No accepted command is stranded: what edu_ring_submit has put into the ring goes on
\* to the device, from there to the handler, and by the handler to the consumer, with no
\* state in between from which nobody would take it further.
THEOREM ClientNoneStranded == ClientSpec => [](Disciplined => NoneStranded)
<1>1. ClientInv => (Disciplined => NoneStranded)
  <2> SUFFICES ASSUME ClientInv, Disciplined, NEW tag \in CallerTag,
                      track[tag].state \in {"running", "done"}
               PROVE  /\ track[tag].state = "running" =>
                            \/ \E t \in Thread : pc[t] = "ring_kick"
                            \/ tag \in {dev.factFor, dev.dmaFor}
                      /\ track[tag].state = "done" =>
                            dev.irq # {} \/ isr.pc = "ring" \/ cq_head # cq_tail
    BY DEF NoneStranded
  <2>1. CASE At("submitting")
    <3>1. pc[Owner] = "ring_kick" /\ Only(client.req, "running")
      BY <2>1 DEF ClientInv, CommandInv, Accepted
    <3>2. track[tag].state # "done"
      BY <3>1 DEF Only
    <3> QED
      BY <3>1, <3>2, ClientAssumption
  <2>2. CASE ~At("submitting")
    <3>1. PICK req \in CallerReq : Kicked(req)
      BY <2>2 DEF ClientInv, CommandInv, Rest
    <3>2. req.tag = tag /\ track[tag].state = track[req.tag].state
      BY <3>1 DEF Kicked, Computing, Computed, Posted, Only
    <3>3. CASE Computing(req)
      BY <3>2, <3>3 DEF Computing, Only
    <3>4. CASE Computed(req)
      BY <3>2, <3>4 DEF Computed, Only
    <3>5. CASE Posted(req)
      <4>1. cq_head # cq_tail
        BY <3>5, CommandShape DEF ClientInv, Posted
      <4> QED
        BY <3>2, <3>5, <4>1 DEF Posted, Only
    <3> QED
      BY <3>1, <3>3, <3>4, <3>5 DEF Kicked
  <2> QED
    BY <2>1, <2>2
<1> QED
  BY <1>1, ClientInvInit, ClientInvStep, PTL DEF ClientSpec

-----------------------------------------------------------------------------
(* The object as a service.                                                 *)

\* What is outstanding is the command under way.
LEMMA OutstandingNow ==
    ASSUME PciInv
    PROVE  /\ Rest => Outstanding = {}
           /\ \A req \in CallerReq : Accepted(req) \/ Kicked(req) => Outstanding = {req}
<1>1. Rest => Outstanding = {}
  BY DEF Rest, Outstanding, UnderWay
<1>2. ASSUME NEW req \in CallerReq, Accepted(req) \/ Kicked(req) PROVE Outstanding = {req}
  <2>1. req.tag \in CallerTag
    BY CommandShape
  <2>2. Only(req, "running") \/ Only(req, "done")
    BY <1>2 DEF Accepted, Kicked, Computing, Computed, Posted
  <2>3. {c \in CallerTag : UnderWay(c)} = {req.tag}
    BY <2>1, <2>2 DEF Only, UnderWay
  <2>4. track[req.tag].req = req
    BY <2>2 DEF Only
  <2> QED
    BY <2>3, <2>4 DEF Outstanding
<1> QED
  BY <1>1, <1>2

\* The poll of a thread, by whatever call, is the answer to it.
LEMMA PollAnswers ==
    ASSUME ClientInv, ClientInv', Disciplined, PollCq, Untrack(PolledEntry.tag),
           UNCHANGED <<isr, dev>>
    PROVE  \E req \in CallerReq : Service!Answer(ReplyTo[req]) /\ PolledEntry = ReplyTo[req]
<1>1. ~At("submitting")
  BY DEF ClientInv, CommandInv, Accepted, InRing, PollCq
<1>2. PICK req \in CallerReq : Kicked(req)
  BY <1>1, RestPollsNothing DEF ClientInv, CommandInv
<1>3. PolledEntry = [tag |-> req.tag, status |-> 0, result |-> Expected(req)]
  BY <1>2 DEF Kicked, Computing, Computed, Posted, InRing, PollCq, PolledEntry
<1>4. Rest'
  BY <1>1, PolledIsOwn
<1>5. Outstanding = {req}
  BY <1>2, OutstandingNow DEF ClientInv
<1>6. Outstanding' = {}
  BY <1>4 DEF Rest, Outstanding, UnderWay
<1>7. PolledEntry = ReplyTo[req]
  BY <1>3 DEF ReplyTo
<1> QED
  BY <1>2, <1>5, <1>6, <1>7 DEF Service!Answer

\* The ioctl that accepts a command takes it on.
LEMMA SubmitTakes ==
    ASSUME ClientInv, Disciplined, ~At("submitting"), At("ready") \/ At("written"),
           NEW req \in CallerReq, Submit(Owner, req)
    PROVE  Service!Take(req)
<1>1. OneAtATime => Quiet
  BY DEF Submit, MayStart
<1>2. Rest
  BY <1>1, StartsAtRest
<1>3. Outstanding = {}
  BY <1>2, OutstandingNow DEF ClientInv
<1>4. Only(req, "running")'
  BY <1>2, SubmitAccepts DEF ClientInv, Accepted
<1>5. req.tag \in CallerTag
  BY CommandShape DEF ClientInv
<1>6. {c \in CallerTag : UnderWay(c)'} = {req.tag}
  BY <1>4, <1>5 DEF Only, UnderWay
<1>7. Outstanding' = {req}
  BY <1>4, <1>6 DEF Only, Outstanding
<1> QED
  BY <1>3, <1>7 DEF Service!Take

\* The end of a device unit changes what the history says of its command, and not that
\* it is outstanding.
LEMMA FinishedOutstands ==
    ASSUME PciInv, NEW for, track' = Finished(for)
    PROVE  Outstanding' = Outstanding
<1>1. track \in [CallerTag -> [state : {"free", "running", "done", "rejected"}, req : SqEntry]]
  BY CommandShape
<1>2. \A c \in CallerTag : /\ track'[c].req = track[c].req
                           /\ track'[c].state \in {"running", "done"} <=>
                                 track[c].state \in {"running", "done"}
  BY <1>1 DEF Finished
<1> QED
  BY <1>2 DEF Outstanding, UnderWay

\* Every other step leaves the commands where they are, or answers one.
LEMMA ServiceStep ==
    ASSUME ClientInv, ClientInv', Disciplined, [ClientNext]_allVars
    PROVE  /\ [Service!ServiceNext]_Outstanding
           /\ PollCq => Service!Answer(PolledEntry) \/ UNCHANGED allVars
<1> DEFINE Silent  == Outstanding' = Outstanding /\ (PollCq => UNCHANGED allVars)
           Accepts == (\E req \in CallerReq : Service!Take(req)) /\ ~PollCq
           Answers1 == \E req \in CallerReq :
                          Service!Answer(ReplyTo[req]) /\ PolledEntry = ReplyTo[req]
<1>1. SUFFICES Silent \/ Accepts \/ Answers1
  BY DEF Service!ServiceNext
<1>2. track' = track => Outstanding' = Outstanding
  BY DEF Outstanding, UnderWay
<1>3. cq_head' = cq_head => ~PollCq
  BY CommandShape DEF ClientInv, PollCq
<1>4. CASE UNCHANGED allVars
  <2>1. track' = track
    BY <1>4 DEF allVars, vars
  <2> QED
    BY <1>2, <1>4, <2>1
<1>5. CASE OwnerStep /\ UNCHANGED mode
  <2>1. CASE MapRings \/ UnmapRings \/ StartWait \/ WaitGivesUp
    <3>1. UNCHANGED <<track, cq_head>>
      BY <2>1 DEF MapRings, UnmapRings, StartWait, WaitGivesUp, vars, ringVars
    <3> QED
      BY <1>2, <1>3, <3>1
  <2>2. CASE Construct
    <3>1. Open(Owner) /\ (OneAtATime => Quiet) /\ (At("none") \/ At("ready"))
      BY <2>2 DEF Construct, Open, MayStart, MayCall, Disciplined, NoRestart
    <3>2. Rest
      BY <3>1, StartsAtRest DEF At
    <3>3. Outstanding = {} /\ ~PollCq
      BY <3>2, OutstandingNow, RestPollsNothing DEF ClientInv
    <3>4. \A c \in CallerTag : track'[c].state = "free"
      BY <3>1 DEF Open
    <3>5. Outstanding' = {}
      BY <3>4 DEF Outstanding, UnderWay
    <3> QED
      BY <3>3, <3>5
  <2>3. CASE RegisterEventfd \/ WriteSlot
    <3>1. UNCHANGED <<track, cq_head>>
      BY <2>3 DEF RegisterEventfd, SetEventfd, WriteSlot, SlabWrite, ringVars
    <3> QED
      BY <1>2, <1>3, <3>1
  <2>4. CASE SubmitIoctl \/ SubmitWritten
    <3>1. PICK req \in CallerReq : Submit(Owner, req)
      BY <2>4 DEF SubmitIoctl, SubmitWritten, ClientInv, ClientTypeOK
    <3>2. (At("ready") \/ At("written")) /\ ~At("submitting")
      BY <2>4 DEF SubmitIoctl, SubmitWritten, At
    <3>3. Service!Take(req)
      BY <3>1, <3>2, SubmitTakes
    <3>4. cq_head' = cq_head
      BY <3>1 DEF Submit, SubmitLocked
    <3> QED
      BY <1>3, <3>3, <3>4
  <2>5. CASE SubmitReturns
    <3>1. At("submitting") /\ RingKick(Owner)
      BY <2>5 DEF SubmitReturns
    <3>2. call[Owner].req = client.req /\ client.req \in CallerReq
      BY <3>1 DEF ClientInv, CommandInv, ClientTypeOK
    <3>3. UNCHANGED <<track, cq_head>>
      BY <3>1, <3>2 DEF RingKick, Disciplined, KnownOpcodes, CallerReq, ringVars
    <3> QED
      BY <1>2, <1>3, <3>3
  <2>6. CASE WaitReturns
    <3>1. PollCq /\ Untrack(PolledEntry.tag) /\ UNCHANGED <<isr, dev>>
      BY <2>6 DEF WaitReturns, Poll
    <3> QED
      BY <3>1, PollAnswers
  <2> QED
    BY <1>5, <2>1, <2>2, <2>3, <2>4, <2>5, <2>6 DEF OwnerStep
<1>6. ASSUME NEW t \in Thread \ {Owner}, EventStep(t)
      PROVE  Silent \/ Answers1
  <2>1. CASE PollCq /\ Untrack(PolledEntry.tag) /\ UNCHANGED <<isr, dev>>
    BY <2>1, PollAnswers
  <2>2. CASE UNCHANGED <<ringVars, track>>
    BY <1>2, <1>3, <2>2 DEF ringVars
  <2> QED
    BY <1>6, <2>1, <2>2 DEF EventStep, Poll, WaitEventfd, Drain
<1>7. CASE (IsrStep \/ DeviceStep) /\ UNCHANGED clientVars
  <2>1. cq_head' = cq_head
    BY <1>7, DriverFrame
  <2>2. track' = track \/ \E for : track' = Finished(for)
    BY <1>7 DEF IsrStep, IsrEnter, IsrPost, IsrSignal, IsrWake, DeviceStep, FactDone, DmaDone
  <2>3. Outstanding' = Outstanding
    BY <1>2, <2>2, FinishedOutstands DEF ClientInv
  <2> QED
    BY <1>3, <2>1, <2>3
<1> QED
  BY <1>4, <1>5, <1>6, <1>7 DEF ClientNext

\* Which way completions are taken does not change, and so not whether the caller is
\* asked for more.
LEMMA DisciplineStays == Disciplined /\ [ClientNext]_allVars => Disciplined'
  BY DEF Disciplined, Answers, ClientNext, allVars, clientVars

\* One object, its driver, the device and all threads that poll are, to a program that
\* has one command at a time, a service that answers each command once and as is due:
\* no command is lost, answered twice or answered with what is another's.
THEOREM ClientImplementsService == ClientSpec /\ Disciplined => AnsweredOnce
<1>1. ClientInit => Service!ServiceInit
  BY DEF ClientInit, Init, Outstanding, UnderWay, Service!ServiceInit
<1>2. ClientInv /\ ClientInv' /\ Disciplined /\ [ClientNext]_allVars =>
        [Service!ServiceNext]_Outstanding
  BY ServiceStep
<1>3. ClientInv /\ ClientInv' /\ Disciplined /\ [ClientNext]_allVars =>
        [PollCq => Service!Answer(PolledEntry)]_allVars
  BY ServiceStep
<1> QED
  BY <1>1, <1>2, <1>3, ClientInvInit, ClientInvStep, DisciplineStays, PTL
     DEF ClientSpec, AnsweredOnce, Service!ServiceSpec

-----------------------------------------------------------------------------
(* The way of a command.                                                    *)

\* A command that is under way is the only one, and this is how far it is.
LEMMA PlaceNow ==
    ASSUME ClientInv, Disciplined, NEW tag \in CallerTag, UnderWay(tag)
    PROVE  \/ At("submitting") /\ Accepted(client.req) /\ ToComplete(tag) = 4
           \/ /\ ~At("submitting")
              /\ \E req \in CallerReq :
                    /\ req.tag = tag
                    /\ \/ Computing(req) /\ ToComplete(tag) = 3
                       \/ Computed(req) /\ ToComplete(tag) = IF isr.pc = "ring" THEN 1 ELSE 2
                       \/ Posted(req) /\ ToComplete(tag) = 0
<1> USE DEF ToComplete
<1>1. CASE At("submitting")
  <2>1. Accepted(client.req) /\ pc[Owner] = "ring_kick"
    BY <1>1 DEF ClientInv, CommandInv
  <2>2. track[tag].state = "running"
    BY <2>1 DEF Accepted, Only, UnderWay
  <2> QED
    BY <1>1, <2>1, <2>2
<1>2. CASE ~At("submitting")
  <2>1. pc[Owner] = "idle"
    BY <1>2 DEF ClientInv, CommandInv
  <2>2. PICK req \in CallerReq : Kicked(req)
    BY <1>2 DEF ClientInv, CommandInv, Rest, UnderWay
  <2>3. req.tag = tag
    BY <2>2 DEF Kicked, Computing, Computed, Posted, Only, UnderWay
  <2>4. CASE Computing(req)
    <3>1. ToComplete(tag) = 3
      BY <2>1, <2>3, <2>4 DEF Computing, Only
    <3> QED
      BY <1>2, <2>3, <2>4, <3>1
  <2>5. CASE Computed(req)
    <3>1. track[tag].state = "done" /\ (dev.irq = {} <=> isr.pc = "ring")
      BY <2>3, <2>5 DEF Computed, Only
    <3>2. ToComplete(tag) = IF isr.pc = "ring" THEN 1 ELSE 2
      BY <3>1
    <3> QED
      BY <1>2, <2>3, <2>5, <3>2
  <2>6. CASE Posted(req)
    <3>1. ToComplete(tag) = 0
      BY <2>3, <2>6 DEF Posted, Only, DeviceRests
    <3> QED
      BY <1>2, <2>3, <2>6, <3>1
  <2> QED
    BY <2>2, <2>4, <2>5, <2>6 DEF Kicked
<1> QED
  BY <1>1, <1>2

\* Callers that are not in the ioctl leave it where it is.
LEMMA CallersLeave ==
    ASSUME ClientInv, ClientInv', Disciplined, NEW tag \in CallerTag, UnderWay(tag), UnderWay(tag)',
           \/ OwnerStep /\ UNCHANGED mode /\ ~SubmitReturns
           \/ (\E t \in Thread \ {Owner} : EventStep(t)) /\ UNCHANGED clientVars
    PROVE  ToComplete(tag)' = ToComplete(tag) /\ ~DeviceStep /\ ~IsrEnter /\ ~IsrPost
<1> SUFFICES UNCHANGED <<dev, isr>> /\ pc'[Owner] = pc[Owner] /\ track'[tag] = track[tag]
  <2>1. dev \in Device /\ isr \in [pc : {"idle", "ring", "signal", "wake"}, pending : BOOLEAN]
    BY CommandShape DEF ClientInv
  <2>2. dev' = dev => ~DeviceStep
    BY <2>1 DEF Device, DeviceStep, FactDone, DmaDone
  <2>3. isr' = isr => ~IsrEnter /\ ~IsrPost
    BY <2>1 DEF IsrEnter, IsrPost
  <2> QED
    BY <2>2, <2>3 DEF ToComplete
<1>0. track \in [CallerTag -> [state : {"free", "running", "done", "rejected"}, req : SqEntry]]
      /\ pc \in [Thread -> InLegacy \cup {"idle", "ring_kick", "drain"}]
  BY CommandShape DEF ClientInv, PciInv, CallInv
<1>1. ASSUME Untrack(PolledEntry.tag) PROVE track'[tag] = track[tag]
  BY <1>0, <1>1 DEF Untrack, UnderWay
<1>2. CASE OwnerStep /\ UNCHANGED mode /\ ~SubmitReturns
  <2>1. CASE MapRings \/ UnmapRings \/ StartWait \/ WaitGivesUp
    BY <2>1 DEF MapRings, UnmapRings, StartWait, WaitGivesUp, vars, callVars
  <2>2. ~Construct
    BY DEF Construct, Open, UnderWay
  <2>3. CASE RegisterEventfd \/ WriteSlot
    BY <2>3 DEF RegisterEventfd, SetEventfd, WriteSlot, callVars
  <2>4. ~SubmitIoctl /\ ~SubmitWritten
    <3>1. ASSUME NEW req, Submit(Owner, req), At("ready") \/ At("written") PROVE FALSE
      <4>1. OneAtATime => Quiet
        BY <3>1 DEF Submit, MayStart
      <4>2. Rest
        BY <3>1, <4>1, StartsAtRest DEF At
      <4> QED
        BY <4>2 DEF Rest, UnderWay
    <3> QED
      BY <3>1 DEF SubmitIoctl, SubmitWritten
  <2>5. CASE WaitReturns
    BY <1>1, <2>5 DEF WaitReturns, Poll, callVars
  <2> QED
    BY <1>2, <2>1, <2>2, <2>3, <2>4, <2>5 DEF OwnerStep
<1>3. ASSUME NEW t \in Thread \ {Owner}, EventStep(t)
      PROVE  UNCHANGED <<dev, isr>> /\ pc'[Owner] = pc[Owner] /\ track'[tag] = track[tag]
  <2>1. UNCHANGED <<dev, isr>> /\ (Untrack(PolledEntry.tag) \/ track' = track)
    BY <1>3 DEF EventStep, Poll, WaitEventfd, Drain
  <2>2. UNCHANGED callVars \/ Leave(t) \/ Enter(t, "drain", "wait_eventfd", ZeroSq)
    BY <1>3 DEF EventStep, Poll, WaitEventfd, Drain
  <2>3. pc'[Owner] = pc[Owner]
    BY <1>0, <2>2, ClientAssumption DEF callVars, Leave, Enter
  <2> QED
    BY <1>1, <2>1, <2>3
<1> QED
  BY <1>2, <1>3

\* The device and the handler take it on, one place at each step that is theirs.
LEMMA DriverAdvances ==
    ASSUME ClientInv, ClientInv', Disciplined, NEW tag \in CallerTag, UnderWay(tag),
           IsrStep \/ DeviceStep, UNCHANGED clientVars
    PROVE  IF IsrSignal \/ IsrWake THEN ToComplete(tag)' = ToComplete(tag)
           ELSE ToComplete(tag)' < ToComplete(tag)
<1>0. /\ dev \in Device /\ isr \in [pc : {"idle", "ring", "signal", "wake"}, pending : BOOLEAN]
      /\ track \in [CallerTag -> [state : {"free", "running", "done", "rejected"}, req : SqEntry]]
      /\ pc' = pc
  BY CommandShape, DriverFrame DEF ClientInv
<1>1. CASE IsrSignal \/ IsrWake
  <2>1. /\ UNCHANGED <<dev, track>> /\ isr.pc \in {"signal", "wake"} /\ isr'.pc \in {"wake", "idle"}
    BY <1>0, <1>1 DEF IsrSignal, IsrWake
  <2> QED
    BY <1>0, <1>1, <2>1 DEF ToComplete
<1>2. CASE IsrEnter
  <2>1. isr.pc = "idle" /\ dev.irq # {} /\ isr'.pc = "ring" /\ dev'.irq = {} /\ track' = track
    BY <1>0, <1>2 DEF IsrEnter, Device
  <2>2. ToComplete(tag) = 2 /\ \E req \in CallerReq : req.tag = tag /\ Computed(req)
    BY <2>1, PlaceNow DEF Accepted, Computing, Posted, DeviceRests
  <2>3. track[tag].state = "done"
    BY <2>2 DEF Computed, Only
  <2>4. ToComplete(tag)' = 1
    BY <2>1, <2>3 DEF ToComplete
  <2> QED
    BY <2>1, <2>2, <2>4 DEF IsrSignal, IsrWake
<1>3. CASE IsrPost
  <2>1. isr.pc = "ring" /\ isr'.pc = "signal" /\ UNCHANGED <<dev, track>>
    BY <1>0, <1>3 DEF IsrPost
  <2>2. ToComplete(tag) = 1 /\ \E req \in CallerReq : req.tag = tag /\ Computed(req)
    BY <2>1, PlaceNow DEF Accepted, Computing, Posted, DeviceRests
  <2>3. track[tag].state = "done" /\ dev.irq = {}
    BY <2>1, <2>2 DEF Computed, Only
  <2>4. ToComplete(tag)' = 0
    BY <2>1, <2>3 DEF ToComplete
  <2> QED
    BY <2>1, <2>2, <2>4 DEF IsrSignal, IsrWake
<1>4. CASE DeviceStep
  <2>1. ToComplete(tag) = 3 /\ \E req \in CallerReq : req.tag = tag /\ Computing(req)
    BY <1>4, PlaceNow DEF DeviceStep, FactDone, DmaDone, Accepted, Computed, Posted, DeviceRests
  <2>2. PICK req \in CallerReq : req.tag = tag /\ Computing(req)
    BY <2>1
  <2>3. track' = Finished(tag) /\ track[tag].state = "running"
    BY <1>4, <2>2 DEF DeviceStep, FactDone, DmaDone, Computing, Only
  <2>4. track'[tag].state = "done"
    BY <1>0, <2>3 DEF Finished
  <2>5. ~IsrSignal /\ ~IsrWake
    BY <1>0, <1>4 DEF DeviceStep, FactDone, DmaDone, IsrSignal, IsrWake, Device
  <2>6. ToComplete(tag)' \in 0 .. 2
    BY <2>4 DEF ToComplete
  <2> QED
    BY <2>1, <2>5, <2>6
<1> QED
  BY <1>1, <1>2, <1>3, <1>4 DEF IsrStep

\* A command only moves forward, and every register write, device event, interrupt and
\* critical section of the handler is a step of the one command under way.  With
\* NoneStranded, by which one of them is always still to come, an answer is a finite
\* number of such steps away.
THEOREM ClientCommandsAdvance == ClientSpec /\ Disciplined => CommandsAdvance
<1>1. ASSUME ClientInv, ClientInv', Disciplined, [ClientNext]_allVars,
             NEW tag \in CallerTag, UnderWay(tag), UnderWay(tag)', ~UNCHANGED allVars
      PROVE  /\ ToComplete(tag)' <= ToComplete(tag)
             /\ SubmitReturns \/ DeviceStep \/ IsrEnter \/ IsrPost =>
                   ToComplete(tag)' < ToComplete(tag)
  <2>0. ToComplete(tag) \in 0 .. 4
    BY DEF ToComplete
  <2>1. CASE SubmitReturns
    <3>1. At("submitting") /\ client'.at \in {"submitted", "ready"}
      BY <1>1, <2>1 DEF SubmitReturns, At, ClientInv, ClientTypeOK
    <3>2. ToComplete(tag) = 4
      BY <1>1, <3>1, PlaceNow
    <3>3. pc'[Owner] = "idle"
      BY <1>1, <2>1, ClientAssumption
         DEF SubmitReturns, RingKick, Leave, ClientInv, PciInv, CallInv
    <3>4. ToComplete(tag)' \in 0 .. 3
      BY <3>3 DEF ToComplete
    <3> QED
      BY <3>2, <3>4, <2>0
  <2>2. CASE \/ OwnerStep /\ UNCHANGED mode /\ ~SubmitReturns
             \/ (\E t \in Thread \ {Owner} : EventStep(t)) /\ UNCHANGED clientVars
    <3>1. ToComplete(tag)' = ToComplete(tag) /\ ~DeviceStep /\ ~IsrEnter /\ ~IsrPost
      BY <1>1, <2>2, CallersLeave
    <3>2. ~SubmitReturns
      BY <1>1, <2>2 DEF SubmitReturns, At, ClientInv, ClientTypeOK, clientVars
    <3> QED
      BY <2>0, <3>1, <3>2
  <2>3. CASE (IsrStep \/ DeviceStep) /\ UNCHANGED clientVars
    <3>1. ~SubmitReturns
      BY <1>1, <2>3 DEF SubmitReturns, At, ClientInv, ClientTypeOK, clientVars
    <3>2. IsrSignal \/ IsrWake => ~IsrEnter /\ ~IsrPost /\ ~DeviceStep
      BY <1>1, CommandShape
         DEF ClientInv, IsrSignal, IsrWake, IsrEnter, IsrPost, DeviceStep, FactDone, DmaDone
    <3>3. IF IsrSignal \/ IsrWake THEN ToComplete(tag)' = ToComplete(tag)
          ELSE ToComplete(tag)' < ToComplete(tag)
      BY <1>1, <2>3, DriverAdvances
    <3>4. ToComplete(tag)' \in 0 .. 4
      BY DEF ToComplete
    <3> QED
      BY <2>0, <3>1, <3>2, <3>3, <3>4
  <2> QED
    BY <1>1, <2>1, <2>2, <2>3 DEF ClientNext
<1>2. ClientInv /\ ClientInv' /\ Disciplined /\ [ClientNext]_allVars =>
        [\A tag \in CallerTag : UnderWay(tag) /\ UnderWay(tag)' =>
           /\ ToComplete(tag)' <= ToComplete(tag)
           /\ SubmitReturns \/ DeviceStep \/ IsrEnter \/ IsrPost =>
                 ToComplete(tag)' < ToComplete(tag)]_allVars
  BY <1>1
<1> QED
  BY <1>2, ClientInvInit, ClientInvStep, DisciplineStays, PTL DEF ClientSpec, CommandsAdvance

-----------------------------------------------------------------------------
(* Sleeping on the eventfd.  Nothing is asked of the caller for this: it    *)
(* holds with any number of commands, opcodes and restarts, and however     *)
(* slow the device is.                                                      *)

\* Until an eventfd is registered nothing is in the rings that it would have to tell of.
WakeInv ==
    /\ SleepersAreWoken
    /\ IF At("none") \/ At("opened") THEN cq_head = cq_tail /\ InflightSlots = {}
       ELSE evt_ctx # {}

LEMMA WakeInvInit == ClientInit => WakeInv
  BY DEF ClientInit, Init, RingInit, WakeInv, SleepersAreWoken, At, InflightSlots

\* The steps of the object: only the first two touch the registration.
LEMMA OwnerWakes ==
    ASSUME PciInv, ClientTypeOK, WakeInv, OwnerStep
    PROVE  WakeInv'
<1> USE DEF At
<1>0. /\ pc \in [Thread -> InLegacy \cup {"idle", "ring_kick", "drain"}]
      /\ client \in [at : {"none", "opened", "ready", "written", "submitting", "submitted",
                           "waiting"},
                     tail : Slot, mapped : BOOLEAN, req : CallerReq \cup {ZeroSq}]
  BY DEF ClientTypeOK, PciInv, CallInv
<1>1. CASE Construct
  <2>1. cq_head' = cq_tail' /\ inflight' = [i \in Slot |-> 0] /\ client'.at = "opened"
    BY <1>1 DEF Construct, Open, ResetRing
  <2>2. InflightSlots' = {}
    BY <2>1 DEF InflightSlots
  <2> QED
    BY <2>1, <2>2 DEF WakeInv, SleepersAreWoken
<1>2. CASE RegisterEventfd
  <2>1. evt_ctx' # {} /\ client.at = "opened" /\ client'.at = "ready"
        /\ UNCHANGED <<cq_head, cq_tail>>
    BY <1>0, <1>2 DEF RegisterEventfd, SetEventfd, Goto, ringVars
  <2> QED
    BY <2>1 DEF WakeInv, SleepersAreWoken
<1>3. CASE ~Construct /\ ~RegisterEventfd
  <2>1. /\ client.at \notin {"none", "opened"} /\ client'.at \notin {"none", "opened"}
        /\ UNCHANGED <<evt_ctx, signalled, isr, cq_tail>>
    BY <1>0, <1>3
       DEF OwnerStep, MapRings, UnmapRings, SubmitIoctl, WriteSlot, SubmitWritten, Submit,
           SubmitLocked, SlabWrite, SubmitReturns, RingKick, StartWait, WaitReturns, Poll,
           PollCq, WaitGivesUp, Goto, vars, ringVars, eventVars
  <2>2. cq_head' = cq_head \/ cq_head # cq_tail
    BY <1>3
       DEF OwnerStep, MapRings, UnmapRings, SubmitIoctl, WriteSlot, SubmitWritten, Submit,
           SubmitLocked, SlabWrite, SubmitReturns, RingKick, StartWait, WaitReturns, Poll,
           PollCq, WaitGivesUp, vars, ringVars
  <2>3. ASSUME NEW t \in Thread, pc[t] = "drain" PROVE pc'[t] = "drain"
    <3>1. \/ UNCHANGED callVars
          \/ pc[Owner] = "idle" /\ \E req : Enter(Owner, "ring_kick", "submit", req)
          \/ pc[Owner] = "ring_kick" /\ Leave(Owner)
      BY <1>3
         DEF OwnerStep, MapRings, UnmapRings, SubmitIoctl, WriteSlot, SubmitWritten, Submit,
             MayStart, MayCall, SubmitReturns, RingKick, StartWait, WaitReturns, Poll,
             WaitGivesUp, vars
    <3> QED
      BY <1>0, <2>3, <3>1 DEF callVars, Enter, Leave
  <2> QED
    BY <2>1, <2>2, <2>3 DEF WakeInv, SleepersAreWoken
<1> QED
  BY <1>1, <1>2, <1>3

\* The threads that sleep and poll: a signal is taken away only by a thread that goes on
\* to poll, and it stops only when there is nothing left.
LEMMA EventWakes ==
    ASSUME PciInv, WakeInv, NEW t \in Thread \ {Owner}, EventStep(t), UNCHANGED clientVars
    PROVE  WakeInv'
<1>0. pc \in [Thread -> InLegacy \cup {"idle", "ring_kick", "drain"}]
  BY DEF PciInv, CallInv
<1>1. UNCHANGED <<client, evt_ctx, isr, cq_tail, inflight>>
  BY DEF EventStep, Poll, WaitEventfd, Drain, PollCq, clientVars, eventVars, ringVars
<1>2. (At("none") \/ At("opened")) => cq_head' = cq_tail'
  BY <1>1 DEF WakeInv, EventStep, Poll, WaitEventfd, Drain, PollCq, ringVars
<1>3. SleepersAreWoken'
  <2>1. CASE Poll(t) \/ (Drain(t) /\ PollCq /\ UNCHANGED callVars)
    <3>1. cq_head # cq_tail /\ UNCHANGED <<pc, signalled>>
      BY <2>1 DEF Poll, Drain, PollCq, callVars, eventVars
    <3> QED
      BY <1>1, <3>1 DEF WakeInv, SleepersAreWoken
  <2>2. CASE WaitEventfd(t)
    <3>1. pc'[t] = "drain"
      BY <1>0, <2>2 DEF WaitEventfd, Enter
    <3> QED
      BY <3>1 DEF SleepersAreWoken
  <2>3. CASE Drain(t) /\ cq_head = cq_tail /\ UNCHANGED ringVars
    BY <2>3 DEF SleepersAreWoken, ringVars
  <2> QED
    BY <2>1, <2>2, <2>3 DEF EventStep, Drain
<1> QED
  BY <1>1, <1>2, <1>3 DEF WakeInv, At, InflightSlots

\* The handler posts before it signals, and signals whenever it has posted.
LEMMA DriverWakes ==
    ASSUME PciInv, WakeInv, IsrStep \/ DeviceStep, UNCHANGED clientVars
    PROVE  WakeInv'
<1>0. isr \in [pc : {"idle", "ring", "signal", "wake"}, pending : BOOLEAN]
  BY CommandShape
<1>1. UNCHANGED <<client, pc, cq_head, evt_ctx>>
  BY DriverFrame DEF clientVars, IsrStep, IsrEnter, IsrPost, IsrSignal, IsrWake, DeviceStep,
     FactDone, DmaDone, eventVars
<1>2. CASE IsrPost
  <2>1. isr' = [pc |-> "signal", pending |-> InflightSlots # {}] /\ isr.pc = "ring"
        /\ signalled' = signalled
    BY <1>2 DEF IsrPost, eventVars
  <2>2. CASE InflightSlots = {}
    <3>1. UNCHANGED <<cq_tail, inflight>>
      BY <1>2, <2>2 DEF IsrPost, ringVars
    <3> QED
      BY <1>1, <2>1, <3>1 DEF WakeInv, SleepersAreWoken, At, InflightSlots
  <2>3. CASE InflightSlots # {}
    BY <1>1, <2>1, <2>3 DEF WakeInv, SleepersAreWoken, At
  <2> QED
    BY <2>2, <2>3
<1>3. CASE IsrSignal
  <2>1. UNCHANGED <<cq_tail, inflight>>
        /\ signalled' = IF isr.pending THEN signalled \cup evt_ctx ELSE signalled
    BY <1>3 DEF IsrSignal, ringVars
  <2>2. evt_ctx # {} \/ cq_head = cq_tail
    BY DEF WakeInv
  <2> QED
    BY <1>1, <2>1, <2>2 DEF WakeInv, SleepersAreWoken, At, InflightSlots
<1>4. CASE IsrEnter \/ IsrWake \/ DeviceStep
  <2>1. UNCHANGED <<cq_tail, inflight, signalled>>
        /\ (isr.pc = "signal" /\ isr.pending => isr'.pc = "signal" /\ isr'.pending)
    BY <1>4 DEF IsrEnter, IsrWake, DeviceStep, FactDone, DmaDone, SlabWrite, eventVars, ringVars
  <2> QED
    BY <1>1, <2>1 DEF WakeInv, SleepersAreWoken, At, InflightSlots
<1> QED
  BY <1>2, <1>3, <1>4 DEF IsrStep

\* Whoever sleeps on the registered eventfd is told of every completion: between the
\* post and the signal, the read of the eventfd and the polls after it, in whatever
\* order, there is no state from which nobody would come for a completion.
THEOREM ClientWakesSleepers == ClientSpec => []SleepersAreWoken
<1>1. ClientInv /\ WakeInv /\ [ClientNext]_allVars => WakeInv'
  <2> SUFFICES ASSUME ClientInv, WakeInv, [ClientNext]_allVars PROVE WakeInv'
    OBVIOUS
  <2>1. CASE OwnerStep
    BY <2>1, OwnerWakes DEF ClientInv
  <2>2. ASSUME NEW t \in Thread \ {Owner}, EventStep(t), UNCHANGED clientVars PROVE WakeInv'
    BY <2>2, EventWakes DEF ClientInv
  <2>3. CASE (IsrStep \/ DeviceStep) /\ UNCHANGED clientVars
    BY <2>3, DriverWakes DEF ClientInv
  <2>4. CASE UNCHANGED allVars
    BY <2>4
       DEF allVars, vars, clientVars, ringVars, callVars, eventVars, WakeInv,
           SleepersAreWoken, At, InflightSlots
  <2> QED
    BY <2>1, <2>2, <2>3, <2>4 DEF ClientNext
<1>2. WakeInv => SleepersAreWoken
  BY DEF WakeInv
<1> QED
  BY <1>1, <1>2, ClientInvInit, ClientInvStep, WakeInvInit, PTL DEF ClientSpec
=============================================================================
