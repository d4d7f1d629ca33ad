----------------------------- MODULE EduClient ------------------------------
(***************************************************************************)
(* The program of one EduDevice object over the driver of EduPci: it opens *)
(* the device and registers its eventfd (the constructor), submits through *)
(* the ioctl or through the mapped ring (submit, submit_zc), and takes its *)
(* completions in one of two ways:                                         *)
(*                                                                         *)
(*   "wait"   the owner calls wait_completion after each submission, as    *)
(*            demo.cpp and test_edu_device.py do, and may map the rings;   *)
(*   "event"  other threads sleep on the eventfd and poll (EduPci).        *)
(*                                                                         *)
(* The C functions of edu_device_c.cpp and the Python methods call these   *)
(* one for one.                                                            *)
(***************************************************************************)
EXTENDS EduPci

CONSTANT Owner      \* the thread that has the object

ASSUME ClientAssumption == Owner \in Thread

VARIABLES
    mode,       \* how completions are taken
    client      \* the object: where its owner is, sq_tail_ (below RING_MASK), whether
                \* the rings are mapped, and the command it is at

clientVars == <<mode, client>>
allVars    == <<vars, clientVars>>

ClientInit ==
    /\ Init
    /\ mode \in {"wait", "event"}
    /\ client = [at |-> "none", tail |-> 0, mapped |-> FALSE, req |-> ZeroSq]

At(s)   == client.at = s
Goto(s) == client' = [client EXCEPT !.at = s]

\* A new object has sq_tail_ = 0; the one before, if any, is gone with its mapping.
Construct ==
    /\ At("none") \/ At("ready")
    /\ Open(Owner)
    /\ client' = [at |-> "opened", tail |-> 0, mapped |-> FALSE, req |-> ZeroSq]

RegisterEventfd ==
    /\ At("opened")
    /\ \E fd \in Eventfd : SetEventfd(Owner, fd)
    /\ Goto("ready")

MapRings ==
    /\ mode = "wait" /\ At("ready") /\ ~client.mapped
    /\ client' = [client EXCEPT !.mapped = TRUE]
    /\ UNCHANGED vars

UnmapRings ==
    /\ At("ready") /\ client.mapped
    /\ client' = [client EXCEPT !.mapped = FALSE]
    /\ UNCHANGED vars

SubmitIoctl ==
    /\ At("ready")
    /\ \E req \in CallerReq :
          /\ Submit(Owner, req)
          /\ client' = [client EXCEPT !.at = "submitting", !.req = req]

\* submit_zc writes the slot of the shadow tail and then makes the same ioctl.
WriteSlot ==
    /\ At("ready") /\ client.mapped /\ MayStart(Owner, "submit")
    /\ \E req \in CallerReq :
          /\ track[req.tag].state = "free"
          /\ SlabWrite([sq EXCEPT ![client.tail] = req])
          /\ client' = [client EXCEPT !.at = "written", !.req = req]
    /\ UNCHANGED <<callVars, legacyVars, inject_fault, eventVars, isr, dev, track>>

SubmitWritten ==
    /\ At("written")
    /\ Submit(Owner, client.req)
    /\ Goto("submitting")

\* Deviation: sq_tail_ is not advanced.
TailKept(req) == client.tail

\* sq_tail_ follows an accepted submission, and not one that threw.
TailAfter(req) ==
    IF req.opcode \in {EDU_OP_FACTORIAL, EDU_OP_DMA_TEST} THEN ring_next(client.tail)
    ELSE client.tail

\* The ioctl starts the device and returns.
SubmitReturns ==
    /\ At("submitting")
    /\ RingKick(Owner)
    /\ client' = IF mode = "wait"
                 THEN [client EXCEPT !.at = "submitted", !.tail = TailAfter(client.req)]
                 ELSE [client EXCEPT !.at = "ready", !.tail = TailAfter(client.req),
                                     !.req = ZeroSq]

\* wait_completion, also with nothing outstanding.
StartWait ==
    /\ mode = "wait" /\ (At("submitted") \/ At("ready"))
    /\ Goto("waiting")
    /\ UNCHANGED vars

WaitReturns ==
    /\ At("waiting")
    /\ Poll(Owner)
    /\ client' = [client EXCEPT !.at = "ready", !.req = ZeroSq]

\* Deviation: the limit is far too short (milliseconds taken for microseconds).
LimitTooShort == cq_head = cq_tail

\* The loop has run to its limit.  With a device that answers well within it, that
\* is when no interrupt can still come and the last poll has found nothing.
LimitReached == SlowDevice \/ (~InterruptComing /\ cq_head = cq_tail)

\* It returns nothing, and its caller goes on.
WaitGivesUp ==
    /\ At("waiting") /\ LimitReached
    /\ client' = [client EXCEPT !.at = "ready", !.req = ZeroSq]
    /\ UNCHANGED vars

OwnerStep ==
    \/ Construct \/ RegisterEventfd \/ MapRings \/ UnmapRings
    \/ SubmitIoctl \/ WriteSlot \/ SubmitWritten \/ SubmitReturns
    \/ StartWait \/ WaitReturns \/ WaitGivesUp

EventStep(t) == mode = "event" /\ (Poll(t) \/ WaitEventfd(t) \/ Drain(t))

ClientNext ==
    \/ OwnerStep /\ UNCHANGED mode
    \/ (\E t \in Thread \ {Owner} : EventStep(t)) /\ UNCHANGED clientVars
    \/ (IsrStep \/ DeviceStep) /\ UNCHANGED clientVars

\* A call that has begun runs on; a program that has submitted waits for its answer;
\* and the fairness of the driver, its device and the threads that sleep.
ClientFairness ==
    /\ \A t \in Thread \ {Owner} : WF_allVars(WaitEventfd(t) /\ UNCHANGED clientVars)
                                   /\ WF_allVars(Drain(t) /\ UNCHANGED clientVars)
    /\ WF_allVars(SubmitReturns /\ UNCHANGED mode)
    /\ WF_allVars(At("submitted") /\ StartWait /\ UNCHANGED mode)
    /\ WF_allVars((WaitReturns \/ WaitGivesUp) /\ UNCHANGED mode)
    /\ WF_allVars(IsrStep /\ UNCHANGED clientVars)
    /\ WF_allVars(FactDone /\ UNCHANGED clientVars)
    /\ WF_allVars(DmaDone /\ UNCHANGED clientVars)

ClientSpec == ClientInit /\ [][ClientNext]_allVars /\ ClientFairness

-----------------------------------------------------------------------------
\* wait_completion returns the completion of the command submitted before it, with
\* its tag and its result, and nothing only when there was no command
\* (test_edu_device.py:181-187, 203-205, 208-215).
WaitGetsOwn ==
    [][/\ WaitReturns => /\ client.req # ZeroSq
                         /\ PolledEntry.tag = client.req.tag
                         /\ PolledEntry.result = Expected(client.req)
       /\ WaitGivesUp => client.req = ZeroSq]_allVars

\* What submit_zc has written through the mapping is the entry the ioctl takes: the
\* shadow tail is the driver's, over every open, post and poll, and the write of a
\* DMA that ends in between does not undo it (demo.cpp:93).
ZeroCopyInPlace == [][SubmitWritten => sq' = sq]_allVars

\* Waiting for each answer is all it takes to have one command at a time and a ring
\* that never refuses one: the discipline the other properties assume of a client is
\* kept by the loop of wait_completion alone.
OwnerIsQuiet ==
    (mode = "wait" /\ client.at \in {"ready", "written"}) =>
        Quiet /\ ~ring_full(sq_tail, cq_head)

\* No accepted command is stranded (edu_ring_submit, edu_irq_handler): once its ioctl
\* is through, a device unit works for it, or it has raised an interrupt whose handler
\* has yet to look at the ring, or its completion is there to be polled.
NoneStranded ==
    \A tag \in CallerTag :
        /\ track[tag].state = "running" =>
              (\E t \in Thread : pc[t] = "ring_kick") \/ tag \in {dev.factFor, dev.dmaFor}
        /\ track[tag].state = "done" =>
              dev.irq # {} \/ isr.pc = "ring" \/ cq_head # cq_tail

\* It moves forward only, and whatever the kick, the device and the handler do they do
\* for it: each of these steps brings it nearer to its completion, so that no interrupt is
\* taken twice and none is left over from a command before (edu_irq_handler).
ToComplete(tag) ==
    IF track[tag].state = "running" THEN IF pc[Owner] = "ring_kick" THEN 4 ELSE 3
    ELSE IF dev.irq # {} THEN 2
    ELSE IF isr.pc = "ring" THEN 1
    ELSE 0

UnderWay(tag) == track[tag].state \in {"running", "done"}

CommandsAdvance ==
    [][\A tag \in CallerTag : UnderWay(tag) /\ UnderWay(tag)' =>
          /\ ToComplete(tag)' <= ToComplete(tag)
          /\ SubmitReturns \/ DeviceStep \/ IsrEnter \/ IsrPost =>
                ToComplete(tag)' < ToComplete(tag)]_allVars

\* No completion is slept through (edu_irq_handler, EDU_IOC_SET_EVENTFD): while there is
\* one, a thread is taking completions, or the registered eventfd reads as ready, or the
\* handler is about to signal it.
SleepersAreWoken ==
    cq_head # cq_tail =>
        \/ \E t \in Thread : pc[t] = "drain"
        \/ evt_ctx # {} /\ evt_ctx \subseteq signalled
        \/ isr.pc = "signal" /\ isr.pending

\* The object, with all that is under it, is a service that answers each command once
\* with its tag, status 0 and its result; what a poll returns is the answer.
Outstanding ==
    {track[tag].req : tag \in {c \in CallerTag : UnderWay(c)}}

ReplyTo == [req \in CallerReq |-> [tag |-> req.tag, status |-> 0, result |-> Expected(req)]]

Service == INSTANCE CommandService
           WITH Request <- CallerReq, Reply <- ReplyTo, outstanding <- Outstanding

AnsweredOnce ==
    /\ Service!ServiceSpec
    /\ [][PollCq => Service!Answer(PolledEntry)]_allVars
=============================================================================
