------------------------------ MODULE EduStats ------------------------------
(***************************************************************************)
(* The counters of edu_pci.c that debugfs shows, over the rings of EduRing:*)
(* each is incremented where the code increments it, the ones of the       *)
(* interrupt handler at three different moments, and a write of the stats  *)
(* file sets them to 0 one after the other, without a lock, while          *)
(* everything else goes on.                                                *)
(*                                                                         *)
(* Interrupts come at any time, for ring commands or for blocking calls.   *)
(* dma_errors and factorial_ops, which count calls that do not touch the   *)
(* rings, are left out, and so are the writes of SQ entries through the    *)
(* mapping, which change no index; the read of the file only reads.        *)
(***************************************************************************)
EXTENDS EduRing, Sequences

CONSTANTS
    Writer,     \* processes that write the stats file
    MaxCount    \* bound on every counter (64 bits in the driver)

ASSUME StatsAssumption == MaxCount \in Nat

VARIABLES
    count,      \* the counters
    isr,        \* the interrupt handler: pc, and its ring_pending
    registered, \* an eventfd is registered
    reset       \* how many counters each writer has set to 0, 0 between writes

statVars  == <<count, isr, registered, reset>>
statsVars == <<ringVars, statVars>>

\* Deviation: what is derived is reset before what it is derived from.
ResetOrderBackwards ==
    <<"eventfd_signals", "cq_consumed", "cq_posted", "sq_submitted", "irq_total">>

\* The order in which edu_dbgfs_stats_write resets them.
ResetOrder == <<"irq_total", "sq_submitted", "cq_posted", "cq_consumed", "eventfd_signals">>
Counter    == {"irq_total", "sq_submitted", "cq_posted", "cq_consumed", "eventfd_signals"}

StatsInit ==
    /\ RingInit
    /\ count = [c \in Counter |-> 0]
    /\ isr = [pc |-> "idle", pending |-> FALSE]
    /\ registered = FALSE
    /\ reset = [w \in Writer |-> 0]

Inc(c) == count[c] < MaxCount /\ count' = [count EXCEPT ![c] = @ + 1]

\* edu_ring_submit and edu_poll_cq count inside ring_lock; edu_open counts nothing.
StatSubmit ==
    /\ \E req \in SqEntry : SubmitLocked(req)
    /\ Inc("sq_submitted")
    /\ UNCHANGED <<isr, registered, reset>>

StatPoll ==
    /\ PollCq
    /\ Inc("cq_consumed")
    /\ UNCHANGED <<isr, registered, reset>>

StatOpen == ResetRing /\ UNCHANGED statVars

SetEventfd ==
    /\ registered' = TRUE
    /\ UNCHANGED <<ringVars, count, isr, reset>>

\* The handler counts the interrupt, then what it posts, inside ring_lock, then the
\* signal.
StatIsrEnter ==
    /\ isr.pc = "idle"
    /\ Inc("irq_total")
    /\ isr' = [isr EXCEPT !.pc = "ring"]
    /\ UNCHANGED <<ringVars, registered, reset>>

StatIsrPost ==
    /\ isr.pc = "ring"
    /\ isr' = [pc |-> "signal", pending |-> InflightSlots # {}]
    /\ IF InflightSlots = {} THEN UNCHANGED <<ringVars, count>>
       ELSE (\E fact \in Result : PostCompletion(fact)) /\ Inc("cq_posted")
    /\ UNCHANGED <<registered, reset>>

\* Deviation: the signal is counted once per interrupt.
SignalledAlways == TRUE

Signalled == isr.pending /\ registered

StatIsrSignal ==
    /\ isr.pc = "signal"
    /\ isr' = [pc |-> "idle", pending |-> FALSE]
    /\ IF Signalled THEN Inc("eventfd_signals") ELSE UNCHANGED count
    /\ UNCHANGED <<ringVars, registered, reset>>

\* One atomic64_set of edu_dbgfs_stats_write.
ResetStep(w) ==
    /\ count' = [count EXCEPT ![ResetOrder[reset[w] + 1]] = 0]
    /\ reset' = [reset EXCEPT ![w] = (@ + 1) % Len(ResetOrder)]
    /\ UNCHANGED <<ringVars, isr, registered>>

StatsNext ==
    \/ StatSubmit \/ StatPoll \/ StatOpen \/ SetEventfd
    \/ StatIsrEnter \/ StatIsrPost \/ StatIsrSignal
    \/ \E w \in Writer : ResetStep(w)

StatsSpec == StatsInit /\ [][StatsNext]_statsVars

-----------------------------------------------------------------------------
NoReset == \A w \in Writer : reset[w] = 0

\* However often the counters were reset, and however many resets ran at once with
\* submissions, interrupts and polls: between resets what was posted or is in flight
\* exceeds what was submitted, and what was consumed or is ready what was posted, by
\* no more than the ring can have held when they were reset
\* (edu_dbgfs_stats_write resets in the order in which a command is counted).
RingCountersAgree ==
    NoReset =>
        /\ count.cq_posted + Cardinality(InflightSlots) <= count.sq_submitted + RING_SIZE - 1
        /\ count.cq_consumed + Ready <= count.cq_posted + RING_SIZE - 1

\* And they exceed the interrupts, and the signals the completions, by at most the
\* one whose handler was under way.
IrqCountersAgree ==
    NoReset =>
        /\ count.cq_posted <= count.irq_total + 1
        /\ count.eventfd_signals <= count.cq_posted + 1
=============================================================================
