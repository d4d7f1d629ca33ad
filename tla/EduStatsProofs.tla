--------------------------- MODULE EduStatsProofs ---------------------------
(***************************************************************************)
(* The counters of edu_pci.c, for every ring size, every bound on the      *)
(* counters and any number of processes that write the stats file.         *)
(***************************************************************************)
EXTENDS EduStats, EduRingProofs

\* Every step of the counters takes at most one critical section of the rings.
LEMMA StatsStepRefines == [StatsNext]_statsVars => [RingNext]_ringVars
<1> SUFFICES ASSUME [StatsNext]_statsVars PROVE [RingNext]_ringVars
  OBVIOUS
<1>1. CASE StatSubmit
  BY <1>1 DEF StatSubmit, RingNext
<1>2. CASE StatPoll
  BY <1>2 DEF StatPoll, RingNext
<1>3. CASE StatOpen
  BY <1>3 DEF StatOpen, RingNext
<1>4. CASE StatIsrPost
  BY <1>4 DEF StatIsrPost, RingNext
<1>5. CASE UNCHANGED ringVars
  BY <1>5
<1> QED
  BY <1>1, <1>2, <1>3, <1>4, <1>5
     DEF StatsNext, SetEventfd, StatIsrEnter, StatIsrSignal, ResetStep, statsVars

\* The rings under the counters are the rings of EduRing: what is proved of these
\* holds while the counters are read, incremented and reset.
THEOREM StatsImplementRing == StatsSpec => RingSpec
<1>1. StatsInit => RingInit
  BY DEF StatsInit
<1> QED
  BY <1>1, StatsStepRefines, PTL DEF StatsSpec, RingSpec

-----------------------------------------------------------------------------
(* The invariant: each inequality of RingCountersAgree and IrqCountersAgree *)
(* holds unless a reset is between the two counters it compares, the        *)
(* handler's unfinished business counted in.                                *)

StatsTypeOK ==
    /\ count \in [Counter -> Nat]
    /\ isr \in [pc : {"idle", "ring", "signal"}, pending : BOOLEAN]
    /\ registered \in BOOLEAN
    /\ reset \in [Writer -> 0 .. 4]

\* No reset has set so many counters and no more.
NoneAt(ks) == \A w \in Writer : reset[w] \notin ks

\* The interrupt is counted and its completion is not; the completion is counted
\* and its signal is not.
ToPost   == IF isr.pc = "ring" THEN 1 ELSE 0
ToSignal == IF isr.pc = "signal" /\ isr.pending THEN 1 ELSE 0

PostedWithinSubmitted ==
    NoneAt({2}) =>
        count.cq_posted + Cardinality(InflightSlots) <= count.sq_submitted + RING_SIZE - 1
ConsumedWithinPosted ==
    NoneAt({3}) => count.cq_consumed + Ready <= count.cq_posted + RING_SIZE - 1
PostedWithinIrqs ==
    NoneAt({1, 2}) => count.cq_posted + ToPost <= count.irq_total + 1
SignalsWithinPosted ==
    NoneAt({3, 4}) => count.eventfd_signals + ToSignal <= count.cq_posted + 1

StatsInv ==
    /\ RingInv
    /\ StatsTypeOK
    /\ PostedWithinSubmitted
    /\ ConsumedWithinPosted
    /\ PostedWithinIrqs
    /\ SignalsWithinPosted

\* The counter that the k-th step of a reset sets, and where it leaves the writer.
LEMMA ResetStepCases ==
    ASSUME StatsTypeOK, NEW w \in Writer, ResetStep(w)
    PROVE  \/ /\ reset[w] = 0 /\ reset' = [reset EXCEPT ![w] = 1]
              /\ count' = [count EXCEPT !.irq_total = 0]
           \/ /\ reset[w] = 1 /\ reset' = [reset EXCEPT ![w] = 2]
              /\ count' = [count EXCEPT !.sq_submitted = 0]
           \/ /\ reset[w] = 2 /\ reset' = [reset EXCEPT ![w] = 3]
              /\ count' = [count EXCEPT !.cq_posted = 0]
           \/ /\ reset[w] = 3 /\ reset' = [reset EXCEPT ![w] = 4]
              /\ count' = [count EXCEPT !.cq_consumed = 0]
           \/ /\ reset[w] = 4 /\ reset' = [reset EXCEPT ![w] = 0]
              /\ count' = [count EXCEPT !.eventfd_signals = 0]
<1>1. Len(ResetOrder) = 5
  BY DEF ResetOrder
<1>2. /\ ResetOrder[1] = "irq_total" /\ ResetOrder[2] = "sq_submitted"
      /\ ResetOrder[3] = "cq_posted" /\ ResetOrder[4] = "cq_consumed"
      /\ ResetOrder[5] = "eventfd_signals"
  BY DEF ResetOrder
<1>3. /\ count' = [count EXCEPT ![ResetOrder[reset[w] + 1]] = 0]
      /\ reset' = [reset EXCEPT ![w] = (reset[w] + 1) % 5]
  BY <1>1 DEF ResetStep
<1>4. reset[w] \in 0 .. 4
  BY DEF StatsTypeOK
<1>a. CASE reset[w] = 0
  <2>1. ResetOrder[reset[w] + 1] = "irq_total" /\ (reset[w] + 1) % 5 = 1
    BY <1>a, <1>2
  <2> QED
    BY <1>a, <1>3, <2>1, Zenon
<1>b. CASE reset[w] = 1
  <2>1. ResetOrder[reset[w] + 1] = "sq_submitted" /\ (reset[w] + 1) % 5 = 2
    BY <1>b, <1>2
  <2> QED
    BY <1>b, <1>3, <2>1, Zenon
<1>c. CASE reset[w] = 2
  <2>1. ResetOrder[reset[w] + 1] = "cq_posted" /\ (reset[w] + 1) % 5 = 3
    BY <1>c, <1>2
  <2> QED
    BY <1>c, <1>3, <2>1, Zenon
<1>d. CASE reset[w] = 3
  <2>1. ResetOrder[reset[w] + 1] = "cq_consumed" /\ (reset[w] + 1) % 5 = 4
    BY <1>d, <1>2
  <2> QED
    BY <1>d, <1>3, <2>1, Zenon
<1>e. CASE reset[w] = 4
  <2>1. ResetOrder[reset[w] + 1] = "eventfd_signals" /\ (reset[w] + 1) % 5 = 0
    BY <1>e, <1>2
  <2> QED
    BY <1>e, <1>3, <2>1, Zenon
<1> QED
  BY <1>4, <1>a, <1>b, <1>c, <1>d, <1>e

\* Used, Ready and the slots in flight are at most RING_SIZE - 1.
LEMMA RingBounds ==
    ASSUME RingInv
    PROVE  /\ Ready \in 0 .. RING_SIZE - 1
           /\ Cardinality(InflightSlots) \in 0 .. RING_SIZE - 1
<1>1. Used \in 0 .. RING_SIZE - 1 /\ Ready \in 0 .. RING_SIZE - 1
  BY UsedReadyDistance, DistanceValue DEF RingInv, RingTypeOK
<1> QED
  BY <1>1, InflightFinite, RingAssumption DEF RingInv, InflightWithinUsed

\* A freshly probed driver has counted nothing and has nothing in flight.
LEMMA StatsInvInit == StatsInit => StatsInv
<1> SUFFICES ASSUME StatsInit PROVE StatsInv
  OBVIOUS
<1>1. RingInv
  BY RingInvInit DEF StatsInit
<1>2. Ready \in 0 .. RING_SIZE - 1 /\ Cardinality(InflightSlots) \in 0 .. RING_SIZE - 1
  BY <1>1, RingBounds
<1>3. StatsTypeOK
  <2>1. count \in [Counter -> Nat]
    BY DEF StatsInit
  <2>2. reset \in [Writer -> 0 .. 4]
    BY DEF StatsInit
  <2>3. isr \in [pc : {"idle", "ring", "signal"}, pending : BOOLEAN]
    BY DEF StatsInit
  <2> QED
    BY <2>1, <2>2, <2>3 DEF StatsInit, StatsTypeOK
<1>4. /\ count.cq_posted = 0 /\ count.sq_submitted = 0 /\ count.cq_consumed = 0
      /\ count.irq_total = 0 /\ count.eventfd_signals = 0 /\ ToPost = 0 /\ ToSignal = 0
  BY DEF StatsInit, Counter, ToPost, ToSignal
<1> QED
  BY <1>1, <1>2, <1>3, <1>4, RingAssumption
     DEF StatsInv, PostedWithinSubmitted, ConsumedWithinPosted, PostedWithinIrqs,
         SignalsWithinPosted

\* Counters only count and return to 0, and a reset is always at one of its steps.
LEMMA StatsTypeStep == StatsTypeOK /\ [StatsNext]_statsVars => StatsTypeOK'
<1> SUFFICES ASSUME StatsTypeOK, [StatsNext]_statsVars PROVE StatsTypeOK'
  OBVIOUS
<1>1. ASSUME NEW c \in Counter, Inc(c), UNCHANGED <<registered, reset>>,
             isr' \in [pc : {"idle", "ring", "signal"}, pending : BOOLEAN]
      PROVE  StatsTypeOK'
  BY <1>1 DEF StatsTypeOK, Inc
<1>2. ASSUME UNCHANGED <<count, reset>>, registered' \in BOOLEAN,
             isr' \in [pc : {"idle", "ring", "signal"}, pending : BOOLEAN]
      PROVE  StatsTypeOK'
  BY <1>2 DEF StatsTypeOK
<1>3. StatSubmit \/ StatPoll => StatsTypeOK'
  BY <1>1 DEF StatSubmit, StatPoll, Counter, StatsTypeOK
<1>4. StatOpen \/ SetEventfd \/ UNCHANGED statVars => StatsTypeOK'
  BY <1>2 DEF StatOpen, SetEventfd, statVars, StatsTypeOK
<1>5. StatIsrEnter => StatsTypeOK'
  BY <1>1 DEF StatIsrEnter, Counter, StatsTypeOK
<1>6. StatIsrPost => StatsTypeOK'
  BY <1>1, <1>2 DEF StatIsrPost, Counter, StatsTypeOK
<1>7. StatIsrSignal => StatsTypeOK'
  BY <1>1, <1>2 DEF StatIsrSignal, Counter, StatsTypeOK
<1>8. ASSUME NEW w \in Writer, ResetStep(w) PROVE StatsTypeOK'
  <2>1. isr' = isr /\ registered' = registered
    BY <1>8 DEF ResetStep
  <2> QED
    BY <1>8, <2>1, ResetStepCases DEF StatsTypeOK, Counter
<1> QED
  BY <1>3, <1>4, <1>5, <1>6, <1>7, <1>8 DEF StatsNext, statsVars

\* The two counts of the handler's unfinished business.
LEMMA UnfinishedTypes == ToPost \in {0, 1} /\ ToSignal \in {0, 1}
  BY DEF ToPost, ToSignal

\* A reset may set any counter at any moment: the inequalities that compare it with
\* one not yet set are suspended, and the last one set restores them.
LEMMA ResetKeeps ==
    ASSUME StatsInv, NEW w \in Writer, ResetStep(w)
    PROVE  /\ PostedWithinSubmitted' /\ ConsumedWithinPosted'
           /\ PostedWithinIrqs' /\ SignalsWithinPosted'
<1>0. StatsTypeOK /\ RingInv
  BY DEF StatsInv
<1>1. /\ Ready \in 0 .. RING_SIZE - 1 /\ Cardinality(InflightSlots) \in 0 .. RING_SIZE - 1
      /\ ToPost \in {0, 1} /\ ToSignal \in {0, 1}
  BY <1>0, RingBounds, UnfinishedTypes
<1>2. /\ Ready' = Ready /\ InflightSlots' = InflightSlots
      /\ ToPost' = ToPost /\ ToSignal' = ToSignal
  BY DEF ResetStep, ringVars, Ready, InflightSlots, ToPost, ToSignal
<1>3. \A c \in Counter : count[c] \in Nat
  BY <1>0 DEF StatsTypeOK
<1>4. /\ count.cq_posted \in Nat /\ count.sq_submitted \in Nat /\ count.cq_consumed \in Nat
      /\ count.irq_total \in Nat /\ count.eventfd_signals \in Nat
  BY <1>3 DEF Counter
<1> USE RingAssumption DEF PostedWithinSubmitted, ConsumedWithinPosted, PostedWithinIrqs,
                           SignalsWithinPosted
<1>a. ASSUME reset[w] = 0, reset' = [reset EXCEPT ![w] = 1],
             count' = [count EXCEPT !.irq_total = 0]
      PROVE  /\ PostedWithinSubmitted' /\ ConsumedWithinPosted'
             /\ PostedWithinIrqs' /\ SignalsWithinPosted'
  <2>1. /\ NoneAt({2})' => NoneAt({2})
        /\ NoneAt({3})' => NoneAt({3})
        /\ NoneAt({3, 4})' => NoneAt({3, 4})
    BY <1>0, <1>a DEF NoneAt, StatsTypeOK
  <2>2. /\ count'.cq_posted = count.cq_posted /\ count'.sq_submitted = count.sq_submitted
        /\ count'.cq_consumed = count.cq_consumed
        /\ count'.eventfd_signals = count.eventfd_signals
    BY <1>a
  <2>3. ~NoneAt({1, 2})'
    BY <1>0, <1>a DEF NoneAt, StatsTypeOK
  <2> QED
    BY <1>1, <1>2, <1>4, <2>1, <2>2, <2>3 DEF StatsInv
<1>b. ASSUME reset[w] = 1, reset' = [reset EXCEPT ![w] = 2],
             count' = [count EXCEPT !.sq_submitted = 0]
      PROVE  /\ PostedWithinSubmitted' /\ ConsumedWithinPosted'
             /\ PostedWithinIrqs' /\ SignalsWithinPosted'
  <2>1. /\ NoneAt({3})' => NoneAt({3})
        /\ NoneAt({3, 4})' => NoneAt({3, 4})
    BY <1>0, <1>b DEF NoneAt, StatsTypeOK
  <2>2. ~NoneAt({1, 2})' /\ ~NoneAt({2})'
    BY <1>0, <1>b DEF NoneAt, StatsTypeOK
  <2>3. /\ count'.cq_posted = count.cq_posted /\ count'.cq_consumed = count.cq_consumed
        /\ count'.irq_total = count.irq_total
        /\ count'.eventfd_signals = count.eventfd_signals
    BY <1>b
  <2> QED
    BY <1>1, <1>2, <1>4, <2>1, <2>2, <2>3 DEF StatsInv
<1>c. ASSUME reset[w] = 2, reset' = [reset EXCEPT ![w] = 3],
             count' = [count EXCEPT !.cq_posted = 0]
      PROVE  /\ PostedWithinSubmitted' /\ ConsumedWithinPosted'
             /\ PostedWithinIrqs' /\ SignalsWithinPosted'
  <2>1. ~NoneAt({3})' /\ ~NoneAt({3, 4})'
    BY <1>0, <1>c DEF NoneAt, StatsTypeOK
  <2>2. /\ count'.cq_posted = 0 /\ count'.sq_submitted = count.sq_submitted
        /\ count'.irq_total = count.irq_total
    BY <1>0, <1>c DEF StatsTypeOK, Counter
  <2> QED
    BY <1>1, <1>2, <1>4, <2>1, <2>2
<1>d. ASSUME reset[w] = 3, reset' = [reset EXCEPT ![w] = 4],
             count' = [count EXCEPT !.cq_consumed = 0]
      PROVE  /\ PostedWithinSubmitted' /\ ConsumedWithinPosted'
             /\ PostedWithinIrqs' /\ SignalsWithinPosted'
  <2>1. /\ NoneAt({2})' => NoneAt({2})
        /\ NoneAt({1, 2})' => NoneAt({1, 2})
    BY <1>0, <1>d DEF NoneAt, StatsTypeOK
  <2>2. ~NoneAt({3, 4})'
    BY <1>0, <1>d DEF NoneAt, StatsTypeOK
  <2>3. /\ count'.cq_posted = count.cq_posted /\ count'.sq_submitted = count.sq_submitted
        /\ count'.cq_consumed = 0 /\ count'.irq_total = count.irq_total
    BY <1>0, <1>d DEF StatsTypeOK, Counter
  <2> QED
    BY <1>1, <1>2, <1>4, <2>1, <2>2, <2>3 DEF StatsInv
<1>e. ASSUME reset[w] = 4, reset' = [reset EXCEPT ![w] = 0],
             count' = [count EXCEPT !.eventfd_signals = 0]
      PROVE  /\ PostedWithinSubmitted' /\ ConsumedWithinPosted'
             /\ PostedWithinIrqs' /\ SignalsWithinPosted'
  <2>1. /\ NoneAt({2})' => NoneAt({2})
        /\ NoneAt({3})' => NoneAt({3})
        /\ NoneAt({1, 2})' => NoneAt({1, 2})
    BY <1>0, <1>e DEF NoneAt, StatsTypeOK
  <2>2. /\ count'.cq_posted = count.cq_posted /\ count'.sq_submitted = count.sq_submitted
        /\ count'.cq_consumed = count.cq_consumed /\ count'.irq_total = count.irq_total
        /\ count'.eventfd_signals = 0
    BY <1>0, <1>e DEF StatsTypeOK, Counter
  <2> QED
    BY <1>1, <1>2, <1>4, <2>1, <2>2 DEF StatsInv
<1> QED
  BY <1>0, <1>a, <1>b, <1>c, <1>d, <1>e, ResetStepCases

\* A submission adds at most one slot to those in flight.
LEMMA SubmitTakesOne ==
    ASSUME RingTypeOK, NEW req \in SqEntry, SubmitLocked(req)
    PROVE  Cardinality(InflightSlots') <= Cardinality(InflightSlots) + 1
<1>1. InflightSlots' \in SUBSET (InflightSlots \cup {sq_tail})
  BY DEF SubmitLocked, RingTypeOK, InflightSlots
<1>2. /\ IsFiniteSet(InflightSlots \cup {sq_tail})
      /\ \/ Cardinality(InflightSlots \cup {sq_tail}) = Cardinality(InflightSlots)
         \/ Cardinality(InflightSlots \cup {sq_tail}) = Cardinality(InflightSlots) + 1
  BY InflightFinite, FS_AddElement, Zenon
<1>3. Cardinality(InflightSlots') <= Cardinality(InflightSlots \cup {sq_tail})
  BY <1>1, <1>2, FS_Subset
<1> QED
  BY <1>2, <1>3, InflightFinite

\* A poll takes one from the completions that are ready, a post adds one.
LEMMA ReadyAfter ==
    ASSUME RingInv
    PROVE  /\ PollCq => Ready' = Ready - 1
           /\ (\E fact \in Result : PostCompletion(fact)) => Ready' = Ready + 1
<1>1. Ready' = Distance(cq_tail', cq_head')
  BY DEF Ready, Distance
<1>2. PollCq => Ready' = Ready - 1
  BY <1>1, UsedReadyDistance, DistanceShrinks DEF PollCq, RingInv, RingTypeOK
<1>3. (\E fact \in Result : PostCompletion(fact)) => Ready' = Ready + 1
  BY <1>1, UsedReadyDistance, RoomToPost, DistanceGrows DEF PostCompletion, RingInv, RingTypeOK
<1> QED
  BY <1>2, <1>3

\* Between the steps of a reset every step that counts keeps the four inequalities:
\* the handler counts its interrupt before it posts, and its signal after.
LEMMA StatsInvStep == StatsInv /\ [StatsNext]_statsVars => StatsInv'
<1> SUFFICES ASSUME StatsInv, [StatsNext]_statsVars
             PROVE  /\ PostedWithinSubmitted' /\ ConsumedWithinPosted'
                    /\ PostedWithinIrqs' /\ SignalsWithinPosted'
  BY StatsStepRefines, RingInvStep, StatsTypeStep DEF StatsInv
<1> DEFINE n == Cardinality(InflightSlots)
           m == Cardinality(InflightSlots')
<1>0. StatsTypeOK /\ StatsTypeOK' /\ RingInv /\ RingInv'
  BY StatsStepRefines, RingInvStep, StatsTypeStep DEF StatsInv
<1>1. /\ count \in [Counter -> Nat]
      /\ count.cq_posted \in Nat /\ count.sq_submitted \in Nat /\ count.cq_consumed \in Nat
      /\ count.irq_total \in Nat /\ count.eventfd_signals \in Nat
  BY <1>0 DEF StatsTypeOK, Counter
<1>2. n \in Nat /\ m \in Nat
  BY InflightFinite
<1>3. Ready \in 0 .. RING_SIZE - 1
  BY <1>0, RingBounds
<1>4. /\ PostedWithinSubmitted /\ ConsumedWithinPosted
      /\ PostedWithinIrqs /\ SignalsWithinPosted
  BY DEF StatsInv
<1>5. reset' = reset => \A ks : NoneAt(ks)' => NoneAt(ks)
  BY DEF NoneAt
<1>6. ToPost \in {0, 1} /\ ToSignal \in {0, 1}
  BY UnfinishedTypes
<1> HIDE DEF n, m
<1> USE RingAssumption DEF PostedWithinSubmitted, ConsumedWithinPosted, PostedWithinIrqs,
                           SignalsWithinPosted
<1>a. CASE StatSubmit
  <2>1. PICK req \in SqEntry : SubmitLocked(req)
    BY <1>a DEF StatSubmit
  <2>2. m <= n + 1
    BY <1>0, <2>1, SubmitTakesOne DEF RingInv, n, m
  <2>3. Ready' = Ready
    BY <2>1 DEF SubmitLocked, Ready
  <2>4. /\ count' = [count EXCEPT !.sq_submitted = count.sq_submitted + 1]
        /\ reset' = reset /\ ToPost' = ToPost /\ ToSignal' = ToSignal
    BY <1>a DEF StatSubmit, Inc, ToPost, ToSignal
  <2> QED
    BY <1>1, <1>2, <1>3, <1>4, <1>5, <1>6, <2>2, <2>3, <2>4 DEF Counter, n, m
<1>b. CASE StatPoll
  <2>1. Ready' = Ready - 1 /\ m = n
    BY <1>b, <1>0, ReadyAfter DEF StatPoll, PollCq, InflightSlots, n, m
  <2>2. /\ count' = [count EXCEPT !.cq_consumed = count.cq_consumed + 1]
        /\ reset' = reset /\ ToPost' = ToPost /\ ToSignal' = ToSignal
    BY <1>b DEF StatPoll, Inc, ToPost, ToSignal
  <2> QED
    BY <1>1, <1>2, <1>3, <1>4, <1>5, <1>6, <2>1, <2>2 DEF Counter, n, m
<1>c. CASE StatOpen
  <2>1. InflightSlots' = {} /\ Ready' = 0
    BY <1>c DEF StatOpen, ResetRing, InflightSlots, Ready
  <2>2. m = 0
    BY <2>1, FS_EmptySet DEF m
  <2>3. /\ count' = count /\ reset' = reset /\ ToPost' = ToPost /\ ToSignal' = ToSignal
    BY <1>c DEF StatOpen, statVars, ToPost, ToSignal
  <2> QED
    BY <1>1, <1>2, <1>3, <1>4, <1>5, <1>6, <2>1, <2>2, <2>3 DEF n, m
<1>d. CASE SetEventfd \/ UNCHANGED statsVars
  <2>1. /\ Ready' = Ready /\ InflightSlots' = InflightSlots /\ count' = count
        /\ reset' = reset /\ ToPost' = ToPost /\ ToSignal' = ToSignal
    BY <1>d DEF SetEventfd, statsVars, statVars, ringVars, Ready, InflightSlots, ToPost, ToSignal
  <2> QED
    BY <1>4, <1>5, <2>1
<1>e. CASE StatIsrEnter
  <2>1. /\ Ready' = Ready /\ InflightSlots' = InflightSlots
        /\ count' = [count EXCEPT !.irq_total = count.irq_total + 1]
        /\ reset' = reset
    BY <1>e DEF StatIsrEnter, Inc, ringVars, Ready, InflightSlots
  <2>2. ToPost = 0 /\ ToPost' = 1 /\ ToSignal = 0 /\ ToSignal' = 0
    BY <1>e, <1>0 DEF StatIsrEnter, StatsTypeOK, ToPost, ToSignal
  <2> QED
    BY <1>1, <1>2, <1>3, <1>4, <1>5, <2>1, <2>2 DEF Counter, n
<1>f. CASE StatIsrPost
  <2>1. ToPost = 1 /\ ToPost' = 0 /\ ToSignal = 0 /\ reset' = reset
    BY <1>f, <1>0 DEF StatIsrPost, StatsTypeOK, ToPost, ToSignal
  <2>2. CASE InflightSlots = {}
    <3>1. Ready' = Ready /\ InflightSlots' = InflightSlots /\ count' = count
      BY <1>f, <2>2 DEF StatIsrPost, ringVars, Ready, InflightSlots
    <3>2. ToSignal' = 0
      BY <1>f, <2>2 DEF StatIsrPost, ToSignal
    <3> QED
      BY <1>1, <1>2, <1>3, <1>4, <1>5, <2>1, <3>1, <3>2 DEF n
  <2>3. CASE InflightSlots # {}
    <3>1. PICK fact \in Result : PostCompletion(fact)
      BY <1>f, <2>3 DEF StatIsrPost
    <3>2. m = n - 1 /\ Ready' = Ready + 1
      BY <3>1, <1>0, PostTakesSlot, ReadyAfter DEF RingInv, n, m
    <3>3. count' = [count EXCEPT !.cq_posted = count.cq_posted + 1]
      BY <1>f, <2>3 DEF StatIsrPost, Inc
    <3>4. ToSignal' \in {0, 1}
      BY DEF ToSignal
    <3> QED
      BY <1>1, <1>2, <1>3, <1>4, <1>5, <2>1, <3>2, <3>3, <3>4 DEF Counter, n, m
  <2> QED
    BY <2>2, <2>3
<1>g. CASE StatIsrSignal
  <2>1. /\ Ready' = Ready /\ InflightSlots' = InflightSlots /\ reset' = reset
        /\ ToPost = 0 /\ ToPost' = 0 /\ ToSignal' = 0
    BY <1>g, <1>0 DEF StatIsrSignal, StatsTypeOK, ringVars, Ready, InflightSlots, ToPost, ToSignal
  <2>2. CASE Signalled
    <3>1. count' = [count EXCEPT !.eventfd_signals = count.eventfd_signals + 1]
      BY <1>g, <2>2 DEF StatIsrSignal, Inc
    <3>2. ToSignal = 1
      BY <1>g, <2>2 DEF StatIsrSignal, Signalled, ToSignal
    <3> QED
      BY <1>1, <1>2, <1>3, <1>4, <1>5, <2>1, <3>1, <3>2 DEF Counter, n
  <2>3. CASE ~Signalled
    <3>1. count' = count
      BY <1>g, <2>3 DEF StatIsrSignal
    <3> QED
      BY <1>1, <1>2, <1>3, <1>4, <1>5, <1>6, <2>1, <3>1 DEF n
  <2> QED
    BY <2>2, <2>3
<1> QED
  BY <1>a, <1>b, <1>c, <1>d, <1>e, <1>f, <1>g, ResetKeeps DEF StatsNext

-----------------------------------------------------------------------------
\* The counters of submissions, completions and polls agree with the rings between
\* resets, whatever resets have run at the same time.
THEOREM StatsRingCountersAgree == StatsSpec => []RingCountersAgree
<1>1. StatsInv => RingCountersAgree
  BY DEF StatsInv, RingCountersAgree, NoReset, NoneAt, PostedWithinSubmitted,
         ConsumedWithinPosted
<1> QED
  BY <1>1, StatsInvInit, StatsInvStep, PTL DEF StatsSpec

\* And the counters of the handler with each other.
THEOREM StatsIrqCountersAgree == StatsSpec => []IrqCountersAgree
<1>1. StatsInv => IrqCountersAgree
  <2>1. ToPost \in {0, 1} /\ ToSignal \in {0, 1}
    BY UnfinishedTypes
  <2>2. StatsTypeOK => /\ count.cq_posted \in Nat /\ count.irq_total \in Nat
                       /\ count.eventfd_signals \in Nat
    BY DEF StatsTypeOK, Counter
  <2> QED
    BY <2>1, <2>2 DEF StatsInv, IrqCountersAgree, NoReset, NoneAt, PostedWithinIrqs,
                      SignalsWithinPosted
<1> QED
  BY <1>1, StatsInvInit, StatsInvStep, PTL DEF StatsSpec
=============================================================================
