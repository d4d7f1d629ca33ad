--------------------------- MODULE EduRingProofs ----------------------------
(***************************************************************************)
(* The rings of edu_pci.c, for every RING_SIZE of at least two (the driver *)
(* needs a power of two only for its masks) and every set of tags, opcodes,*)
(* operands and results.                                                   *)
(***************************************************************************)
EXTENDS EduRing, FiniteSetTheorems, SequenceTheorems, TLAPS

-----------------------------------------------------------------------------
(* Arithmetic of the indices.                                               *)

\* ring_next, without the remainder.
LEMMA NextIndex ==
    ASSUME NEW i \in Slot
    PROVE  ring_next(i) = IF i = RING_SIZE - 1 THEN 0 ELSE i + 1
  BY RingAssumption DEF Slot, ring_next

\* ring_next stays in the ring.
LEMMA NextInRing ==
    ASSUME NEW i \in Slot
    PROVE  ring_next(i) \in Slot
  BY NextIndex, RingAssumption DEF Slot

\* The distance from b to a, going round the ring.
Distance(a, b) == (a - b) % RING_SIZE

\* Distances, without the remainder.
LEMMA DistanceValue ==
    ASSUME NEW a \in Slot, NEW b \in Slot
    PROVE  /\ Distance(a, b) = IF a >= b THEN a - b ELSE a - b + RING_SIZE
           /\ Distance(a, b) \in 0 .. RING_SIZE - 1
  BY RingAssumption DEF Slot, Distance

\* Moving the front index away adds one, until the ring is full.
LEMMA DistanceGrows ==
    ASSUME NEW a \in Slot, NEW b \in Slot, ring_next(a) # b
    PROVE  Distance(ring_next(a), b) = Distance(a, b) + 1
<1>1. ring_next(a) \in Slot
  BY NextInRing
<1>2. ring_next(a) = IF a = RING_SIZE - 1 THEN 0 ELSE a + 1
  BY NextIndex
<1>3. Distance(ring_next(a), b) =
        IF ring_next(a) >= b THEN ring_next(a) - b ELSE ring_next(a) - b + RING_SIZE
  BY <1>1, DistanceValue
<1>4. Distance(a, b) = IF a >= b THEN a - b ELSE a - b + RING_SIZE
  BY DistanceValue
<1> QED
  BY <1>1, <1>2, <1>3, <1>4, RingAssumption DEF Slot

\* Moving the back index towards it takes one away, unless they have met.
LEMMA DistanceShrinks ==
    ASSUME NEW a \in Slot, NEW b \in Slot, a # b
    PROVE  Distance(a, ring_next(b)) = Distance(a, b) - 1
<1>1. ring_next(b) \in Slot
  BY NextInRing
<1>2. ring_next(b) = IF b = RING_SIZE - 1 THEN 0 ELSE b + 1
  BY NextIndex
<1>3. Distance(a, ring_next(b)) =
        IF a >= ring_next(b) THEN a - ring_next(b) ELSE a - ring_next(b) + RING_SIZE
  BY <1>1, DistanceValue
<1>4. Distance(a, b) = IF a >= b THEN a - b ELSE a - b + RING_SIZE
  BY DistanceValue
<1> QED
  BY <1>1, <1>2, <1>3, <1>4, RingAssumption DEF Slot

\* A ring is full when all its slots but one are taken.
LEMMA DistanceFull ==
    ASSUME NEW a \in Slot, NEW b \in Slot
    PROVE  ring_next(a) = b <=> Distance(a, b) = RING_SIZE - 1
<1>1. ring_next(a) = IF a = RING_SIZE - 1 THEN 0 ELSE a + 1
  BY NextIndex
<1>2. Distance(a, b) = IF a >= b THEN a - b ELSE a - b + RING_SIZE
  BY DistanceValue
<1> QED
  BY <1>1, <1>2, RingAssumption DEF Slot

\* The slot at a given distance.
LEMMA SlotAtDistance ==
    ASSUME NEW b \in Slot, NEW k \in 0 .. RING_SIZE - 1
    PROVE  /\ (b + k) % RING_SIZE \in Slot
           /\ (b + k) % RING_SIZE = IF b + k >= RING_SIZE THEN b + k - RING_SIZE ELSE b + k
  BY RingAssumption DEF Slot
-----------------------------------------------------------------------------
(* Type correctness.                                                        *)

\* The rings start well typed.
LEMMA RingTypeInit == RingInit => RingTypeOK
  BY RingAssumption DEF RingInit, RingTypeOK, Slot, SqEntry, CqEntry, ZeroSq, ZeroCq

\* Every critical section and every unlocked write keeps the types: indices stay
\* in the ring, entries are entries, and marks are opcodes.
LEMMA RingTypeStep == RingTypeOK /\ [RingNext]_ringVars => RingTypeOK'
<1> SUFFICES ASSUME RingTypeOK, [RingNext]_ringVars PROVE RingTypeOK'
  OBVIOUS
<1> USE DEF RingTypeOK
<1>1. ASSUME NEW req \in SqEntry, SubmitLocked(req) PROVE RingTypeOK'
  <2>1. ring_next(sq_tail) \in Slot
    BY NextInRing
  <2>2. req.opcode \in Opcode
    BY DEF SqEntry
  <2> QED
    BY <1>1, <2>1, <2>2 DEF SubmitLocked
<1>2. ASSUME NEW fact \in Result, PostCompletion(fact) PROVE RingTypeOK'
  <2>1. PICK i \in InflightSlots :
          /\ cq' = [cq EXCEPT ![cq_tail] = CompletionOf(i, fact)]
          /\ cq_tail' = ring_next(cq_tail)
          /\ inflight' = [inflight EXCEPT ![i] = 0]
          /\ UNCHANGED <<sq, sq_tail, cq_head>>
    BY <1>2 DEF PostCompletion, PostSlot, InflightWithout
  <2>2. ring_next(cq_tail) \in Slot
    BY NextInRing
  <2>3. i \in Slot /\ sq[i].tag \in Tag
    BY DEF InflightSlots, SqEntry
  <2>4. CompletionOf(i, fact) \in CqEntry
    BY <2>3, RingAssumption DEF CqEntry, CompletionOf
  <2> QED
    BY <2>1, <2>2, <2>3, <2>4, RingAssumption
<1>3. CASE PollCq
  BY <1>3, NextInRing DEF PollCq
<1>4. CASE ResetRing
  BY <1>4, RingAssumption DEF ResetRing, Slot
<1>5. ASSUME sq' \in [Slot -> SqEntry], SlabWrite(sq') PROVE RingTypeOK'
  BY <1>5 DEF SlabWrite
<1>6. CASE UNCHANGED ringVars
  BY <1>6 DEF ringVars
<1> QED
  BY <1>1, <1>2, <1>3, <1>4, <1>5, <1>6 DEF RingNext

\* The rings are always well typed.
THEOREM RingTypeCorrect == RingSpec => []RingTypeOK
  BY RingTypeInit, RingTypeStep, PTL DEF RingSpec

-----------------------------------------------------------------------------
(* Completions ready and slots in flight stay within the submissions not    *)
(* yet polled.                                                              *)

\* Used and Ready are distances between the indices of edu_dev.
LEMMA UsedReadyDistance ==
    Used = Distance(sq_tail, cq_head) /\ Ready = Distance(cq_tail, cq_head)
  BY DEF Used, Ready, Distance

\* The slots in flight are finitely many, and counting them gives a natural.
LEMMA InflightFinite ==
    /\ IsFiniteSet(InflightSlots) /\ Cardinality(InflightSlots) \in Nat
    /\ IsFiniteSet(InflightSlots') /\ Cardinality(InflightSlots') \in Nat
<1>1. IsFiniteSet(Slot)
  BY FS_Interval, RingAssumption DEF Slot
<1>2. InflightSlots \in SUBSET Slot /\ InflightSlots' \in SUBSET Slot
  BY DEF InflightSlots
<1> QED
  BY <1>1, <1>2, FS_Subset, FS_CardinalityType

\* A post takes one slot out of flight.
LEMMA PostTakesSlot ==
    ASSUME RingTypeOK, NEW fact, PostCompletion(fact)
    PROVE  Cardinality(InflightSlots') = Cardinality(InflightSlots) - 1
<1>1. PICK i \in InflightSlots : inflight' = [inflight EXCEPT ![i] = 0]
  BY DEF PostCompletion, InflightWithout
<1>2. InflightSlots' = InflightSlots \ {i}
  BY <1>1 DEF RingTypeOK, InflightSlots
<1> QED
  BY <1>1, <1>2, InflightFinite, FS_RemoveElement

RingInv == RingTypeOK /\ InflightWithinUsed

\* While a slot is in flight the completion ring has room for its entry: this is
\* what the handler relies on.
LEMMA RoomToPost ==
    ASSUME RingInv, InflightSlots # {}
    PROVE  Ready < RING_SIZE - 1 /\ ring_next(cq_tail) # cq_head
<1>1. Cardinality(InflightSlots) >= 1
  BY InflightFinite, FS_EmptySet
<1>2. Used \in 0 .. RING_SIZE - 1 /\ Ready \in 0 .. RING_SIZE - 1
  BY UsedReadyDistance, DistanceValue DEF RingInv, RingTypeOK
<1>3. Ready < RING_SIZE - 1
  BY <1>1, <1>2, InflightFinite, RingAssumption DEF RingInv, InflightWithinUsed
<1>4. ring_next(cq_tail) # cq_head
  BY <1>3, UsedReadyDistance, DistanceFull, RingAssumption DEF RingInv, RingTypeOK
<1> QED
  BY <1>3, <1>4

\* After edu_probe nothing is submitted, in flight or ready.
LEMMA RingInvInit == RingInit => RingInv
<1> SUFFICES ASSUME RingInit PROVE RingInv
  OBVIOUS
<1>1. RingTypeOK
  BY RingTypeInit
<1>2. InflightSlots = {}
  BY DEF RingInit, InflightSlots
<1>3. Used = 0 /\ Ready = 0
  BY RingAssumption DEF RingInit, Used, Ready
<1> QED
  BY <1>1, <1>2, <1>3, FS_EmptySet DEF RingInv, InflightWithinUsed

\* No step breaks the inequality: a submission adds to Used at most what it adds
\* to the slots in flight, a post moves one from in flight to ready, a poll
\* takes one from both sides.
LEMMA RingInvStep == RingInv /\ [RingNext]_ringVars => RingInv'
<1> SUFFICES ASSUME RingInv, [RingNext]_ringVars PROVE InflightWithinUsed'
  BY RingTypeStep DEF RingInv
<1> DEFINE n == Cardinality(InflightSlots)
             m == Cardinality(InflightSlots')
<1>1. RingTypeOK /\ RingTypeOK'
  BY RingTypeStep DEF RingInv
<1>2. n \in Nat /\ m \in Nat
  BY InflightFinite
<1>3. /\ Used \in 0 .. RING_SIZE - 1 /\ Ready \in 0 .. RING_SIZE - 1
  BY <1>1, UsedReadyDistance, DistanceValue DEF RingTypeOK
<1>4. Ready + n <= Used
  BY DEF RingInv, InflightWithinUsed
<1>5. Used' = Distance(sq_tail', cq_head') /\ Ready' = Distance(cq_tail', cq_head')
  BY DEF Used, Ready, Distance
<1> SUFFICES Ready' + m <= Used'
  BY DEF InflightWithinUsed
<1> HIDE DEF n, m
<1>a. ASSUME NEW req \in SqEntry, SubmitLocked(req) PROVE Ready' + m <= Used'
  <2>1. Used' = Used + 1
    BY <1>a, <1>1, <1>5, UsedReadyDistance, DistanceGrows DEF SubmitLocked, ring_full, RingTypeOK
  <2>2. Ready' = Ready
    BY <1>a, <1>5, UsedReadyDistance DEF SubmitLocked
  <2>3. InflightSlots' \in SUBSET (InflightSlots \cup {sq_tail})
    BY <1>a, <1>1 DEF SubmitLocked, RingTypeOK, InflightSlots
  <2>4. m <= n + 1
    <3>1. /\ IsFiniteSet(InflightSlots \cup {sq_tail})
          /\ Cardinality(InflightSlots \cup {sq_tail}) <= n + 1
      <4>1. IsFiniteSet(InflightSlots)
        BY InflightFinite
      <4>2. /\ IsFiniteSet(InflightSlots \cup {sq_tail})
            /\ \/ Cardinality(InflightSlots \cup {sq_tail}) = n
               \/ Cardinality(InflightSlots \cup {sq_tail}) = n + 1
        BY <4>1, FS_AddElement, Zenon DEF n
      <4> QED
        BY <4>2, <1>2
    <3>2. m <= Cardinality(InflightSlots \cup {sq_tail})
      BY <2>3, <3>1, FS_Subset DEF n, m
    <3>3. Cardinality(InflightSlots \cup {sq_tail}) \in Nat
      BY <3>1, FS_CardinalityType
    <3> QED
      BY <1>2, <3>1, <3>2, <3>3
  <2> QED
    BY <1>2, <1>3, <1>4, <2>1, <2>2, <2>4
<1>b. ASSUME NEW fact \in Result, PostCompletion(fact) PROVE Ready' + m <= Used'
  <2>1. InflightSlots # {} /\ cq_tail' = ring_next(cq_tail) /\ UNCHANGED <<sq_tail, cq_head>>
    BY <1>b DEF PostCompletion
  <2>2. m = n - 1
    BY <1>b, <1>1, PostTakesSlot DEF n, m
  <2>3. Ready' = Ready + 1
    BY <2>1, <1>1, <1>5, RoomToPost, UsedReadyDistance, DistanceGrows DEF RingTypeOK
  <2>4. Used' = Used
    BY <2>1, <1>5, UsedReadyDistance
  <2> QED
    BY <1>2, <1>3, <1>4, <2>2, <2>3, <2>4
<1>c. CASE PollCq
  <2>1. Ready' = Ready - 1
    BY <1>c, <1>1, <1>5, UsedReadyDistance, DistanceShrinks DEF PollCq, RingTypeOK
  <2>2. m = n
    BY <1>c DEF PollCq, InflightSlots, n, m
  <2>3. sq_tail # cq_head
    <3>0. Distance(cq_tail, cq_head) =
            IF cq_tail >= cq_head THEN cq_tail - cq_head ELSE cq_tail - cq_head + RING_SIZE
      BY <1>1, DistanceValue DEF RingTypeOK
    <3>1. Ready # 0
      BY <3>0, <1>c, <1>1, UsedReadyDistance, RingAssumption DEF PollCq, RingTypeOK, Slot
    <3>2. Used # 0
      BY <3>1, <1>2, <1>3, <1>4
    <3> QED
      BY <3>2, <1>1, UsedReadyDistance, DistanceValue, RingAssumption DEF RingTypeOK, Slot
  <2>4. Used' = Used - 1
    BY <2>3, <1>c, <1>1, <1>5, UsedReadyDistance, DistanceShrinks DEF PollCq, RingTypeOK
  <2> QED
    BY <1>2, <1>3, <1>4, <2>1, <2>2, <2>4
<1>d. CASE ResetRing
  <2>1. InflightSlots' = {}
    BY <1>d DEF ResetRing, InflightSlots
  <2>2. m = 0
    BY <2>1, FS_EmptySet DEF n, m
  <2>3. Used' = 0 /\ Ready' = 0
    BY <1>d, RingAssumption DEF ResetRing, Used, Ready
  <2> QED
    BY <2>2, <2>3
<1>e. CASE UNCHANGED <<cq, sq_tail, cq_tail, cq_head, inflight>>
  <2>1. m = n /\ Ready' = Ready /\ Used' = Used
    BY <1>e DEF n, m, InflightSlots, Ready, Used
  <2> QED
    BY <2>1, <1>4
<1> QED
  BY <1>a, <1>b, <1>c, <1>d, <1>e DEF RingNext, SlabWrite, ringVars

\* Completions ready and slots in flight never outnumber the submissions not yet
\* polled.
THEOREM RingInvariant == RingSpec => []InflightWithinUsed
<1>1. RingInit => RingInv
  BY RingInvInit
<1>2. RingInv /\ [RingNext]_ringVars => RingInv'
  BY RingInvStep
<1>3. RingInv => InflightWithinUsed
  BY DEF RingInv
<1> QED
  BY <1>1, <1>2, <1>3, PTL DEF RingSpec

\* The interrupt handler never posts a completion over the consumer's index.
THEOREM NoOverrun == RingSpec => CqNeverOverrun
<1>1. RingInv /\ [RingNext]_ringVars =>
        [(\E fact \in Result : PostCompletion(fact)) => ring_next(cq_tail) # cq_head]_ringVars
  BY RoomToPost DEF PostCompletion
<1> QED
  BY <1>1, RingInvInit, RingInvStep, PTL DEF RingSpec, CqNeverOverrun

-----------------------------------------------------------------------------
(* The completions are a bounded FIFO.                                      *)

\* The entry at a distance from the consumer, and the queue as a sequence.
LEMMA ReadyEntriesSeq ==
    RingTypeOK => /\ Ready \in 0 .. RING_SIZE - 1
                  /\ ReadyEntries \in Seq(CqEntry) /\ Len(ReadyEntries) = Ready
<1> SUFFICES ASSUME RingTypeOK
             PROVE  /\ Ready \in 0 .. RING_SIZE - 1
                    /\ ReadyEntries \in Seq(CqEntry) /\ Len(ReadyEntries) = Ready
  OBVIOUS
<1>1. Ready \in 0 .. RING_SIZE - 1
  BY UsedReadyDistance, DistanceValue DEF RingTypeOK
<1>2. ASSUME NEW i \in 1 .. Ready PROVE cq[(cq_head + i - 1) % RING_SIZE] \in CqEntry
  <2>1. i - 1 \in 0 .. RING_SIZE - 1 /\ cq_head + i - 1 = cq_head + (i - 1)
    BY <1>1, <1>2, RingAssumption DEF RingTypeOK, Slot
  <2>2. (cq_head + (i - 1)) % RING_SIZE \in Slot
    BY <2>1, SlotAtDistance DEF RingTypeOK
  <2> QED
    BY <2>1, <2>2 DEF RingTypeOK
<1>3. ReadyEntries \in [1 .. Ready -> CqEntry]
  BY <1>2 DEF ReadyEntries
<1>4. ReadyEntries \in Seq(CqEntry)
  BY <1>1, <1>3, SeqDef
<1>5. DOMAIN ReadyEntries = 1 .. Ready
  BY <1>3
<1>6. Len(ReadyEntries) = Ready
  BY <1>1, <1>4, <1>5, LenProperties
<1> QED
  BY <1>1, <1>4, <1>5, <1>6

\* The same of the queue after a step.
LEMMA ReadyEntriesSeqNext ==
    RingTypeOK' => (/\ Ready \in 0 .. RING_SIZE - 1
                    /\ ReadyEntries \in Seq(CqEntry) /\ Len(ReadyEntries) = Ready)'
  BY ReadyEntriesSeq, PTL

\* Without a post or a poll the queue is as it was.
LEMMA ReadyEntriesKept ==
    ASSUME UNCHANGED <<cq, cq_tail, cq_head>>
    PROVE  ReadyEntries' = ReadyEntries
  BY DEF ReadyEntries, Ready

\* A post appends the completion of a command in flight to the queue, which has
\* room for it.
LEMMA PostAppends ==
    ASSUME RingInv, RingInv', NEW fact \in Result, PostCompletion(fact)
    PROVE  \E i \in InflightSlots :
              CompletionOf(i, fact) \in CqEntry /\ CompletionFifo!Put(CompletionOf(i, fact))
<1> USE DEF RingInv
<1>0. PICK slot \in InflightSlots :
        /\ cq' = [cq EXCEPT ![cq_tail] = CompletionOf(slot, fact)]
        /\ cq_tail' = ring_next(cq_tail) /\ cq_head' = cq_head
  BY DEF PostCompletion, PostSlot
<1> DEFINE e == CompletionOf(slot, fact)
<1>1. /\ e \in CqEntry /\ cq' = [cq EXCEPT ![cq_tail] = e]
      /\ cq_tail' = ring_next(cq_tail) /\ cq_head' = cq_head
  BY <1>0, RingAssumption DEF RingTypeOK, InflightSlots, SqEntry, CqEntry, CompletionOf
<1> HIDE DEF e
<1>2. /\ Ready \in 0 .. RING_SIZE - 1 /\ Ready < RING_SIZE - 1
      /\ ring_next(cq_tail) # cq_head
  BY RoomToPost, ReadyEntriesSeq DEF PostCompletion
<1>3. Ready' = Ready + 1
  <2>1. Ready' = Distance(ring_next(cq_tail), cq_head)
    BY <1>1 DEF Ready, Distance
  <2> QED
    BY <2>1, <1>2, UsedReadyDistance, DistanceGrows DEF RingTypeOK
<1>4. /\ ReadyEntries \in Seq(CqEntry) /\ Len(ReadyEntries) = Ready
  BY ReadyEntriesSeq
<1>5. /\ ReadyEntries' \in Seq(CqEntry) /\ Len(ReadyEntries') = Ready'
  BY ReadyEntriesSeqNext
<1>6. Ready = IF cq_tail >= cq_head THEN cq_tail - cq_head ELSE cq_tail - cq_head + RING_SIZE
  BY UsedReadyDistance, DistanceValue DEF RingTypeOK
\* The slot of the k-th entry is the posted one only for the new last entry.
<1>7. ASSUME NEW k \in 1 .. Ready + 1
      PROVE  /\ (cq_head + k - 1) % RING_SIZE \in Slot
             /\ (cq_head + k - 1) % RING_SIZE = cq_tail <=> k = Ready + 1
  <2>1. k - 1 \in 0 .. RING_SIZE - 1 /\ cq_head + k - 1 = cq_head + (k - 1)
    BY <1>2, RingAssumption DEF RingTypeOK, Slot
  <2>2. /\ (cq_head + (k - 1)) % RING_SIZE \in Slot
        /\ (cq_head + (k - 1)) % RING_SIZE =
             IF cq_head + (k - 1) >= RING_SIZE THEN cq_head + (k - 1) - RING_SIZE
             ELSE cq_head + (k - 1)
    BY <2>1, SlotAtDistance DEF RingTypeOK
  <2>3. cq_head \in Slot /\ cq_tail \in Slot
    BY DEF RingTypeOK
  <2>4. cq_head + (k - 1) = cq_tail \/ cq_head + (k - 1) = cq_tail + RING_SIZE
          <=> k = Ready + 1
    BY <2>1, <2>3, <1>2, <1>6, RingAssumption DEF Slot
  <2>5. (cq_head + (k - 1)) % RING_SIZE = cq_tail <=> k = Ready + 1
    BY <2>1, <2>2, <2>3, <2>4, RingAssumption DEF Slot
  <2> QED
    BY <2>1, <2>2, <2>5
<1>8. ASSUME NEW k \in 1 .. Ready + 1
      PROVE  ReadyEntries'[k] = Append(ReadyEntries, e)[k]
  <2>1. ReadyEntries'[k] = cq'[(cq_head + k - 1) % RING_SIZE]
    BY <1>1, <1>3 DEF ReadyEntries
  <2>2. CASE k = Ready + 1
    BY <2>1, <2>2, <1>1, <1>4, <1>7, AppendProperties DEF RingTypeOK
  <2>3. CASE k # Ready + 1
    <3>1. k \in 1 .. Ready
      BY <2>3, <1>2
    <3>2. ReadyEntries'[k] = cq[(cq_head + k - 1) % RING_SIZE]
      BY <2>1, <2>3, <1>1, <1>7 DEF RingTypeOK
    <3>3. ReadyEntries[k] = cq[(cq_head + k - 1) % RING_SIZE]
      BY <3>1 DEF ReadyEntries
    <3> QED
      BY <3>1, <3>2, <3>3, <1>1, <1>4, AppendProperties
  <2> QED
    BY <2>2, <2>3
<1>9. ReadyEntries' = Append(ReadyEntries, e)
  <2>1. /\ Append(ReadyEntries, e) \in Seq(CqEntry)
        /\ Len(Append(ReadyEntries, e)) = Ready + 1
    BY <1>1, <1>4, AppendProperties
  <2> QED
    BY <2>1, <1>3, <1>5, <1>8, SeqEqual
<1> QED
  BY <1>0, <1>1, <1>2, <1>4, <1>9 DEF CompletionFifo!Put, e

\* A poll takes the oldest entry off.
LEMMA PollTakesHead ==
    ASSUME RingInv, RingInv', PollCq
    PROVE  CompletionFifo!Get
<1> USE DEF RingInv
<1>1. cq' = cq /\ cq_tail' = cq_tail /\ cq_head' = ring_next(cq_head) /\ cq_head # cq_tail
  BY DEF PollCq
<1>2. Ready' = Ready - 1
  <2>1. Ready' = Distance(cq_tail, ring_next(cq_head))
    BY <1>1 DEF Ready, Distance
  <2> QED
    BY <2>1, <1>1, UsedReadyDistance, DistanceShrinks DEF RingTypeOK
<1>3. /\ Ready \in 0 .. RING_SIZE - 1
      /\ ReadyEntries \in Seq(CqEntry) /\ Len(ReadyEntries) = Ready
  BY ReadyEntriesSeq
<1>4. /\ Ready' \in 0 .. RING_SIZE - 1
      /\ ReadyEntries' \in Seq(CqEntry) /\ Len(ReadyEntries') = Ready'
  BY ReadyEntriesSeqNext
<1>5. ReadyEntries # <<>>
  BY <1>2, <1>3, <1>4, EmptySeq
<1>6. ASSUME NEW k \in 1 .. Ready - 1
      PROVE  (ring_next(cq_head) + k - 1) % RING_SIZE = (cq_head + (k + 1) - 1) % RING_SIZE
  <2>1. ring_next(cq_head) \in Slot
    BY NextInRing DEF RingTypeOK
  <2>2. ring_next(cq_head) = IF cq_head = RING_SIZE - 1 THEN 0 ELSE cq_head + 1
    BY NextIndex DEF RingTypeOK
  <2>3. /\ k - 1 \in 0 .. RING_SIZE - 1 /\ k \in 0 .. RING_SIZE - 1
        /\ ring_next(cq_head) + k - 1 = ring_next(cq_head) + (k - 1)
        /\ cq_head + (k + 1) - 1 = cq_head + k
    BY <1>3, <2>1, RingAssumption DEF RingTypeOK, Slot
  <2>4. (ring_next(cq_head) + (k - 1)) % RING_SIZE =
          IF ring_next(cq_head) + (k - 1) >= RING_SIZE
          THEN ring_next(cq_head) + (k - 1) - RING_SIZE ELSE ring_next(cq_head) + (k - 1)
    BY <2>1, <2>3, SlotAtDistance
  <2>5. (cq_head + k) % RING_SIZE =
          IF cq_head + k >= RING_SIZE THEN cq_head + k - RING_SIZE ELSE cq_head + k
    BY <2>3, SlotAtDistance DEF RingTypeOK
  <2> QED
    BY <2>1, <2>2, <2>3, <2>4, <2>5, RingAssumption DEF RingTypeOK, Slot
<1>7. ASSUME NEW k \in 1 .. Ready - 1 PROVE ReadyEntries'[k] = Tail(ReadyEntries)[k]
  <2>1. ReadyEntries'[k] = cq[(ring_next(cq_head) + k - 1) % RING_SIZE]
    BY <1>1, <1>2 DEF ReadyEntries
  <2>2. k + 1 \in 1 .. Ready
    BY <1>3
  <2>3. ReadyEntries[k + 1] = cq[(cq_head + (k + 1) - 1) % RING_SIZE]
    BY <2>2 DEF ReadyEntries
  <2>4. Tail(ReadyEntries)[k] = ReadyEntries[k + 1]
    BY <1>3, <1>5, HeadTailProperties
  <2> QED
    BY <2>1, <2>3, <2>4, <1>6
<1>8. ReadyEntries' = Tail(ReadyEntries)
  <2>1. Tail(ReadyEntries) \in Seq(CqEntry) /\ Len(Tail(ReadyEntries)) = Ready - 1
    BY <1>3, <1>5, HeadTailProperties
  <2> QED
    BY <2>1, <1>2, <1>4, <1>7, SeqEqual
<1> QED
  BY <1>5, <1>8 DEF CompletionFifo!Get

\* An empty completion ring is an empty queue.
LEMMA EmptyRing ==
    ASSUME cq_tail = 0, cq_head = 0
    PROVE  ReadyEntries = <<>>
<1>1. Ready = 0
  BY RingAssumption DEF Ready
<1> QED
  BY <1>1 DEF ReadyEntries

\* The completion ring implements a FIFO of RING_SIZE - 1 completions: posts by the
\* handler and polls by callers, with submissions, opens and unlocked slab writes
\* between them, never lose, repeat, reorder or overwrite a completion.
THEOREM RingImplementsFifo == RingSpec => CompletionsAreFifo
<1>1. RingInit => CompletionFifo!FifoInit
  BY EmptyRing DEF RingInit, CompletionFifo!FifoInit
<1>2. RingInv /\ RingInv' /\ [RingNext]_ringVars =>
        [CompletionFifo!FifoNext]_ReadyEntries
  <2> SUFFICES ASSUME RingInv, RingInv', [RingNext]_ringVars
               PROVE  CompletionFifo!FifoNext \/ UNCHANGED ReadyEntries
    OBVIOUS
  <2>1. ASSUME NEW req \in SqEntry, SubmitLocked(req) PROVE UNCHANGED ReadyEntries
    BY <2>1, ReadyEntriesKept DEF SubmitLocked
  <2>2. ASSUME NEW fact \in Result, PostCompletion(fact) PROVE CompletionFifo!FifoNext
    BY <2>2, PostAppends DEF CompletionFifo!FifoNext
  <2>3. CASE PollCq
    BY <2>3, PollTakesHead DEF CompletionFifo!FifoNext
  <2>4. CASE ResetRing
    <3>1. ReadyEntries' = <<>>
      <4>1. Ready' = 0
        BY <2>4, RingAssumption DEF ResetRing, Ready
      <4> QED
        BY <4>1 DEF ReadyEntries
    <3> QED
      BY <3>1 DEF CompletionFifo!FifoNext, CompletionFifo!Clear
  <2>5. CASE UNCHANGED <<cq, sq_tail, cq_tail, cq_head, inflight>>
    BY <2>5, ReadyEntriesKept
  <2> QED
    BY <2>1, <2>2, <2>3, <2>4, <2>5 DEF RingNext, SlabWrite, ringVars
<1>3. RingInv /\ RingInv' /\ [RingNext]_ringVars =>
        [\A fact \in Result : PostCompletion(fact) =>
            \E i \in InflightSlots : CompletionFifo!Put(CompletionOf(i, fact))]_ringVars
  BY PostAppends
<1> QED
  BY <1>1, <1>2, <1>3, RingInvInit, RingInvStep, PTL
     DEF RingSpec, CompletionsAreFifo, CompletionFifo!FifoSpec

=============================================================================
