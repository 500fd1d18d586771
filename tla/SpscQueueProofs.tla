-------------------------- MODULE SpscQueueProofs ---------------------------
(***************************************************************************)
(* Proofs about the ring of SpscQueue, for every capacity, every set of    *)
(* values and any amount of traffic.                                       *)
(***************************************************************************)
EXTENDS SpscQueue, SequenceTheorems, TLAPS

-----------------------------------------------------------------------------
(* Arithmetic of the indices. *)

LEMMA NextIndexType ==
    ASSUME NEW x \in Index
    PROVE  NextIndex(x) \in Index
BY SpscAssumption DEF NextIndex, Index

LEMMA CellType ==
    ASSUME NEW r \in Index, NEW i \in 0 .. Capacity
    PROVE  CellAt(r, i) \in Index /\ NewReadIndex(r, i) \in Index
BY SpscAssumption DEF CellAt, NewReadIndex, Index, Capacity

LEMMA AvailableType ==
    ASSUME NEW w \in Index, NEW r \in Index
    PROVE  ReadAvailable(w, r) \in 0 .. Capacity
BY SpscAssumption DEF ReadAvailable, Index, Capacity

\* The distance from the read index identifies a cell.
LEMMA OffsetInjective ==
    ASSUME NEW x \in Index, NEW y \in Index, NEW r \in Index,
           ReadAvailable(x, r) = ReadAvailable(y, r)
    PROVE  x = y
BY SpscAssumption DEF ReadAvailable, Index

LEMMA OffsetOfCell ==
    ASSUME NEW r \in Index, NEW i \in 0 .. Capacity
    PROVE  ReadAvailable(CellAt(r, i), r) = i
BY SpscAssumption DEF ReadAvailable, CellAt, Index, Capacity

\* Publishing an element into a ring that is not full makes one more available.
LEMMA PublishOne ==
    ASSUME NEW w \in Index, NEW r \in Index, NextIndex(w) # r
    PROVE  ReadAvailable(NextIndex(w), r) = ReadAvailable(w, r) + 1
BY SpscAssumption DEF ReadAvailable, NextIndex, Index

\* Moving the read index over n available elements shifts the distance of every cell
\* behind them.
LEMMA ReleaseShifts ==
    ASSUME NEW x \in Index, NEW r \in Index, NEW n \in 0 .. Capacity,
           n <= ReadAvailable(x, r)
    PROVE  ReadAvailable(x, NewReadIndex(r, n)) = ReadAvailable(x, r) - n
BY SpscAssumption DEF ReadAvailable, NewReadIndex, Index, Capacity

\* The cells in front of them wrap around to the far end.
LEMMA ReleaseWraps ==
    ASSUME NEW x \in Index, NEW r \in Index, NEW n \in 0 .. Capacity,
           ReadAvailable(x, r) < n
    PROVE  ReadAvailable(x, NewReadIndex(r, n)) = ReadAvailable(x, r) - n + MaxSize
BY SpscAssumption DEF ReadAvailable, NewReadIndex, Index, Capacity

LEMMA FreeAfterRelease ==
    ASSUME NEW w \in Index, NEW r \in Index, NextIndex(w) # r,
           NEW n \in 0 .. Capacity, n <= ReadAvailable(w, r)
    PROVE  NextIndex(w) # NewReadIndex(r, n)
BY SpscAssumption DEF ReadAvailable, NextIndex, NewReadIndex, Index, Capacity

LEMMA LogType ==
    ASSUME NEW S, NEW h \in Seq(S), NEW v \in S
    PROVE  Log(h, v) \in Seq(S)
BY SpscAssumption DEF Log

-----------------------------------------------------------------------------
(* Type correctness, however many threads pop. *)

ProducerValue == producer.pc # "idle" => producer.val \in Values

RingTypeInv == RingTypeOK /\ ProducerValue

LEMMA RingTypeInit == RingInit => RingTypeInv
<1> SUFFICES ASSUME RingInit PROVE RingTypeInv
  OBVIOUS
<1> USE DEF RingInit
<1>1. 0 \in Index /\ 0 \in 0 .. Capacity
  BY SpscAssumption DEF Index, Capacity
<1>2. IdleProducer \in Producers
  BY <1>1 DEF IdleProducer, Producers
<1>3. IdleConsumer \in ConsumerLocals
  BY <1>1 DEF IdleConsumer, ConsumerLocals
<1>4. ProducerValue
  BY DEF ProducerValue, IdleProducer
<1>5. pushed \in Seq(Values) /\ popped \in Seq(Values \cup {NoValue}) /\ refused \in Seq(Values)
  OBVIOUS
<1> QED
  BY <1>1, <1>2, <1>3, <1>4, <1>5 DEF RingTypeInv, RingTypeOK

LEMMA RingTypeStep == RingTypeInv /\ [RingNext]_ringVars => RingTypeInv'
<1> SUFFICES ASSUME RingTypeInv, [RingNext]_ringVars PROVE RingTypeInv'
  OBVIOUS
<1> USE DEF RingTypeInv, RingTypeOK, ProducerValue
<1>0. MaxSize \in Nat /\ MaxSize >= 2 /\ 0 \in Index /\ 0 \in 0 .. Capacity
  BY SpscAssumption DEF Index, Capacity
<1>1. ASSUME NEW v \in Values, PushFull(v) PROVE RingTypeInv'
  BY <1>1, LogType DEF PushFull
<1>2. ASSUME NEW v \in Values, PushClaim(v) PROVE RingTypeInv'
  BY <1>2 DEF PushClaim, Producers
<1>3. CASE PushConstruct
  <2>1. producer.w \in Index /\ producer.val \in Values
    BY <1>3 DEF PushConstruct, Producers
  <2> QED BY <1>3, <2>1 DEF PushConstruct, Producers
<1>4. CASE PushStore
  <2>1. producer.w \in Index /\ producer.val \in Values
    BY <1>4 DEF PushStore, Constructed, Producers
  <2>2. NextIndex(producer.w) \in Index
    BY <2>1, NextIndexType
  <2>3. Log(pushed, producer.val) \in Seq(Values)
    BY <2>1, LogType
  <2> QED BY <1>0, <1>4, <2>2, <2>3 DEF PushStore, Constructed, Producers, IdleProducer
<1>5. ASSUME NEW t \in Consumers, LoadWriteIndex(t) PROVE RingTypeInv'
  BY <1>0, <1>5 DEF LoadWriteIndex, ConsumerLocals
<1>6. ASSUME NEW t \in Consumers, LoadReadIndexEmpty(t) PROVE RingTypeInv'
  BY <1>0, <1>6 DEF LoadReadIndexEmpty, ConsumerLocals, IdleConsumer
<1>7. ASSUME NEW t \in Consumers, NEW all \in BOOLEAN, LoadReadIndex(t, all)
      PROVE  RingTypeInv'
  <2>1. consumer[t].w \in Index
    BY DEF ConsumerLocals
  <2>2. ReadAvailable(consumer[t].w, read_index) \in 0 .. Capacity
    BY <2>1, AvailableType
  <2>3. (IF all THEN ReadAvailable(consumer[t].w, read_index) ELSE 1) \in 0 .. Capacity
    BY <1>0, <2>2 DEF Capacity
  <2> QED BY <1>0, <1>7, <2>1, <2>3 DEF LoadReadIndex, ConsumerLocals
<1>8. ASSUME NEW t \in Consumers, ConsumeElement(t) PROVE RingTypeInv'
  <2>1. /\ consumer[t].w \in Index /\ consumer[t].r \in Index
        /\ consumer[t].n \in 0 .. Capacity /\ consumer[t].i \in 0 .. Capacity
    BY DEF ConsumerLocals
  <2>2. consumer[t].i + 1 \in 0 .. Capacity
    BY <1>0, <1>8, <2>1 DEF ConsumeElement, Capacity
  <2>3. CurrentCell(t) \in Index
    BY <2>1, CellType DEF CurrentCell
  <2>4. Log(popped, slot[CurrentCell(t)]) \in Seq(Values \cup {NoValue})
    BY <2>3, LogType
  <2> QED BY <1>8, <2>1, <2>2, <2>3, <2>4 DEF ConsumeElement, ConsumerLocals
<1>9. ASSUME NEW t \in Consumers, StoreReadIndex(t) PROVE RingTypeInv'
  <2>1. consumer[t].r \in Index /\ consumer[t].n \in 0 .. Capacity
    BY DEF ConsumerLocals
  <2>2. NewReadIndex(consumer[t].r, consumer[t].n) \in Index
    BY <2>1, CellType
  <2> QED BY <1>0, <1>9, <2>2 DEF StoreReadIndex, ConsumerLocals, IdleConsumer
<1>10. CASE UNCHANGED ringVars
  BY <1>10 DEF ringVars
<1> QED
  BY <1>1, <1>2, <1>3, <1>4, <1>5, <1>6, <1>7, <1>8, <1>9, <1>10
  DEF RingNext, ProducerStep, ConsumerStep

\* Every variable of the ring keeps its type whoever pops: even when several threads pop
\* against the contract of spsc_queue, no index leaves the storage.
THEOREM RingTypeCorrect == RingSpec => []RingTypeOK
<1>1. RingTypeInv => RingTypeOK
  BY DEF RingTypeInv
<1> QED
  BY <1>1, RingTypeInit, RingTypeStep, PTL DEF RingSpec

-----------------------------------------------------------------------------
(* The ring under its contract: one thread pops. *)

LEMMA RingInvInit ==
    ASSUME OneConsumer
    PROVE  RingInit => RingInv
<1> SUFFICES ASSUME RingInit PROVE RingInv
  OBVIOUS
<1>1. RingTypeOK
  BY RingTypeInit DEF RingTypeInv
<1>2. producer.pc = "idle" /\ consumer[TheConsumer].pc = "idle"
  BY OneConsumer DEF RingInit, IdleProducer, IdleConsumer, OneConsumer
<1>3. Available = 0 /\ Held = 0
  BY <1>2, SpscAssumption DEF RingInit, Available, Offset, ReadAvailable, Held
<1>4. LiveCells
  <2> SUFFICES ASSUME NEW cell \in Index, Held <= Offset(cell), Offset(cell) < Available
               PROVE  FALSE
    BY <1>2 DEF LiveCells, RingInit
  <2> QED BY <1>3, SpscAssumption DEF Offset, ReadAvailable, Index, RingInit
<1>5. Contents
  <2>1. ASSUME NEW cell \in Index, Offset(cell) < Available, Held <= Offset(cell)
        PROVE  FALSE
    BY <1>3, <2>1, SpscAssumption DEF Offset, ReadAvailable, Index, RingInit
  <2> QED BY <1>2, <1>3, <2>1 DEF Contents, RingInit
<1> QED
  BY <1>1, <1>2, <1>4, <1>5
  DEF RingInv, ProducerOwns, ConsumerOwns, LifetimeRespected, PoppedInOrder, RingInit

\* Facts every step below starts from.
LEMMA RingFacts ==
    ASSUME OneConsumer, RingInv
    PROVE  /\ MaxSize \in Nat /\ MaxSize >= 2
           /\ write_index \in Index /\ read_index \in Index
           /\ TheConsumer \in Consumers
           /\ consumer[TheConsumer] \in ConsumerLocals
           /\ \A cell \in Index : Offset(cell) \in 0 .. Capacity
           /\ Available \in 0 .. Capacity
           /\ Held \in 0 .. Available
<1> USE DEF RingInv, RingTypeOK
<1>1. write_index \in Index /\ read_index \in Index
  OBVIOUS
<1>2. TheConsumer \in Consumers
  BY DEF OneConsumer
<1>3. consumer[TheConsumer] \in ConsumerLocals
  BY <1>2
<1>4. \A cell \in Index : Offset(cell) \in 0 .. Capacity
  BY <1>1, AvailableType DEF Offset
<1>5. Available \in 0 .. Capacity
  BY <1>1, <1>4 DEF Available
<1>6. Held \in 0 .. Available
  BY <1>3, <1>5, SpscAssumption DEF Held, ConsumerOwns, ConsumerLocals, Capacity
<1> QED
  BY <1>1, <1>2, <1>3, <1>4, <1>5, <1>6, SpscAssumption

LEMMA PushFullKeeps ==
    ASSUME OneConsumer, RingInv, RingTypeOK', NEW v \in Values, PushFull(v)
    PROVE  RingInv'
<1> USE DEF RingInv, PushFull
<1>1. Held' = Held /\ Available' = Available /\ \A cell \in Index : Offset(cell)' = Offset(cell)
  BY DEF Held, Available, Offset
<1>2. ProducerOwns' /\ ConsumerOwns'
  BY <1>1 DEF ProducerOwns, ConsumerOwns, Available, Offset
<1>3. LiveCells' /\ Contents'
  BY <1>1 DEF LiveCells, Contents
<1> QED
  BY <1>2, <1>3 DEF LifetimeRespected, PoppedInOrder

LEMMA PushClaimKeeps ==
    ASSUME OneConsumer, RingInv, RingTypeOK', NEW v \in Values, PushClaim(v)
    PROVE  RingInv'
<1> USE DEF RingInv, PushClaim, Full
<1>1. Held' = Held /\ Available' = Available /\ \A cell \in Index : Offset(cell)' = Offset(cell)
  BY DEF Held, Available, Offset
<1>2. ProducerOwns' /\ ConsumerOwns'
  BY <1>1 DEF ProducerOwns, ConsumerOwns, Available, Offset
<1>3. producer.pc # "built" /\ producer'.pc # "built"
  OBVIOUS
<1>4. LiveCells' /\ Contents'
  BY <1>1, <1>3 DEF LiveCells, Contents
<1> QED
  BY <1>2, <1>4 DEF LifetimeRespected, PoppedInOrder

\* The free cell at the write index is not live, so that constructing it is sound.
LEMMA PushConstructKeeps ==
    ASSUME OneConsumer, RingInv, RingTypeOK', PushConstruct
    PROVE  RingInv'
<1> USE DEF RingInv, PushConstruct
<1>0. write_index \in Index /\ read_index \in Index /\ Available \in 0 .. Capacity
  BY RingFacts
<1>1. Held' = Held /\ Available' = Available /\ \A cell \in Index : Offset(cell)' = Offset(cell)
  BY DEF Held, Available, Offset
<1>2. producer.w = write_index /\ producer.pc = "claimed"
  BY DEF ProducerOwns
<1>3. producer' = [pc |-> "built", w |-> producer.w, val |-> producer.val]
  BY DEF RingTypeOK, Producers
<1>4. ProducerOwns' /\ ConsumerOwns'
  BY <1>1, <1>2, <1>3 DEF ProducerOwns, ConsumerOwns, Available, Offset
<1>5. write_index \notin live
  BY <1>0, <1>2, SpscAssumption DEF LiveCells, Available, Capacity
<1>6. LiveCells'
  BY <1>1, <1>2, <1>3, <1>5 DEF LiveCells
<1>7. \A cell \in Index : Offset(cell) < Available => slot'[cell] = slot[cell]
  <2> SUFFICES ASSUME NEW cell \in Index, Offset(cell) < Available
               PROVE  cell # write_index
    BY <1>2 DEF RingTypeOK
  <2> QED BY <1>0, SpscAssumption DEF Available, Capacity
<1>8. slot'[write_index] = producer'.val
  BY <1>0, <1>2, <1>3 DEF RingTypeOK
<1>9. Contents'
  BY <1>1, <1>2, <1>3, <1>7, <1>8 DEF Contents
<1>10. LifetimeRespected' /\ PoppedInOrder'
  BY <1>2, <1>5 DEF LifetimeRespected, PoppedInOrder
<1> QED
  BY <1>4, <1>6, <1>9, <1>10

\* The new element becomes the last of the published ones.
LEMMA PushStoreKeeps ==
    ASSUME OneConsumer, RingInv, RingTypeOK', PushStore
    PROVE  RingInv'
<1> USE DEF RingInv, PushStore, Constructed
<1>0. /\ write_index \in Index /\ read_index \in Index
      /\ Available \in 0 .. Capacity /\ Held \in 0 .. Available
      /\ consumer[TheConsumer] \in ConsumerLocals
      /\ \A cell \in Index : Offset(cell) \in 0 .. Capacity
      /\ MaxSize \in Nat /\ MaxSize >= 2
  BY RingFacts
<1>1. Held' = Held /\ \A cell : Offset(cell)' = Offset(cell)
  BY DEF Held, Offset
<1>2. producer.w = write_index /\ NextIndex(write_index) # read_index /\ producer.val \in Values
  BY DEF ProducerOwns
<1>3. Available' = Available + 1
  BY <1>0, <1>2, PublishOne DEF Available, Offset
<1>4. ProducerOwns'
  BY DEF ProducerOwns, IdleProducer
<1>5. ConsumerOwns'
  <2>1. consumer[TheConsumer].w \in Index /\ consumer[TheConsumer].n \in Nat
    BY <1>0 DEF ConsumerLocals, Capacity
  <2>2. Offset(consumer[TheConsumer].w) \in 0 .. Capacity
    BY <1>0, <2>1
  <2> QED BY <1>0, <1>1, <1>3, <2>1, <2>2 DEF ConsumerOwns, Capacity
<1>6. \A cell \in Index : Offset(cell) = Available <=> cell = write_index
  BY <1>0, OffsetInjective DEF Offset, Available
<1>7. LiveCells'
  BY <1>0, <1>1, <1>3, <1>6 DEF LiveCells, IdleProducer, Capacity
<1>8. Contents'
  <2>1. CASE KeepHistory
    <3>1. pushed' = Append(pushed, producer.val) /\ popped' = popped
      BY <2>1 DEF Log
    <3>2. Len(pushed) \in Nat /\ Len(popped) \in Nat /\ pushed \in Seq(Values)
      BY DEF RingTypeOK
    <3>3. Len(pushed) = Len(popped) + Available - Held
      BY <2>1 DEF Contents
    <3>4. Len(pushed') = Len(popped') + Available' - Held'
      BY <1>0, <1>1, <1>2, <1>3, <3>1, <3>2, <3>3 DEF Capacity
    <3>5. ASSUME NEW cell \in Index, Held' <= Offset(cell)', Offset(cell)' < Available'
          PROVE  slot'[cell] = pushed'[Len(popped') + Offset(cell)' - Held' + 1]
      <4>1. Offset(cell) \in 0 .. Capacity /\ Held <= Offset(cell) /\ Offset(cell) <= Available
        BY <1>0, <1>1, <1>3, <3>5 DEF Capacity
      <4>2. CASE Offset(cell) = Available
        <5>1. slot[cell] = producer.val
          BY <1>6, <2>1, <4>2 DEF Contents
        <5>2. Len(popped) + Offset(cell) - Held + 1 = Len(pushed) + 1
          BY <1>0, <3>2, <3>3, <4>2 DEF Capacity
        <5> QED BY <1>1, <3>1, <3>2, <5>1, <5>2
      <4>3. CASE Offset(cell) # Available
        <5>1. slot[cell] = pushed[Len(popped) + Offset(cell) - Held + 1]
          BY <1>0, <2>1, <4>1, <4>3 DEF Contents, Capacity
        <5>2. Len(popped) + Offset(cell) - Held + 1 \in 1 .. Len(pushed)
          BY <1>0, <3>2, <3>3, <4>1, <4>3 DEF Capacity
        <5> QED BY <1>1, <1>2, <3>1, <3>2, <5>1, <5>2
      <4> QED BY <4>2, <4>3
    <3> QED BY <2>1, <3>4, <3>5 DEF Contents, IdleProducer
  <2>2. CASE ~KeepHistory
    BY <2>2 DEF Contents, Log, IdleProducer
  <2> QED BY <2>1, <2>2
<1>9. LifetimeRespected'
  BY DEF LifetimeRespected
<1>10. PoppedInOrder'
  BY <1>2 DEF PoppedInOrder, Log, RingTypeOK
<1> QED
  BY <1>4, <1>5, <1>7, <1>8, <1>9, <1>10

LEMMA LoadWriteIndexKeeps ==
    ASSUME OneConsumer, RingInv, RingTypeOK', LoadWriteIndex(TheConsumer)
    PROVE  RingInv'
<1> USE DEF RingInv, LoadWriteIndex
<1>0. /\ consumer \in [Consumers -> ConsumerLocals] /\ TheConsumer \in Consumers
      /\ Available \in 0 .. Capacity
  BY RingFacts DEF RingTypeOK
<1>1. consumer'[TheConsumer].pc = "load" /\ consumer'[TheConsumer].w = write_index
  BY <1>0
<1>2. Held' = Held /\ Available' = Available /\ \A cell : Offset(cell)' = Offset(cell)
  BY <1>1 DEF Held, Available, Offset
<1>3. ProducerOwns'
  BY DEF ProducerOwns
<1>4. ConsumerOwns'
  BY <1>0, <1>1, <1>2, SpscAssumption DEF ConsumerOwns, Available, Capacity
<1>5. LiveCells' /\ Contents'
  BY <1>2 DEF LiveCells, Contents
<1> QED
  BY <1>3, <1>4, <1>5 DEF LifetimeRespected, PoppedInOrder

LEMMA LoadReadIndexEmptyKeeps ==
    ASSUME OneConsumer, RingInv, RingTypeOK', LoadReadIndexEmpty(TheConsumer)
    PROVE  RingInv'
<1> USE DEF RingInv, LoadReadIndexEmpty
<1>0. consumer \in [Consumers -> ConsumerLocals] /\ TheConsumer \in Consumers
  BY RingFacts DEF RingTypeOK
<1>1. consumer'[TheConsumer].pc = "idle"
  BY <1>0 DEF IdleConsumer
<1>2. Held' = Held /\ Available' = Available /\ \A cell : Offset(cell)' = Offset(cell)
  BY <1>1 DEF Held, Available, Offset
<1>3. ProducerOwns' /\ ConsumerOwns'
  BY <1>1 DEF ProducerOwns, ConsumerOwns
<1>4. LiveCells' /\ Contents'
  BY <1>2 DEF LiveCells, Contents
<1> QED
  BY <1>3, <1>4 DEF LifetimeRespected, PoppedInOrder

LEMMA LoadReadIndexKeeps ==
    ASSUME OneConsumer, RingInv, RingTypeOK', NEW all \in BOOLEAN,
           LoadReadIndex(TheConsumer, all)
    PROVE  RingInv'
<1> USE DEF RingInv, LoadReadIndex
<1>0. /\ consumer \in [Consumers -> ConsumerLocals] /\ TheConsumer \in Consumers
      /\ consumer[TheConsumer] \in ConsumerLocals
      /\ Available \in 0 .. Capacity
      /\ \A cell \in Index : Offset(cell) \in 0 .. Capacity
  BY RingFacts DEF RingTypeOK
<1>1. /\ consumer'[TheConsumer].pc = "busy" /\ consumer'[TheConsumer].r = read_index
      /\ consumer'[TheConsumer].i = 0
      /\ consumer'[TheConsumer].n = IF all THEN Offset(consumer[TheConsumer].w) ELSE 1
  BY <1>0 DEF Offset
<1>2. Held' = Held /\ Available' = Available /\ \A cell : Offset(cell)' = Offset(cell)
  BY <1>1 DEF Held, Available, Offset
<1>3. ProducerOwns'
  BY DEF ProducerOwns
<1>4. Offset(consumer[TheConsumer].w) \in 1 .. Available
  <2>1. consumer[TheConsumer].w \in Index
    BY <1>0 DEF ConsumerLocals
  <2>2. Offset(consumer[TheConsumer].w) # 0
    BY DEF Offset
  <2> QED BY <1>0, <2>1, <2>2, SpscAssumption DEF ConsumerOwns, Capacity
<1>5. ConsumerOwns'
  BY <1>0, <1>1, <1>2, <1>4, SpscAssumption DEF ConsumerOwns, Capacity
<1>6. LiveCells' /\ Contents'
  BY <1>2 DEF LiveCells, Contents
<1> QED
  BY <1>3, <1>5, <1>6 DEF LifetimeRespected, PoppedInOrder

\* The next element of the call is live, and it is the oldest that was not handed out.
LEMMA ConsumeElementKeeps ==
    ASSUME OneConsumer, RingInv, RingTypeOK', ConsumeElement(TheConsumer)
    PROVE  RingInv'
<1> USE DEF RingInv, ConsumeElement
<1> DEFINE cell == CurrentCell(TheConsumer)
<1>0. /\ consumer \in [Consumers -> ConsumerLocals] /\ TheConsumer \in Consumers
      /\ consumer[TheConsumer] \in ConsumerLocals
      /\ read_index \in Index
      /\ Available \in 0 .. Capacity /\ Held \in 0 .. Available
      /\ \A x \in Index : Offset(x) \in 0 .. Capacity
      /\ MaxSize \in Nat /\ MaxSize >= 2
  BY RingFacts DEF RingTypeOK
<1>1. /\ consumer[TheConsumer].r = read_index /\ Held = consumer[TheConsumer].i
      /\ consumer[TheConsumer].n \in 1 .. Available
      /\ Held < consumer[TheConsumer].n
  BY DEF ConsumerOwns, Held
<1>2. Held < Available /\ Held \in 0 .. Capacity
  BY <1>0, <1>1 DEF Capacity
<1>3. cell \in Index /\ Offset(cell) = Held
  BY <1>0, <1>1, <1>2, CellType, OffsetOfCell DEF CurrentCell, Offset
<1>4. \A x \in Index : Offset(x) = Held => x = cell
  BY <1>0, <1>3, OffsetInjective DEF Offset
<1>5. /\ consumer'[TheConsumer].pc = "busy" /\ consumer'[TheConsumer].r = read_index
      /\ consumer'[TheConsumer].i = Held + 1
      /\ consumer'[TheConsumer].n = consumer[TheConsumer].n
  BY <1>0, <1>1
<1>6. Held' = Held + 1 /\ Available' = Available /\ \A x : Offset(x)' = Offset(x)
  BY <1>5 DEF Held, Available, Offset
<1>7. ProducerOwns'
  BY DEF ProducerOwns
<1>8. ConsumerOwns'
  BY <1>0, <1>1, <1>5, <1>6 DEF ConsumerOwns, Capacity
<1>9. cell \in live /\ cell # write_index
  BY <1>0, <1>2, <1>3 DEF LiveCells, Available, Capacity
<1>10. LiveCells'
  <2>1. live' = live \ {cell}
    OBVIOUS
  <2>2. ASSUME NEW x \in Index
        PROVE  x \in live' <=> \/ Held + 1 <= Offset(x) /\ Offset(x) < Available
                               \/ producer.pc = "built" /\ x = write_index
    BY <1>0, <1>3, <1>4, <1>9, <2>1 DEF LiveCells, Capacity
  <2> QED BY <1>6, <2>2 DEF LiveCells
<1>11. Contents' /\ PoppedInOrder'
  <2>1. CASE KeepHistory
    <3>1. /\ popped' = Append(popped, slot[cell]) /\ pushed' = pushed
          /\ popped \in Seq(Values \cup {NoValue}) /\ slot[cell] \in Values \cup {NoValue}
      BY <1>3, <2>1 DEF Log, RingTypeOK
    <3>2. Len(pushed) \in Nat /\ Len(popped) \in Nat /\ Len(popped') = Len(popped) + 1
      BY <3>1 DEF RingTypeOK
    <3>3. /\ Len(pushed) = Len(popped) + Available - Held
          /\ slot[cell] = pushed[Len(popped) + 1]
      BY <1>0, <1>2, <1>3, <2>1, <3>2 DEF Contents, Capacity
    <3>4. ASSUME NEW x \in Index, Held' <= Offset(x)', Offset(x)' < Available'
          PROVE  slot'[x] = pushed'[Len(popped') + Offset(x)' - Held' + 1]
      <4>1. /\ Offset(x) \in Nat /\ Held \in Nat
            /\ Held <= Offset(x) /\ Offset(x) < Available
        BY <1>0, <1>6, <3>4 DEF Capacity
      <4>2. slot[x] = pushed[Len(popped) + Offset(x) - Held + 1]
        BY <2>1, <4>1 DEF Contents
      <4>3. Len(popped') + Offset(x)' - Held' + 1 = Len(popped) + Offset(x) - Held + 1
        BY <1>6, <3>2, <4>1
      <4> QED BY <3>1, <4>2, <4>3
    <3>5. Len(pushed') = Len(popped') + Available' - Held'
      <4>1. Len(pushed') = Len(pushed)
        BY <3>1
      <4>2. Available \in Nat /\ Held \in Nat
        BY <1>0 DEF Capacity
      <4>3. Held' = Held + 1 /\ Available' = Available
        BY <1>6
      <4>4. Len(popped') + Available' - Held' = Len(popped) + Available - Held
        BY <3>2, <4>2, <4>3
      <4> QED BY <3>3, <4>1, <4>4
    <3>6. Contents'
      BY <2>1, <3>4, <3>5 DEF Contents
    <3>7. PoppedInOrder'
      <4>1. Len(popped') <= Len(pushed')
        BY <1>0, <1>2, <3>1, <3>2, <3>3 DEF Capacity
      <4>2. ASSUME NEW k \in 1 .. Len(popped') PROVE popped'[k] = pushed'[k]
        <5>1. CASE k = Len(popped) + 1
          BY <3>1, <3>2, <3>3, <5>1
        <5>2. CASE k \in 1 .. Len(popped)
          BY <3>1, <5>2 DEF PoppedInOrder
        <5> QED BY <3>2, <5>1, <5>2
      <4> QED BY <4>1, <4>2 DEF PoppedInOrder
    <3> QED BY <3>6, <3>7
  <2>2. CASE ~KeepHistory
    BY <2>2 DEF Contents, PoppedInOrder, Log
  <2> QED BY <2>1, <2>2
<1>12. LifetimeRespected'
  BY <1>9 DEF LifetimeRespected
<1> QED
  BY <1>7, <1>8, <1>10, <1>11, <1>12

\* The released cells are the ones handed out, so that no live cell becomes free.
LEMMA StoreReadIndexKeeps ==
    ASSUME OneConsumer, RingInv, RingTypeOK', StoreReadIndex(TheConsumer)
    PROVE  RingInv'
<1> USE DEF RingInv, StoreReadIndex
<1> DEFINE n == consumer[TheConsumer].n
<1>0. /\ consumer \in [Consumers -> ConsumerLocals] /\ TheConsumer \in Consumers
      /\ consumer[TheConsumer] \in ConsumerLocals
      /\ write_index \in Index /\ read_index \in Index
      /\ Available \in 0 .. Capacity /\ Held \in 0 .. Available
      /\ \A x \in Index : Offset(x) \in 0 .. Capacity
      /\ MaxSize \in Nat /\ MaxSize >= 2
  BY RingFacts DEF RingTypeOK
<1>1. /\ consumer[TheConsumer].r = read_index
      /\ Held = n /\ n \in 0 .. Capacity /\ n <= Available
      /\ read_index' = NewReadIndex(read_index, n)
  BY <1>0 DEF ConsumerOwns, Held, Capacity
<1>2. consumer'[TheConsumer].pc = "idle"
  BY <1>0 DEF IdleConsumer
<1>3. Held' = 0
  BY <1>2 DEF Held
<1>4. \A x \in Index : n <= Offset(x) => Offset(x)' = Offset(x) - n
  BY <1>0, <1>1, ReleaseShifts DEF Offset
<1>5. \A x \in Index : Offset(x) < n => Offset(x)' = Offset(x) - n + MaxSize
  BY <1>0, <1>1, ReleaseWraps DEF Offset
<1>6. Available' = Available - n
  BY <1>0, <1>1, <1>4 DEF Available, Offset
<1>7. ProducerOwns'
  <2>1. NextIndex(write_index) # read_index => NextIndex(write_index) # read_index'
    BY <1>0, <1>1, FreeAfterRelease DEF Available, Offset
  <2> QED BY <2>1 DEF ProducerOwns
<1>8. ConsumerOwns'
  BY <1>2 DEF ConsumerOwns
<1>9. \A x \in Index : /\ Offset(x)' \in Nat
                       /\ Offset(x)' < Available' <=>
                             (Held <= Offset(x) /\ Offset(x) < Available)
  <2> SUFFICES ASSUME NEW x \in Index
               PROVE  /\ Offset(x)' \in Nat
                      /\ Offset(x)' < Available' <=>
                            (Held <= Offset(x) /\ Offset(x) < Available)
    OBVIOUS
  <2>1. CASE n <= Offset(x)
    BY <1>0, <1>1, <1>4, <1>6, <2>1 DEF Capacity
  <2>2. CASE Offset(x) < n
    BY <1>0, <1>1, <1>5, <1>6, <2>2 DEF Capacity
  <2> QED BY <1>0, <1>1, <2>1, <2>2 DEF Capacity
<1>10. LiveCells'
  BY <1>3, <1>9 DEF LiveCells
<1>11. Contents'
  <2>1. CASE KeepHistory
    <3>1. Len(pushed) = Len(popped) + Available - Held /\ Len(popped) \in Nat
      BY <2>1 DEF Contents, RingTypeOK
    <3>2. Len(pushed') = Len(popped') + Available' - Held'
      BY <1>0, <1>1, <1>3, <1>6, <3>1 DEF Capacity
    <3>3. ASSUME NEW x \in Index, Offset(x)' < Available'
          PROVE  slot'[x] = pushed'[Len(popped') + Offset(x)' - Held' + 1]
      <4>1. Held <= Offset(x) /\ Offset(x) < Available /\ Offset(x)' = Offset(x) - n
        BY <1>1, <1>4, <1>9, <3>3
      <4>2. slot[x] = pushed[Len(popped) + Offset(x) - Held + 1]
        BY <2>1, <4>1 DEF Contents
      <4>3. Len(popped) + Offset(x)' - Held' + 1 = Len(popped) + Offset(x) - Held + 1
        BY <1>0, <1>1, <1>3, <3>1, <4>1 DEF Capacity
      <4> QED BY <4>2, <4>3
    <3> QED BY <2>1, <3>2, <3>3 DEF Contents
  <2>2. CASE ~KeepHistory
    BY <2>2 DEF Contents
  <2> QED BY <2>1, <2>2
<1>12. LifetimeRespected' /\ PoppedInOrder'
  BY DEF LifetimeRespected, PoppedInOrder
<1> QED
  BY <1>7, <1>8, <1>10, <1>11, <1>12

LEMMA RingInvStep ==
    ASSUME OneConsumer
    PROVE  RingInv /\ [RingNext]_ringVars => RingInv'
<1> SUFFICES ASSUME RingInv, [RingNext]_ringVars PROVE RingInv'
  OBVIOUS
<1>1. RingTypeOK'
  <2>1. RingTypeInv
    BY DEF RingInv, RingTypeInv, ProducerValue, ProducerOwns
  <2> QED BY <2>1, RingTypeStep DEF RingTypeInv
<1>2. CASE ProducerStep
  BY <1>1, <1>2, PushFullKeeps, PushClaimKeeps, PushConstructKeeps, PushStoreKeeps
  DEF ProducerStep
<1>3. CASE \E t \in Consumers : ConsumerStep(t)
  <2>1. ConsumerStep(TheConsumer)
    BY <1>3 DEF OneConsumer
  <2> QED
    BY <1>1, <2>1, LoadWriteIndexKeeps, LoadReadIndexEmptyKeeps, LoadReadIndexKeeps,
       ConsumeElementKeeps, StoreReadIndexKeeps
    DEF ConsumerStep
<1>4. CASE UNCHANGED ringVars
  <2> USE <1>4 DEF ringVars
  <2>1. Held' = Held /\ Available' = Available /\ \A x : Offset(x)' = Offset(x)
    BY DEF Held, Available, Offset
  <2>2. ProducerOwns' /\ ConsumerOwns'
    BY <2>1 DEF RingInv, ProducerOwns, ConsumerOwns
  <2>3. LiveCells' /\ Contents'
    BY <2>1 DEF RingInv, LiveCells, Contents
  <2> QED BY <1>1, <2>2, <2>3 DEF RingInv, LifetimeRespected, PoppedInOrder
<1> QED
  BY <1>2, <1>3, <1>4 DEF RingNext

\* With one popping thread, at every moment between the indices each cell has exactly one
\* owner: the whole ownership invariant of push() and the popping calls.
THEOREM RingOwnership ==
    ASSUME OneConsumer
    PROVE  RingSpec => []RingInv
BY RingInvInit, RingInvStep, PTL DEF RingSpec

-----------------------------------------------------------------------------
(* The ring is a bounded queue. *)

\* Moving the read index over n handed out elements does not renumber the others.
LEMMA CellAfterRelease ==
    ASSUME NEW r \in Index, NEW n \in 0 .. Capacity, NEW k \in 0 .. Capacity,
           n + k <= Capacity
    PROVE  CellAt(NewReadIndex(r, n), k) = CellAt(r, n + k)
BY SpscAssumption DEF CellAt, NewReadIndex, Index, Capacity

LEMMA CellOfOffset ==
    ASSUME NEW w \in Index, NEW r \in Index
    PROVE  CellAt(r, ReadAvailable(w, r)) = w
BY SpscAssumption DEF CellAt, ReadAvailable, Index

LEMMA FullMeansCapacity ==
    ASSUME NEW w \in Index, NEW r \in Index
    PROVE  NextIndex(w) = r <=> ReadAvailable(w, r) = Capacity
BY SpscAssumption DEF ReadAvailable, NextIndex, Index, Capacity

LEMMA ItemsFacts ==
    ASSUME OneConsumer, RingInv
    PROVE  /\ Items \in Seq(Values \cup {NoValue})
           /\ Len(Items) = Available - Held
           /\ Len(Items) + Held <= Capacity
           /\ DOMAIN Items = 1 .. (Available - Held)
<1>1. /\ Available \in 0 .. Capacity /\ Held \in 0 .. Available /\ read_index \in Index
      /\ Capacity \in Nat
  BY RingFacts, SpscAssumption DEF Capacity
<1>2. ASSUME NEW k \in 1 .. (Available - Held)
      PROVE  slot[CellAt(read_index, Held + k - 1)] \in Values \cup {NoValue}
  <2>1. Held + k - 1 \in 0 .. Capacity
    BY <1>1
  <2>2. CellAt(read_index, Held + k - 1) \in Index
    BY <1>1, <2>1, CellType
  <2> QED BY <2>2 DEF RingInv, RingTypeOK
<1>3. Items \in [1 .. (Available - Held) -> Values \cup {NoValue}]
  BY <1>2 DEF Items
<1>4. Available - Held \in Nat
  BY <1>1
<1> QED
  BY <1>1, <1>3, <1>4

\* Two sequences with the same length and elements are one.
LEMMA SameItems ==
    ASSUME OneConsumer, RingInv, RingInv',
           Available' - Held' = Available - Held,
           \A k \in 1 .. (Available - Held) :
               slot'[CellAt(read_index', Held' + k - 1)] = slot[CellAt(read_index, Held + k - 1)]
    PROVE  Items' = Items
BY DEF Items

\* A step that changes neither the indices, nor a published cell, nor what is held.
LEMMA ItemsFrame ==
    ASSUME UNCHANGED <<write_index, read_index, slot, Held>>
    PROVE  Items' = Items
BY DEF Items, Available, Offset

\* Publishing appends the new element.
LEMMA PublishAppends ==
    ASSUME OneConsumer, RingInv, RingInv', PushStore
    PROVE  /\ Items' = Append(Items, producer.val)
           /\ producer.val \in Values
           /\ Len(Items) + Held < Capacity
           /\ Held' = Held
<1>0. /\ write_index \in Index /\ read_index \in Index /\ Capacity \in Nat
      /\ Available \in 0 .. Capacity /\ Held \in 0 .. Available
  BY RingFacts, SpscAssumption DEF Capacity
<1>1. /\ producer.w = write_index /\ NextIndex(write_index) # read_index /\ producer.val \in Values
      /\ UNCHANGED <<read_index, slot>> /\ write_index' = NextIndex(write_index)
  BY DEF RingInv, ProducerOwns, PushStore, Constructed
<1>2. Held' = Held
  BY DEF Held, PushStore
<1>3. Available' = Available + 1
  BY <1>0, <1>1, PublishOne DEF Available, Offset
<1>4. Available < Capacity
  BY <1>0, <1>1, FullMeansCapacity DEF Available, Offset
<1>5. slot[write_index] = producer.val
  BY DEF RingInv, Contents, PushStore, Constructed
<1>6. CellAt(read_index, Available) = write_index
  BY <1>0, CellOfOffset DEF Available, Offset
<1>7. /\ Items \in Seq(Values \cup {NoValue}) /\ Len(Items) = Available - Held
      /\ Items' \in Seq(Values \cup {NoValue}) /\ Len(Items') = Len(Items) + 1
  <2>1. Items \in Seq(Values \cup {NoValue}) /\ Len(Items) = Available - Held
    BY ItemsFacts
  <2>2. Items' = [k \in 1 .. (Available + 1 - Held) |-> slot[CellAt(read_index, Held + k - 1)]]
    <3>1. UNCHANGED <<read_index, slot, Held>> /\ Available' = Available + 1
      BY <1>1, <1>2, <1>3
    <3> QED BY <1>0, <3>1 DEF Items
  <2>3. ASSUME NEW k \in 1 .. (Available + 1 - Held)
        PROVE  slot[CellAt(read_index, Held + k - 1)] \in Values \cup {NoValue}
    <3>1. Held + k - 1 \in 0 .. Capacity
      BY <1>0, <1>4
    <3>2. CellAt(read_index, Held + k - 1) \in Index
      BY <1>0, <3>1, CellType
    <3> QED BY <3>2 DEF RingInv, RingTypeOK
  <2>4. Items' \in [1 .. (Available + 1 - Held) -> Values \cup {NoValue}]
    BY <2>2, <2>3
  <2>5. Available + 1 - Held \in Nat
    BY <1>0
  <2> QED BY <1>0, <2>1, <2>4, <2>5
<1>8. ASSUME NEW k \in 1 .. Len(Items')
      PROVE  Items'[k] = Append(Items, producer.val)[k]
  <2>1. Items'[k] = slot[CellAt(read_index, Held + k - 1)]
    BY <1>0, <1>1, <1>2, <1>3, <1>7 DEF Items
  <2>2. CASE k = Len(Items) + 1
    <3>1. Held + k - 1 = Available
      BY <1>0, <1>7, <2>2
    <3> QED BY <1>1, <1>5, <1>6, <1>7, <2>1, <2>2, <3>1
  <2>3. CASE k \in 1 .. Len(Items)
    <3>1. Items[k] = slot[CellAt(read_index, Held + k - 1)]
      BY <1>7, <2>3 DEF Items
    <3>2. Append(Items, producer.val)[k] = Items[k]
      BY <1>7, <2>3
    <3> QED BY <2>1, <3>1, <3>2
  <2> QED BY <1>7, <2>2, <2>3
<1>9. Append(Items, producer.val) \in Seq(Values \cup {NoValue})
      /\ Len(Append(Items, producer.val)) = Len(Items')
  BY <1>1, <1>7
<1>10. Items' = Append(Items, producer.val)
  BY <1>7, <1>8, <1>9, SeqEqual
<1> QED
  BY <1>0, <1>1, <1>2, <1>4, <1>7, <1>10

\* Handing out takes the oldest element.
LEMMA HandOutTakesHead ==
    ASSUME OneConsumer, RingInv, RingInv', ConsumeElement(TheConsumer)
    PROVE  /\ Items # <<>>
           /\ Items' = Tail(Items)
           /\ slot[CurrentCell(TheConsumer)] = Head(Items)
           /\ Held' = Held + 1
<1>0. /\ TheConsumer \in Consumers /\ consumer \in [Consumers -> ConsumerLocals]
      /\ read_index \in Index /\ Capacity \in Nat
      /\ Available \in 0 .. Capacity /\ Held \in 0 .. Available
  BY RingFacts, SpscAssumption DEF Capacity, RingInv, RingTypeOK
<1>1. /\ consumer[TheConsumer].r = read_index /\ Held = consumer[TheConsumer].i
      /\ consumer[TheConsumer].n \in 1 .. Available
      /\ Held < consumer[TheConsumer].n
  BY DEF RingInv, ConsumerOwns, Held, ConsumeElement
<1>2. Held < Available
  BY <1>0, <1>1
<1>3. Held' = Held + 1 /\ Available' = Available /\ UNCHANGED <<read_index, slot>>
  <2>1. consumer'[TheConsumer].pc = "busy" /\ consumer'[TheConsumer].i = Held + 1
    BY <1>0, <1>1 DEF ConsumeElement
  <2> QED BY <2>1 DEF Held, Available, Offset, ConsumeElement
<1>4. /\ Items \in Seq(Values \cup {NoValue}) /\ Len(Items) = Available - Held
      /\ Items' \in Seq(Values \cup {NoValue}) /\ Len(Items') = Len(Items) - 1
  <2>1. Items \in Seq(Values \cup {NoValue}) /\ Len(Items) = Available - Held
    BY ItemsFacts
  <2>2. Items' = [k \in 1 .. (Available - (Held + 1)) |-> slot[CellAt(read_index, Held + 1 + k - 1)]]
    BY <1>3 DEF Items
  <2>3. ASSUME NEW k \in 1 .. (Available - (Held + 1))
        PROVE  slot[CellAt(read_index, Held + 1 + k - 1)] \in Values \cup {NoValue}
    <3>1. Held + 1 + k - 1 \in 0 .. Capacity
      BY <1>0, <1>2
    <3>2. CellAt(read_index, Held + 1 + k - 1) \in Index
      BY <1>0, <3>1, CellType
    <3> QED BY <3>2 DEF RingInv, RingTypeOK
  <2>4. Items' \in [1 .. (Available - (Held + 1)) -> Values \cup {NoValue}]
    BY <2>2, <2>3
  <2>5. Available - (Held + 1) \in Nat
    BY <1>0, <1>2
  <2> QED BY <1>0, <2>1, <2>4, <2>5
<1>5. Items # <<>> /\ Len(Items) >= 1
  BY <1>0, <1>2, <1>4
<1>6. Head(Items) = slot[CurrentCell(TheConsumer)]
  <2>1. Head(Items) = Items[1] /\ 1 \in 1 .. (Available - Held)
    BY <1>0, <1>2, <1>4, <1>5
  <2>2. Items[1] = slot[CellAt(read_index, Held + 1 - 1)] /\ Held + 1 - 1 = Held
    BY <1>0, <2>1 DEF Items
  <2> QED BY <1>1, <2>1, <2>2 DEF CurrentCell
<1>7. ASSUME NEW k \in 1 .. Len(Items')
      PROVE  Items'[k] = Tail(Items)[k]
  <2>1. Tail(Items)[k] = Items[k + 1] /\ k + 1 \in 1 .. Len(Items) /\ k \in 1 .. (Available - (Held + 1))
    BY <1>0, <1>4, <1>5
  <2>2. Items[k + 1] = slot[CellAt(read_index, Held + (k + 1) - 1)]
    BY <1>4, <2>1 DEF Items
  <2>3. Items'[k] = slot[CellAt(read_index, Held + 1 + k - 1)]
    BY <1>3, <2>1 DEF Items
  <2>4. Held + 1 + k - 1 = Held + (k + 1) - 1
    BY <1>0
  <2> QED BY <2>1, <2>2, <2>3, <2>4
<1>8. Tail(Items) \in Seq(Values \cup {NoValue}) /\ Len(Tail(Items)) = Len(Items')
  BY <1>4, <1>5
<1>9. Items' = Tail(Items)
  BY <1>4, <1>7, <1>8, SeqEqual
<1> QED
  BY <1>3, <1>5, <1>6, <1>9

\* Releasing the cells of a call leaves the elements alone.
LEMMA ReleaseKeepsItems ==
    ASSUME OneConsumer, RingInv, RingInv', StoreReadIndex(TheConsumer)
    PROVE  Items' = Items /\ Held # 0 /\ Held' = 0
<1> DEFINE n == consumer[TheConsumer].n
<1>0. /\ TheConsumer \in Consumers /\ consumer \in [Consumers -> ConsumerLocals]
      /\ write_index \in Index /\ read_index \in Index /\ Capacity \in Nat
      /\ Available \in 0 .. Capacity /\ Held \in 0 .. Available
  BY RingFacts, SpscAssumption DEF Capacity, RingInv, RingTypeOK
<1>1. /\ consumer[TheConsumer].r = read_index /\ Held = n /\ n \in 1 .. Available
      /\ read_index' = NewReadIndex(read_index, n) /\ UNCHANGED <<write_index, slot>>
  BY DEF RingInv, ConsumerOwns, Held, StoreReadIndex
<1>2. Held' = 0
  <2>1. consumer'[TheConsumer].pc = "idle"
    BY <1>0 DEF StoreReadIndex, IdleConsumer
  <2> QED BY <2>1 DEF Held
<1>3. n \in 0 .. Capacity /\ Available' = Available - n
  BY <1>0, <1>1, ReleaseShifts DEF Available, Offset
<1> HIDE DEF n
<1>4. ASSUME NEW k \in 1 .. (Available - Held)
      PROVE  slot'[CellAt(read_index', Held' + k - 1)] = slot[CellAt(read_index, Held + k - 1)]
  <2>1. k - 1 \in 0 .. Capacity /\ n + (k - 1) <= Capacity
        /\ Held' + k - 1 = k - 1 /\ Held + k - 1 = n + (k - 1)
    BY <1>0, <1>1, <1>2, <1>3
  <2>2. CellAt(NewReadIndex(read_index, n), k - 1) = CellAt(read_index, n + (k - 1))
    BY <1>0, <1>3, <2>1, CellAfterRelease
  <2> QED BY <1>1, <2>1, <2>2
<1>5. Available' - Held' = Available - Held
  BY <1>0, <1>1, <1>2, <1>3
<1> QED
  BY <1>0, <1>1, <1>2, <1>4, <1>5, SameItems

\* What each step of the ring is for a user of the queue.
LEMMA RingStepIsQueueStep ==
    ASSUME OneConsumer, RingInv, RingInv', [RingNext]_ringVars
    PROVE  [Queue!Next]_(Queue!vars)
<1> USE DEF Queue!vars
<1>0. /\ write_index \in Index /\ read_index \in Index /\ Capacity \in Nat
      /\ Available \in 0 .. Capacity /\ Held \in 0 .. Available
      /\ Items \in Seq(Values \cup {NoValue}) /\ Len(Items) = Available - Held
  BY RingFacts, ItemsFacts, SpscAssumption DEF Capacity
<1>1. ASSUME NEW v \in Values, PushFull(v) PROVE Queue!Refuse(v)
  <2>1. Items' = Items /\ Held' = Held
    BY <1>1 DEF PushFull, Items, Available, Offset, Held
  <2>2. Available = Capacity
    BY <1>0, <1>1, FullMeansCapacity DEF PushFull, Full, Available, Offset
  <2> QED BY <1>0, <1>1, <2>1, <2>2 DEF PushFull, Log, Queue!Log, Queue!Refuse
<1>2. CASE PushStore
  BY <1>2, PublishAppends DEF PushStore, Log, Queue!Log, Queue!Next, Queue!Push
<1>3. CASE ConsumeElement(TheConsumer)
  BY <1>3, HandOutTakesHead DEF ConsumeElement, Log, Queue!Log, Queue!Next, Queue!Pop
<1>4. CASE StoreReadIndex(TheConsumer)
  BY <1>4, ReleaseKeepsItems DEF StoreReadIndex, Queue!Next, Queue!Release
<1>5. CASE PushConstruct
  <2>1. Held' = Held /\ Available' = Available
    BY <1>5 DEF PushConstruct, Held, Available, Offset
  <2>2. producer.w = write_index
    BY <1>5 DEF PushConstruct, RingInv, ProducerOwns
  <2>3. ASSUME NEW k \in 1 .. (Available - Held)
        PROVE  slot'[CellAt(read_index', Held' + k - 1)] = slot[CellAt(read_index, Held + k - 1)]
    <3>1. Held + k - 1 \in 0 .. Capacity /\ Held + k - 1 < Available
      BY <1>0
    <3>2. CellAt(read_index, Held + k - 1) \in Index /\ CellAt(read_index, Held + k - 1) # write_index
      BY <1>0, <3>1, CellType, OffsetOfCell DEF Available, Offset
    <3> QED BY <1>5, <2>1, <2>2, <3>2 DEF PushConstruct, RingInv, RingTypeOK
  <2>4. Items' = Items
    BY <2>1, <2>3, SameItems
  <2> QED BY <1>5, <2>1, <2>4 DEF PushConstruct
<1>6. ASSUME NEW v \in Values, PushClaim(v) PROVE UNCHANGED Queue!vars
  <2>1. Held' = Held
    BY <1>6 DEF PushClaim, Held
  <2> QED BY <1>6, <2>1, ItemsFrame DEF PushClaim
<1>7. ASSUME \/ LoadWriteIndex(TheConsumer) \/ LoadReadIndexEmpty(TheConsumer)
             \/ \E all \in BOOLEAN : LoadReadIndex(TheConsumer, all)
      PROVE  UNCHANGED Queue!vars
  <2>1. TheConsumer \in Consumers /\ consumer \in [Consumers -> ConsumerLocals]
    BY RingFacts DEF RingInv, RingTypeOK
  <2>2. Held' = Held
    BY <1>7, <2>1 DEF LoadWriteIndex, LoadReadIndexEmpty, LoadReadIndex, IdleConsumer, Held
  <2> QED BY <1>7, <2>2, ItemsFrame DEF LoadWriteIndex, LoadReadIndexEmpty, LoadReadIndex
<1>8. CASE UNCHANGED ringVars
  <2>1. Held' = Held
    BY <1>8 DEF ringVars, Held
  <2> QED BY <1>8, <2>1, ItemsFrame DEF ringVars
<1>9. CASE \E t \in Consumers : ConsumerStep(t)
  <2>1. ConsumerStep(TheConsumer)
    BY <1>9 DEF OneConsumer
  <2> QED BY <2>1, <1>3, <1>4, <1>7 DEF ConsumerStep
<1>10. CASE ProducerStep
  BY <1>1, <1>2, <1>5, <1>6, <1>10 DEF ProducerStep, Queue!Next
<1> QED
  BY <1>8, <1>9, <1>10 DEF RingNext

\* With one pushing and one popping thread, the ring implements the bounded queue for every
\* capacity and any amount of traffic: the separate steps of claiming, constructing and publishing a cell, and of
\* loading the indices, handing out and releasing, are one Push, Refuse, Pop or Release or
\* nothing to its users.
THEOREM RingImplementsQueue ==
    ASSUME OneConsumer
    PROVE  RingSpec => ImplementsBoundedQueue
<1>1. RingInit => Queue!Init
  <2> SUFFICES ASSUME RingInit PROVE Queue!Init
    OBVIOUS
  <2>1. RingInv
    BY RingInvInit
  <2>2. Held = 0
    BY DEF RingInit, Held, OneConsumer, IdleConsumer
  <2>3. Available = 0
    BY SpscAssumption DEF RingInit, Available, Offset, ReadAvailable
  <2>4. Items = <<>>
    BY <2>1, <2>2, <2>3, ItemsFacts
  <2> QED BY <2>2, <2>4 DEF RingInit, Queue!Init
<1>2. RingSpec => []RingInv
  BY RingOwnership
<1>3. RingInv /\ RingInv' /\ [RingNext]_ringVars => [Queue!Next]_(Queue!vars)
  BY RingStepIsQueueStep
<1> QED
  BY <1>1, <1>2, <1>3, PTL DEF RingSpec, ImplementsBoundedQueue, Queue!Spec

=============================================================================
