----------------------------- MODULE SpscQueue ------------------------------
(***************************************************************************)
(* boost::lockfree::spsc_queue as EmuRPC uses it for client_emu: a ring of *)
(* MaxSize = capacity + 1 cells between two atomic indices.  One thread    *)
(* pushes.  The threads in Consumers pop; the queue is written for exactly *)
(* one of them, and it is the instantiation that says how many there are.  *)
(*                                                                         *)
(* A step is one access that another thread can see: an atomic load or     *)
(* store of an index, or the construction, use and destruction of one      *)
(* element.  The acquire/release order of the indices makes this           *)
(* interleaving exact for the threads that respect the contract.           *)
(***************************************************************************)
EXTENDS Integers, Sequences

CONSTANTS
    MaxSize,      \* cells of the ring: one more than the capacity
    Consumers,    \* the threads that pop
    Values,       \* what is queued
    NoValue,      \* content of a cell that was never constructed
    MaxPushes,    \* bound: accepted and refused pushes, when history is kept
    KeepHistory   \* FALSE drops the histories: unbounded traffic, finite state

ASSUME SpscAssumption ==
    /\ MaxSize \in Nat /\ MaxSize >= 2
    /\ MaxPushes \in Nat
    /\ KeepHistory \in BOOLEAN
    /\ NoValue \notin Values

VARIABLES
    write_index,  \* write_index_
    read_index,   \* read_index_
    slot,         \* the bytes of every cell
    live,         \* the cells that hold a constructed, undestroyed object
    producer,     \* locals of the push() in progress
    consumer,     \* locals of the popping call in progress, per thread
    ub,           \* a cell was used, destroyed or overwritten against its lifetime
    pushed,       \* history: the values push() accepted
    popped,       \* history: the values handed to a popping call
    refused       \* history: the values push() refused

indexVars == <<write_index, read_index>>
historyVars == <<pushed, popped, refused>>
ringVars == <<write_index, read_index, slot, live, producer, consumer, ub,
              pushed, popped, refused>>

Index == 0 .. (MaxSize - 1)
Capacity == MaxSize - 1

Log(history, v) == IF KeepHistory THEN Append(history, v) ELSE history

-----------------------------------------------------------------------------
(* Index arithmetic of ringbuffer_base. *)

NextIndex(arg) == IF arg + 1 >= MaxSize THEN arg + 1 - MaxSize ELSE arg + 1

ReadAvailable(w, r) == IF w >= r THEN w - r ELSE w + MaxSize - r

\* The cell of the i-th element from r: consume_all walks the cells in two sections.
CellAt(r, i) == IF r + i >= MaxSize THEN r + i - MaxSize ELSE r + i

\* The new read index after n elements; for n = 1 it is next_index(r).
NewReadIndex(r, n) ==
    IF r + n > MaxSize THEN r + n - MaxSize
    ELSE IF r + n = MaxSize THEN 0 ELSE r + n

-----------------------------------------------------------------------------
IdleProducer == [pc |-> "idle", w |-> 0, val |-> NoValue]
IdleConsumer == [pc |-> "idle", w |-> 0, r |-> 0, n |-> 0, i |-> 0]

RingInit ==
    /\ write_index = 0
    /\ read_index = 0
    /\ slot = [i \in Index |-> NoValue]
    /\ live = {}
    /\ producer = IdleProducer
    /\ consumer = [t \in Consumers |-> IdleConsumer]
    /\ ub = FALSE
    /\ pushed = <<>>
    /\ popped = <<>>
    /\ refused = <<>>

(* push(): load both indices and compare; construct the element; publish it. *)

Full == NextIndex(write_index) = read_index

PushFull(v) ==
    /\ producer.pc = "idle"
    /\ Full
    /\ refused' = Log(refused, v)
    /\ UNCHANGED <<write_index, read_index, slot, live, producer, consumer,
                   ub, pushed, popped>>

PushClaim(v) ==
    /\ producer.pc = "idle"
    /\ ~Full
    /\ producer' = [pc |-> "claimed", w |-> write_index, val |-> v]
    /\ UNCHANGED <<write_index, read_index, slot, live, consumer, ub,
                   pushed, popped, refused>>

PushConstruct ==
    /\ producer.pc = "claimed"
    /\ slot' = [slot EXCEPT ![producer.w] = producer.val]
    /\ live' = live \cup {producer.w}
    /\ ub' = (ub \/ producer.w \in live)
    /\ producer' = [producer EXCEPT !.pc = "built"]
    /\ UNCHANGED <<write_index, read_index, consumer, pushed, popped, refused>>

\* Mutant: the element may be published before it is constructed.
ConstructedEarly == producer.pc # "idle"

Constructed == producer.pc = "built"

PushStore ==
    /\ Constructed
    /\ write_index' = NextIndex(producer.w)
    /\ pushed' = Log(pushed, producer.val)
    /\ producer' = IdleProducer
    /\ UNCHANGED <<read_index, slot, live, consumer, ub, popped, refused>>

(* consume_one(), consume_all() and pop_to_output_iterator(): load the write *)
(* index, load the read index, hand out and destroy elements one by one, and *)
(* store the new read index.                                                 *)

LoadWriteIndex(t) ==
    /\ consumer[t].pc = "idle"
    /\ consumer' = [consumer EXCEPT
           ![t] = [pc |-> "load", w |-> write_index, r |-> 0, n |-> 0, i |-> 0]]
    /\ UNCHANGED <<write_index, read_index, slot, live, producer, ub,
                   pushed, popped, refused>>

\* The call finds the ring empty and returns false or 0.
LoadReadIndexEmpty(t) ==
    /\ consumer[t].pc = "load"
    /\ ReadAvailable(consumer[t].w, read_index) = 0
    /\ consumer' = [consumer EXCEPT ![t] = IdleConsumer]
    /\ UNCHANGED <<write_index, read_index, slot, live, producer, ub,
                   pushed, popped, refused>>

\* The call will hand out one element, or all that it saw.
LoadReadIndex(t, all) ==
    LET avail == ReadAvailable(consumer[t].w, read_index) IN
    /\ consumer[t].pc = "load"
    /\ avail # 0
    /\ consumer' = [consumer EXCEPT
           ![t] = [pc |-> "busy", w |-> consumer[t].w, r |-> read_index,
                   n |-> IF all THEN avail ELSE 1, i |-> 0]]
    /\ UNCHANGED <<write_index, read_index, slot, live, producer, ub,
                   pushed, popped, refused>>

\* The element the call of t uses next.
CurrentCell(t) == CellAt(consumer[t].r, consumer[t].i)

ConsumeElement(t) ==
    LET cell == CurrentCell(t) IN
    /\ consumer[t].pc = "busy"
    /\ consumer[t].i < consumer[t].n
    /\ popped' = Log(popped, slot[cell])
    /\ live' = live \ {cell}
    /\ ub' = (ub \/ cell \notin live)
    /\ consumer' = [consumer EXCEPT
           ![t] = [pc |-> "busy", w |-> consumer[t].w, r |-> consumer[t].r,
                   n |-> consumer[t].n, i |-> consumer[t].i + 1]]
    /\ UNCHANGED <<write_index, read_index, slot, producer, pushed, refused>>

StoreReadIndex(t) ==
    /\ consumer[t].pc = "busy"
    /\ consumer[t].i = consumer[t].n
    /\ read_index' = NewReadIndex(consumer[t].r, consumer[t].n)
    /\ consumer' = [consumer EXCEPT ![t] = IdleConsumer]
    /\ UNCHANGED <<write_index, slot, live, producer, ub, pushed, popped, refused>>

-----------------------------------------------------------------------------
ProducerStep ==
    \/ \E v \in Values :
          \/ Len(refused) < MaxPushes /\ PushFull(v)
          \/ Len(pushed) < MaxPushes /\ PushClaim(v)
    \/ PushConstruct
    \/ PushStore

ConsumerStep(t) ==
    \/ LoadWriteIndex(t)
    \/ LoadReadIndexEmpty(t)
    \/ \E all \in BOOLEAN : LoadReadIndex(t, all)
    \/ ConsumeElement(t)
    \/ StoreReadIndex(t)

RingNext == ProducerStep \/ \E t \in Consumers : ConsumerStep(t)

RingSpec == RingInit /\ [][RingNext]_ringVars

-----------------------------------------------------------------------------
(* What the ring must guarantee. *)

Producers == [pc : {"idle", "claimed", "built"}, w : Index, val : Values \cup {NoValue}]
ConsumerLocals == [pc : {"idle", "load", "busy"}, w : Index, r : Index,
                   n : 0 .. Capacity, i : 0 .. Capacity]

\* Every variable of the ring keeps its type: the indices never leave the storage
\* of compile_time_sized_ringbuffer and no call hands out more than the capacity.
RingTypeOK ==
    /\ write_index \in Index
    /\ read_index \in Index
    /\ slot \in [Index -> Values \cup {NoValue}]
    /\ live \in SUBSET Index
    /\ producer \in Producers
    /\ consumer \in [Consumers -> ConsumerLocals]
    /\ ub \in BOOLEAN
    /\ pushed \in Seq(Values)
    /\ popped \in Seq(Values \cup {NoValue})
    /\ refused \in Seq(Values)

\* No popping call ever uses or destroys a cell without a live object, and push()
\* never constructs over a live one: copy-construction and ~T() are always paired.
LifetimeRespected == ~ub

\* The values handed out are the values accepted, in the order of acceptance,
\* none of them twice and none of them skipped.
PoppedInOrder ==
    /\ Len(popped) <= Len(pushed)
    /\ \A k \in 1 .. Len(popped) : popped[k] = pushed[k]

-----------------------------------------------------------------------------
(* The ring seen by its one popping thread. *)

TheConsumer == CHOOSE t \in Consumers : TRUE
OneConsumer == Consumers = {TheConsumer}

\* Elements the call in progress has handed out and not released yet.
Held == IF consumer[TheConsumer].pc = "busy" THEN consumer[TheConsumer].i ELSE 0

\* Distance of a cell from the read index, and the number of published elements.
Offset(cell) == ReadAvailable(cell, read_index)
Available == Offset(write_index)

\* The push in progress owns the cell at the write index, which stays free under it.
ProducerOwns ==
    producer.pc # "idle" =>
        /\ producer.w = write_index
        /\ NextIndex(write_index) # read_index
        /\ producer.val \in Values

\* What the popping call saw is still there: the write index it loaded only went on, and
\* nobody else moved the read index.
ConsumerOwns ==
    LET me == consumer[TheConsumer] IN
    /\ me.pc = "load" => Offset(me.w) <= Available
    /\ me.pc = "busy" =>
          /\ me.r = read_index
          /\ me.n \in 1 .. Available
          /\ me.i <= me.n

\* The live objects are the published ones that were not handed out, and the new one.
LiveCells ==
    \A cell \in Index :
        cell \in live <=> \/ Held <= Offset(cell) /\ Offset(cell) < Available
                          \/ producer.pc = "built" /\ cell = write_index

\* The cells hold what was accepted and not handed out yet, in order.
Contents ==
    /\ producer.pc = "built" => slot[write_index] = producer.val
    /\ IF KeepHistory
       THEN /\ Len(pushed) = Len(popped) + Available - Held
            /\ \A cell \in Index :
                  Held <= Offset(cell) /\ Offset(cell) < Available =>
                      slot[cell] = pushed[Len(popped) + Offset(cell) - Held + 1]
       ELSE pushed = <<>> /\ popped = <<>>

\* The inductive invariant behind LifetimeRespected and PoppedInOrder: which thread owns
\* which cell between the indices, at every step of both calls.
RingInv ==
    /\ RingTypeOK
    /\ ProducerOwns
    /\ ConsumerOwns
    /\ LiveCells
    /\ Contents
    /\ LifetimeRespected
    /\ PoppedInOrder

Items == [k \in 1 .. (Available - Held) |-> slot[CellAt(read_index, Held + k - 1)]]

Queue == INSTANCE BoundedQueue WITH items <- Items, held <- Held

\* With one pushing and one popping thread the ring implements the bounded queue,
\* although elements are published, handed out and released in separate steps.
ImplementsBoundedQueue == Queue!Spec
=============================================================================
