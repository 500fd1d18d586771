------------------------- MODULE EmuRPCServiceProofs -------------------------
(***************************************************************************)
(* Proofs about what EmuRPC::Impl does for its clients: no request is lost  *)
(* sight of, callbacks run in order, flow control works, nothing is used    *)
(* after it was freed, and the instance implements module Dispatcher.       *)
(***************************************************************************)
EXTENDS EmuRPCProofs

-----------------------------------------------------------------------------
(* Shutdown: who still runs when the members of Impl die. *)

\* ~Impl has joined the server thread before it stops the io thread, and that one, too,
\* before the instance is gone; ioc->run() returns between two handlers.
JoinInv ==
    /\ pc["emu"] \in {"join_io", "destroyed"} => pc["server"] = "exited"
    /\ pc["emu"] = "destroyed" => io = "exited"
    /\ io = "exited" => producer.pc = "idle"

LEMMA JoinInit == Init => JoinInv
BY DEF Init, JoinInv, RingInit, IdleProducer

\* Only the server thread itself moves its program counter, and no step leaves "exited".
LEMMA ServerStays ==
    ASSUME TypeInv, [Next]_vars, pc["server"] = "exited"
    PROVE  ~ServerStep /\ pc'["server"] = "exited"
<1>1. ~ServerStep
  BY DEF ServerStep, CheckStopped, SendResponse, ResponsesDone, RunCallback, AllocationFails,
         PushResponse, Pop, PopBegin, PopEmpty, PopSome, PopElement, PopEnd, PopSites,
         HandleTiming, Lookup, CheckBlocking
<1>2. ASSUME NEW label, Goto("emu", label) PROVE pc'["server"] = pc["server"]
  BY <1>2 DEF Goto, TypeInv, TypeOK, Threads
<1>3. CASE EmuStep \/ ReportTiming \/ Destroy
  <2>1. \/ \E label : Goto("emu", label)
        \/ UNCHANGED pc
    BY <1>3
    DEF EmuStep, JoinServer, JoinIo, Jump, ReportTiming, Destroy, Pop, PopBegin, PopEmpty, PopSome,
        PopElement, PopEnd, HandleTiming, Lookup, CheckBlocking, implVars
  <2> QED BY <1>1, <1>2, <2>1
<1>4. CASE \/ \E v \in Values : OnReadRequest(v)
           \/ OnReadMalformed \/ OnReadPush \/ IoExit \/ Abort \/ Halted \/ UNCHANGED vars
  BY <1>1, <1>4 DEF OnReadRequest, OnReadMalformed, OnReadPush, IoExit, Abort, Halted, vars, implVars
<1> QED
  BY <1>1, <1>3, <1>4 DEF Next

LEMMA JoinStep == TypeInv /\ JoinInv /\ [Next]_vars => JoinInv'
<1> SUFFICES ASSUME TypeInv, JoinInv, [Next]_vars PROVE JoinInv'
  OBVIOUS
<1>0. pc \in [Threads -> ServerLabels \cup TimingLabels \cup EmuLabels] /\ Threads = {"server", "emu"}
  BY DEF TypeInv, TypeOK, Threads
\* The server thread does not change what JoinInv says of the others.
<1>1. CASE ServerStep
  <2>1. pc["server"] # "exited"
    BY <1>1, ServerStays
  <2>2. pc["emu"] \notin {"join_io", "destroyed"}
    BY <2>1 DEF JoinInv
  <2>3. UNCHANGED <<io, producer>> /\ pc'["emu"] = pc["emu"]
    <3>1. ASSUME NEW label, Goto("server", label) PROVE pc'["emu"] = pc["emu"]
      BY <1>0, <3>1 DEF Goto
    <3>2. UNCHANGED <<io, producer>>
      BY <1>1
      DEF ServerStep, CheckStopped, SendResponse, ResponsesDone, RunCallback, AllocationFails,
          PushResponse, Pop, PopBegin, PopEmpty, PopSome, PopElement, PopEnd, HandleTiming, Lookup,
          CheckBlocking, Jump, ringVars, implVars, shared, LoadWriteIndex, LoadReadIndexEmpty,
          LoadReadIndex, ConsumeElement, StoreReadIndex
    <3>3. (\E label : Goto("server", label)) \/ UNCHANGED pc
      BY <1>1
      DEF ServerStep, CheckStopped, SendResponse, ResponsesDone, RunCallback, AllocationFails,
          PushResponse, Pop, PopBegin, PopEmpty, PopSome, PopElement, PopEnd, HandleTiming, Lookup,
          CheckBlocking, Jump, implVars
    <3> QED BY <3>1, <3>2, <3>3
  <2> QED BY <2>2, <2>3 DEF JoinInv
<1>2. CASE EmuStep \/ ReportTiming \/ Destroy
  <2>1. CASE JoinServer
    BY <1>0, <2>1 DEF JoinServer, ServerJoined, Goto, JoinInv, ringVars
  <2>2. CASE JoinIo
    BY <1>0, <2>2 DEF JoinIo, Jump, Goto, JoinInv, ringVars, shared
  <2>3. CASE ReportTiming \/ Destroy
    BY <1>0, <2>3 DEF ReportTiming, Destroy, Goto, JoinInv, ringVars
  <2>4. CASE Pop("emu") \/ HandleTiming("emu")
    <3>1. UNCHANGED <<io, producer>> /\ pc'["emu"] \notin {"join_io", "destroyed"}
      BY <1>0, <2>4
      DEF Pop, PopBegin, PopEmpty, PopSome, PopElement, PopEnd, HandleTiming, Lookup, PopSites,
          CheckBlocking, Jump, Goto, AfterEmptyPop, AfterPop, TimingReturns, ringVars, implVars, shared,
          LoadWriteIndex, LoadReadIndexEmpty, LoadReadIndex, ConsumeElement, StoreReadIndex
    <3> QED BY <3>1 DEF JoinInv
  <2> QED BY <1>2, <2>1, <2>2, <2>3, <2>4 DEF EmuStep
<1>3. CASE \E v \in Values : OnReadRequest(v)
  BY <1>3 DEF OnReadRequest, implVars, shared, JoinInv
<1>4. CASE OnReadPush
  BY <1>4 DEF OnReadPush, PushConstruct, PushStore, Constructed, implVars, shared, JoinInv
<1>5. CASE OnReadMalformed \/ IoExit \/ Abort \/ Halted \/ UNCHANGED vars
  BY <1>5 DEF OnReadMalformed, IoExit, Abort, Halted, vars, implVars, shared, ringVars, JoinInv
<1> QED
  BY <1>1, <1>2, <1>3, <1>4, <1>5 DEF Next

\* After the server thread was joined no step touches the queues from its side, and after
\* the instance is gone no step touches it at all: for every number of threads that pop,
\* however the emulator reports timings, and even after undefined behaviour.
THEOREM NoUseAfterFreeCorrect == Spec => NoUseAfterFree
<1>1. ASSUME TypeInv, JoinInv, [Next]_vars, pc["emu"] = "join_io"
      PROVE  UNCHANGED <<read_index, consumer, emu_client, sent>>
  <2>1. pc["server"] = "exited" /\ ~ServerStep
    BY <1>1, ServerStays DEF JoinInv
  <2>2. CASE EmuStep \/ ReportTiming \/ Destroy
    BY <1>1, <2>2
    DEF EmuStep, JoinServer, JoinIo, Jump, ReportTiming, Destroy, Pop, PopBegin, PopEmpty, PopSome,
        PopElement, PopEnd, PopSites, HandleTiming, Lookup, CheckBlocking, ringVars, emuHistory
  <2>3. CASE \/ \E v \in Values : OnReadRequest(v)
             \/ OnReadMalformed \/ OnReadPush \/ IoExit \/ Abort \/ Halted \/ UNCHANGED vars
    BY <2>3
    DEF OnReadRequest, PushClaim, PushFull, OnReadMalformed, OnReadPush, PushConstruct, PushStore,
        IoExit, Abort, Halted, vars, implVars, emuHistory, ringVars
  <2> QED BY <1>1, <2>1, <2>2, <2>3 DEF Next
<1>2. ASSUME TypeInv, JoinInv, [Next]_vars, pc["emu"] = "destroyed"
      PROVE  UNCHANGED <<ringVars, emu_client, callbacks, sent>>
  <2>1. pc["server"] = "exited" /\ ~ServerStep /\ io = "exited" /\ producer.pc = "idle"
    BY <1>2, ServerStays DEF JoinInv
  <2>2. ~(EmuStep \/ ReportTiming \/ Destroy)
    BY <1>2
    DEF EmuStep, JoinServer, JoinIo, ReportTiming, Destroy, Pop, PopBegin, PopEmpty, PopSome,
        PopElement, PopEnd, PopSites, HandleTiming, Lookup, CheckBlocking
  <2>3. ~((\E v \in Values : OnReadRequest(v)) \/ OnReadMalformed \/ OnReadPush \/ IoExit)
    BY <2>1 DEF OnReadRequest, OnReadMalformed, OnReadPush, PushConstruct, PushStore, Constructed, IoExit
  <2>4. CASE Abort \/ Halted \/ UNCHANGED vars
    BY <2>4 DEF Abort, Halted, vars, implVars, shared, emuHistory
  <2> QED BY <1>2, <2>1, <2>2, <2>3, <2>4 DEF Next
<1>3. TypeInv /\ JoinInv /\ [Next]_vars =>
        [ /\ pc["emu"] = "join_io" => UNCHANGED <<read_index, consumer, emu_client, sent>>
          /\ pc["emu"] = "destroyed" => UNCHANGED <<ringVars, emu_client, callbacks, sent>> ]_vars
  BY <1>1, <1>2
<1> QED
  BY <1>3, TypeInit, TypeStep, JoinInit, JoinStep, PTL DEF Spec, NoUseAfterFree

-----------------------------------------------------------------------------
(* Accounting: where every popped request is, whoever pops. *)

\* The popping call of the server thread is in progress only at the places that pop, and
\* pop(req) takes one element; HandleTiming has recorded what its call has taken so far.
ServerCall ==
    /\ consumer["server"].pc # "busy" => consumer["server"].i = 0
    /\ pc["server"] \notin PopSites => consumer["server"].pc = "idle"
    /\ pc["server"] = "requests" /\ consumer["server"].pc = "busy" =>
          consumer["server"].n = 1 /\ consumer["server"].i \in {0, 1}
    /\ pc["server"] \in {"consume_all", "pop_blocked"} => consumer["server"].i <= Len(discarded)

\* Until something is discarded, what was handled is what was popped, but for the request
\* the server thread holds.
HandledIsPopped ==
    discarded = <<>> =>
        /\ \A k \in 1 .. Len(handled) : handled[k] = popped[k]
        /\ Popped => req = popped[Len(popped)]

ServiceInv == ServerCall /\ PoppedAccounted /\ HandledIsPopped

LEMMA ServiceInit == Init => ServiceInv
<1> SUFFICES ASSUME Init PROVE ServiceInv
  OBVIOUS
<1>1. pc["server"] = "check" /\ consumer["server"] = IdleConsumer
  BY EmuRPCAssumption DEF Init, RingInit
<1>2. ~Popped /\ ~Answering
  BY <1>1 DEF Popped, Answering, TimingLabels
<1>3. /\ Len(popped) = 0 /\ Len(handled) = 0 /\ Len(discarded) = 0 /\ Len(answered) = 0
      /\ Len(lost) = 0 /\ One(Popped) = 0 /\ One(Answering) = 0
  BY <1>2 DEF Init, RingInit, One
<1>4. PoppedAccounted
  BY <1>3 DEF PoppedAccounted
<1>5. ServerCall
  BY <1>1 DEF ServerCall, IdleConsumer
<1>6. HandledIsPopped
  BY <1>2, <1>3 DEF HandledIsPopped
<1> QED
  BY <1>4, <1>5, <1>6 DEF ServiceInv

LEMMA LogAppends ==
    ASSUME KeepHistory, NEW S, NEW h \in Seq(S), NEW v \in S
    PROVE  /\ Len(Log(h, v)) = Len(h) + 1 /\ Log(h, v) # <<>>
           /\ Log(h, v)[Len(h) + 1] = v
           /\ \A k \in 1 .. Len(h) : Log(h, v)[k] = h[k]
BY DEF Log

LEMMA LogPopped ==
    ASSUME KeepHistory, NEW h \in Seq(Values \cup {NoValue}), NEW v \in Values \cup {NoValue}
    PROVE  /\ Len(Log(h, v)) = Len(h) + 1 /\ Log(h, v) # <<>>
           /\ Log(h, v)[Len(h) + 1] = v
           /\ \A k \in 1 .. Len(h) : Log(h, v)[k] = h[k]
BY LogAppends

\* The steps that concern neither the server thread nor its histories.
LEMMA ServiceFrame ==
    ASSUME ServiceInv, UNCHANGED <<popped, handled, discarded, answered, lost, req>>,
           pc'["server"] = pc["server"], consumer'["server"] = consumer["server"]
    PROVE  ServiceInv'
<1>1. Popped' = Popped /\ Answering' = Answering
  BY DEF Popped, Answering
<1>2. ServerCall'
  BY DEF ServiceInv, ServerCall
<1>3. PoppedAccounted'
  BY <1>1 DEF ServiceInv, PoppedAccounted, One
<1>4. HandledIsPopped'
  BY <1>1 DEF ServiceInv, HandledIsPopped
<1> QED
  BY <1>2, <1>3, <1>4 DEF ServiceInv

LEMMA HistoryTypes ==
    ASSUME TypeInv
    PROVE  /\ popped \in Seq(Values \cup {NoValue}) /\ handled \in Seq(Values)
           /\ discarded \in Seq(Values \cup {NoValue}) /\ answered \in Seq(Values)
           /\ lost \in Seq(Values)
           /\ Len(popped) \in Nat /\ Len(handled) \in Nat /\ Len(discarded) \in Nat
           /\ Len(answered) \in Nat /\ Len(lost) \in Nat
           /\ pc \in [Threads -> ServerLabels \cup TimingLabels \cup EmuLabels]
           /\ consumer \in [Consumers -> ConsumerLocals]
           /\ "server" \in Consumers /\ Threads = {"server", "emu"}
           /\ consumer["server"].i \in Nat /\ consumer["server"].n \in Nat
<1>1. consumer \in [Consumers -> ConsumerLocals] /\ "server" \in Consumers
  BY EmuRPCAssumption DEF TypeInv, TypeOK, RingTypeOK
<1>2. consumer["server"].i \in Nat /\ consumer["server"].n \in Nat
  BY <1>1, SpscAssumption DEF ConsumerLocals, Capacity
<1> QED
  BY <1>1, <1>2 DEF TypeInv, TypeOK, RingTypeOK, Threads

LEMMA PoppedElementType ==
    ASSUME TypeInv, NEW t \in Consumers
    PROVE  slot[CurrentCell(t)] \in Values \cup {NoValue}
<1>1. consumer[t] \in ConsumerLocals
  BY DEF TypeInv, TypeOK, RingTypeOK
<1>2. CurrentCell(t) \in Index
  BY <1>1, CellType DEF CurrentCell, ConsumerLocals
<1> QED BY <1>2 DEF TypeInv, TypeOK, RingTypeOK

\* What the emulator pops, it discards.
LEMMA EmuPopKeepsService ==
    ASSUME KeepHistory, TypeInv, ServiceInv, "emu" \in Consumers, Pop("emu")
    PROVE  ServiceInv'
<1>0. /\ pc["emu"] # "requests"
      /\ pc \in [Threads -> ServerLabels \cup TimingLabels \cup EmuLabels] /\ Threads = {"server", "emu"}
      /\ consumer \in [Consumers -> ConsumerLocals] /\ "server" \in Consumers
  BY HistoryTypes DEF TypeInv, TypeOK, EmuLabels, TimingLabels
<1>1. consumer'["server"] = consumer["server"] /\ pc'["server"] = pc["server"]
  <2>1. \E x : consumer' = [consumer EXCEPT !["emu"] = x]
    BY DEF Pop, PopBegin, PopEmpty, PopSome, PopElement, PopEnd, LoadWriteIndex, LoadReadIndexEmpty,
           LoadReadIndex, ConsumeElement, StoreReadIndex
  <2>2. (\E label : Goto("emu", label)) \/ UNCHANGED pc
    BY DEF Pop, PopBegin, PopEmpty, PopSome, PopElement, PopEnd, implVars
  <2> QED BY <1>0, <2>1, <2>2 DEF Goto
<1>2. CASE PopBegin("emu") \/ PopEmpty("emu") \/ PopSome("emu") \/ PopEnd("emu")
  BY <1>1, <1>2, ServiceFrame
  DEF PopBegin, PopEmpty, PopSome, PopEnd, LoadWriteIndex, LoadReadIndexEmpty, LoadReadIndex,
      StoreReadIndex, implVars, emuHistory
<1>3. CASE PopElement("emu")
  <2> DEFINE v == slot[CurrentCell("emu")]
  <2>1. v \in Values \cup {NoValue}
    BY PoppedElementType
  <2>2. /\ popped' = Log(popped, v) /\ discarded' = Log(discarded, v)
        /\ UNCHANGED <<handled, answered, lost, req>>
    BY <1>0, <1>3 DEF PopElement, ConsumeElement
  <2> HIDE DEF v
  <2>3. Len(popped') = Len(popped) + 1 /\ Len(discarded') = Len(discarded) + 1 /\ discarded' # <<>>
    BY <2>1, <2>2, LogPopped, HistoryTypes
  <2>4. Popped' = Popped /\ Answering' = Answering
    BY <1>1 DEF Popped, Answering
  <2>5. PoppedAccounted'
    BY <2>2, <2>3, <2>4, HistoryTypes DEF ServiceInv, PoppedAccounted, One
  <2>6. ServerCall'
    BY <1>1, <2>3, HistoryTypes DEF ServiceInv, ServerCall
  <2>7. HandledIsPopped'
    BY <2>3 DEF HandledIsPopped
  <2> QED BY <2>5, <2>6, <2>7 DEF ServiceInv
<1> QED
  BY <1>2, <1>3 DEF Pop

\* What the server thread pops, it holds or discards.
LEMMA ServerPopKeepsService ==
    ASSUME KeepHistory, TypeInv, ServiceInv, Pop("server")
    PROVE  ServiceInv'
<1>0. /\ pc \in [Threads -> ServerLabels \cup TimingLabels \cup EmuLabels] /\ Threads = {"server", "emu"}
      /\ consumer \in [Consumers -> ConsumerLocals] /\ "server" \in Consumers
      /\ pc["server"] \in PopSites
      /\ consumer["server"].i \in Nat /\ Len(discarded) \in Nat
  BY HistoryTypes DEF Pop, PopBegin, PopEmpty, PopSome, PopElement, PopEnd
<1>1. ASSUME UNCHANGED <<popped, handled, discarded, answered, lost, req>>,
             Popped' = Popped, Answering' = Answering, ServerCall'
      PROVE  ServiceInv'
  BY <1>1 DEF ServiceInv, PoppedAccounted, HandledIsPopped, One
<1>2. CASE PopBegin("server")
  <2>1. consumer["server"].pc = "idle" /\ consumer["server"].i = 0 /\ UNCHANGED pc
        /\ consumer'["server"].pc = "load" /\ consumer'["server"].i = 0
    BY <1>0, <1>2 DEF PopBegin, LoadWriteIndex, ServiceInv, ServerCall, implVars
  <2>2. UNCHANGED <<popped, handled, discarded, answered, lost, req>>
    BY <1>2 DEF PopBegin, LoadWriteIndex, implVars, emuHistory
  <2>3. Popped' = Popped /\ Answering' = Answering
    BY <2>1 DEF Popped, Answering
  <2>4. ServerCall'
    BY <1>0, <2>1, <2>2 DEF ServerCall
  <2> QED BY <1>1, <2>2, <2>3, <2>4
<1>3. CASE PopEmpty("server")
  <2>1. /\ consumer["server"].i = 0 /\ consumer'["server"].pc = "idle" /\ consumer'["server"].i = 0
        /\ pc'["server"] = AfterEmptyPop("server")
    BY <1>0, <1>3
    DEF PopEmpty, LoadReadIndexEmpty, IdleConsumer, ServiceInv, ServerCall, Goto
  <2>2. UNCHANGED <<popped, handled, discarded, answered, lost, req>>
    BY <1>3 DEF PopEmpty, LoadReadIndexEmpty, emuHistory
  <2>3. Popped' = Popped /\ Answering' = Answering
    BY <1>0, <2>1 DEF Popped, Answering, AfterEmptyPop, TimingReturns, PopSites, TimingLabels
  <2>4. ServerCall'
    BY <1>0, <2>1, <2>2 DEF ServerCall
  <2> QED BY <1>1, <2>2, <2>3, <2>4
<1>4. CASE PopSome("server")
  <2>1. /\ consumer["server"].i = 0 /\ consumer'["server"].pc = "busy" /\ consumer'["server"].i = 0
        /\ pc["server"] = "requests" => consumer'["server"].n = 1
        /\ UNCHANGED pc
    BY <1>0, <1>4 DEF PopSome, PopsAll, LoadReadIndex, ServiceInv, ServerCall, implVars
  <2>2. UNCHANGED <<popped, handled, discarded, answered, lost, req>>
    BY <1>4 DEF PopSome, LoadReadIndex, implVars, emuHistory
  <2>3. Popped' = Popped /\ Answering' = Answering
    BY <2>1 DEF Popped, Answering
  <2>4. ServerCall'
    BY <1>0, <2>1, <2>2 DEF ServerCall
  <2> QED BY <1>1, <2>2, <2>3, <2>4
<1>5. CASE PopElement("server")
  <2> DEFINE v == slot[CurrentCell("server")]
  <2>1. v \in Values \cup {NoValue}
    BY <1>0, PoppedElementType
  <2>2. /\ popped' = Log(popped, v) /\ UNCHANGED <<handled, answered, lost, pc>>
        /\ consumer["server"].pc = "busy" /\ consumer["server"].i < consumer["server"].n
        /\ consumer'["server"].pc = "busy" /\ consumer'["server"].n = consumer["server"].n
        /\ consumer'["server"].i = consumer["server"].i + 1
    BY <1>0, <1>5 DEF PopElement, ConsumeElement
  <2>3. IF pc["server"] = "requests" THEN req' = v /\ discarded' = discarded
                                     ELSE req' = req /\ discarded' = Log(discarded, v)
    BY <1>5 DEF PopElement
  <2> HIDE DEF v
  <2>4. /\ Len(popped') = Len(popped) + 1 /\ popped'[Len(popped) + 1] = v
        /\ \A k \in 1 .. Len(popped) : popped'[k] = popped[k]
    BY <2>1, <2>2, LogPopped, HistoryTypes
  <2>5. Answering' = Answering
    BY <2>2 DEF Answering
  <2>6. CASE pc["server"] = "requests"
    <3>1. consumer["server"].i = 0 /\ consumer["server"].n = 1 /\ consumer'["server"].i = 1
      BY <1>0, <2>2, <2>6 DEF ServiceInv, ServerCall
    <3>2. ~Popped /\ Popped'
      BY <2>2, <2>6, <3>1 DEF Popped
    <3>3. Len(popped) = Len(handled) + Len(discarded)
      BY <3>2, HistoryTypes DEF ServiceInv, PoppedAccounted, One
    <3>4. PoppedAccounted'
      BY <2>2, <2>3, <2>4, <2>5, <2>6, <3>2, <3>3, HistoryTypes DEF ServiceInv, PoppedAccounted, One
    <3>5. ServerCall'
      BY <2>2, <2>6, <3>1 DEF ServerCall, PopSites
    <3>6. ASSUME discarded' = <<>>, NEW k \in 1 .. Len(handled') PROVE handled'[k] = popped'[k]
      <4>1. k \in 1 .. Len(popped) /\ k \in 1 .. Len(handled) /\ handled' = handled
        BY <2>2, <3>3, HistoryTypes
      <4> QED BY <2>3, <2>4, <2>6, <3>6, <4>1 DEF ServiceInv, HandledIsPopped
    <3>7. HandledIsPopped'
      BY <2>3, <2>4, <2>6, <3>6 DEF HandledIsPopped
    <3> QED BY <3>4, <3>5, <3>7 DEF ServiceInv
  <2>7. CASE pc["server"] # "requests"
    <3>1. Len(discarded') = Len(discarded) + 1 /\ discarded' # <<>> /\ req' = req
      BY <2>1, <2>3, <2>7, LogPopped, HistoryTypes
    <3>2. ~Popped /\ ~Popped'
      BY <1>0, <2>2, <2>7 DEF Popped, PopSites
    <3>3. PoppedAccounted'
      BY <2>2, <2>4, <2>5, <3>1, <3>2, HistoryTypes DEF ServiceInv, PoppedAccounted, One
    <3>4. ServerCall'
      BY <1>0, <2>2, <2>7, <3>1 DEF ServiceInv, ServerCall, PopSites
    <3>5. HandledIsPopped'
      BY <3>1 DEF HandledIsPopped
    <3> QED BY <3>3, <3>4, <3>5 DEF ServiceInv
  <2> QED BY <2>6, <2>7
<1>6. CASE PopEnd("server")
  <2>1. /\ consumer["server"].pc = "busy" /\ consumer["server"].i = consumer["server"].n
        /\ consumer'["server"].pc = "idle" /\ consumer'["server"].i = 0
        /\ pc'["server"] = AfterPop("server")
    BY <1>0, <1>6 DEF PopEnd, StoreReadIndex, IdleConsumer, Goto
  <2>2. UNCHANGED <<popped, handled, discarded, answered, lost, req>>
    BY <1>6 DEF PopEnd, StoreReadIndex, emuHistory
  <2>3. Popped' = Popped /\ Answering' = Answering
    BY <1>0, <2>1 DEF Popped, Answering, AfterPop, PopSites, TimingLabels, ServiceInv, ServerCall
  <2>4. ServerCall'
    BY <1>0, <2>1, <2>2 DEF ServerCall
  <2> QED BY <1>1, <2>2, <2>3, <2>4
<1> QED
  BY <1>2, <1>3, <1>4, <1>5, <1>6 DEF Pop

\* Between two popping calls the server thread has none in progress.
LEMMA JumpKeepsCall ==
    ASSUME TypeInv, ServerCall, pc["server"] \notin PopSites, NEW label, Goto("server", label),
           UNCHANGED <<consumer, discarded>>
    PROVE  /\ ServerCall'
           /\ pc'["server"] = label /\ consumer'["server"].i = 0
<1>1. consumer["server"].pc = "idle" /\ consumer["server"].i = 0 /\ Len(discarded) \in Nat
  BY HistoryTypes DEF ServerCall
<1>2. pc'["server"] = label
  BY HistoryTypes DEF Goto
<1> QED
  BY <1>1, <1>2 DEF ServerCall

LEMMA CallbackKeepsService ==
    ASSUME KeepHistory, TypeInv, ServiceInv, RunCallback
    PROVE  ServiceInv'
<1>1. PICK label \in {"respond", "lookup"} : Goto("server", label)
  BY DEF RunCallback
<1>2. /\ UNCHANGED <<consumer, popped, discarded, answered, lost, req>>
      /\ pc["server"] = "handle" /\ req \in Values /\ handled' = Log(handled, req)
  BY DEF RunCallback, ringVars
<1>3. ServerCall' /\ pc'["server"] = label
  BY <1>1, <1>2, JumpKeepsCall DEF ServiceInv, PopSites
<1>4. Popped /\ ~Answering /\ ~Popped' /\ Answering'
  BY <1>1, <1>2, <1>3 DEF Popped, Answering, TimingLabels
<1>5. handled \in Seq(Values)
  BY HistoryTypes
<1>6. /\ Len(handled') = Len(handled) + 1 /\ handled'[Len(handled) + 1] = req
      /\ \A k \in 1 .. Len(handled) : handled'[k] = handled[k]
  BY <1>2, <1>5, LogAppends
<1>7. /\ Len(popped) = Len(handled) + Len(discarded) + 1
      /\ Len(handled) = Len(answered) + Len(lost)
  BY <1>4, HistoryTypes DEF ServiceInv, PoppedAccounted, One
<1>8. PoppedAccounted'
  BY <1>2, <1>4, <1>6, <1>7, HistoryTypes DEF PoppedAccounted, One
<1>9. ASSUME discarded = <<>>, NEW k \in 1 .. Len(handled') PROVE handled'[k] = popped[k]
  <2>1. CASE k = Len(handled) + 1
    <3>1. k = Len(popped) /\ req = popped[Len(popped)]
      BY <1>4, <1>7, <1>9, <2>1, HistoryTypes DEF ServiceInv, HandledIsPopped
    <3> QED BY <1>6, <2>1, <3>1
  <2>2. CASE k \in 1 .. Len(handled)
    BY <1>6, <1>9, <2>2 DEF ServiceInv, HandledIsPopped
  <2> QED BY <1>6, <2>1, <2>2, HistoryTypes
<1>10. HandledIsPopped'
  BY <1>2, <1>4, <1>9 DEF HandledIsPopped
<1> QED
  BY <1>3, <1>8, <1>10 DEF ServiceInv

LEMMA PushKeepsService ==
    ASSUME KeepHistory, TypeInv, ServiceInv, PushResponse
    PROVE  ServiceInv'
<1>1. /\ UNCHANGED <<consumer, popped, handled, discarded, req>>
      /\ pc["server"] = "respond" /\ Goto("server", "requests") /\ req \in Values
  BY DEF PushResponse, ringVars, TypeInv, ReqHeld
<1>2. ServerCall' /\ pc'["server"] = "requests" /\ consumer'["server"].i = 0
  BY <1>1, JumpKeepsCall DEF ServiceInv, PopSites
<1>3. ~Popped /\ Answering /\ ~Popped' /\ ~Answering'
  BY <1>1, <1>2 DEF Popped, Answering, TimingLabels
<1>4. Len(answered') + Len(lost') = Len(answered) + Len(lost) + 1
  <2>1. answered \in Seq(Values) /\ lost \in Seq(Values)
    BY HistoryTypes
  <2>2. Len(Log(answered, req)) = Len(answered) + 1 /\ Len(Log(lost, req)) = Len(lost) + 1
    BY <1>1, <2>1, LogAppends
  <2>3. \/ answered' = Log(answered, req) /\ lost' = lost
        \/ answered' = answered /\ lost' = Log(lost, req)
    BY DEF PushResponse
  <2>4. Len(answered) \in Nat /\ Len(lost) \in Nat
    BY HistoryTypes
  <2> QED BY <2>2, <2>3, <2>4
<1>5. /\ Len(popped) = Len(handled) + Len(discarded)
      /\ Len(handled) = Len(answered) + Len(lost) + 1
  BY <1>3, HistoryTypes DEF ServiceInv, PoppedAccounted, One
<1>6. Len(answered') \in Nat /\ Len(lost') \in Nat
  <2>1. answered' \in Seq(Values) /\ lost' \in Seq(Values)
    BY <1>1, LogType DEF PushResponse, TypeInv, TypeOK
  <2> QED BY <2>1
<1>7. PoppedAccounted'
  BY <1>1, <1>3, <1>4, <1>5, <1>6, HistoryTypes DEF PoppedAccounted, One
<1>8. HandledIsPopped'
  BY <1>1, <1>3 DEF ServiceInv, HandledIsPopped
<1> QED
  BY <1>2, <1>7, <1>8 DEF ServiceInv

\* The steps of the server thread that only choose where it goes next.
LEMMA MoveKeepsService ==
    ASSUME TypeInv, ServiceInv, CheckStopped \/ ResponsesDone \/ HandleTiming("server")
    PROVE  ServiceInv'
<1>1. PICK label : Goto("server", label)
  BY DEF CheckStopped, ResponsesDone, HandleTiming, Lookup, CheckBlocking, Jump
<1>2. /\ UNCHANGED <<consumer, popped, handled, discarded, answered, lost, req>>
      /\ pc["server"] \notin PopSites
  BY DEF CheckStopped, ResponsesDone, HandleTiming, Lookup, CheckBlocking, Jump, ringVars, emuHistory,
         PopSites
<1>3. ServerCall' /\ pc'["server"] = label /\ consumer'["server"].i = 0
  BY <1>1, <1>2, JumpKeepsCall DEF ServiceInv
<1>4. ~Popped /\ ~Popped' /\ Answering' = Answering
  <2>1. CASE CheckStopped
    <3>1. pc["server"] = "check" /\ pc'["server"] \in {"exited", "responses"}
      BY <2>1, HistoryTypes DEF CheckStopped, Jump, Goto, AfterCheck
    <3> QED BY <3>1 DEF Popped, Answering, TimingLabels
  <2>2. CASE ResponsesDone
    <3>1. pc["server"] = "responses" /\ pc'["server"] = "requests"
      BY <2>2, HistoryTypes DEF ResponsesDone, Jump, Goto, AfterResponses
    <3> QED BY <1>3, <3>1 DEF Popped, Answering, TimingLabels
  <2>3. CASE HandleTiming("server")
    <3>1. /\ pc["server"] \in {"lookup", "check_blocking"}
          /\ pc'["server"] \in {"consume_all", "pop_blocked", "respond"}
      BY <2>3, HistoryTypes DEF HandleTiming, Lookup, CheckBlocking, Jump, Goto, TimingReturns
    <3> QED BY <3>1 DEF Popped, Answering, TimingLabels
  <2> QED BY <2>1, <2>2, <2>3
<1>5. PoppedAccounted' /\ HandledIsPopped'
  BY <1>2, <1>4 DEF ServiceInv, PoppedAccounted, HandledIsPopped, One
<1> QED
  BY <1>3, <1>5 DEF ServiceInv

LEMMA ServiceStep ==
    ASSUME KeepHistory
    PROVE  TypeInv /\ ServiceInv /\ [Next]_vars => ServiceInv'
<1> SUFFICES ASSUME TypeInv, ServiceInv, [Next]_vars PROVE ServiceInv'
  OBVIOUS
<1>1. CASE ServerStep
  <2>1. CASE SendResponse \/ AllocationFails
    BY <2>1, ServiceFrame DEF SendResponse, AllocationFails, ringVars, emuHistory
  <2> QED
    BY <1>1, <2>1, CallbackKeepsService, PushKeepsService, MoveKeepsService, ServerPopKeepsService
    DEF ServerStep
<1>2. CASE EmuStep \/ ReportTiming \/ Destroy
  <2>1. ASSUME NEW label, Goto("emu", label) PROVE pc'["server"] = pc["server"]
    BY <2>1, HistoryTypes DEF Goto
  <2>2. CASE JoinServer \/ JoinIo \/ HandleTiming("emu") \/ ReportTiming \/ Destroy
    <3>1. \E label : Goto("emu", label)
      BY <2>2 DEF JoinServer, JoinIo, HandleTiming, Lookup, CheckBlocking, Jump, ReportTiming, Destroy
    <3>2. UNCHANGED <<popped, handled, discarded, answered, lost, req, consumer>>
      BY <2>2
      DEF JoinServer, JoinIo, HandleTiming, Lookup, CheckBlocking, Jump, ReportTiming, Destroy,
          ringVars, emuHistory
    <3> QED BY <2>1, <3>1, <3>2, ServiceFrame
  <2> QED BY <1>2, <2>2, EmuPopKeepsService DEF EmuStep
<1>3. CASE \/ \E v \in Values : OnReadRequest(v)
           \/ OnReadMalformed \/ OnReadPush \/ IoExit \/ Abort \/ Halted \/ UNCHANGED vars
  BY <1>3, ServiceFrame
  DEF OnReadRequest, PushClaim, PushFull, OnReadMalformed, OnReadPush, PushConstruct, PushStore,
      IoExit, Abort, Halted, vars, implVars, emuHistory, ringVars
<1> QED
  BY <1>1, <1>2, <1>3 DEF Next

\* Whoever pops client_emu, and even after two threads have popped the same element, what
\* a popping call took is handled, discarded or in the server thread's hands, and what was
\* handled is answered, lost to a full emu_client or about to be answered.
THEOREM PoppedAccountedCorrect ==
    ASSUME KeepHistory
    PROVE  Spec => []PoppedAccounted
<1>1. ServiceInv => PoppedAccounted
  BY DEF ServiceInv
<1> QED
  BY <1>1, TypeInit, TypeStep, ServiceInit, ServiceStep, PTL DEF Spec

-----------------------------------------------------------------------------
(* With the server thread alone on the popping side of client_emu. *)

LEMMA ServerIsTheConsumer ==
    ASSUME OneConsumer
    PROVE  TheConsumer = "server" /\ "emu" \notin Consumers
BY EmuRPCAssumption DEF OneConsumer

InstanceInv == TypeInv /\ RingInv /\ ServiceInv

LEMMA InstanceInit ==
    ASSUME OneConsumer
    PROVE  Init => InstanceInv
BY TypeInit, RingInvInit, ServiceInit DEF Init, InstanceInv

LEMMA InstanceStep ==
    ASSUME OneConsumer, KeepHistory
    PROVE  InstanceInv /\ [Next]_vars => InstanceInv'
BY TypeStep, StepIsRingStep, RingInvStep, ServiceStep DEF InstanceInv

\* No accepted request vanishes while only the server thread pops: it is still in
\* client_emu, or it was popped once and PoppedAccounted says what became of it.
THEOREM AccountedCorrect ==
    ASSUME OneConsumer, KeepHistory
    PROVE  Spec => []Accounted
<1>1. InstanceInv => Accounted
  <2> SUFFICES ASSUME InstanceInv PROVE Accounted
    OBVIOUS
  <2>1. Len(Items) = Available - Held /\ Available \in 0 .. Capacity /\ Held \in 0 .. Available
    BY ItemsFacts, RingFacts DEF InstanceInv
  <2>2. Len(pushed) = Len(popped) + Available - Held
    BY DEF InstanceInv, RingInv, Contents
  <2>3. Len(pushed) = Len(popped) + Len(Items)
    BY <2>1, <2>2, HistoryTypes, SpscAssumption DEF InstanceInv, Capacity
  <2> QED BY <2>3 DEF InstanceInv, ServiceInv, Accounted
<1> QED
  BY <1>1, InstanceInit, InstanceStep, PTL DEF Spec

\* The memory callbacks run for the accepted requests in the order of acceptance, once
\* each and without a gap, until a callback that reports a memory access makes HandleTiming
\* discard requests.
THEOREM ServedInOrderCorrect ==
    ASSUME OneConsumer, KeepHistory
    PROVE  Spec => []ServedInOrder
<1>1. InstanceInv => ServedInOrder
  <2> SUFFICES ASSUME InstanceInv, discarded = <<>>
               PROVE  /\ Len(handled) <= Len(pushed)
                      /\ \A k \in 1 .. Len(handled) : handled[k] = pushed[k]
    BY DEF ServedInOrder
  <2>1. /\ Len(popped) <= Len(pushed) /\ Len(pushed) \in Nat
        /\ \A k \in 1 .. Len(popped) : popped[k] = pushed[k]
    BY DEF InstanceInv, RingInv, PoppedInOrder, RingTypeOK
  <2>2. Len(handled) <= Len(popped)
    BY HistoryTypes DEF InstanceInv, ServiceInv, PoppedAccounted, One
  <2>3. \A k \in 1 .. Len(handled) : handled[k] = popped[k] /\ k \in 1 .. Len(popped)
    BY <2>2, HistoryTypes DEF InstanceInv, ServiceInv, HandledIsPopped
  <2> QED BY <2>1, <2>2, <2>3, HistoryTypes DEF InstanceInv
<1> QED
  BY <1>1, InstanceInit, InstanceStep, PTL DEF Spec

-----------------------------------------------------------------------------
(* Flow control. *)

\* peak counts the request that push() is working on, too.
PeakBounds == Outstanding + One(producer.pc # "idle") <= peak

FlowInv == PeakBounds /\ FlowControl

\* How many requests the server thread has popped and not handled, or handled and not
\* answered.
InHand == One(Popped)
InWork == One(Answering)

\* The requests outstanding are those in client_emu, the one in hand, the responses in
\* emu_client, and what HandleTiming or a full queue has lost.
LEMMA OutstandingParts ==
    ASSUME OneConsumer, KeepHistory, InstanceInv, AnswersExact
    PROVE  /\ Outstanding = (Available - Held) + Len(refused) + Len(discarded) + Len(lost)
                              + Len(emu_client) + InHand + InWork
           /\ Available \in Nat /\ Held \in 0 .. Available /\ Held <= Len(discarded) + InHand
           /\ Len(refused) \in Nat /\ Len(discarded) \in Nat /\ Len(lost) \in Nat
           /\ Len(emu_client) \in Nat /\ InHand \in 0 .. 1 /\ InWork \in 0 .. 1
           /\ peak \in Nat /\ Outstanding \in Int /\ Capacity \in Nat
<1>1. /\ Available \in Nat /\ Held \in 0 .. Available /\ Capacity \in Nat
  BY RingFacts, SpscAssumption DEF InstanceInv, Capacity
<1>2. Len(pushed) = Len(popped) + Available - Held
  BY DEF InstanceInv, RingInv, Contents
<1>3. Len(sent) + Len(emu_client) = Len(answered)
  BY DEF AnswersExact
<1>4. /\ Len(popped) = Len(handled) + Len(discarded) + InHand
      /\ Len(handled) = Len(answered) + Len(lost) + InWork
  BY DEF InstanceInv, ServiceInv, PoppedAccounted, InHand, InWork
<1>5. /\ Len(pushed) \in Nat /\ Len(popped) \in Nat /\ Len(refused) \in Nat
      /\ Len(emu_client) \in Nat /\ Len(sent) \in Nat /\ peak \in Nat
      /\ Len(handled) \in Nat /\ Len(discarded) \in Nat /\ Len(answered) \in Nat
      /\ Len(lost) \in Nat
  BY HistoryTypes DEF InstanceInv, TypeInv, TypeOK, RingTypeOK
<1>6. InHand \in 0 .. 1 /\ InWork \in 0 .. 1
  BY DEF One, InHand, InWork
<1>7. Held <= Len(discarded) + InHand
  <2>1. Held = IF consumer["server"].pc = "busy" THEN consumer["server"].i ELSE 0
    BY ServerIsTheConsumer DEF Held
  <2>2. consumer["server"].pc = "busy" => pc["server"] \in PopSites
    BY DEF InstanceInv, ServiceInv, ServerCall
  <2>3. CASE consumer["server"].pc = "busy" /\ pc["server"] = "requests"
    <3>1. consumer["server"].i \in {0, 1}
      BY <2>3 DEF InstanceInv, ServiceInv, ServerCall
    <3>2. consumer["server"].i = 1 => InHand = 1
      BY <2>3 DEF Popped, InHand, One
    <3>3. Held = consumer["server"].i
      BY <2>1, <2>3
    <3>4. Len(discarded) \in Nat /\ InHand \in 0 .. 1
      BY <1>5, <1>6
    <3>5. Held <= InHand /\ Held \in Nat
      BY <3>1, <3>2, <3>3, <3>4
    <3> QED BY <3>4, <3>5
  <2>4. CASE consumer["server"].pc = "busy" /\ pc["server"] \in {"consume_all", "pop_blocked"}
    <3>1. consumer["server"].i <= Len(discarded)
      BY <2>4 DEF InstanceInv, ServiceInv, ServerCall
    <3>2. Held = consumer["server"].i
      BY <2>1, <2>4
    <3>3. Len(discarded) \in Nat /\ InHand \in 0 .. 1
      BY <1>5, <1>6
    <3>4. Held \in Nat
      BY <1>1
    <3>5. Held <= Len(discarded)
      BY <3>1, <3>2
    <3> QED BY <3>3, <3>4, <3>5
  <2>5. CASE consumer["server"].pc # "busy"
    BY <1>5, <1>6, <2>1, <2>5
  <2> QED BY <2>2, <2>3, <2>4, <2>5 DEF PopSites
<1>8. Outstanding = (Available - Held) + Len(refused) + Len(discarded) + Len(lost)
                      + Len(emu_client) + InHand + InWork
  <2>1. PICK pu \in Int, po \in Int, ha \in Int, di \in Int, an \in Int, lo \in Int, se \in Int,
             em \in Int, re \in Int, inside \in Int, x \in Int, y \in Int :
          /\ pu = Len(pushed) /\ po = Len(popped) /\ ha = Len(handled) /\ di = Len(discarded)
          /\ an = Len(answered) /\ lo = Len(lost) /\ se = Len(sent) /\ em = Len(emu_client)
          /\ re = Len(refused) /\ inside = Available - Held /\ x = InHand /\ y = InWork
    <3> Available - Held \in Int /\ InHand \in Int /\ InWork \in Int
      BY <1>1, <1>6
    <3> WITNESS Len(pushed) \in Int, Len(popped) \in Int, Len(handled) \in Int,
                  Len(discarded) \in Int, Len(answered) \in Int, Len(lost) \in Int,
                  Len(sent) \in Int, Len(emu_client) \in Int, Len(refused) \in Int,
                  Available - Held \in Int, InHand \in Int, InWork \in Int
    <3> QED OBVIOUS
  <2>2. pu = po + inside /\ se + em = an /\ po = ha + di + x /\ ha = an + lo + y
    BY <1>1, <1>2, <1>3, <1>4, <2>1
  <2>3. pu + re - se = inside + re + di + lo + em + x + y
    BY <2>2
  <2> QED BY <2>1, <2>3 DEF Outstanding
<1> QED
  BY <1>1, <1>5, <1>6, <1>7, <1>8 DEF Outstanding

\* A push is refused only when as many requests are outstanding as client_emu has cells.
LEMMA RequestKeepsFlow ==
    ASSUME OneConsumer, KeepHistory, InstanceInv, AnswersExact, FlowInv,
           NEW v \in Values, OnReadRequest(v)
    PROVE  FlowInv'
<1>1. /\ peak \in Nat /\ Outstanding \in Int /\ Capacity \in Nat
      /\ Len(refused) \in Nat /\ Len(pushed) \in Nat /\ Len(sent) \in Nat
      /\ refused \in Seq(Values)
  <2>1. peak \in Nat /\ Outstanding \in Int /\ Capacity \in Nat
    BY OutstandingParts
  <2> QED BY <2>1 DEF InstanceInv, TypeInv, TypeOK, RingTypeOK
<1>2. /\ peak' = IF Outstanding + 1 > peak THEN Outstanding + 1 ELSE peak
      /\ UNCHANGED <<sent, lost>> /\ producer.pc = "idle"
  BY DEF OnReadRequest, PushClaim, PushFull
<1>3. /\ peak' \in Nat /\ Outstanding + 1 <= peak' /\ peak <= peak'
  BY <1>1, <1>2
<1>4. CASE PushClaim(v)
  <2>1. UNCHANGED <<pushed, refused>> /\ producer'.pc = "claimed"
    BY <1>4 DEF PushClaim
  <2>2. Outstanding' = Outstanding /\ One(producer.pc # "idle")' = 1
    BY <1>2, <2>1 DEF Outstanding, One
  <2>3. PeakBounds'
    BY <1>1, <1>3, <2>2 DEF PeakBounds
  <2>4. FlowControl'
    BY <1>1, <1>2, <1>3, <2>1 DEF FlowInv, FlowControl
  <2> QED BY <2>3, <2>4 DEF FlowInv
<1>5. CASE PushFull(v)
  <2>1. UNCHANGED <<pushed, producer>> /\ refused' = Log(refused, v) /\ Full
    BY <1>5 DEF PushFull
  <2>2. Len(refused') = Len(refused) + 1
    BY <1>1, <2>1, LogAppends
  <2>3. Outstanding' = Outstanding + 1 /\ One(producer.pc # "idle")' = 0
    BY <1>1, <1>2, <2>1, <2>2 DEF Outstanding, One
  <2>4. PeakBounds'
    BY <1>1, <1>3, <2>3 DEF PeakBounds
  <2>5. Available = Capacity
    <3>1. write_index \in Index /\ read_index \in Index
      BY DEF InstanceInv, RingInv, RingTypeOK
    <3> QED BY <2>1, <3>1, FullMeansCapacity DEF Full, Available, Offset
  <2>6. Outstanding >= Capacity
    BY <2>5, OutstandingParts
  <2>7. ~(peak' <= Capacity)
    BY <1>1, <1>3, <2>6
  <2> QED BY <2>4, <2>7 DEF FlowInv, FlowControl
<1> QED
  BY <1>4, <1>5 DEF OnReadRequest

\* A response is lost only when more requests are outstanding than emu_client has cells.
LEMMA ResponseKeepsFlow ==
    ASSUME OneConsumer, KeepHistory, InstanceInv, AnswersExact, FlowInv, PushResponse
    PROVE  FlowInv'
<1>1. UNCHANGED <<pushed, refused, sent, peak, producer>>
  BY DEF PushResponse, ringVars
<1>2. PeakBounds'
  BY <1>1 DEF FlowInv, PeakBounds, Outstanding, One
<1>3. CASE Room
  BY <1>1, <1>2, <1>3 DEF PushResponse, FlowInv, FlowControl
<1>4. CASE ~Room
  <2>1. Len(emu_client) = Capacity
    <3>1. Len(emu_client) \in Nat /\ Capacity \in Nat
      BY OutstandingParts
    <3>2. Len(emu_client) <= Capacity /\ ~(Len(emu_client) < Capacity)
      BY <1>4 DEF Room, InstanceInv, TypeInv, TypeOK
    <3> QED BY <3>1, <3>2
  <2>2. InWork = 1
    BY DEF PushResponse, Answering, InWork, One
  <2>3. Outstanding > Capacity
    BY <2>1, <2>2, OutstandingParts
  <2>4. Outstanding <= peak
    <3>1. Outstanding + 0 <= peak \/ Outstanding + 1 <= peak
      BY DEF FlowInv, PeakBounds, One
    <3>2. Outstanding \in Int /\ peak \in Nat
      BY OutstandingParts
    <3> QED BY <3>1, <3>2
  <2>5. ~(peak' <= Capacity)
    BY <1>1, <2>3, <2>4, OutstandingParts
  <2> QED BY <1>2, <2>5 DEF FlowInv, FlowControl
<1> QED
  BY <1>3, <1>4

LEMMA FlowStep ==
    ASSUME OneConsumer, KeepHistory
    PROVE  InstanceInv /\ AnswersExact /\ FlowInv /\ [Next]_vars => FlowInv'
<1> SUFFICES ASSUME InstanceInv, AnswersExact, FlowInv, [Next]_vars PROVE FlowInv'
  OBVIOUS
<1>1. ASSUME UNCHANGED <<pushed, refused, sent, peak, producer, lost>> PROVE FlowInv'
  BY <1>1 DEF FlowInv, PeakBounds, FlowControl, Outstanding, One
<1>2. ASSUME NEW t, Pop(t) \/ HandleTiming(t) PROVE FlowInv'
  BY <1>1, <1>2
  DEF Pop, PopBegin, PopEmpty, PopSome, PopElement, PopEnd, HandleTiming, Lookup, CheckBlocking, Jump,
      LoadWriteIndex, LoadReadIndexEmpty, LoadReadIndex, ConsumeElement, StoreReadIndex,
      ringVars, implVars, emuHistory, shared
<1>3. CASE SendResponse
  <2>1. /\ sent \in Seq(Response) /\ Head(emu_client) \in Response /\ Len(sent) \in Nat
        /\ Len(pushed) \in Nat /\ Len(refused) \in Nat /\ peak \in Nat
    BY <1>3 DEF SendResponse, InstanceInv, TypeInv, TypeOK, RingTypeOK
  <2>2. Len(sent') = Len(sent) + 1
    BY <1>3, <2>1, LogAppends DEF SendResponse
  <2>3. UNCHANGED <<pushed, refused, peak, producer, lost>>
    BY <1>3 DEF SendResponse, ringVars
  <2> QED BY <2>1, <2>2, <2>3 DEF FlowInv, PeakBounds, FlowControl, Outstanding, One
<1>4. CASE OnReadPush
  <2>1. CASE PushConstruct
    BY <1>4, <2>1
    DEF OnReadPush, PushConstruct, emuHistory, FlowInv, PeakBounds, FlowControl, Outstanding, One
  <2>2. CASE PushStore
    <3>1. /\ pushed \in Seq(Values) /\ producer.val \in Values /\ Len(pushed) \in Nat
          /\ Len(refused) \in Nat /\ Len(sent) \in Nat /\ peak \in Nat
      BY <2>2
      DEF PushStore, Constructed, InstanceInv, TypeInv, TypeOK, RingTypeOK, RingInv, ProducerOwns
    <3>2. Len(pushed') = Len(pushed) + 1 /\ UNCHANGED <<refused, sent, peak, lost>>
      BY <1>4, <2>2, <3>1, LogAppends DEF OnReadPush, PushStore, emuHistory
    <3>3. One(producer.pc # "idle") = 1 /\ One(producer.pc # "idle")' = 0
      BY <2>2 DEF PushStore, Constructed, IdleProducer, One
    <3> QED BY <3>1, <3>2, <3>3 DEF FlowInv, PeakBounds, FlowControl, Outstanding
  <2> QED BY <1>4, <2>1, <2>2 DEF OnReadPush
<1>5. CASE CheckStopped \/ ResponsesDone \/ RunCallback \/ AllocationFails
  BY <1>1, <1>5 DEF CheckStopped, ResponsesDone, RunCallback, AllocationFails, Jump, emuHistory, ringVars
<1>6. CASE JoinServer \/ JoinIo \/ ReportTiming \/ Destroy \/ OnReadMalformed \/ IoExit \/ Abort
           \/ Halted \/ UNCHANGED vars
  BY <1>1, <1>6
  DEF JoinServer, JoinIo, Jump, ReportTiming, Destroy, OnReadMalformed, IoExit, Abort, Halted, vars,
      emuHistory, ringVars
<1> QED
  BY <1>2, <1>3, <1>4, <1>5, <1>6, RequestKeepsFlow, ResponseKeepsFlow DEF Next, ServerStep, EmuStep

\* A client that keeps at most as many requests outstanding as a queue has cells never
\* meets a full queue, in either direction, for every capacity and any amount of traffic.
THEOREM FlowControlCorrect ==
    ASSUME OneConsumer, KeepHistory
    PROVE  Spec => []FlowControl
<1>1. Init => FlowInv
  BY DEF Init, RingInit, IdleProducer, FlowInv, PeakBounds, FlowControl, Outstanding, One
<1>2. FlowInv => FlowControl
  BY DEF FlowInv
<1>3. Init => AnswersExact
  BY DEF Init, AnswersExact
<1>4. InstanceInv /\ AnswersExact /\ [Next]_vars => AnswersExact'
  BY AnswersStep DEF InstanceInv
<1> QED
  BY <1>1, <1>2, <1>3, <1>4, InstanceInit, InstanceStep, FlowStep, PTL DEF Spec

-----------------------------------------------------------------------------
(* The instance is one queue: sequences. *)

LEMMA AppendedAsConcat ==
    ASSUME NEW T, NEW s \in Seq(T), NEW x \in T
    PROVE  Append(s, x) = s \o <<x>>
<1>1. <<x>> \in Seq(T) /\ Len(<<x>>) = 1 /\ <<x>>[1] = x
  OBVIOUS
<1>2. Append(s, x) \in Seq(T) /\ Len(Append(s, x)) = Len(s) + 1
  OBVIOUS
<1>3. s \o <<x>> \in Seq(T) /\ Len(s \o <<x>>) = Len(s) + 1
  BY <1>1, ConcatProperties
<1>4. ASSUME NEW k \in 1 .. (Len(s) + 1) PROVE Append(s, x)[k] = (s \o <<x>>)[k]
  <2>1. (s \o <<x>>)[k] = IF k <= Len(s) THEN s[k] ELSE <<x>>[k - Len(s)]
    BY <1>1, ConcatProperties
  <2>2. CASE k = Len(s) + 1
    BY <1>1, <2>1, <2>2
  <2>3. CASE k \in 1 .. Len(s)
    BY <2>1, <2>3
  <2> QED BY <2>2, <2>3
<1> QED
  BY <1>2, <1>3, <1>4, SeqEqual

LEMMA ConcatAppend ==
    ASSUME NEW T, NEW s \in Seq(T), NEW t \in Seq(T), NEW x \in T
    PROVE  s \o Append(t, x) = Append(s \o t, x)
<1>1. <<x>> \in Seq(T) /\ s \o t \in Seq(T)
  BY ConcatProperties
<1>2. Append(t, x) = t \o <<x>> /\ Append(s \o t, x) = (s \o t) \o <<x>>
  BY <1>1, AppendedAsConcat
<1> QED
  BY <1>1, <1>2, ConcatAssociative

LEMMA HeadTailConcat ==
    ASSUME NEW T, NEW s \in Seq(T), NEW t \in Seq(T), s # <<>>
    PROVE  /\ s \o t # <<>>
           /\ Head(s \o t) = Head(s)
           /\ Tail(s \o t) = Tail(s) \o t
<1>1. /\ s \o t \in Seq(T) /\ Len(s \o t) = Len(s) + Len(t) /\ Len(s) \in Nat \ {0} /\ Len(t) \in Nat
      /\ \A i \in 1 .. Len(s) + Len(t) : (s \o t)[i] = IF i <= Len(s) THEN s[i] ELSE t[i - Len(s)]
  BY ConcatProperties
<1>2. s \o t # <<>> /\ Head(s \o t) = Head(s)
  BY <1>1
<1>3. Tail(s) \in Seq(T) /\ Len(Tail(s)) = Len(s) - 1
  BY <1>1
<1>4. /\ Tail(s) \o t \in Seq(T) /\ Len(Tail(s) \o t) = Len(s) - 1 + Len(t)
      /\ \A i \in 1 .. Len(s) - 1 + Len(t) :
            (Tail(s) \o t)[i] = IF i <= Len(s) - 1 THEN Tail(s)[i] ELSE t[i - (Len(s) - 1)]
  BY <1>3, ConcatProperties
<1>5. Tail(s \o t) \in Seq(T) /\ Len(Tail(s \o t)) = Len(s) - 1 + Len(t)
  BY <1>1, <1>2
<1>6. ASSUME NEW k \in 1 .. (Len(s) - 1 + Len(t)) PROVE Tail(s \o t)[k] = (Tail(s) \o t)[k]
  <2>1. Tail(s \o t)[k] = (s \o t)[k + 1] /\ k + 1 \in 1 .. Len(s) + Len(t)
    BY <1>1, <1>2
  <2>2. CASE k <= Len(s) - 1
    <3>1. (s \o t)[k + 1] = s[k + 1] /\ Tail(s)[k] = s[k + 1]
      BY <1>1, <2>1, <2>2
    <3> QED BY <1>4, <2>1, <2>2, <3>1
  <2>3. CASE ~(k <= Len(s) - 1)
    <3>1. (s \o t)[k + 1] = t[k + 1 - Len(s)] /\ k + 1 - Len(s) = k - (Len(s) - 1)
      BY <1>1, <2>1, <2>3
    <3> QED BY <1>4, <2>1, <2>3, <3>1
  <2> QED BY <2>2, <2>3
<1> QED
  BY <1>2, <1>4, <1>5, <1>6, SeqEqual

\* Losing the element between s and t.
LEMMA WithoutMiddle ==
    ASSUME NEW T, NEW s \in Seq(T), NEW t \in Seq(T), NEW x \in T
    PROVE  /\ Abstract!Without((s \o <<x>>) \o t, Len(s) + 1) = s \o t
           /\ Len(s) + 1 \in 1 .. Len((s \o <<x>>) \o t)
<1> DEFINE u == (s \o <<x>>) \o t
           v == s \o t
<1>0. PICK a \in Nat, b \in Nat : a = Len(s) /\ b = Len(t)
  OBVIOUS
<1>1. <<x>> \in Seq(T) /\ Len(<<x>>) = 1
  OBVIOUS
<1>2. /\ s \o <<x>> \in Seq(T) /\ Len(s \o <<x>>) = a + 1
      /\ \A i \in 1 .. a + 1 : (s \o <<x>>)[i] = IF i <= a THEN s[i] ELSE <<x>>[i - a]
  BY <1>0, <1>1, ConcatProperties
<1>3. /\ u \in Seq(T) /\ Len(u) = a + 1 + b
      /\ \A i \in 1 .. a + 1 + b : u[i] = IF i <= a + 1 THEN (s \o <<x>>)[i] ELSE t[i - (a + 1)]
  BY <1>0, <1>2, ConcatProperties
<1>4. /\ v \in Seq(T) /\ Len(v) = a + b
      /\ \A i \in 1 .. a + b : v[i] = IF i <= a THEN s[i] ELSE t[i - a]
  BY <1>0, ConcatProperties
<1> HIDE DEF u, v
<1>5. v = [i \in 1 .. a + b |-> v[i]]
  <2>1. v \in [1 .. a + b -> T]
    BY <1>4, LenProperties
  <2> QED BY <2>1
<1>6. ASSUME NEW k \in 1 .. a + b
      PROVE  (IF k < a + 1 THEN u[k] ELSE u[k + 1]) = v[k]
  <2>1. CASE k <= a
    <3>1. k \in 1 .. a + 1 /\ k \in 1 .. a + 1 + b /\ k < a + 1
      BY <2>1
    <3>2. u[k] = s[k] /\ v[k] = s[k]
      BY <1>2, <1>3, <1>4, <2>1, <3>1
    <3> QED BY <3>1, <3>2
  <2>2. CASE ~(k <= a)
    <3>1. k + 1 \in 1 .. a + 1 + b /\ ~(k + 1 <= a + 1) /\ ~(k < a + 1) /\ k + 1 - (a + 1) = k - a
      BY <2>2
    <3>2. u[k + 1] = t[k + 1 - (a + 1)]
      BY <1>3, <3>1
    <3>3. v[k] = t[k - a]
      BY <1>4, <2>2
    <3> QED BY <3>1, <3>2, <3>3
  <2> QED BY <2>1, <2>2
<1>7. [k \in 1 .. a + b |-> IF k < a + 1 THEN u[k] ELSE u[k + 1]] = [i \in 1 .. a + b |-> v[i]]
  BY <1>6
<1>8. Len(u) - 1 = a + b /\ a + 1 \in 1 .. Len(u)
  <2>1. a + 1 + b - 1 = a + b /\ a + 1 \in 1 .. a + 1 + b
    OBVIOUS
  <2> QED BY <1>3, <2>1
<1>9. Abstract!Without(u, a + 1) = v
  BY <1>5, <1>7, <1>8 DEF Abstract!Without
<1> QED
  BY <1>0, <1>8, <1>9 DEF u, v

\* Requests as the responses due to them.
DueTo(s) == [k \in 1 .. Len(s) |-> ResponseTo(s[k])]

Anything == Response \cup {ResponseTo(v) : v \in Values \cup {NoValue}}

LEMMA DueToFacts ==
    ASSUME NEW s \in Seq(Values \cup {NoValue})
    PROVE  DueTo(s) \in Seq(Anything) /\ Len(DueTo(s)) = Len(s)
<1>1. \A k \in 1 .. Len(s) : ResponseTo(s[k]) \in Anything
  BY DEF Anything
<1>2. Len(s) \in Nat
  OBVIOUS
<1>3. DueTo(s) \in [1 .. Len(s) -> Anything]
  BY <1>1 DEF DueTo
<1> QED
  BY <1>2, <1>3

LEMMA DueToAppend ==
    ASSUME NEW s \in Seq(Values \cup {NoValue}), NEW v \in Values \cup {NoValue}
    PROVE  DueTo(Append(s, v)) = Append(DueTo(s), ResponseTo(v))
<1>1. Append(s, v) \in Seq(Values \cup {NoValue}) /\ Len(Append(s, v)) = Len(s) + 1 /\ Len(s) \in Nat
  OBVIOUS
<1>2. /\ DueTo(s) \in Seq(Anything) /\ Len(DueTo(s)) = Len(s) /\ ResponseTo(v) \in Anything
      /\ DueTo(Append(s, v)) \in Seq(Anything) /\ Len(DueTo(Append(s, v))) = Len(s) + 1
  BY <1>1, DueToFacts DEF Anything
<1>3. /\ Append(DueTo(s), ResponseTo(v)) \in Seq(Anything)
      /\ Len(Append(DueTo(s), ResponseTo(v))) = Len(s) + 1
  BY <1>2
<1>4. ASSUME NEW k \in 1 .. (Len(s) + 1)
      PROVE  DueTo(Append(s, v))[k] = Append(DueTo(s), ResponseTo(v))[k]
  <2>1. DueTo(Append(s, v))[k] = ResponseTo(Append(s, v)[k])
    BY <1>1 DEF DueTo
  <2>2. CASE k = Len(s) + 1
    <3>1. Append(s, v)[k] = v /\ Append(DueTo(s), ResponseTo(v))[k] = ResponseTo(v)
      BY <1>2, <2>2
    <3> QED BY <2>1, <3>1
  <2>3. CASE k \in 1 .. Len(s)
    <3>1. Append(s, v)[k] = s[k] /\ Append(DueTo(s), ResponseTo(v))[k] = DueTo(s)[k]
      BY <1>2, <2>3
    <3>2. DueTo(s)[k] = ResponseTo(s[k])
      BY <2>3 DEF DueTo
    <3> QED BY <2>1, <3>1, <3>2
  <2>4. k = Len(s) + 1 \/ k \in 1 .. Len(s)
    <3>1. Len(s) \in Nat
      BY <1>1
    <3> QED BY <3>1
  <2> QED BY <2>2, <2>3, <2>4
<1> QED
  BY <1>2, <1>3, <1>4, SeqEqual

LEMMA DueToFirst ==
    ASSUME NEW s \in Seq(Values \cup {NoValue}), s # <<>>
    PROVE  DueTo(s) = <<ResponseTo(Head(s))>> \o DueTo(Tail(s))
<1> DEFINE r == Tail(s)
           rest == DueTo(r)
           h == <<ResponseTo(Head(s))>>
<1>0. PICK n \in Nat : n + 1 = Len(s)
  <2>1. Len(s) \in Nat \ {0}
    OBVIOUS
  <2>2. PICK n \in Nat : n = Len(s) - 1
    BY <2>1
  <2>3. n + 1 = Len(s)
    BY <2>1, <2>2
  <2> QED BY <2>3
<1>1. /\ r \in Seq(Values \cup {NoValue}) /\ Len(r) = n /\ \A k \in 1 .. n : r[k] = s[k + 1]
      /\ Head(s) = s[1] /\ Head(s) \in Values \cup {NoValue}
  BY <1>0
<1> HIDE DEF r
<1>2. rest \in Seq(Anything) /\ Len(rest) = n
  BY <1>1, DueToFacts
<1>3. \A k \in 1 .. n : rest[k] = ResponseTo(s[k + 1])
  BY <1>1 DEF DueTo
<1> HIDE DEF rest
<1>4. DueTo(s) \in Seq(Anything) /\ Len(DueTo(s)) = n + 1
  BY <1>0, DueToFacts
<1>5. \A k \in 1 .. n + 1 : DueTo(s)[k] = ResponseTo(s[k])
  BY <1>0 DEF DueTo
<1>6. h \in Seq(Anything) /\ Len(h) = 1 /\ h[1] = ResponseTo(s[1])
  <2>1. ResponseTo(Head(s)) \in Anything
    BY <1>1 DEF Anything
  <2> QED BY <1>1, <2>1
<1> HIDE DEF h
<1>7. /\ h \o rest \in Seq(Anything) /\ Len(h \o rest) = 1 + n
      /\ \A i \in 1 .. 1 + n : (h \o rest)[i] = IF i <= 1 THEN h[i] ELSE rest[i - 1]
  <2>1. h \in Seq(Anything) /\ rest \in Seq(Anything)
    BY <1>2, <1>6
  <2>2. /\ h \o rest \in Seq(Anything) /\ Len(h \o rest) = Len(h) + Len(rest)
        /\ \A i \in 1 .. Len(h) + Len(rest) :
              (h \o rest)[i] = IF i <= Len(h) THEN h[i] ELSE rest[i - Len(h)]
    BY <2>1, ConcatProperties
  <2>3. Len(h) = 1 /\ Len(rest) = n
    BY <1>2, <1>6
  <2> QED BY <2>2, <2>3
<1>8. ASSUME NEW k \in 1 .. n + 1 PROVE DueTo(s)[k] = (h \o rest)[k]
  <2>1. k \in 1 .. 1 + n
    OBVIOUS
  <2>2. CASE k = 1
    BY <1>5, <1>6, <1>7, <2>1, <2>2
  <2>3. CASE k # 1
    <3>1. k - 1 \in 1 .. n /\ ~(k <= 1) /\ k - 1 + 1 = k
      BY <2>3
    <3>2. rest[k - 1] = ResponseTo(s[k])
      BY <1>3, <3>1
    <3> QED BY <1>5, <1>7, <2>1, <3>1, <3>2
  <2> QED BY <2>2, <2>3
<1>9. Len(h \o rest) = n + 1
  BY <1>7
<1>10. DueTo(s) = h \o rest
  BY <1>4, <1>7, <1>8, <1>9, SeqEqual
<1> QED
  BY <1>10 DEF h, rest, r

-----------------------------------------------------------------------------
(* The instance is one queue: its steps. *)

Hand == IF Popped \/ Answering THEN <<ResponseTo(req)>> ELSE <<>>

LEMMA DueParts ==
    ASSUME OneConsumer, InstanceInv
    PROVE  /\ Due = (emu_client \o Hand) \o DueTo(Items)
           /\ emu_client \in Seq(Anything) /\ Hand \in Seq(Anything)
           /\ emu_client \o Hand \in Seq(Anything)
           /\ Items \in Seq(Values \cup {NoValue}) /\ DueTo(Items) \in Seq(Anything)
           /\ Len(DueTo(Items)) = Len(Items)
           /\ ResponseTo(req) \in Anything /\ <<ResponseTo(req)>> \in Seq(Anything)
<1>1. Due = (emu_client \o Hand) \o DueTo(Items)
  BY DEF Due, Hand, DueTo
<1>2. emu_client \in Seq(Anything)
  <2>1. emu_client \in Seq(Response) /\ Response \subseteq Anything
    BY DEF InstanceInv, TypeInv, TypeOK, Anything
  <2> QED BY <2>1, SeqMonotonic
<1>3. ResponseTo(req) \in Anything
  BY DEF InstanceInv, TypeInv, TypeOK, Anything
<1>4. <<ResponseTo(req)>> \in Seq(Anything) /\ Hand \in Seq(Anything)
  BY <1>3 DEF Hand
<1>5. emu_client \o Hand \in Seq(Anything)
  BY <1>2, <1>4, ConcatProperties
<1>6. Items \in Seq(Values \cup {NoValue})
  BY ItemsFacts DEF InstanceInv
<1> QED
  BY <1>1, <1>2, <1>3, <1>4, <1>5, <1>6, DueToFacts

\* A step that hands nothing in or out of client_emu leaves its elements alone.
LEMMA ItemsKept ==
    ASSUME OneConsumer, KeepHistory, RingInv, RingInv', [RingNext]_ringVars, UNCHANGED <<pushed, popped>>
    PROVE  Items' = Items
<1>1. [Queue!Next]_(Queue!vars)
  BY RingStepIsQueueStep
<1>2. pushed \in Seq(Values) /\ popped \in Seq(Values \cup {NoValue})
  BY DEF RingInv, RingTypeOK
<1>3. \A v : Append(pushed, v) # pushed /\ Append(popped, v) # popped
  BY <1>2
<1> QED
  BY <1>1, <1>3 DEF Queue!Next, Queue!vars, Queue!Log, Queue!Push, Queue!Refuse, Queue!Pop, Queue!Release

LEMMA DueFrame ==
    ASSUME UNCHANGED <<emu_client, Hand, Items, sent>>
    PROVE  UNCHANGED Abstract!vars
<1>1. Due = (emu_client \o Hand) \o DueTo(Items) /\ Due' = (emu_client' \o Hand') \o DueTo(Items')
  BY DEF Due, Hand, DueTo
<1>2. Due' = Due
  BY <1>1
<1> QED
  BY <1>2 DEF Abstract!vars, LastSent

\* push() publishes a request.
LEMMA PublishIsAccept ==
    ASSUME OneConsumer, KeepHistory, InstanceInv, InstanceInv', OnReadPush, PushStore
    PROVE  Abstract!Next
<1> DEFINE v == producer.val
           front == emu_client \o Hand
<1>1. Items' = Append(Items, v) /\ v \in Values /\ Len(Items) + Held < Capacity
  BY PublishAppends DEF InstanceInv
<1>2. UNCHANGED <<emu_client, pc, req, sent, consumer>>
  BY DEF OnReadPush, PushStore, implVars, emuHistory
<1>3. Hand' = Hand
  BY <1>2 DEF Hand, Popped, Answering
<1>4. /\ Due = front \o DueTo(Items) /\ front \in Seq(Anything)
      /\ Items \in Seq(Values \cup {NoValue}) /\ DueTo(Items) \in Seq(Anything)
      /\ Len(DueTo(Items)) = Len(Items) /\ Hand \in Seq(Anything) /\ emu_client \in Seq(Anything)
  BY DueParts
<1>5. Due' = front \o DueTo(Append(Items, v))
  <2>1. Due' = (emu_client' \o Hand') \o DueTo(Items')
    BY DEF Due, Hand, DueTo
  <2> QED BY <1>1, <1>2, <1>3, <2>1
<1>6. Len(front) = Len(emu_client) + Len(Hand)
  <2>1. emu_client \in Seq(Anything) /\ Hand \in Seq(Anything)
    BY <1>4
  <2> QED BY <2>1, ConcatProperties
<1> HIDE DEF front, v
<1>7. DueTo(Append(Items, v)) = Append(DueTo(Items), ResponseTo(v)) /\ ResponseTo(v) \in Anything
  BY <1>1, <1>4, DueToAppend DEF Anything
<1>8. Due' = Append(Due, ResponseTo(v))
  BY <1>4, <1>5, <1>7, ConcatAppend
<1>9. Len(Due) < 2 * Capacity + 1
  <2>1. Len(Hand) \in 0 .. 1
    BY DEF Hand
  <2>2. Len(emu_client) \in Nat /\ Len(emu_client) <= Capacity /\ Capacity \in Nat
    BY SpscAssumption DEF InstanceInv, TypeInv, TypeOK, Capacity
  <2>3. Len(Items) \in Nat /\ Held \in Nat
    BY <1>4, RingFacts DEF InstanceInv
  <2>4. Len(Items) < Capacity
    BY <1>1, <2>2, <2>3
  <2>5. Len(Due) = Len(emu_client) + Len(Hand) + Len(Items)
    <3>1. Len(front \o DueTo(Items)) = Len(front) + Len(DueTo(Items))
      BY <1>4, ConcatProperties
    <3> QED BY <1>4, <1>6, <3>1
  <2>6. ASSUME NEW c \in Nat, NEW e \in Nat, NEW h \in 0 .. 1, NEW i \in Nat, e <= c, i < c
        PROVE  e + h + i < 2 * c + 1
    BY <2>6
  <2>7. Len(emu_client) + Len(Hand) + Len(Items) < 2 * Capacity + 1
    BY <2>1, <2>2, <2>3, <2>4, <2>6
  <2> QED BY <2>5, <2>7
<1>10. Abstract!Accept(ResponseTo(v))
  BY <1>2, <1>8, <1>9 DEF Abstract!Accept, Abstract!Room, Abstract!Appended, LastSent
<1> QED
  BY <1>1, <1>10 DEF Abstract!Next

\* RPCServer::SendResponse is given the oldest response.
LEMMA SendIsDeliver ==
    ASSUME OneConsumer, KeepHistory, InstanceInv, InstanceInv', SendResponse
    PROVE  Abstract!Next
<1> DEFINE rest == DueTo(Items)
<1>1. /\ UNCHANGED <<pc, req, consumer>> /\ emu_client # <<>>
      /\ emu_client' = Tail(emu_client) /\ sent' = Append(sent, Head(emu_client))
  BY DEF SendResponse, Log, ringVars
<1>2. Items' = Items
  <2>1. UNCHANGED ringVars
    BY DEF SendResponse
  <2> QED BY <2>1, ItemsKept DEF InstanceInv, ringVars
<1>3. Hand' = Hand
  BY <1>1 DEF Hand, Popped, Answering
<1>4. /\ Due = (emu_client \o Hand) \o rest /\ Hand \in Seq(Anything) /\ rest \in Seq(Anything)
      /\ emu_client \in Seq(Anything) /\ emu_client \o Hand \in Seq(Anything)
  BY DueParts
<1>5. Due' = (Tail(emu_client) \o Hand) \o rest
  <2>1. Due' = (emu_client' \o Hand') \o DueTo(Items')
    BY DEF Due, Hand, DueTo
  <2> QED BY <1>1, <1>2, <1>3, <2>1
<1> HIDE DEF rest
<1>6. /\ emu_client \o Hand # <<>> /\ Head(emu_client \o Hand) = Head(emu_client)
      /\ Tail(emu_client \o Hand) = Tail(emu_client) \o Hand
  BY <1>1, <1>4, HeadTailConcat
<1>7. Due # <<>> /\ Head(Due) = Head(emu_client) /\ Tail(Due) = Due'
  <2> DEFINE front == emu_client \o Hand
  <2>1. front \in Seq(Anything) /\ front # <<>>
    BY <1>4, <1>6
  <2> HIDE DEF front
  <2>2. front \o rest # <<>> /\ Head(front \o rest) = Head(front) /\ Tail(front \o rest) = Tail(front) \o rest
    BY <1>4, <2>1, HeadTailConcat
  <2> QED BY <1>4, <1>5, <1>6, <2>2 DEF front
<1>8. LastSent' = Head(emu_client)
  <2>1. sent \in Seq(Response) /\ Head(emu_client) \in Response
    BY <1>1 DEF InstanceInv, TypeInv, TypeOK
  <2>2. sent' # <<>> /\ sent'[Len(sent')] = Head(emu_client)
    BY <1>1, <2>1
  <2> QED BY <2>2 DEF LastSent
<1> QED
  BY <1>7, <1>8 DEF Abstract!Next, Abstract!Deliver

\* The request that ProcessEvents pops keeps its place.
LEMMA PopIsStutter ==
    ASSUME OneConsumer, KeepHistory, InstanceInv, InstanceInv', PopElement("server"),
           pc["server"] = "requests"
    PROVE  UNCHANGED Abstract!vars
<1>1. /\ UNCHANGED <<emu_client, pc, sent>> /\ req' = slot[CurrentCell("server")]
      /\ ConsumeElement("server") /\ TheConsumer = "server"
  BY ServerIsTheConsumer DEF PopElement
<1>2. Items # <<>> /\ Items' = Tail(Items) /\ req' = Head(Items)
  BY <1>1, HandOutTakesHead DEF InstanceInv
<1>3. ~(Popped \/ Answering)
  <2>1. consumer["server"].pc = "busy" /\ consumer["server"].i < consumer["server"].n
    BY <1>1 DEF ConsumeElement
  <2>2. consumer["server"].n = 1
    BY <2>1 DEF InstanceInv, ServiceInv, ServerCall
  <2> QED BY <2>1, <2>2 DEF Popped, Answering, TimingLabels
<1>4. Popped'
  <2>1. consumer'["server"].i = consumer["server"].i + 1
    BY <1>1, HistoryTypes DEF ConsumeElement, InstanceInv
  <2>2. consumer["server"].i = 0
    <3>1. consumer["server"].pc = "busy" /\ consumer["server"].i < consumer["server"].n
      BY <1>1 DEF ConsumeElement
    <3> QED BY <3>1 DEF InstanceInv, ServiceInv, ServerCall
  <2> QED BY <1>1, <2>1, <2>2 DEF Popped
<1> DEFINE h == <<ResponseTo(Head(Items))>>
           rest == DueTo(Tail(Items))
<1>5. Hand = <<>> /\ Hand' = h
  BY <1>2, <1>3, <1>4 DEF Hand
<1>6. /\ Due = (emu_client \o Hand) \o DueTo(Items) /\ emu_client \in Seq(Anything)
      /\ Items \in Seq(Values \cup {NoValue})
  BY DueParts
<1>7. DueTo(Items) = h \o rest
  BY <1>2, <1>6, DueToFirst
<1>8. Due' = (emu_client \o h) \o rest
  <2>1. Due' = (emu_client' \o Hand') \o DueTo(Items')
    BY DEF Due, Hand, DueTo
  <2> QED BY <1>1, <1>2, <1>5, <2>1
<1>9. h \in Seq(Anything) /\ rest \in Seq(Anything)
  <2>1. Head(Items) \in Values \cup {NoValue} /\ Tail(Items) \in Seq(Values \cup {NoValue})
    BY <1>2, <1>6
  <2>2. ResponseTo(Head(Items)) \in Anything
    BY <2>1 DEF Anything
  <2>3. <<ResponseTo(Head(Items))>> \in Seq(Anything)
    BY <2>2
  <2>4. DueTo(Tail(Items)) \in Seq(Anything)
    BY <2>1, DueToFacts
  <2> QED BY <2>2, <2>3, <2>4
<1> HIDE DEF h, rest
<1>10. Due' = Due
  <2>1. emu_client \o Hand = emu_client
    BY <1>5, <1>6, ConcatEmptySeq
  <2>2. (emu_client \o h) \o rest = emu_client \o (h \o rest)
    BY <1>6, <1>9, ConcatAssociative
  <2> QED BY <1>6, <1>7, <1>8, <2>1, <2>2
<1> QED
  BY <1>1, <1>10 DEF Abstract!vars, LastSent

\* The request that HandleTiming pops while the server thread answers another is lost
\* between the one in hand and the rest of client_emu.
LEMMA DiscardIsLose ==
    ASSUME OneConsumer, KeepHistory, InstanceInv, InstanceInv', PopElement("server"),
           pc["server"] # "requests"
    PROVE  Abstract!Next
<1>1. /\ UNCHANGED <<emu_client, pc, sent, req>>
      /\ ConsumeElement("server") /\ TheConsumer = "server"
      /\ pc["server"] \in {"consume_all", "pop_blocked"}
  BY ServerIsTheConsumer DEF PopElement, PopSites
<1>2. Items # <<>> /\ Items' = Tail(Items)
  BY <1>1, HandOutTakesHead DEF InstanceInv
<1>3. Hand' = Hand
  BY <1>1 DEF Hand, Popped, Answering, TimingLabels
<1> DEFINE x == ResponseTo(Head(Items))
           rest == DueTo(Tail(Items))
           front == emu_client \o Hand
<1>4. /\ Due = front \o DueTo(Items) /\ front \in Seq(Anything)
      /\ Items \in Seq(Values \cup {NoValue})
  BY DueParts
<1>5. DueTo(Items) = <<x>> \o rest
  BY <1>2, <1>4, DueToFirst
<1>6. Due' = front \o rest
  <2>1. Due' = (emu_client' \o Hand') \o DueTo(Items')
    BY DEF Due, Hand, DueTo
  <2> QED BY <1>1, <1>2, <1>3, <2>1
<1>7. x \in Anything /\ <<x>> \in Seq(Anything) /\ rest \in Seq(Anything)
  <2>1. Head(Items) \in Values \cup {NoValue} /\ Tail(Items) \in Seq(Values \cup {NoValue})
    BY <1>2, <1>4
  <2>2. ResponseTo(Head(Items)) \in Anything
    BY <2>1 DEF Anything
  <2>3. <<ResponseTo(Head(Items))>> \in Seq(Anything)
    BY <2>2
  <2>4. DueTo(Tail(Items)) \in Seq(Anything)
    BY <2>1, DueToFacts
  <2> QED BY <2>2, <2>3, <2>4
<1> HIDE DEF x, rest, front
<1>8. Due = (front \o <<x>>) \o rest
  BY <1>4, <1>5, <1>7, ConcatAssociative
<1>9. Due' = Abstract!Without(Due, Len(front) + 1) /\ Len(front) + 1 \in 1 .. Len(Due)
  <2>1. /\ Abstract!Without((front \o <<x>>) \o rest, Len(front) + 1) = front \o rest
        /\ Len(front) + 1 \in 1 .. Len((front \o <<x>>) \o rest)
    BY <1>4, <1>7, WithoutMiddle
  <2> QED BY <1>6, <1>8, <2>1
<1> QED
  BY <1>1, <1>9 DEF Abstract!Next, Abstract!Lose, LastSent

\* HandleRequest pushes the response: it keeps its place, or it is lost to a full emu_client.
LEMMA ResponseIsLoseOrStutter ==
    ASSUME OneConsumer, KeepHistory, InstanceInv, InstanceInv', PushResponse
    PROVE  Abstract!Next \/ UNCHANGED Abstract!vars
<1> DEFINE x == ResponseTo(req)
           rest == DueTo(Items)
<1>1. /\ UNCHANGED <<req, consumer, sent>> /\ pc["server"] = "respond" /\ Goto("server", "requests")
  BY DEF PushResponse, ringVars
<1>2. Items' = Items
  <2>1. UNCHANGED ringVars
    BY DEF PushResponse
  <2> QED BY <2>1, ItemsKept DEF InstanceInv, ringVars
<1>3. Hand = <<x>> /\ Hand' = <<>>
  <2>1. Answering
    BY <1>1 DEF Answering
  <2>2. pc'["server"] = "requests" /\ consumer'["server"].i = 0
    BY <1>1, JumpKeepsCall DEF InstanceInv, ServiceInv, PopSites, PushResponse, ringVars
  <2>3. ~(Popped \/ Answering)'
    BY <2>2 DEF Popped, Answering, TimingLabels
  <2> QED BY <2>1, <2>3 DEF Hand
<1>4. /\ Due = (emu_client \o <<x>>) \o rest /\ emu_client \in Seq(Anything)
      /\ rest \in Seq(Anything) /\ x \in Anything
  BY <1>3, DueParts
<1>5. Due' = (emu_client' \o <<>>) \o rest
  <2>1. Due' = (emu_client' \o Hand') \o DueTo(Items')
    BY DEF Due, Hand, DueTo
  <2> QED BY <1>2, <1>3, <2>1
<1>6. emu_client' \in Seq(Anything)
  <2>1. emu_client' = emu_client \/ emu_client' = Append(emu_client, x)
    BY DEF PushResponse
  <2>2. Append(emu_client, x) \in Seq(Anything)
    BY <1>4
  <2> QED BY <1>4, <2>1, <2>2
<1> HIDE DEF x, rest
<1>7. Due' = emu_client' \o rest
  <2>1. emu_client' \o <<>> = emu_client'
    BY <1>6, ConcatEmptySeq
  <2> QED BY <1>5, <2>1
<1>8. CASE Room
  <2>1. emu_client' = Append(emu_client, x)
    BY <1>8 DEF PushResponse, x
  <2>2. emu_client' = emu_client \o <<x>>
    BY <1>4, <2>1, AppendedAsConcat
  <2>3. Due' = Due
    BY <1>4, <1>7, <2>2
  <2> QED BY <1>1, <2>3 DEF Abstract!vars, LastSent
<1>9. CASE ~Room
  <2>1. emu_client' = emu_client
    BY <1>9 DEF PushResponse
  <2>2. Due' = Abstract!Without(Due, Len(emu_client) + 1) /\ Len(emu_client) + 1 \in 1 .. Len(Due)
    BY <1>4, <1>7, <2>1, WithoutMiddle
  <2> QED BY <1>1, <2>2 DEF Abstract!Next, Abstract!Lose, LastSent
<1> QED
  BY <1>8, <1>9

\* The other steps of the server thread and all steps of the other threads move nothing.
LEMMA StepIsDispatcherStep ==
    ASSUME OneConsumer, KeepHistory, InstanceInv, InstanceInv', [Next]_vars
    PROVE  [Abstract!Next]_(Abstract!vars)
<1>0. [RingNext]_ringVars /\ "server" \in Consumers
  BY StepIsRingStep, EmuRPCAssumption
<1>1. ASSUME UNCHANGED <<pushed, popped, emu_client, sent, Hand>> PROVE UNCHANGED Abstract!vars
  BY <1>0, <1>1, ItemsKept, DueFrame DEF InstanceInv
<1>2. ASSUME UNCHANGED <<req, pc, consumer>> PROVE Hand' = Hand
  BY <1>2 DEF Hand, Popped, Answering
<1>3. CASE ServerStep
  <2>1. CASE AllocationFails
    BY <1>1, <1>2, <2>1 DEF AllocationFails, ringVars, emuHistory
  <2>2. CASE PopElement("server")
    BY <2>2, PopIsStutter, DiscardIsLose
  <2>3. CASE \/ CheckStopped \/ ResponsesDone \/ RunCallback \/ HandleTiming("server")
             \/ PopBegin("server") \/ PopEmpty("server") \/ PopSome("server") \/ PopEnd("server")
    <3>1. UNCHANGED <<pushed, popped, emu_client, sent, req>>
      BY <2>3
      DEF CheckStopped, ResponsesDone, RunCallback, HandleTiming, Lookup, CheckBlocking, Jump, PopBegin,
          PopEmpty, PopSome, PopEnd, LoadWriteIndex, LoadReadIndexEmpty, LoadReadIndex, StoreReadIndex,
          implVars, emuHistory, ringVars
    <3>2. (Popped \/ Answering)' = (Popped \/ Answering)
      <4>1. /\ pc \in [Threads -> ServerLabels \cup TimingLabels \cup EmuLabels]
            /\ Threads = {"server", "emu"} /\ consumer \in [Consumers -> ConsumerLocals]
            /\ consumer["server"].pc # "busy" => consumer["server"].i = 0
            /\ pc["server"] \notin PopSites => consumer["server"].pc = "idle"
            /\ pc["server"] = "requests" /\ consumer["server"].pc = "busy" => consumer["server"].n = 1
        BY HistoryTypes DEF InstanceInv, ServiceInv, ServerCall
      <4>2. CASE CheckStopped
        <5>1. pc["server"] = "check" /\ pc'["server"] \in {"exited", "responses"}
          BY <4>1, <4>2 DEF CheckStopped, Jump, Goto, AfterCheck
        <5> QED BY <5>1 DEF Popped, Answering, TimingLabels
      <4>3. CASE ResponsesDone
        <5>1. pc["server"] = "responses" /\ pc'["server"] = "requests" /\ consumer' = consumer
          BY <4>1, <4>3 DEF ResponsesDone, Jump, Goto, AfterResponses, ringVars
        <5> QED BY <4>1, <5>1 DEF Popped, Answering, TimingLabels, PopSites
      <4>4. CASE RunCallback
        <5>1. pc["server"] = "handle" /\ pc'["server"] \in {"respond", "lookup"}
          BY <4>1, <4>4 DEF RunCallback, Goto
        <5> QED BY <5>1 DEF Popped, Answering, TimingLabels
      <4>5. CASE HandleTiming("server")
        <5>1. /\ pc["server"] \in {"lookup", "check_blocking"}
              /\ pc'["server"] \in {"consume_all", "pop_blocked", "respond"}
          BY <4>1, <4>5 DEF HandleTiming, Lookup, CheckBlocking, Jump, Goto, TimingReturns
        <5> QED BY <5>1 DEF Answering, TimingLabels
      <4>6. CASE PopBegin("server") \/ PopSome("server")
        <5>1. pc' = pc /\ consumer["server"].pc # "busy" /\ consumer'["server"].i = 0
          BY <1>0, <4>1, <4>6 DEF PopBegin, PopSome, LoadWriteIndex, LoadReadIndex, implVars
        <5> QED BY <4>1, <5>1 DEF Popped, Answering
      <4>7. CASE PopEmpty("server")
        <5>1. /\ consumer["server"].pc = "load" /\ pc["server"] \in PopSites
              /\ pc'["server"] = AfterEmptyPop("server")
          BY <4>1, <4>7 DEF PopEmpty, LoadReadIndexEmpty, Goto
        <5> QED BY <4>1, <5>1 DEF Popped, Answering, AfterEmptyPop, TimingReturns, PopSites, TimingLabels
      <4>8. CASE PopEnd("server")
        <5>1. /\ consumer["server"].pc = "busy" /\ pc["server"] \in PopSites
              /\ consumer["server"].i = consumer["server"].n
              /\ pc'["server"] = AfterPop("server")
          BY <4>1, <4>8 DEF PopEnd, StoreReadIndex, Goto
        <5> QED BY <4>1, <5>1 DEF Popped, Answering, AfterPop, PopSites, TimingLabels
      <4> QED BY <2>3, <4>2, <4>3, <4>4, <4>5, <4>6, <4>7, <4>8
    <3>3. Hand' = Hand
      BY <3>1, <3>2 DEF Hand
    <3> QED BY <1>1, <3>1, <3>3
  <2> QED
    BY <1>3, <2>1, <2>2, <2>3, SendIsDeliver, ResponseIsLoseOrStutter DEF ServerStep, Pop
<1>4. CASE EmuStep \/ ReportTiming \/ Destroy
  <2>1. CASE JoinServer \/ JoinIo \/ ReportTiming \/ Destroy
    <3>1. UNCHANGED <<pushed, popped, emu_client, sent, req, consumer>>
      BY <2>1 DEF JoinServer, JoinIo, Jump, ReportTiming, Destroy, ringVars, emuHistory
    <3>2. pc'["server"] = pc["server"]
      BY <2>1, HistoryTypes DEF JoinServer, JoinIo, Jump, ReportTiming, Destroy, Goto, InstanceInv
    <3>3. Hand' = Hand
      BY <3>1, <3>2 DEF Hand, Popped, Answering
    <3> QED BY <1>1, <3>1, <3>3
  <2> QED BY <1>4, <2>1, ServerIsTheConsumer DEF EmuStep
<1>5. CASE OnReadPush
  <2>1. CASE PushConstruct
    <3>1. UNCHANGED <<pushed, popped, emu_client, sent, req, consumer, pc>>
      BY <1>5, <2>1 DEF OnReadPush, PushConstruct, implVars, emuHistory
    <3> QED BY <1>1, <1>2, <3>1
  <2> QED BY <1>5, <2>1, PublishIsAccept DEF OnReadPush
<1>6. CASE \/ \E v \in Values : OnReadRequest(v)
           \/ OnReadMalformed \/ IoExit \/ Abort \/ Halted \/ UNCHANGED vars
  <2>1. UNCHANGED <<pushed, popped, emu_client, sent, req, consumer, pc>>
    BY <1>6
    DEF OnReadRequest, PushClaim, PushFull, OnReadMalformed, IoExit, Abort, Halted, vars, implVars,
        emuHistory, ringVars
  <2> QED BY <1>1, <1>2, <2>1
<1> QED
  BY <1>3, <1>4, <1>5, <1>6 DEF Next

\* While only the server thread pops, the ring, the request in hand and emu_client behave as
\* the one queue of module Dispatcher, on which RpcServer is built: for every capacity, any
\* amount of traffic, and memory callbacks that report memory accesses or do not.
THEOREM InstanceImplementsDispatcher ==
    ASSUME OneConsumer, KeepHistory
    PROVE  Spec => ImplementsDispatcher
<1>1. Init => Abstract!Init
  <2> SUFFICES ASSUME Init PROVE Abstract!Init
    OBVIOUS
  <2>1. InstanceInv
    BY InstanceInit
  <2>2. ~(Popped \/ Answering)
    BY DEF Init, Popped, Answering, TimingLabels
  <2>3. Hand = <<>> /\ emu_client = <<>>
    BY <2>2 DEF Hand, Init
  <2>4. Items = <<>>
    <3>1. Len(pushed) = 0 /\ Len(popped) = 0
      BY DEF Init, RingInit
    <3>2. /\ Items \in Seq(Values \cup {NoValue}) /\ Len(Items) = Available - Held
          /\ Available \in Nat /\ Held \in Nat
      BY <2>1, ItemsFacts, RingFacts DEF InstanceInv
    <3>3. Len(pushed) = Len(popped) + Available - Held
      BY <2>1 DEF InstanceInv, RingInv, Contents
    <3>4. Len(Items) = 0
      BY <3>1, <3>2, <3>3
    <3> QED BY <3>2, <3>4
  <2>5. Due = <<>>
    <3>1. Due = (emu_client \o Hand) \o DueTo(Items)
      BY DEF Due, Hand, DueTo
    <3>2. DueTo(Items) = <<>>
      <4>1. Items \in Seq(Values \cup {NoValue}) /\ Len(Items) = 0
        BY <2>4
      <4>2. DueTo(Items) \in Seq(Anything) /\ Len(DueTo(Items)) = 0
        BY <4>1, DueToFacts
      <4> QED BY <4>2
    <3>3. <<>> \in Seq(Anything)
      OBVIOUS
    <3>4. (<<>> \o <<>>) \o <<>> = <<>>
      BY <3>3, ConcatEmptySeq
    <3> QED BY <2>3, <3>1, <3>2, <3>4
  <2> QED BY <2>5 DEF Abstract!Init, LastSent, Init
<1>2. InstanceInv /\ InstanceInv' /\ [Next]_vars => [Abstract!Next]_(Abstract!vars)
  BY StepIsDispatcherStep
<1> QED
  BY <1>1, <1>2, InstanceInit, InstanceStep, PTL DEF Spec, ImplementsDispatcher, Abstract!Spec

=============================================================================
