---------------------------- MODULE EmuRPCProofs ----------------------------
(***************************************************************************)
(* Proofs about EmuRPC::Impl, for every capacity, every set of requests    *)
(* and any amount of traffic.                                              *)
(***************************************************************************)
EXTENDS EmuRPC, SpscQueueProofs

-----------------------------------------------------------------------------
(* Every step of the instance is a step of the ring or leaves it alone. *)

LEMMA PopIsRingStep ==
    ASSUME NEW t \in Consumers, Pop(t)
    PROVE  RingNext
<1>1. PopsAll(t) \in BOOLEAN
  BY DEF PopsAll
<1> QED
  BY <1>1
  DEF Pop, PopBegin, PopEmpty, PopSome, PopElement, PopEnd, RingNext, ConsumerStep

LEMMA StepIsRingStep == [Next]_vars => [RingNext]_ringVars
<1> SUFFICES ASSUME [Next]_vars PROVE [RingNext]_ringVars
  OBVIOUS
<1>1. CASE \E v \in Values : OnReadRequest(v)
  BY <1>1 DEF OnReadRequest, RingNext, ProducerStep
<1>2. CASE OnReadPush
  BY <1>2 DEF OnReadPush, RingNext, ProducerStep
<1>3. CASE OnReadMalformed \/ IoExit \/ ReportTiming \/ Destroy \/ Abort \/ Halted
  BY <1>3 DEF OnReadMalformed, IoExit, ReportTiming, Destroy, Abort, Halted, vars
<1>4. CASE ServerStep
  <2>1. CASE Pop("server")
    BY <2>1, PopIsRingStep, EmuRPCAssumption
  <2>2. CASE \/ CheckStopped \/ SendResponse \/ ResponsesDone \/ RunCallback
             \/ AllocationFails \/ PushResponse \/ HandleTiming("server")
    BY <2>2
    DEF CheckStopped, SendResponse, ResponsesDone, RunCallback, AllocationFails, PushResponse,
        HandleTiming, Lookup, CheckBlocking, Jump
  <2> QED BY <1>4, <2>1, <2>2 DEF ServerStep
<1>5. CASE EmuStep
  <2>1. CASE "emu" \in Consumers /\ Pop("emu")
    BY <2>1, PopIsRingStep
  <2>2. CASE JoinServer \/ JoinIo \/ HandleTiming("emu")
    BY <2>2 DEF JoinServer, JoinIo, HandleTiming, Lookup, CheckBlocking, Jump
  <2> QED BY <1>5, <2>1, <2>2 DEF EmuStep
<1>6. CASE UNCHANGED vars
  BY <1>6 DEF vars
<1> QED
  BY <1>1, <1>2, <1>3, <1>4, <1>5, <1>6 DEF Next

\* Whatever the threads of EmuRPC::Impl do, client_emu is used through push() and the
\* popping calls only: the instance implements the ring's own specification.
THEOREM InstanceUsesRing == Spec => RingSpec
<1>1. Init => RingInit
  BY DEF Init
<1> QED
  BY <1>1, StepIsRingStep, PTL DEF Spec, RingSpec

\* While only the server thread pops, the ownership invariant of the ring holds for
\* client_emu, whatever the memory callbacks report: no request is copied out of a dead
\* cell, and requests leave in the order in which the io thread accepted them.
THEOREM InstanceOwnership ==
    ASSUME OneConsumer
    PROVE  Spec => []RingInv
BY InstanceUsesRing, RingOwnership, PTL

\* While only the server thread pops, client_emu is a bounded FIFO to the threads of
\* EmuRPC::Impl.
THEOREM InstanceImplementsQueue ==
    ASSUME OneConsumer
    PROVE  Spec => ImplementsBoundedQueue
BY InstanceUsesRing, RingImplementsQueue, PTL

-----------------------------------------------------------------------------
(* Type correctness, whoever pops. *)

\* From the memory callback to the push of its response, req is the request answered.
ReqHeld == pc["server"] \in TimingLabels \cup {"respond"} => req \in Values

TypeInv == RingTypeInv /\ TypeOK /\ ReqHeld

LEMMA TypeInit == Init => TypeInv
<1> SUFFICES ASSUME Init PROVE TypeInv
  OBVIOUS
<1>1. RingTypeInv
  BY RingTypeInit DEF Init
<1>2. pc["server"] = "check" /\ pc["emu"] = "running"
  BY DEF Init
<1>3. ReqHeld
  BY <1>2 DEF ReqHeld, TimingLabels
<1>4. pc \in [Threads -> ServerLabels \cup TimingLabels \cup EmuLabels]
  BY DEF Init, Threads, ServerLabels, EmuLabels
<1>5. emu_client \in Seq(Response) /\ Len(emu_client) <= Capacity
  BY SpscAssumption DEF Init, Capacity
<1>6. /\ stopped \in BOOLEAN /\ blocking_emu \in BOOLEAN
      /\ terminated \in BOOLEAN /\ corrupt \in BOOLEAN
      /\ callbacks \in SUBSET HookedTimings
      /\ req \in Values \cup {NoValue}
      /\ io \in {"running", "stopping", "exited"}
  BY DEF Init
<1>7. /\ handled \in Seq(Values) /\ answered \in Seq(Values) /\ lost \in Seq(Values)
      /\ discarded \in Seq(Values \cup {NoValue}) /\ sent \in Seq(Response)
      /\ timings \in Nat /\ peak \in Nat
  BY DEF Init
<1> QED
  BY <1>1, <1>2, <1>3, <1>4, <1>5, <1>6, <1>7
  DEF TypeInv, TypeOK, RingTypeInv, ServerLabels, EmuLabels

LEMMA ResponseType ==
    ASSUME NEW v \in Values
    PROVE  ResponseTo(v) \in Response
BY EmuRPCAssumption DEF ResponseTo, Request, Response

LEMMA GotoType ==
    ASSUME TypeOK, NEW t \in Threads, NEW label, Goto(t, label),
           t = "server" => label \in ServerLabels \cup TimingLabels,
           t = "emu" => label \in EmuLabels \cup TimingLabels
    PROVE  /\ pc' \in [Threads -> ServerLabels \cup TimingLabels \cup EmuLabels]
           /\ pc'["server"] \in ServerLabels \cup TimingLabels
           /\ pc'["emu"] \in EmuLabels \cup TimingLabels
           /\ pc'[t] = label
           /\ t = "emu" => pc'["server"] = pc["server"]
BY DEF TypeOK, Goto, Threads

\* The steps that only move the program counter of t.
LEMMA JumpKeepsType ==
    ASSUME TypeInv, RingTypeInv', NEW t \in Threads, NEW label, Goto(t, label),
           t = "server" => label \in ServerLabels \cup TimingLabels,
           t = "emu" => label \in EmuLabels \cup TimingLabels,
           t = "server" /\ label \in TimingLabels \cup {"respond"} => req \in Values,
           UNCHANGED <<emu_client, blocking_emu, req, terminated>>, corrupt' \in BOOLEAN,
           stopped' \in BOOLEAN, callbacks' \in SUBSET HookedTimings,
           io' \in {"running", "stopping", "exited"}, timings' \in Nat,
           handled' \in Seq(Values), UNCHANGED <<answered, lost, discarded, sent, peak>>
    PROVE  TypeInv'
<1>1. /\ pc' \in [Threads -> ServerLabels \cup TimingLabels \cup EmuLabels]
      /\ pc'["server"] \in ServerLabels \cup TimingLabels
      /\ pc'["emu"] \in EmuLabels \cup TimingLabels
      /\ pc'[t] = label
      /\ t = "emu" => pc'["server"] = pc["server"]
  BY GotoType DEF TypeInv
<1>2. ReqHeld'
  BY <1>1 DEF TypeInv, ReqHeld, Threads
<1> QED
  BY <1>1, <1>2 DEF TypeInv, TypeOK, RingTypeInv

\* The steps that leave the program counters alone.
LEMMA StayKeepsType ==
    ASSUME TypeInv, RingTypeInv', UNCHANGED <<pc, blocking_emu, stopped, callbacks, io, timings>>,
           emu_client' \in Seq(Response), Len(emu_client') <= Capacity,
           req' \in Values \cup {NoValue},
           pc["server"] \in TimingLabels \cup {"respond"} => req' = req,
           terminated' \in BOOLEAN, corrupt' \in BOOLEAN,
           UNCHANGED <<handled, answered, lost>>,
           discarded' \in Seq(Values \cup {NoValue}), sent' \in Seq(Response), peak' \in Nat
    PROVE  TypeInv'
<1>1. ReqHeld'
  BY DEF TypeInv, ReqHeld
<1> QED
  BY <1>1 DEF TypeInv, TypeOK, RingTypeInv

LEMMA PopKeepsType ==
    ASSUME TypeInv, RingTypeInv', NEW t \in Consumers, t \in Threads, Pop(t),
           t = "emu" => pc[t] # "requests"
    PROVE  TypeInv'
<1> USE DEF TypeInv
<1>0. "requests" \notin TimingLabels \cup {"respond"}
  BY DEF TimingLabels
<1>1. CASE PopBegin(t)
  BY <1>1, StayKeepsType DEF PopBegin, implVars, emuHistory, shared, TypeOK
<1>2. CASE PopEmpty(t)
  <2> DEFINE label == AfterEmptyPop(t)
  <2>1. /\ t = "server" => label \in ServerLabels \cup TimingLabels
        /\ t = "emu" => label \in EmuLabels \cup TimingLabels
        /\ t = "server" /\ label \in TimingLabels \cup {"respond"} => req \in Values
    BY <1>2
    DEF PopEmpty, PopSites, AfterEmptyPop, TimingReturns, ServerLabels, TimingLabels,
        EmuLabels, ReqHeld
  <2> HIDE DEF label
  <2> QED
    BY <1>2, <2>1, JumpKeepsType DEF PopEmpty, emuHistory, shared, TypeOK, label
<1>3. CASE PopSome(t)
  BY <1>3, StayKeepsType DEF PopSome, implVars, emuHistory, shared, TypeOK
<1>4. CASE PopElement(t)
  <2>1. slot[CurrentCell(t)] \in Values \cup {NoValue}
    <3>1. consumer[t] \in ConsumerLocals
      BY DEF RingTypeInv, RingTypeOK
    <3>2. CurrentCell(t) \in Index
      BY <3>1, CellType DEF CurrentCell, ConsumerLocals
    <3> QED BY <3>2 DEF RingTypeInv, RingTypeOK
  <2>2. Log(discarded, slot[CurrentCell(t)]) \in Seq(Values \cup {NoValue})
    BY <2>1, LogType DEF TypeOK
  <2>3. req' \in Values \cup {NoValue} /\ discarded' \in Seq(Values \cup {NoValue})
    BY <1>4, <2>1, <2>2 DEF PopElement, TypeOK
  <2>4. corrupt' \in BOOLEAN
    BY <1>4 DEF PopElement, TypeOK
  <2>5. pc["server"] \in TimingLabels \cup {"respond"} => req' = req
    BY <1>0, <1>4 DEF PopElement, Threads
  <2> QED
    BY <1>4, <2>3, <2>4, <2>5, StayKeepsType DEF PopElement, TypeOK
<1>5. CASE PopEnd(t)
  <2> DEFINE label == AfterPop(t)
  <2>1. /\ t = "server" => label \in ServerLabels \cup TimingLabels
        /\ t = "emu" => label \in EmuLabels \cup TimingLabels
        /\ t = "server" /\ label \in TimingLabels \cup {"respond"} => req \in Values
    BY <1>5
    DEF PopEnd, PopSites, AfterPop, ServerLabels, TimingLabels, EmuLabels, ReqHeld
  <2> HIDE DEF label
  <2> QED
    BY <1>5, <2>1, JumpKeepsType DEF PopEnd, emuHistory, shared, TypeOK, label
<1> QED
  BY <1>1, <1>2, <1>3, <1>4, <1>5 DEF Pop

LEMMA TimingKeepsType ==
    ASSUME TypeInv, RingTypeInv', NEW t \in Threads, HandleTiming(t)
    PROVE  TypeInv'
<1> USE DEF TypeInv
<1>1. CASE Lookup(t)
  <2>1. callbacks' \in SUBSET HookedTimings /\ corrupt' \in BOOLEAN
    BY <1>1 DEF Lookup, TypeOK
  <2>2. t = "server" => req \in Values
    BY <1>1 DEF Lookup, ReqHeld, TimingLabels
  <2> QED
    BY <1>1, <2>1, <2>2, JumpKeepsType DEF Lookup, emuHistory, shared, TypeOK, TimingLabels
<1>2. CASE CheckBlocking(t)
  <2> DEFINE label == IF blocking_emu THEN "pop_blocked" ELSE TimingReturns(t)
  <2>1. /\ t = "server" => label \in ServerLabels \cup TimingLabels
        /\ t = "emu" => label \in EmuLabels \cup TimingLabels
        /\ t = "server" => req \in Values
    BY <1>2
    DEF CheckBlocking, TimingReturns, ServerLabels, TimingLabels, EmuLabels, ReqHeld, Threads
  <2>2. Goto(t, label)
    BY <1>2 DEF CheckBlocking, Jump
  <2> HIDE DEF label
  <2> QED
    BY <1>2, <2>1, <2>2, JumpKeepsType DEF CheckBlocking, Jump, emuHistory, shared, TypeOK
<1> QED
  BY <1>1, <1>2 DEF HandleTiming

LEMMA ServerKeepsType ==
    ASSUME TypeInv, RingTypeInv', ServerStep
    PROVE  TypeInv'
<1> USE DEF TypeInv
<1>0. "server" \in Threads /\ "server" \in Consumers
  BY EmuRPCAssumption DEF Threads
<1>1. CASE CheckStopped
  <2> DEFINE label == AfterCheck
  <2>1. Goto("server", label) /\ label \in ServerLabels
    BY <1>1 DEF CheckStopped, Jump, AfterCheck, ServerLabels
  <2>2. label \notin TimingLabels \cup {"respond"}
    BY DEF TimingLabels, AfterCheck
  <2> HIDE DEF label
  <2> QED BY <1>0, <1>1, <2>1, <2>2, JumpKeepsType DEF CheckStopped, Jump, emuHistory, shared, TypeOK
<1>2. CASE SendResponse
  <2>1. /\ Head(emu_client) \in Response /\ Tail(emu_client) \in Seq(Response)
        /\ Len(Tail(emu_client)) <= Capacity
    BY <1>2, SpscAssumption DEF SendResponse, TypeOK, Capacity
  <2>2. Log(sent, Head(emu_client)) \in Seq(Response)
    BY <2>1, LogType DEF TypeOK
  <2> QED BY <1>2, <2>1, <2>2, StayKeepsType DEF SendResponse, shared, TypeOK
<1>3. CASE ResponsesDone
  <2>1. "requests" \in ServerLabels /\ "requests" \notin TimingLabels \cup {"respond"}
    BY DEF TimingLabels, ServerLabels
  <2> QED BY <1>0, <1>3, <2>1, JumpKeepsType DEF ResponsesDone, AfterResponses, Jump, emuHistory, shared, TypeOK
<1>4. CASE RunCallback
  <2>1. PICK label \in {"respond", "lookup"} : Goto("server", label)
    BY <1>4 DEF RunCallback
  <2>2. label \in ServerLabels \cup TimingLabels /\ req \in Values
    BY <1>4 DEF RunCallback, ServerLabels, TimingLabels
  <2>3. Log(handled, req) \in Seq(Values)
    BY <2>2, LogType DEF TypeOK
  <2> QED BY <1>0, <1>4, <2>1, <2>2, <2>3, JumpKeepsType DEF RunCallback, shared, TypeOK
<1>5. CASE PushResponse
  <2>1. req \in Values
    BY <1>5 DEF PushResponse, ReqHeld
  <2>2. /\ emu_client' \in Seq(Response) /\ Len(emu_client') <= Capacity
        /\ answered' \in Seq(Values) /\ lost' \in Seq(Values)
    <3>1. CASE Len(emu_client) < Capacity
      <4>1. ResponseTo(req) \in Response /\ Log(answered, req) \in Seq(Values)
        BY <2>1, ResponseType, LogType DEF TypeOK
      <4>2. emu_client' = Append(emu_client, ResponseTo(req)) /\ UNCHANGED lost
            /\ answered' = Log(answered, req)
        BY <1>5, <3>1 DEF PushResponse, Room
      <4> QED BY <3>1, <4>1, <4>2, SpscAssumption DEF TypeOK, Capacity
    <3>2. CASE ~(Len(emu_client) < Capacity)
      BY <1>5, <2>1, <3>2, LogType DEF PushResponse, Room, TypeOK
    <3> QED BY <3>1, <3>2
  <2>3. /\ pc' \in [Threads -> ServerLabels \cup TimingLabels \cup EmuLabels]
        /\ pc'["server"] = "requests" /\ pc'["emu"] = pc["emu"]
    BY <1>5 DEF PushResponse, Goto, TypeOK, Threads, ServerLabels
  <2>4. ReqHeld'
    BY <2>3 DEF ReqHeld, TimingLabels
  <2> QED
    BY <1>5, <2>2, <2>3, <2>4 DEF PushResponse, shared, TypeOK, RingTypeInv, ServerLabels
<1>6. CASE Pop("server")
  BY <1>0, <1>6, PopKeepsType
<1>7. CASE HandleTiming("server")
  BY <1>0, <1>7, TimingKeepsType
<1>8. CASE AllocationFails
  BY <1>8, StayKeepsType DEF AllocationFails, emuHistory, shared, TypeOK
<1> QED
  BY <1>1, <1>2, <1>3, <1>4, <1>5, <1>6, <1>7, <1>8 DEF ServerStep

LEMMA EmuKeepsType ==
    ASSUME TypeInv, RingTypeInv', EmuStep \/ ReportTiming \/ Destroy
    PROVE  TypeInv'
<1> USE DEF TypeInv
<1>0. "emu" \in Threads
  BY DEF Threads
<1>1. CASE JoinServer \/ JoinIo
  BY <1>0, <1>1, JumpKeepsType DEF JoinServer, JoinIo, Jump, emuHistory, shared, TypeOK, EmuLabels
<1>2. CASE "emu" \in Consumers /\ Pop("emu")
  <2>1. pc["emu"] # "requests"
    BY DEF TypeOK, EmuLabels, TimingLabels
  <2> QED BY <1>0, <1>2, <2>1, PopKeepsType
<1>3. CASE HandleTiming("emu")
  BY <1>0, <1>3, TimingKeepsType
<1>4. CASE ReportTiming
  <2>1. timings' \in Nat
    BY <1>4 DEF ReportTiming, TypeOK
  <2> QED
    BY <1>0, <1>4, <2>1, JumpKeepsType DEF ReportTiming, emuHistory, shared, TypeOK, TimingLabels
<1>5. CASE Destroy
  BY <1>0, <1>5, JumpKeepsType DEF Destroy, emuHistory, shared, TypeOK, EmuLabels
<1> QED
  BY <1>1, <1>2, <1>3, <1>4, <1>5 DEF EmuStep

LEMMA IoKeepsType ==
    ASSUME TypeInv, RingTypeInv',
           (\E v \in Values : OnReadRequest(v)) \/ OnReadMalformed \/ OnReadPush \/ IoExit
    PROVE  TypeInv'
<1> USE DEF TypeInv
<1>1. CASE \E v \in Values : OnReadRequest(v)
  <2>1. Outstanding \in Int
    BY DEF Outstanding, TypeOK, RingTypeOK
  <2>2. peak' \in Nat
    BY <1>1, <2>1 DEF OnReadRequest, TypeOK
  <2> QED
    BY <1>1, <2>2, StayKeepsType DEF OnReadRequest, implVars, shared, TypeOK
<1>2. CASE OnReadMalformed
  BY <1>2, StayKeepsType DEF OnReadMalformed, emuHistory, shared, TypeOK
<1>3. CASE OnReadPush
  BY <1>3, StayKeepsType DEF OnReadPush, implVars, emuHistory, shared, TypeOK
<1>4. CASE IoExit
  <2>1. ReqHeld'
    BY <1>4 DEF IoExit, ReqHeld
  <2> QED BY <1>4, <2>1 DEF IoExit, emuHistory, shared, TypeOK, RingTypeInv
<1> QED
  BY <1>1, <1>2, <1>3, <1>4

LEMMA TypeStep == TypeInv /\ [Next]_vars => TypeInv'
<1> SUFFICES ASSUME TypeInv, [Next]_vars PROVE TypeInv'
  OBVIOUS
<1>1. RingTypeInv'
  BY StepIsRingStep, RingTypeStep DEF TypeInv
<1>2. CASE Abort
  BY <1>1, <1>2, StayKeepsType DEF Abort, emuHistory, shared, TypeOK, TypeInv
<1>3. CASE Halted \/ UNCHANGED vars
  BY <1>1, <1>3, StayKeepsType DEF Halted, vars, implVars, emuHistory, shared, TypeOK, TypeInv
<1> QED
  BY <1>1, <1>2, <1>3, ServerKeepsType, EmuKeepsType, IoKeepsType DEF Next

\* Every variable of the instance keeps its type, whoever pops and however the process
\* ends; in particular emu_client never exceeds its capacity.
THEOREM TypeCorrect == Spec => []TypeOK
<1>1. TypeInv => TypeOK
  BY DEF TypeInv
<1> QED
  BY <1>1, TypeInit, TypeStep, PTL DEF Spec

-----------------------------------------------------------------------------
(* Responses belong to their requests. *)

\* The inductive form: the responses are the ones HandleRequest builds.
AnswersExact ==
    /\ Len(sent) + Len(emu_client) = Len(answered)
    /\ \A k \in 1 .. Len(sent) : sent[k] = ResponseTo(answered[k])
    /\ \A k \in 1 .. Len(emu_client) :
          emu_client[k] = ResponseTo(answered[Len(sent) + k])

LEMMA SendKeepsAnswers ==
    ASSUME KeepHistory, TypeOK, AnswersExact, SendResponse
    PROVE  AnswersExact'
<1>1. /\ emu_client \in Seq(Response) /\ emu_client # <<>> /\ sent \in Seq(Response)
      /\ answered \in Seq(Values) /\ answered' = answered
      /\ sent' = Append(sent, Head(emu_client)) /\ emu_client' = Tail(emu_client)
  BY DEF SendResponse, TypeOK, Log
<1>2. /\ Len(emu_client) \in Nat \ {0} /\ Len(sent) \in Nat
      /\ Len(sent') = Len(sent) + 1 /\ Len(emu_client') = Len(emu_client) - 1
      /\ Head(emu_client) = emu_client[1]
  BY <1>1
<1>3. Len(sent') + Len(emu_client') = Len(answered')
  BY <1>1, <1>2 DEF AnswersExact
<1>4. ASSUME NEW k \in 1 .. Len(sent') PROVE sent'[k] = ResponseTo(answered'[k])
  <2>1. CASE k = Len(sent) + 1
    <3>1. sent'[k] = emu_client[1]
      BY <1>1, <1>2, <2>1
    <3>2. emu_client[1] = ResponseTo(answered[Len(sent) + 1])
      BY <1>2 DEF AnswersExact
    <3> QED BY <1>1, <2>1, <3>1, <3>2
  <2>2. CASE k \in 1 .. Len(sent)
    <3>1. sent'[k] = sent[k]
      BY <1>1, <2>2
    <3> QED BY <1>1, <2>2, <3>1 DEF AnswersExact
  <2> QED BY <1>2, <2>1, <2>2
<1>5. ASSUME NEW k \in 1 .. Len(emu_client')
      PROVE  emu_client'[k] = ResponseTo(answered'[Len(sent') + k])
  <2>1. emu_client'[k] = emu_client[k + 1] /\ k + 1 \in 1 .. Len(emu_client)
    BY <1>1, <1>2
  <2>2. emu_client[k + 1] = ResponseTo(answered[Len(sent) + (k + 1)])
    BY <2>1 DEF AnswersExact
  <2>3. Len(sent) + (k + 1) = Len(sent') + k
    BY <1>2
  <2> QED BY <1>1, <2>1, <2>2, <2>3
<1> QED
  BY <1>3, <1>4, <1>5 DEF AnswersExact

LEMMA PushKeepsAnswers ==
    ASSUME KeepHistory, TypeInv, AnswersExact, PushResponse
    PROVE  AnswersExact'
<1>1. CASE Len(emu_client) < Capacity
  <2>1. /\ emu_client' = Append(emu_client, ResponseTo(req)) /\ sent' = sent
        /\ answered' = Append(answered, req)
    BY <1>1 DEF PushResponse, Room, Log
  <2>2. req \in Values /\ ResponseTo(req) \in Response
    BY ResponseType DEF TypeInv, ReqHeld, PushResponse
  <2>3. /\ emu_client \in Seq(Response) /\ sent \in Seq(Response) /\ answered \in Seq(Values)
        /\ Len(emu_client) \in Nat /\ Len(sent) \in Nat
        /\ Len(answered) = Len(sent) + Len(emu_client)
    BY DEF TypeInv, TypeOK, AnswersExact
  <2>4. Len(sent') + Len(emu_client') = Len(answered')
    BY <2>1, <2>2, <2>3
  <2>5. \A k \in 1 .. Len(answered) : answered'[k] = answered[k]
    BY <2>1, <2>2, <2>3
  <2>6. ASSUME NEW k \in 1 .. Len(sent') PROVE sent'[k] = ResponseTo(answered'[k])
    <3>1. k \in 1 .. Len(sent) /\ k \in 1 .. Len(answered)
      BY <2>1, <2>3
    <3> QED BY <2>1, <2>5, <3>1 DEF AnswersExact
  <2>7. ASSUME NEW k \in 1 .. Len(emu_client')
        PROVE  emu_client'[k] = ResponseTo(answered'[Len(sent') + k])
    <3>1. CASE k = Len(emu_client) + 1
      <4>1. emu_client'[k] = ResponseTo(req)
        BY <2>1, <2>2, <2>3, <3>1
      <4>2. Len(sent') + k = Len(answered) + 1
        BY <2>1, <2>3, <3>1
      <4>3. answered'[Len(answered) + 1] = req
        BY <2>1, <2>2, <2>3
      <4> QED BY <4>1, <4>2, <4>3
    <3>2. CASE k \in 1 .. Len(emu_client)
      <4>1. emu_client'[k] = emu_client[k]
        BY <2>1, <2>2, <2>3, <3>2
      <4>2. Len(sent) + k \in 1 .. Len(answered) /\ Len(sent') = Len(sent)
        BY <2>1, <2>3, <3>2
      <4> QED BY <2>5, <3>2, <4>1, <4>2 DEF AnswersExact
    <3>3. k \in 1 .. (Len(emu_client) + 1)
      BY <2>1, <2>2, <2>3
    <3> QED BY <2>3, <3>1, <3>2, <3>3
  <2> QED BY <2>4, <2>6, <2>7 DEF AnswersExact
<1>2. CASE ~(Len(emu_client) < Capacity)
  BY <1>2 DEF PushResponse, Room, AnswersExact
<1> QED
  BY <1>1, <1>2

LEMMA AnswersStep ==
    ASSUME KeepHistory
    PROVE  TypeInv /\ AnswersExact /\ [Next]_vars => AnswersExact'
<1> SUFFICES ASSUME TypeInv, AnswersExact, [Next]_vars PROVE AnswersExact'
  OBVIOUS
<1>1. ASSUME UNCHANGED <<emu_client, answered, sent>> PROVE AnswersExact'
  BY <1>1 DEF AnswersExact
<1>2. ASSUME NEW t, Pop(t) \/ HandleTiming(t) PROVE AnswersExact'
  BY <1>1, <1>2
  DEF Pop, PopBegin, PopEmpty, PopSome, PopElement, PopEnd, HandleTiming, Lookup,
      CheckBlocking, Jump, implVars, emuHistory, shared
<1>3. CASE ServerStep
  <2>1. CASE CheckStopped \/ ResponsesDone \/ RunCallback \/ AllocationFails
    BY <1>1, <2>1
    DEF CheckStopped, ResponsesDone, RunCallback, AllocationFails, Jump, emuHistory, shared
  <2> QED
    BY <1>2, <1>3, <2>1, SendKeepsAnswers, PushKeepsAnswers DEF ServerStep, TypeInv
<1>4. CASE EmuStep \/ ReportTiming \/ Destroy
  BY <1>1, <1>2, <1>4 DEF EmuStep, JoinServer, JoinIo, Jump, ReportTiming, Destroy, emuHistory, shared
<1>5. CASE (\E v \in Values : OnReadRequest(v)) \/ OnReadMalformed \/ OnReadPush \/ IoExit
  BY <1>1, <1>5 DEF OnReadRequest, OnReadMalformed, OnReadPush, IoExit, implVars, emuHistory, shared
<1>6. CASE Abort \/ Halted \/ UNCHANGED vars
  BY <1>1, <1>6 DEF Abort, Halted, vars, implVars, emuHistory, shared
<1> QED
  BY <1>3, <1>4, <1>5, <1>6 DEF Next

=============================================================================
