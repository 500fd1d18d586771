------------------------------- MODULE EmuRPC -------------------------------
(***************************************************************************)
(* class EmuRPC::Impl: the three threads of an EmuRPC instance and the two *)
(* queues between them.                                                    *)
(*                                                                         *)
(*   io thread      Session::OnRead pushes every decoded request to        *)
(*                  client_emu                                             *)
(*   server thread  ProcessEvents() sends what is in emu_client, then      *)
(*                  handles what is in client_emu                          *)
(*   emu thread     the emulator: reports timings (HandleTiming) and       *)
(*                  finally destroys the instance                          *)
(*                                                                         *)
(* client_emu is the ring of SpscQueue, step by step, because both the     *)
(* server and the emu thread pop it.  emu_client is pushed and popped by   *)
(* the server thread only, so each of its operations is one step.          *)
(*                                                                         *)
(* HandleTiming also runs the requests stored in callbacks[t]; no code     *)
(* stores one, so only the insertion of the empty list remains of that     *)
(* loop.  HandleRequest answers memory_read and memory_write, the only     *)
(* methods DeserializeRequest lets through.                                *)
(***************************************************************************)
EXTENDS SpscQueue

CONSTANTS
    CallbackHooks,  \* TRUE: the memory callbacks may report OnMemoryAccess, on the server thread
    MaxTimings      \* bound: timings the emulator reports, when history is kept

HookedTimings == {"FrameEnd", "MemoryAccess"}

\* Nothing reads the timing, sync and function of a request.  A read has a length that
\* std::vector can allocate, or it does not fit.
Request == [client : Nat, id : Nat, method : {"MemoryRead", "MemoryWrite"}, fits : BOOLEAN]
Response == [client : Nat, id : Nat, kind : {"MemoryRead", "MemoryWrite"}]

ASSUME EmuRPCAssumption ==
    /\ Values \subseteq Request
    /\ "server" \in Consumers
    /\ Consumers \subseteq {"server", "emu"}  \* "emu": the emulator reports timings
    /\ CallbackHooks \in BOOLEAN
    /\ MaxTimings \in Nat

VARIABLES
    emu_client,    \* responses waiting for the server thread
    stopped,       \* Impl::stopped
    blocking_emu,  \* Impl::blocking_emu, never initialised and never reset
    callbacks,     \* the timings that have a (necessarily empty) list in Impl::callbacks
    pc,            \* where the server and the emu thread are
    req,           \* ProcessEvents: the request it popped
    io,            \* the thread inside ioc->run()
    terminated,    \* the process died: std::terminate or undefined behaviour
    corrupt,       \* pop(&message) overran its one-element buffer, or callbacks was raced on
    timings,       \* number of timings the emulator has reported
    handled,       \* history: requests whose memory callback ran
    answered,      \* history: requests whose response entered emu_client
    lost,          \* history: requests whose response found emu_client full
    discarded,     \* history: requests HandleTiming popped and dropped
    sent,          \* history: responses given to RPCServer::SendResponse
    peak           \* history: most requests ever outstanding at once

emuHistory == <<handled, answered, lost, discarded, sent, peak>>
shared == <<stopped, blocking_emu, callbacks, io, terminated, corrupt, timings>>
implVars == <<emu_client, pc, req, shared>>
vars == <<ringVars, implVars, emuHistory>>

Threads == {"server", "emu"}

Init ==
    /\ RingInit
    /\ emu_client = <<>>
    /\ stopped = FALSE
    /\ blocking_emu \in BOOLEAN
    /\ callbacks = {}
    /\ pc = [server |-> "check", emu |-> "running"]
    /\ req = NoValue
    /\ io = "running"
    /\ terminated = FALSE
    /\ corrupt = FALSE
    /\ timings = 0
    /\ handled = <<>>
    /\ answered = <<>>
    /\ lost = <<>>
    /\ discarded = <<>>
    /\ sent = <<>>
    /\ peak = 0

Goto(t, label) == pc' = [pc EXCEPT ![t] = label]

\* A step that reads shared state and changes nothing else.
Jump(t, label) ==
    /\ Goto(t, label)
    /\ UNCHANGED <<ringVars, emu_client, req, shared, emuHistory>>

-----------------------------------------------------------------------------
(* io thread: Session::OnRead, as far as it touches the instance. *)

Outstanding == Len(pushed) + Len(refused) - Len(sent)

OnReadRequest(v) ==
    /\ ~terminated
    /\ io = "running"
    /\ Len(pushed) < MaxPushes
    /\ Len(refused) < MaxPushes
    /\ PushClaim(v) \/ PushFull(v)
    /\ peak' = IF KeepHistory /\ Outstanding + 1 > peak THEN Outstanding + 1 ELSE peak
    /\ UNCHANGED <<implVars, handled, answered, lost, discarded, sent>>

\* DeserializeRequest throws; nothing catches it between here and the thread's entry.
OnReadMalformed ==
    /\ ~terminated
    /\ io = "running"
    /\ producer.pc = "idle"
    /\ terminated' = TRUE
    /\ UNCHANGED <<ringVars, emu_client, stopped, blocking_emu, callbacks, pc, req, io,
                   corrupt, timings, emuHistory>>

OnReadPush ==
    /\ ~terminated
    /\ PushConstruct \/ PushStore
    /\ UNCHANGED <<implVars, emuHistory>>

\* ioc->run() returns between two handlers.
IoExit ==
    /\ ~terminated
    /\ io = "stopping"
    /\ producer.pc = "idle"
    /\ io' = "exited"
    /\ UNCHANGED <<ringVars, emu_client, stopped, blocking_emu, callbacks, pc, req,
                   terminated, corrupt, timings, emuHistory>>

-----------------------------------------------------------------------------
(* Popping client_emu: ProcessEvents at "requests", HandleTiming at          *)
(* "consume_all" and, when blocking_emu is set, at "pop_blocked".            *)

PopSites == {"requests", "consume_all", "pop_blocked"}

TimingReturns(t) == IF t = "server" THEN "respond" ELSE "running"

PopBegin(t) ==
    /\ ~terminated
    /\ pc[t] \in PopSites
    /\ LoadWriteIndex(t)
    /\ UNCHANGED <<implVars, emuHistory>>

\* Mutant: the request loop of ProcessEvents does not end on an empty queue.
AfterEmptyPopStays(t) ==
    CASE pc[t] = "requests"    -> "requests"
      [] pc[t] = "consume_all" -> "check_blocking"
      [] OTHER                 -> TimingReturns(t)

\* Mutant: HandleTiming waits at an empty queue for the Continue that is to end the block.
AfterEmptyPopBlocks(t) ==
    CASE pc[t] = "requests"    -> "check"
      [] pc[t] = "consume_all" -> "check_blocking"
      [] OTHER                 -> pc[t]

AfterEmptyPop(t) ==
    CASE pc[t] = "requests"    -> "check"
      [] pc[t] = "consume_all" -> "check_blocking"
      [] OTHER                 -> TimingReturns(t)

PopEmpty(t) ==
    /\ ~terminated
    /\ pc[t] \in PopSites
    /\ LoadReadIndexEmpty(t)
    /\ Goto(t, AfterEmptyPop(t))
    /\ UNCHANGED <<emu_client, req, shared, emuHistory>>

\* Mutant: ProcessEvents too pops with the overload that takes an output iterator.
PopsAllEverywhere(t) == TRUE

\* pop(req) takes one request; consume_all() and pop(&message) take them all.
PopsAll(t) == pc[t] # "requests"

PopSome(t) ==
    /\ ~terminated
    /\ pc[t] \in PopSites
    /\ LoadReadIndex(t, PopsAll(t))
    /\ UNCHANGED <<implVars, emuHistory>>

\* ProcessEvents keeps the request; both loops of HandleTiming look at it and drop it.
PopElement(t) ==
    /\ ~terminated
    /\ pc[t] \in PopSites
    /\ ConsumeElement(t)
    /\ IF pc[t] = "requests"
       THEN /\ req' = slot[CurrentCell(t)]
            /\ UNCHANGED <<discarded, corrupt>>
       ELSE /\ discarded' = Log(discarded, slot[CurrentCell(t)])
            /\ corrupt' = (corrupt \/ (pc[t] = "pop_blocked" /\ consumer[t].i > 0))
            /\ UNCHANGED req
    /\ UNCHANGED <<emu_client, stopped, blocking_emu, callbacks, pc, io, terminated,
                   timings, handled, answered, lost, sent, peak>>

\* Mutant: ProcessEvents pops a request and does not handle it.
AfterPopSkips(t) == IF pc[t] = "consume_all" THEN "check_blocking" ELSE pc[t]

AfterPop(t) ==
    CASE pc[t] = "requests"    -> "handle"
      [] pc[t] = "consume_all" -> "check_blocking"
      [] OTHER                 -> "pop_blocked"

PopEnd(t) ==
    /\ ~terminated
    /\ pc[t] \in PopSites
    /\ StoreReadIndex(t)
    /\ Goto(t, AfterPop(t))
    /\ UNCHANGED <<emu_client, req, shared, emuHistory>>

Pop(t) == PopBegin(t) \/ PopEmpty(t) \/ PopSome(t) \/ PopElement(t) \/ PopEnd(t)

-----------------------------------------------------------------------------
(* HandleTiming(t), on the thread of whoever reports the timing. *)

\* callbacks[t] inserts an empty list for a timing it has not seen; nothing protects the
\* map when the other thread is inside it.
Lookup(t) ==
    /\ ~terminated
    /\ pc[t] = "lookup"
    /\ \E timing \in HookedTimings :
          /\ t = "server" => timing = "MemoryAccess"
          /\ callbacks' = callbacks \cup {timing}
          /\ corrupt' = \/ corrupt
                        \/ timing \notin callbacks /\ \A u \in Threads : pc[u] = "lookup"
    /\ Goto(t, "consume_all")
    /\ UNCHANGED <<ringVars, emu_client, stopped, blocking_emu, req, io, terminated,
                   timings, emuHistory>>

CheckBlocking(t) ==
    /\ ~terminated
    /\ pc[t] = "check_blocking"
    /\ Jump(t, IF blocking_emu THEN "pop_blocked" ELSE TimingReturns(t))

HandleTiming(t) == Lookup(t) \/ CheckBlocking(t)

-----------------------------------------------------------------------------
(* Server thread: ProcessEvents. *)

\* Mutant: the loop does not look at stopped.
AfterCheckNever == "responses"

AfterCheck == IF stopped THEN "exited" ELSE "responses"

CheckStopped ==
    /\ ~terminated
    /\ pc["server"] = "check"
    /\ Jump("server", AfterCheck)

SendResponse ==
    /\ ~terminated
    /\ pc["server"] = "responses"
    /\ emu_client # <<>>
    /\ sent' = Log(sent, Head(emu_client))
    /\ emu_client' = Tail(emu_client)
    /\ UNCHANGED <<ringVars, pc, req, shared, handled, answered, lost, discarded, peak>>

\* Mutant: a round ends after the responses.
AfterResponsesSkip == "check"

AfterResponses == "requests"

ResponsesDone ==
    /\ ~terminated
    /\ pc["server"] = "responses"
    /\ emu_client = <<>>
    /\ Jump("server", AfterResponses)

\* HandleRequest: the memory callback, which may itself report a memory access.
RunCallback ==
    /\ ~terminated
    /\ pc["server"] = "handle"
    /\ req \in Values /\ req.fits
    /\ handled' = Log(handled, req)
    /\ \/ Goto("server", "respond")
       \/ CallbackHooks /\ Goto("server", "lookup")
    /\ UNCHANGED <<ringVars, emu_client, req, shared, answered, lost, discarded, sent, peak>>

\* HandleRequest: the buffer of a read cannot be allocated.  Nothing catches what
\* std::vector throws between here and the thread's entry.
AllocationFails ==
    /\ ~terminated
    /\ pc["server"] = "handle"
    /\ req \in Values /\ ~req.fits
    /\ terminated' = TRUE
    /\ UNCHANGED <<ringVars, emu_client, stopped, blocking_emu, callbacks, pc, req, io,
                   corrupt, timings, emuHistory>>

ResponseTo(v) == [client |-> v.client, id |-> v.id, kind |-> v.method]

\* Mutants: emu_client takes more than it has room for, or is full too early.
RoomAlways == TRUE
RoomEarly == Len(emu_client) < Capacity - 1

Room == Len(emu_client) < Capacity

\* HandleRequest: emu_client.push(), whose result is ignored.
PushResponse ==
    /\ ~terminated
    /\ pc["server"] = "respond"
    /\ IF Room
       THEN /\ emu_client' = Append(emu_client, ResponseTo(req))
            /\ answered' = Log(answered, req)
            /\ UNCHANGED lost
       ELSE /\ lost' = Log(lost, req)
            /\ UNCHANGED <<emu_client, answered>>
    /\ Goto("server", "requests")
    /\ UNCHANGED <<ringVars, req, shared, handled, discarded, sent, peak>>

ServerStep ==
    \/ CheckStopped \/ SendResponse \/ ResponsesDone
    \/ RunCallback \/ AllocationFails \/ PushResponse
    \/ Pop("server") \/ HandleTiming("server")

-----------------------------------------------------------------------------
(* Emu thread: OnFrameEnd, OnMemoryAccess and ~EmuRPC. *)

ReportTiming ==
    /\ ~terminated
    /\ pc["emu"] = "running"
    /\ "emu" \in Consumers
    /\ timings < MaxTimings
    /\ timings' = IF KeepHistory THEN timings + 1 ELSE timings
    /\ Goto("emu", "lookup")
    /\ UNCHANGED <<ringVars, emu_client, stopped, blocking_emu, callbacks, req, io,
                   terminated, corrupt, emuHistory>>

\* ~Impl: ask the server thread to stop and join it.
Destroy ==
    /\ ~terminated
    /\ pc["emu"] = "running"
    /\ stopped' = TRUE
    /\ Goto("emu", "join_server")
    /\ UNCHANGED <<ringVars, emu_client, blocking_emu, callbacks, req, io, terminated,
                   corrupt, timings, emuHistory>>

\* Mutant: ~Impl does not wait for the server thread.
ServerJoinedAtOnce == TRUE

ServerJoined == pc["server"] = "exited"

\* The members of Impl die in reverse order: ~RPCServer stops the io_context ...
JoinServer ==
    /\ ~terminated
    /\ pc["emu"] = "join_server"
    /\ ServerJoined
    /\ io' = "stopping"
    /\ Goto("emu", "join_io")
    /\ UNCHANGED <<ringVars, emu_client, stopped, blocking_emu, callbacks, req,
                   terminated, corrupt, timings, emuHistory>>

\* ... and joins its thread; then both queues are freed.
JoinIo ==
    /\ ~terminated
    /\ pc["emu"] = "join_io"
    /\ io = "exited"
    /\ Jump("emu", "destroyed")

EmuStep ==
    \/ JoinServer \/ JoinIo
    \/ "emu" \in Consumers /\ (Pop("emu") \/ HandleTiming("emu"))

\* After undefined behaviour the process may die at any moment.
Abort ==
    /\ ~terminated
    /\ ub \/ corrupt
    /\ terminated' = TRUE
    /\ UNCHANGED <<ringVars, emu_client, stopped, blocking_emu, callbacks, pc, req, io,
                   corrupt, timings, emuHistory>>

\* Nothing is left to run.
Halted ==
    /\ terminated \/ pc["emu"] = "destroyed"
    /\ UNCHANGED vars

-----------------------------------------------------------------------------
Next ==
    \/ \E v \in Values : OnReadRequest(v)
    \/ OnReadMalformed
    \/ OnReadPush
    \/ IoExit
    \/ ServerStep
    \/ ReportTiming
    \/ Destroy
    \/ EmuStep
    \/ Abort
    \/ Halted

Spec == Init /\ [][Next]_vars

\* A thread that is inside the library keeps running.  Nothing obliges a client to
\* send, the emulator to report a timing or to destroy the instance.
Fairness ==
    /\ WF_vars(OnReadPush \/ IoExit)
    /\ WF_vars(ServerStep)
    /\ WF_vars(EmuStep)

FairSpec == Spec /\ Fairness

-----------------------------------------------------------------------------
(* What makes the dispatcher correct. *)

ServerLabels == {"check", "responses", "requests", "handle", "respond", "exited"}
TimingLabels == {"lookup", "consume_all", "check_blocking", "pop_blocked"}
EmuLabels == {"running", "join_server", "join_io", "destroyed"}

\* Every variable of the instance keeps its type; emu_client stays within its capacity.
TypeOK ==
    /\ RingTypeOK
    /\ emu_client \in Seq(Response) /\ Len(emu_client) <= Capacity
    /\ stopped \in BOOLEAN
    /\ blocking_emu \in BOOLEAN
    /\ callbacks \in SUBSET HookedTimings
    /\ pc \in [Threads -> ServerLabels \cup TimingLabels \cup EmuLabels]
    /\ pc["server"] \in ServerLabels \cup TimingLabels
    /\ pc["emu"] \in EmuLabels \cup TimingLabels
    /\ req \in Values \cup {NoValue}
    /\ io \in {"running", "stopping", "exited"}
    /\ terminated \in BOOLEAN
    /\ corrupt \in BOOLEAN
    /\ timings \in Nat
    /\ handled \in Seq(Values)
    /\ answered \in Seq(Values)
    /\ lost \in Seq(Values)
    /\ discarded \in Seq(Values \cup {NoValue})
    /\ sent \in Seq(Response)
    /\ peak \in Nat

\* Until HandleTiming discards a request, the memory callbacks run for the accepted
\* requests in the order of acceptance, once each and without a gap.
ServedInOrder ==
    discarded = <<>> =>
        /\ Len(handled) <= Len(pushed)
        /\ \A k \in 1 .. Len(handled) : handled[k] = pushed[k]

\* The server thread holds a request it popped and has not handled yet.
Popped == \/ pc["server"] = "handle"
          \/ pc["server"] = "requests" /\ consumer["server"].i = 1

\* The callback for req has run and its response is not pushed yet.
Answering == pc["server"] \in TimingLabels \cup {"respond"}

One(condition) == IF condition THEN 1 ELSE 0

\* Whoever popped a request still accounts for it: the server thread holds it, has
\* answered it or lost its response to a full emu_client, or HandleTiming dropped it.
PoppedAccounted ==
    /\ Len(popped) = Len(handled) + Len(discarded) + One(Popped)
    /\ Len(handled) = Len(answered) + Len(lost) + One(Answering)

\* No accepted request vanishes: it is in the ring or it was popped once.
Accounted == PoppedAccounted /\ Len(pushed) = Len(popped) + Len(Items)

\* A client that never has more than Capacity requests outstanding loses nothing to
\* either queue, although a cell of client_emu is released only after its element was
\* popped and emu_client is drained only between two rounds of requests.
FlowControl == peak <= Capacity => refused = <<>> /\ lost = <<>>

\* Once ~RPCServer runs, the server thread touches neither queue nor the server, and
\* once the instance is gone no thread touches it.
NoUseAfterFree ==
    [][ /\ pc["emu"] = "join_io" => UNCHANGED <<read_index, consumer, emu_client, sent>>
        /\ pc["emu"] = "destroyed" => UNCHANGED <<ringVars, emu_client, callbacks, sent>> ]_vars

\* The requests inside the instance, each as the response that is due to it.
Due ==
    emu_client
    \o (IF Popped \/ Answering THEN <<ResponseTo(req)>> ELSE <<>>)
    \o [k \in 1 .. Len(Items) |-> ResponseTo(Items[k])]

LastSent == IF sent = <<>> THEN NoValue ELSE sent[Len(sent)]

Abstract == INSTANCE Dispatcher WITH
    Requests <- {ResponseTo(v) : v \in Values}, Slots <- 2 * Capacity + 1, None <- NoValue,
    pending <- Due, current <- LastSent

\* While one thread pops client_emu, the two queues, the request in HandleRequest and the
\* callbacks that call back into HandleTiming are together one queue that answers in
\* the order of acceptance, each request at most once, and makes no request up.
ImplementsDispatcher == Abstract!Spec

-----------------------------------------------------------------------------
(* What must eventually happen, under FairSpec. *)

Arrival == \E v \in Values : OnReadRequest(v)
Quiet == <>[][~Arrival]_vars

\* An accepted request leaves its cell of client_emu even under sustained traffic: the
\* drain loops of ProcessEvents keep up with the one cell they look at.
RequestTaken ==
    \A cell \in Index :
        (cell \in live /\ producer.pc # "built") ~> (cell \notin live \/ stopped \/ terminated)

\* Once clients stop sending, the server thread comes back to look at stopped, so that
\* ~Impl returns: neither of the two joins waits forever.
ShutdownWhenQuiet == Quiet => (stopped ~> (pc["emu"] = "destroyed" \/ terminated))

\* Once clients stop sending, the server thread sends every response that is waiting and
\* empties client_emu, unless it is stopped first.
DrainsWhenQuiet ==
    Quiet => <>[]((emu_client = <<>> /\ live = {}) \/ stopped \/ terminated)

\* OnFrameEnd and OnMemoryAccess return to the emulator once clients have sent what they
\* send: the loops of HandleTiming come to an end although blocking_emu is uninitialised
\* and the server thread, popping the same ring, may set the read index back under them.
EmulatorResumes ==
    pc["emu"] \in TimingLabels ~> (pc["emu"] \notin TimingLabels \/ terminated)

\* Every accepted request is settled: it is answered, or the dispatcher has lost it to a
\* full emu_client or to HandleTiming, unless the instance goes away first.
SettledEventually ==
    \A k \in 1 .. MaxPushes :
        Len(pushed) >= k ~> (\/ Len(sent) + Len(lost) + Len(discarded) >= k
                            \/ stopped \/ terminated)

\* Every accepted request is answered (or its response meets a full emu_client) unless
\* the instance goes away first.
AnsweredEventually ==
    \A k \in 1 .. MaxPushes :
        Len(pushed) >= k ~> (Len(sent) + Len(lost) >= k \/ stopped \/ terminated)

-----------------------------------------------------------------------------
(* What a comment of the repository says and the code does not do. *)

\* protocol.h: a Once request runs only once; here, the requests run at most as often as
\* requests were accepted.
OnceMeansOnce == Len(handled) <= Len(pushed)
=============================================================================
