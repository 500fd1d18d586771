------------------------------ MODULE IoContext ------------------------------
(***************************************************************************)
(* The io_context that RPCServer owns, as its three threads use it.         *)
(*                                                                          *)
(*   io thread      listener->Run(), then ioc->run(): scheduler::do_run_one *)
(*                  takes operations off op_queue_, one of which is the     *)
(*                  epoll_reactor itself                                    *)
(*   server thread  Session::Send starts writes (epoll_reactor::start_op)   *)
(*   emu thread     ~RPCServer: ioc->stop(), then the join                  *)
(*                                                                          *)
(* A step is what a thread does under one mutex: the scheduler's, which     *)
(* guards op_queue_ and task_interrupted_, or a descriptor's.  Where run()  *)
(* keeps the mutex from one step into the next, other threads may come in   *)
(* between here, which only adds behaviours.  The kernel reports a          *)
(* descriptor once per change (EPOLLET).  A handler is what it starts: the  *)
(* next accept and the first read of a session, the next read, the rest of  *)
(* a write, or nothing.                                                     *)
(***************************************************************************)
EXTENDS Integers, Sequences, FiniteSets, SequencesExt

CONSTANTS
    Acceptor,  \* the descriptor of Listener::acceptor
    Sockets,   \* bound: the descriptors of the sessions
    MaxUnits   \* bound: connections, or pieces of data, that the kernel can deliver or take

ASSUME IoContextAssumption ==
    /\ Acceptor \notin Sockets
    /\ IsFiniteSet(Sockets)
    /\ MaxUnits \in [Sockets \cup {Acceptor} -> [{"read", "write"} -> Nat]]

Descriptors == Sockets \cup {Acceptor}
OpTypes == {"read", "write"}
Channels == Descriptors \X OpTypes
Accepting == <<Acceptor, "read">>

\* What perform() leaves of an operation: done, a part of a write (the buffer of the
\* socket is full), or an error.
Results == OpTypes \cup {"part", "eof", "epipe"}

\* What op_queue_ holds: the reactor ("task"), a descriptor whose events it has reported
\* ("io"), and operations that have been performed.
Op(kind, d) == [kind |-> kind, d |-> d]
Task == Op("task", Acceptor)
Ops == [kind : {"task", "io"} \cup Results, d : Descriptors]

VARIABLES
    pc,                 \* where the io and the server thread are
    outstanding_work,   \* scheduler::outstanding_work_
    stopped,            \* scheduler::stopped_
    task_interrupted,   \* scheduler::task_interrupted_
    op_queue,           \* scheduler::op_queue_
    wake,               \* epoll_wait has the interrupter's descriptor to report
    private_work,       \* thread_info::private_outstanding_work of the io thread
    private_queue,      \* thread_info::private_op_queue of the io thread
    blocking,           \* the reactor runs without a timeout
    running,            \* the operation whose handler runs next
    todo,               \* channels on which the running handler starts operations
    opened,             \* descriptors registered with the reactor
    edge,               \* descriptors that changed since epoll_wait reported them
    events,             \* what it reported of each descriptor
    out_registered,     \* descriptors registered for EPOLLOUT
    try_speculative,    \* descriptor_state::try_speculative_, as a set of channels
    waiting,            \* descriptor_state::op_queue_, as a set of channels
    units,              \* what the kernel can deliver or take on a channel
    broken,             \* channels on which the kernel fails every operation
    failed,             \* sockets whose websocket stream refuses further operations
    writing,            \* sockets with a write whose handler has not run
    posted,             \* what the server thread is about to push
    destroying          \* ~RPCServer has called stop()

schedulerVars == <<outstanding_work, stopped, task_interrupted, op_queue, wake>>
privateVars == <<private_work, private_queue, blocking, running, todo>>
descriptorVars == <<edge, events, out_registered, try_speculative, waiting, units>>
sessionVars == <<opened, failed, writing>>
vars == <<pc, schedulerVars, privateVars, descriptorVars, sessionVars, broken, posted, destroying>>

\* The constructor of Listener ignores its error codes: the acceptor may not be open, or
\* be open and not listen, in which case every accept fails.
Init ==
    /\ pc = [io |-> "start", server |-> "idle"]
    /\ outstanding_work = 0
    /\ stopped = FALSE
    /\ task_interrupted = TRUE
    /\ op_queue = <<Task>>
    /\ wake = TRUE
    /\ private_work = 0
    /\ private_queue = <<>>
    /\ blocking = FALSE
    /\ running = Task
    /\ opened \in {{}, {Acceptor}}
    /\ todo = IF opened = {} THEN <<>> ELSE <<Accepting>>
    /\ edge = {}
    /\ events = [d \in Descriptors |-> {}]
    /\ out_registered = {}
    /\ try_speculative = opened \X OpTypes
    /\ waiting = {}
    /\ units = [ch \in Channels |-> 0]
    /\ broken \in {{}, opened \X {"read"}}
    /\ failed = {}
    /\ writing = {}
    /\ posted = Task
    /\ destroying = FALSE

Goto(thread, label) == pc' = [pc EXCEPT ![thread] = label]

-----------------------------------------------------------------------------
(* scheduler: waking the io thread. *)

\* Mutant: the reactor is marked as interrupted and is not interrupted.
InterruptForgotten == task_interrupted' = TRUE /\ wake' = wake

\* epoll_reactor::interrupt() changes the registration of a descriptor that is always
\* readable: epoll_wait reports it once more.
Interrupt == task_interrupted' = TRUE /\ wake' = TRUE

\* wake_one_thread_and_unlock() and the end of stop_all_threads().  No thread waits for
\* wakeup_event_ (NotOverslept), so all there is to wake is a running reactor.
WakeOneThread == IF task_interrupted THEN UNCHANGED <<task_interrupted, wake>> ELSE Interrupt

\* The last part of post_immediate_completion() and post_deferred_completions().
PushAndWake(ops) ==
    /\ op_queue' = op_queue \o ops
    /\ WakeOneThread

\* Mutant: the threads are woken and find nothing to stop for.
StopOnlyWakes == UNCHANGED stopped /\ WakeOneThread

\* scheduler::stop().
Stop == stopped' = TRUE /\ WakeOneThread

-----------------------------------------------------------------------------
(* epoll_reactor::start_op, on any thread. *)

\* perform() would complete an operation on the channel.
Ready(ch) == units[ch] > 0 \/ ch \in broken

\* Mutant: the result of the speculative perform() is ignored.
SpeculatesBlindly(ch) == ch \in try_speculative \/ ch[1] \in failed

\* The operation completes without the reactor: the stream has failed before, or the
\* speculative perform() succeeds.
Speculates(ch) == ch[1] \in failed \/ (ch \in try_speculative /\ Ready(ch))

\* perform() takes a unit.  The last one may be less than what a write needs.
ResultsOf(ch) ==
    IF ch \in broken \/ ch[1] \in failed THEN {IF ch[2] = "read" THEN "eof" ELSE "epipe"}
    ELSE {ch[2]} \cup (IF ch[2] = "write" /\ units[ch] = 1 THEN {"part"} ELSE {})

UnitsAfter(ch) == IF ch \in broken THEN units[ch] ELSE units[ch] - 1

\* done_and_exhausted: a stream that read no byte or did not write all.
Exhausted(ch, result) == ch[1] # Acceptor /\ result \in {"part", "eof", "epipe"}

\* Mutant: what is left after the operation is not tried again.
SpeculationAfterNever(set, done, exhausted) == set \ done

\* try_speculative_ after operations on the channels in done.
SpeculationAfter(set, done, exhausted) == set \ exhausted

\* The operation completes at once; what remains is to post its result.
Performs(ch, result) ==
    /\ Speculates(ch)
    /\ units' = [units EXCEPT ![ch] = UnitsAfter(ch)]
    /\ try_speculative' = SpeculationAfter(try_speculative, {ch}, {c \in {ch} : Exhausted(c, result)})
    /\ UNCHANGED <<edge, events, out_registered, waiting>>

\* Mutant: a write that waits does not ask epoll for EPOLLOUT.
RegistersNever(ch) == FALSE

\* The first write of a socket that waits changes its registration.
Registers(ch) == ch[2] = "write" /\ ch[1] \notin out_registered

\* The operation waits for the reactor and counts as work.  With its registration
\* changed, epoll reports a descriptor again that is ready.
Waits(ch) ==
    LET d == ch[1] IN
    /\ ~Speculates(ch)
    /\ waiting' = waiting \cup {ch}
    /\ outstanding_work' = outstanding_work + 1
    /\ out_registered' = out_registered \cup (IF Registers(ch) THEN {d} ELSE {})
    /\ edge' = edge \cup (IF Registers(ch) /\ \E t \in OpTypes : Ready(<<d, t>>) THEN {d} ELSE {})
    /\ UNCHANGED <<events, try_speculative, units>>

-----------------------------------------------------------------------------
(* io thread: the handlers, as far as they use the io_context. *)

\* Listener::DoAccept, Session::DoRead and the rest of a write.  Within run(), the result of
\* a step that continues a composed operation of the stream stays with the thread.
StartOp ==
    LET ch == Head(todo) IN
    /\ pc["io"] \in {"start", "handler"} /\ todo # <<>>
    /\ todo' = Tail(todo)
    /\ \/ /\ Waits(ch)
          /\ UNCHANGED <<stopped, task_interrupted, op_queue, wake, private_work, private_queue>>
       \/ \E result \in ResultsOf(ch) :
          /\ Performs(ch, result)
          /\ \/ /\ pc["io"] = "handler" /\ ch[1] \notin failed \cup {Acceptor}
                /\ private_work' = private_work + 1
                /\ private_queue' = Append(private_queue, Op(result, ch[1]))
                /\ UNCHANGED schedulerVars
             \/ /\ ch[2] = "read" \/ ch[1] \in failed
                /\ outstanding_work' = outstanding_work + 1
                /\ PushAndWake(<<Op(result, ch[1])>>)
                /\ UNCHANGED <<stopped, private_work, private_queue>>
    /\ UNCHANGED <<pc, blocking, running, sessionVars, broken, posted, destroying>>

\* Listener::OnAccept: a session on a new socket, whose first read is the handshake, and
\* the next accept; or only that.
OnAccept ==
    /\ running = Op("read", Acceptor)
    /\ \/ \E s \in Sockets \ opened :
             /\ opened' = opened \cup {s}
             /\ try_speculative' = try_speculative \cup ({s} \X OpTypes)
             /\ units' = [units EXCEPT ![<<s, "write">>] = MaxUnits[s]["write"]]
             /\ todo' = <<<<s, "read">>, Accepting>>
       \/ /\ todo' = <<Accepting>>
          /\ UNCHANGED <<opened, try_speculative, units>>
    /\ UNCHANGED <<failed, writing>>

\* Session::OnRead and Listener::OnAccept after an error: read, or accept, again.
OnReadDone ==
    /\ running.kind \in {"read", "eof"} /\ running # Op("read", Acceptor)
    /\ todo' = <<<<running.d, "read">>>>
    /\ failed' = IF running.kind = "eof" THEN failed \cup ({running.d} \ {Acceptor}) ELSE failed
    /\ UNCHANGED <<opened, try_speculative, units, writing>>

\* A part of a write: the composed operation writes the rest.
OnWritePart ==
    /\ running.kind = "part"
    /\ todo' = <<<<running.d, "write">>>>
    /\ UNCHANGED <<opened, try_speculative, units, failed, writing>>

\* Session::OnWrite.
OnWrite ==
    /\ running.kind \in {"write", "epipe"}
    /\ writing' = writing \ {running.d}
    /\ failed' = IF running.kind = "epipe" THEN failed \cup {running.d} ELSE failed
    /\ todo' = <<>>
    /\ UNCHANGED <<opened, try_speculative, units>>

\* operation::complete().
Complete ==
    /\ pc["io"] = "complete"
    /\ OnAccept \/ OnReadDone \/ OnWritePart \/ OnWrite
    /\ running' = Task
    /\ Goto("io", "handler")
    /\ UNCHANGED <<schedulerVars, private_work, private_queue, blocking, edge, events, out_registered,
                   waiting, broken, posted, destroying>>

-----------------------------------------------------------------------------
(* io thread: scheduler::run and do_run_one. *)

\* scheduler::run() finds work, or stops at once.
EnterRun ==
    /\ pc["io"] = "start" /\ todo = <<>>
    /\ IF outstanding_work = 0
       THEN Stop /\ Goto("io", "exited")
       ELSE UNCHANGED <<stopped, task_interrupted, wake>> /\ Goto("io", "loop")
    /\ UNCHANGED <<outstanding_work, op_queue, privateVars, descriptorVars, sessionVars, broken, posted,
                   destroying>>

LeaveRun ==
    /\ pc["io"] = "loop" /\ stopped
    /\ Goto("io", "exited")
    /\ UNCHANGED <<schedulerVars, privateVars, descriptorVars, sessionVars, broken, posted, destroying>>

\* do_run_one() goes on with an operation of such a kind.
Runs(kinds) ==
    /\ pc["io"] = "loop" /\ ~stopped
    /\ op_queue # <<>> /\ Head(op_queue).kind \in kinds

\* The reactor is next: it polls while other operations are queued and blocks otherwise.
PopTask ==
    /\ Runs({"task"})
    /\ op_queue' = Tail(op_queue)
    /\ task_interrupted' = (Tail(op_queue) # <<>>)
    /\ blocking' = (Tail(op_queue) = <<>>)
    /\ Goto("io", "poll")
    /\ UNCHANGED <<outstanding_work, stopped, wake, private_work, private_queue, running, todo,
                   descriptorVars, sessionVars, broken, posted, destroying>>

\* What epoll_wait would report of a descriptor now; errors are reported for all types.
ReadyTypes(d) ==
    {t \in OpTypes : Ready(<<d, t>>) /\ (t = "read" \/ d \in out_registered \/ <<d, t>> \in broken)}

Reported == {d \in edge : ReadyTypes(d) # {}}

\* epoll_reactor::run.  epoll_wait reports descriptors in any order.
Poll ==
    /\ pc["io"] = "poll"
    /\ ~blocking \/ wake \/ Reported # {}
    /\ \E order \in SetToSeqs(Reported) :
          private_queue' = private_queue \o [i \in DOMAIN order |-> Op("io", order[i])]
    /\ events' = [d \in Descriptors |-> IF d \in Reported THEN ReadyTypes(d) ELSE events[d]]
    /\ edge' = {}
    /\ wake' = FALSE
    /\ blocking' = FALSE
    /\ Goto("io", "task_cleanup")
    /\ UNCHANGED <<outstanding_work, stopped, task_interrupted, op_queue, private_work, running, todo,
                   out_registered, try_speculative, waiting, units, sessionVars, broken, posted,
                   destroying>>

\* Mutant: the task goes in front of the operations that it has found.
RequeuedFirst(queue, found) == queue \o <<Task>> \o found

Requeued(queue, found) == queue \o found \o <<Task>>

\* ~task_cleanup.
TaskCleanup ==
    /\ pc["io"] = "task_cleanup"
    /\ outstanding_work' = outstanding_work + private_work
    /\ private_work' = 0
    /\ task_interrupted' = TRUE
    /\ op_queue' = Requeued(op_queue, private_queue)
    /\ private_queue' = <<>>
    /\ Goto("io", "loop")
    /\ UNCHANGED <<stopped, wake, blocking, running, todo, descriptorVars, sessionVars, broken, posted,
                   destroying>>

\* A performed operation is next: its handler runs.
PopHandler ==
    /\ Runs(Results)
    /\ running' = Head(op_queue)
    /\ op_queue' = Tail(op_queue)
    /\ IF Tail(op_queue) # <<>> THEN WakeOneThread ELSE UNCHANGED <<task_interrupted, wake>>
    /\ Goto("io", "complete")
    /\ UNCHANGED <<outstanding_work, stopped, private_work, private_queue, blocking, todo, descriptorVars,
                   sessionVars, broken, posted, destroying>>

\* Mutant: an event that completes nothing is not compensated.
CompensationNone == 0

\* compensating_work_started().
Compensation == 1

\* A descriptor is next: perform_io() under its mutex, writes before reads.  The first
\* operation that completes runs now, the other one is posted; without any, the work that
\* the cleanup subtracts is added first.
PerformIo ==
    LET d == Head(op_queue).d
        reported == {<<d, t>> : t \in events[d]}
        done == {ch \in reported \cap waiting : Ready(ch)}
        Outcomes(ch) == IF ch \in done THEN {<<Op(result, d)>> : result \in ResultsOf(ch)} ELSE {<<>>}
    IN
    /\ Runs({"io"})
    /\ waiting' = waiting \ done
    /\ units' = [ch \in Channels |-> IF ch \in done THEN UnitsAfter(ch) ELSE units[ch]]
    /\ \E w \in Outcomes(<<d, "write">>), r \in Outcomes(<<d, "read">>) :
       LET performed == w \o r
           exhausted == {ch \in done : \E op \in Range(IF ch[2] = "write" THEN w ELSE r) : Exhausted(ch, op.kind)}
       IN
       /\ try_speculative' = SpeculationAfter(try_speculative \cup reported, done, exhausted)
       /\ \/ /\ performed = <<>>
             /\ private_work' = private_work + Compensation
             /\ op_queue' = Tail(op_queue)
             /\ Goto("io", "handler")
             /\ UNCHANGED <<running, task_interrupted, wake>>
          \/ /\ performed # <<>>
             /\ running' = Head(performed)
             /\ op_queue' = Tail(op_queue) \o Tail(performed)
             /\ WakeOneThread
             /\ Goto("io", "complete")
             /\ UNCHANGED private_work
    /\ events' = [events EXCEPT ![d] = {}]
    /\ UNCHANGED <<outstanding_work, stopped, private_queue, blocking, todo, edge, out_registered,
                   sessionVars, broken, posted, destroying>>

\* Mutant: the handler's own unit of work is subtracted once more.
WorkAfterTwice(work, private) == work + private - 2

\* The work of the handler that has run is done, what it posted to its own queue is added.
WorkAfter(work, private) == work + private - 1

\* ~work_cleanup: with no work left the scheduler stops; what the handler kept with the
\* thread is queued.
WorkCleanup ==
    /\ pc["io"] = "handler" /\ todo = <<>>
    /\ outstanding_work' = WorkAfter(outstanding_work, private_work)
    /\ IF private_work < 1 /\ outstanding_work' = 0 THEN Stop ELSE UNCHANGED <<stopped, task_interrupted, wake>>
    /\ private_work' = 0
    /\ op_queue' = op_queue \o private_queue
    /\ private_queue' = <<>>
    /\ Goto("io", "loop")
    /\ UNCHANGED <<blocking, running, todo, descriptorVars, sessionVars, broken, posted, destroying>>

-----------------------------------------------------------------------------
(* server thread: Session::Send, the writes of one session one after the other. *)

Send ==
    \E s \in (opened \cap Sockets) \ writing :
    LET ch == <<s, "write">> IN
    /\ pc["server"] = "idle" /\ ~destroying
    /\ writing' = writing \cup {s}
    /\ \/ /\ Waits(ch)
          /\ UNCHANGED <<pc, posted>>
       \/ \E result \in ResultsOf(ch) :
          /\ Performs(ch, result)
          /\ posted' = Op(result, s)
          /\ Goto("server", "work_started")
          /\ UNCHANGED outstanding_work
    /\ UNCHANGED <<stopped, task_interrupted, op_queue, wake, privateVars, opened, failed, broken, destroying>>

\* post_immediate_completion() counts the work first ...
WorkStarted ==
    /\ pc["server"] = "work_started"
    /\ outstanding_work' = outstanding_work + 1
    /\ Goto("server", "push")
    /\ UNCHANGED <<stopped, task_interrupted, op_queue, wake, privateVars, descriptorVars, sessionVars, broken,
                   posted, destroying>>

\* ... and then queues the operation.
Push ==
    /\ pc["server"] = "push"
    /\ PushAndWake(<<posted>>)
    /\ posted' = Task
    /\ Goto("server", "idle")
    /\ UNCHANGED <<outstanding_work, stopped, privateVars, descriptorVars, sessionVars, broken, destroying>>

-----------------------------------------------------------------------------
(* emu thread, and the kernel, until stop(): run() then takes no more operations, and an
   event could only help it to return. *)

\* ~RPCServer, after the server thread has been joined.
Destroy ==
    /\ ~destroying /\ pc["server"] = "idle"
    /\ destroying' = TRUE
    /\ Stop
    /\ UNCHANGED <<pc, outstanding_work, op_queue, privateVars, descriptorVars, sessionVars, broken, posted>>

\* Data, a connection, or room for data.
Arrive ==
    /\ ~stopped
    /\ \E ch \in (opened \X OpTypes) \ broken :
          /\ units[ch] < MaxUnits[ch[1]][ch[2]]
          /\ units' = [units EXCEPT ![ch] = @ + 1]
          /\ edge' = IF ch[2] = "read" \/ ch[1] \in out_registered THEN edge \cup {ch[1]} ELSE edge
    /\ UNCHANGED <<pc, schedulerVars, privateVars, events, out_registered, try_speculative, waiting, sessionVars,
                   broken, posted, destroying>>

\* A peer resets its connection.
Reset ==
    /\ ~stopped
    /\ \E s \in opened \cap Sockets :
          /\ <<s, "read">> \notin broken
          /\ broken' = broken \cup ({s} \X OpTypes)
          /\ edge' = edge \cup {s}
          /\ units' = [ch \in Channels |-> IF ch[1] = s THEN 0 ELSE units[ch]]
    /\ UNCHANGED <<pc, schedulerVars, privateVars, events, out_registered, try_speculative, waiting, sessionVars,
                   posted, destroying>>

\* The join has returned.
Joined == destroying /\ pc["io"] = "exited" /\ UNCHANGED vars

-----------------------------------------------------------------------------
IoThread ==
    \/ StartOp \/ Complete
    \/ EnterRun \/ LeaveRun
    \/ PopTask \/ Poll \/ TaskCleanup
    \/ PopHandler \/ PerformIo \/ WorkCleanup

ServerThread == WorkStarted \/ Push

Next == IoThread \/ Send \/ ServerThread \/ Destroy \/ Arrive \/ Reset \/ Joined

Spec == Init /\ [][Next]_vars

\* Both threads run; when they start writes, when the server is destroyed and what the
\* kernel does is left open.
FairSpec == Spec /\ WF_vars(IoThread) /\ WF_vars(ServerThread)

-----------------------------------------------------------------------------
(* Properties. *)

TypeOK ==
    /\ pc \in [io : {"start", "loop", "poll", "task_cleanup", "complete", "handler", "exited"},
               server : {"idle", "work_started", "push"}]
    /\ outstanding_work \in Nat
    /\ {stopped, task_interrupted, wake, blocking, destroying} \subseteq BOOLEAN
    /\ {op_queue, private_queue} \subseteq Seq(Ops)
    /\ private_work \in Nat
    /\ {running, posted} \subseteq Ops
    /\ todo \in Seq(Channels)
    /\ {opened, edge, out_registered} \subseteq SUBSET Descriptors
    /\ events \in [Descriptors -> SUBSET OpTypes]
    /\ {try_speculative, waiting, broken} \subseteq SUBSET Channels
    /\ units \in [Channels -> Nat] /\ \A ch \in Channels : units[ch] <= MaxUnits[ch[1]][ch[2]]
    /\ {failed, writing} \subseteq SUBSET Sockets

\* Performed operations whose handlers are still to run.
Performed(queue) == {i \in DOMAIN queue : queue[i].kind \in Results}

\* outstanding_work_ and the io thread's share count exactly the operations that have been
\* started and not handled, over every path that starts, posts, performs and completes one:
\* the count decides when run() returns (scheduler.hpp:92-96, scheduler.ipp:60-72).
WorkAccounted ==
    outstanding_work + private_work =
        Cardinality(waiting) + Cardinality(Performed(op_queue)) + Cardinality(Performed(private_queue))
        + (IF pc["io"] \in {"complete", "handler"} THEN 1 ELSE 0)
        + (IF pc["server"] = "push" THEN 1 ELSE 0)

\* With an open acceptor run() does not run out of work: only ~RPCServer stops it, whether
\* accepts succeed or fail and clients stay or go.
RunsUntilStopped == stopped => destroying \/ opened = {}

\* The io thread never sleeps over work: it does not reach the wait for wakeup_event_, as the
\* reactor is queued whenever it looks, and when it blocks in epoll_wait with an operation
\* queued or with stop() called, the interrupter is about to wake it.
NotOverslept ==
    /\ pc["io"] = "loop" => op_queue # <<>>
    /\ pc["io"] = "poll" /\ blocking /\ (op_queue # <<>> \/ stopped) => wake

\* "by the time we reach this point, any previously returned descriptor operations have
\* already been dequeued" (epoll_reactor.ipp:451-452): the reactor never reports a descriptor
\* that is still queued, so no descriptor is queued twice and no reported event overwritten.
DequeuedBeforePoll ==
    pc["io"] = "poll" => \A i \in DOMAIN op_queue : op_queue[i].kind # "io"

\* The descriptor is queued with the event.
EventQueued(ch) ==
    /\ ch[2] \in events[ch[1]]
    /\ \E queue \in {op_queue, private_queue} : \E i \in DOMAIN queue : queue[i] = Op("io", ch[1])

\* No edge is lost: an operation that waits although the kernel could complete it is about to
\* be looked at, because epoll has the descriptor to report or because its event is queued.
\* Every race of data arriving, of a speculative attempt and of the start of an operation
\* (epoll_reactor.ipp:251-320, 740-755) has to end so.
EventsNoticed ==
    \A ch \in waiting : Ready(ch) => (ch[1] \in edge /\ ch[2] \in ReadyTypes(ch[1])) \/ EventQueued(ch)

\* An accept, a read or a write that can proceed is performed, although the reads of a client
\* that has gone, and the accepts of a listener that could not listen, complete at once for
\* ever (rpc_server.cpp:65-70, 136-146).
ReadyOpCompletes ==
    \A ch \in Channels \ {<<Acceptor, "write">>} :
        (ch \in waiting /\ Ready(ch)) ~> (ch \notin waiting \/ stopped)

\* The join in ~RPCServer returns, wherever the io thread is when stop() is called.
StopReturns == destroying ~> pc["io"] = "exited"

=============================================================================
