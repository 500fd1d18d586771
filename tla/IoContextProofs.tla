--------------------------- MODULE IoContextProofs ---------------------------
(***************************************************************************)
(* Proofs about the io_context, for any number of sockets and any amount of *)
(* data.                                                                    *)
(***************************************************************************)
EXTENDS IoContext, SequenceTheorems, FiniteSetTheorems, TLAPS

-----------------------------------------------------------------------------
(* Sequences of operations. *)

AllKinds(queue, kinds) == \A i \in 1 .. Len(queue) : queue[i].kind \in kinds

\* The reactor is the n-th of the queue; the descriptors it has reported are before it.
TaskAt(queue, n) ==
    /\ n \in 1 .. Len(queue)
    /\ queue[n].kind = "task"
    /\ \A i \in 1 .. Len(queue) : i < n => queue[i].kind # "task"
    /\ \A i \in 1 .. Len(queue) : i > n => queue[i].kind \in Results

LEMMA OpFacts ==
    ASSUME NEW kind, NEW d
    PROVE  Op(kind, d).kind = kind /\ Op(kind, d).d = d
BY DEF Op

LEMMA OpType ==
    ASSUME NEW kind \in {"task", "io"} \cup Results, NEW d \in Descriptors
    PROVE  Op(kind, d) \in Ops
BY DEF Op, Ops

LEMMA TaskFacts == Task \in Ops /\ Task.kind = "task" /\ Task.d = Acceptor /\ "task" \notin Results /\ "io" \notin Results
BY DEF Task, Op, Ops, Descriptors, Results, OpTypes

LEMMA SingleFacts ==
    ASSUME NEW x \in Ops
    PROVE  <<x>> \in Seq(Ops) /\ Len(<<x>>) = 1 /\ <<x>>[1] = x
OBVIOUS

LEMMA ConcatOps ==
    ASSUME NEW q \in Seq(Ops), NEW s \in Seq(Ops)
    PROVE  /\ q \o s \in Seq(Ops) /\ Len(q \o s) = Len(q) + Len(s)
           /\ Len(q) \in Nat /\ Len(s) \in Nat
           /\ \A i \in 1 .. Len(q) : (q \o s)[i] = q[i]
           /\ \A i \in 1 .. Len(s) : (q \o s)[Len(q) + i] = s[i]
           /\ \A i \in 1 .. Len(q) + Len(s) : i > Len(q) => i - Len(q) \in 1 .. Len(s) /\ (q \o s)[i] = s[i - Len(q)]
<1> DEFINE u == q \o s
<1>1. /\ u \in Seq(Ops) /\ Len(u) = Len(q) + Len(s)
      /\ \A i \in 1 .. Len(q) + Len(s) : u[i] = IF i <= Len(q) THEN q[i] ELSE s[i - Len(q)]
  BY ConcatProperties
<1>2. PICK a \in Nat, b \in Nat : a = Len(q) /\ b = Len(s)
  OBVIOUS
<1> HIDE DEF u
<1>3. \A i \in 1 .. a + b : u[i] = IF i <= a THEN q[i] ELSE s[i - a]
  BY <1>1, <1>2
<1>4. \A i \in 1 .. a : u[i] = q[i]
  BY <1>3
<1>5. ASSUME NEW i \in 1 .. b PROVE u[a + i] = s[i]
  <2>1. a + i \in 1 .. a + b /\ ~(a + i <= a) /\ a + i - a = i
    OBVIOUS
  <2> QED BY <1>3, <2>1
<1>6. ASSUME NEW i \in 1 .. a + b, i > a PROVE i - a \in 1 .. b /\ u[i] = s[i - a]
  BY <1>3, <1>6
<1> QED
  BY <1>1, <1>2, <1>4, <1>5, <1>6 DEF u

LEMMA TailOps ==
    ASSUME NEW q \in Seq(Ops), q # <<>>
    PROVE  /\ Tail(q) \in Seq(Ops) /\ Len(Tail(q)) = Len(q) - 1 /\ Head(q) \in Ops /\ Head(q) = q[1]
           /\ Len(q) \in Nat \ {0}
           /\ \A i \in 1 .. Len(q) - 1 : Tail(q)[i] = q[i + 1] /\ i + 1 \in 1 .. Len(q)
BY HeadTailProperties

LEMMA AllConcat ==
    ASSUME NEW q \in Seq(Ops), NEW s \in Seq(Ops), NEW kinds, AllKinds(q, kinds), AllKinds(s, kinds)
    PROVE  AllKinds(q \o s, kinds)
<1> SUFFICES ASSUME NEW i \in 1 .. Len(q \o s) PROVE (q \o s)[i].kind \in kinds
  BY DEF AllKinds
<1>1. CASE i \in 1 .. Len(q)
  BY <1>1, ConcatOps DEF AllKinds
<1>2. CASE i > Len(q)
  BY <1>2, ConcatOps DEF AllKinds
<1> QED
  BY <1>1, <1>2, ConcatOps

LEMMA TaskAfterPush ==
    ASSUME NEW q \in Seq(Ops), NEW s \in Seq(Ops), NEW n, TaskAt(q, n), AllKinds(s, Results)
    PROVE  TaskAt(q \o s, n)
<1>1. n \in 1 .. Len(q) /\ n \in 1 .. Len(q \o s) /\ (q \o s)[n].kind = "task"
  BY ConcatOps DEF TaskAt
<1>2. ASSUME NEW i \in 1 .. Len(q \o s), i < n PROVE (q \o s)[i].kind # "task"
  <2>1. i \in 1 .. Len(q)
    BY <1>1, <1>2, ConcatOps
  <2> QED BY <1>2, <2>1, ConcatOps DEF TaskAt
<1>3. ASSUME NEW i \in 1 .. Len(q \o s), i > n PROVE (q \o s)[i].kind \in Results
  <2>1. CASE i \in 1 .. Len(q)
    BY <1>3, <2>1, ConcatOps DEF TaskAt
  <2>2. CASE i > Len(q)
    BY <2>2, ConcatOps DEF AllKinds
  <2> QED BY <2>1, <2>2, ConcatOps
<1> QED
  BY <1>1, <1>2, <1>3 DEF TaskAt

LEMMA TaskAfterPop ==
    ASSUME NEW q \in Seq(Ops), NEW n, TaskAt(q, n), Head(q).kind # "task"
    PROVE  q # <<>> /\ TaskAt(Tail(q), n - 1)
<1>1. n \in 1 .. Len(q) /\ Len(q) \in Nat
  BY DEF TaskAt
<1>2. q # <<>>
  BY <1>1
<1>3. n # 1 /\ n \in Nat
  BY <1>1, <1>2, TailOps DEF TaskAt
<1>4. n - 1 \in 1 .. Len(Tail(q)) /\ Tail(q)[n - 1].kind = "task"
  <2>1. n - 1 \in 1 .. Len(q) - 1 /\ n - 1 + 1 = n
    BY <1>1, <1>3
  <2> QED BY <1>2, <2>1, TailOps DEF TaskAt
<1>5. ASSUME NEW i \in 1 .. Len(Tail(q)), i < n - 1 PROVE Tail(q)[i].kind # "task"
  <2>1. i + 1 \in 1 .. Len(q) /\ i + 1 < n /\ Tail(q)[i] = q[i + 1]
    BY <1>1, <1>2, <1>5, TailOps
  <2> QED BY <2>1 DEF TaskAt
<1>6. ASSUME NEW i \in 1 .. Len(Tail(q)), i > n - 1 PROVE Tail(q)[i].kind \in Results
  <2>1. i + 1 \in 1 .. Len(q) /\ i + 1 > n /\ Tail(q)[i] = q[i + 1]
    BY <1>1, <1>2, <1>6, TailOps
  <2> QED BY <2>1 DEF TaskAt
<1> QED
  BY <1>2, <1>4, <1>5, <1>6 DEF TaskAt

LEMMA AfterTask ==
    ASSUME NEW q \in Seq(Ops), q # <<>>, NEW n, TaskAt(q, n), Head(q).kind = "task"
    PROVE  AllKinds(Tail(q), Results)
<1>1. n = 1
  BY TailOps DEF TaskAt
<1>2. ASSUME NEW i \in 1 .. Len(Tail(q)) PROVE Tail(q)[i].kind \in Results
  <2>1. i + 1 \in 1 .. Len(q) /\ i + 1 > 1 /\ Tail(q)[i] = q[i + 1]
    BY TailOps
  <2> QED BY <1>1, <2>1 DEF TaskAt
<1> QED
  BY <1>2 DEF AllKinds

\* ~task_cleanup queues the reactor behind what it has found.
LEMMA TaskRequeued ==
    ASSUME NEW q \in Seq(Ops), NEW s \in Seq(Ops), AllKinds(q, Results), AllKinds(s, {"io"})
    PROVE  /\ Requeued(q, s) \in Seq(Ops)
           /\ TaskAt(Requeued(q, s), Len(q) + Len(s) + 1)
<1> DEFINE r == q \o s
<1>1. r \in Seq(Ops) /\ Len(r) = Len(q) + Len(s) /\ Len(r) \in Nat
  BY ConcatOps
<1>2. AllKinds(r, Results \cup {"io"})
  <2>1. AllKinds(q, Results \cup {"io"}) /\ AllKinds(s, Results \cup {"io"})
    BY DEF AllKinds
  <2> QED BY <2>1, AllConcat
<1> HIDE DEF r
<1>3. /\ <<Task>> \in Seq(Ops) /\ Len(<<Task>>) = 1 /\ <<Task>>[1] = Task /\ Task.kind = "task"
  BY TaskFacts
<1>4. /\ r \o <<Task>> \in Seq(Ops) /\ Len(r \o <<Task>>) = Len(r) + 1
      /\ \A i \in 1 .. Len(r) : (r \o <<Task>>)[i] = r[i]
      /\ (r \o <<Task>>)[Len(r) + 1] = Task
  BY <1>1, <1>3, ConcatOps
<1>5. TaskAt(r \o <<Task>>, Len(r) + 1)
  <2>1. ASSUME NEW i \in 1 .. Len(r) + 1, i < Len(r) + 1 PROVE (r \o <<Task>>)[i].kind # "task"
    <3>1. i \in 1 .. Len(r)
      BY <1>1, <2>1
    <3> QED BY <1>2, <1>4, <3>1, TaskFacts DEF AllKinds
  <2> QED BY <1>1, <1>3, <1>4, <2>1 DEF TaskAt
<1> QED
  BY <1>1, <1>4, <1>5 DEF Requeued, r

-----------------------------------------------------------------------------
(* What the invariants are made of. *)

AllIn(queue, set) == \A i \in 1 .. Len(queue) : queue[i] \in set

One(b) == IF b THEN 1 ELSE 0

Where(queue, set) == {i \in 1 .. Len(queue) : queue[i] \in set}
Count(queue, set) == Cardinality(Where(queue, set))

OfKind(kinds) == {op \in Ops : op.kind \in kinds}

\* The channels on which the program starts operations, and the results they leave.
Used == (Descriptors \X {"read"}) \cup (Sockets \X {"write"})
KindsOf(type) == IF type = "read" THEN {"read", "eof"} ELSE {"write", "part", "epipe"}
OpsOn(ch) == {op \in Ops : op.d = ch[1] /\ op.kind \in KindsOf(ch[2])}

\* Only sockets are written, and an error means that the kernel has failed the channel.
Good ==
    {op \in Ops : /\ op.kind \in KindsOf("write") => op.d \in Sockets
                  /\ op.kind \in {"eof", "epipe"} => <<op.d, "read">> \in broken}

\* The reactor is in the queue unless the io thread runs it.
Queued(queue, label) ==
    IF label \in {"poll", "task_cleanup"} THEN AllKinds(queue, Results)
    ELSE \E n \in 1 .. Len(queue) : TaskAt(queue, n)

-----------------------------------------------------------------------------
(* The invariants. *)

Labels == {"start", "loop", "poll", "task_cleanup", "complete", "handler", "exited"}
ServerLabels == {"idle", "work_started", "push"}
Pcs == [io : Labels, server : ServerLabels]

Types ==
    /\ pc \in Pcs
    /\ outstanding_work \in Int
    /\ stopped \in BOOLEAN /\ task_interrupted \in BOOLEAN /\ wake \in BOOLEAN /\ blocking \in BOOLEAN
    /\ destroying \in BOOLEAN
    /\ op_queue \in Seq(Ops) /\ private_queue \in Seq(Ops)
    /\ private_work \in Nat
    /\ running \in Ops /\ posted \in Ops
    /\ todo \in Seq(Used)
    /\ opened \subseteq Descriptors /\ edge \subseteq Descriptors /\ out_registered \subseteq Descriptors
    /\ events \in [Descriptors -> SUBSET OpTypes]
    /\ try_speculative \subseteq Channels /\ waiting \subseteq Used /\ broken \subseteq Channels
    /\ units \in [Channels -> Nat] /\ \A ch \in Channels : units[ch] <= MaxUnits[ch[1]][ch[2]]
    /\ failed \subseteq Sockets /\ writing \subseteq Sockets

\* A peer resets both directions, and a stream fails after an error of the kernel.
Errors ==
    /\ \A s \in Sockets : <<s, "read">> \in broken <=> <<s, "write">> \in broken
    /\ failed \X {"read"} \subseteq broken
    /\ AllIn(op_queue, Good) /\ AllIn(private_queue, Good) /\ running \in Good /\ posted \in Good

\* Where the io thread is tells what it holds; the reactor is queued unless it runs.
Places ==
    /\ Queued(op_queue, pc["io"])
    /\ IF pc["io"] = "task_cleanup" THEN AllKinds(private_queue, {"io"})
       ELSE IF pc["io"] = "handler" THEN AllKinds(private_queue, Results) ELSE private_queue = <<>>
    /\ IF pc["io"] = "complete" THEN running.kind \in Results ELSE running = Task
    /\ IF pc["server"] = "idle" THEN posted = Task ELSE posted.kind \in KindsOf("write")
    /\ pc["io"] \notin {"start", "handler"} => todo = <<>>

\* The reactor that blocks has been interrupted if there is a reason to return.
Awake ==
    pc["io"] = "poll" /\ blocking /\ (op_queue # <<>> \/ stopped \/ task_interrupted) => wake

ShapeInv == Types /\ Errors /\ Places /\ Awake

InFlight(ch) ==
    Count(todo, {ch}) + One(ch \in waiting) + Count(op_queue, OpsOn(ch)) + Count(private_queue, OpsOn(ch))
    + One(running \in OpsOn(ch)) + One(posted \in OpsOn(ch))

Started == (opened \X {"read"}) \cup (writing \X {"write"})

\* A descriptor that is open has one read, and a session that writes one write, wherever
\* it is.
OneInFlight == \A ch \in Channels : InFlight(ch) = One(ch \in Started)

Pending == OfKind(Results)

\* The io thread's share of the work is what it keeps in its own queue, or the one unit that
\* compensates an event that has completed nothing.
PrivateShare ==
    /\ pc["io"] # "handler" => private_work = 0
    /\ \/ private_work = Count(private_queue, Pending)
       \/ private_work = 1 /\ private_queue = <<>> /\ todo = <<>>

\* WorkAccounted, in terms of Count.
WorkCounted ==
    outstanding_work + private_work =
        Cardinality(waiting) + Count(op_queue, Pending) + Count(private_queue, Pending)
        + One(pc["io"] \in {"complete", "handler"}) + One(pc["server"] = "push")

\* The error of the channel's operation, from perform() to its handler, which makes the
\* stream fail.
ErrorOn(ch) == Op(IF ch[2] = "read" THEN "eof" ELSE "epipe", ch[1])
Holds(queue, op) == \E i \in 1 .. Len(queue) : queue[i] = op
HeldBack(op) == Holds(op_queue, op) \/ Holds(private_queue, op)
ErrorPending(ch) == HeldBack(ErrorOn(ch)) \/ running = ErrorOn(ch) \/ posted = ErrorOn(ch)

\* An operation that starts on the channel would not be tried at once, and epoll reports
\* the channel.
Relies(ch) ==
    /\ ch[1] \in opened \ failed
    /\ ch \notin try_speculative
    /\ ch[2] = "read" \/ ch[1] \in out_registered
    /\ ~ErrorPending(ch)

Seen(ch) == ch[1] \in edge \/ (ch[2] \in events[ch[1]] /\ HeldBack(Op("io", ch[1])))

\* Whatever is ready on a channel is seen by the reactor, unless the next operation on it
\* finds it by itself.
Noticed(ch) == Ready(ch) /\ (ch \in waiting \/ Relies(ch)) => Seen(ch)

NoticeInv ==
    /\ writing \subseteq opened
    /\ Acceptor \in opened => Accepting \in try_speculative
    /\ \A ch \in waiting : ch[2] = "write" => ch[1] \in out_registered
    /\ \A ch \in Used : Noticed(ch)

-----------------------------------------------------------------------------
(* The steps, one case each. *)

LEMMA GotoIo ==
    ASSUME pc \in Pcs, NEW label \in Labels, Goto("io", label)
    PROVE  pc' \in Pcs /\ pc'["io"] = label /\ pc'["server"] = pc["server"]
BY DEF Pcs, Goto

LEMMA GotoServer ==
    ASSUME pc \in Pcs, NEW label \in ServerLabels, Goto("server", label)
    PROVE  pc' \in Pcs /\ pc'["server"] = label /\ pc'["io"] = pc["io"]
BY DEF Pcs, Goto

Starting(ch) ==
    /\ ch = Head(todo) /\ pc["io"] \in {"start", "handler"} /\ todo # <<>>
    /\ todo' = Tail(todo)
    /\ UNCHANGED <<pc, blocking, running, opened, failed, writing, broken, posted, destroying>>

StartWaits(ch) ==
    /\ Starting(ch) /\ Waits(ch)
    /\ UNCHANGED <<stopped, task_interrupted, op_queue, wake, private_work, private_queue>>

StartKeeps(ch, result) ==
    /\ Starting(ch) /\ Performs(ch, result)
    /\ pc["io"] = "handler" /\ ch[1] \notin failed \cup {Acceptor}
    /\ private_work' = private_work + 1
    /\ private_queue' = Append(private_queue, Op(result, ch[1]))
    /\ UNCHANGED schedulerVars

StartPosts(ch, result) ==
    /\ Starting(ch) /\ Performs(ch, result)
    /\ outstanding_work' = outstanding_work + 1
    /\ PushAndWake(<<Op(result, ch[1])>>)
    /\ UNCHANGED <<stopped, private_work, private_queue>>

LEMMA StartOpCases ==
    ASSUME StartOp
    PROVE  \E ch : \/ StartWaits(ch)
                   \/ \E result \in ResultsOf(ch) : StartKeeps(ch, result) \/ StartPosts(ch, result)
<1> DEFINE ch == Head(todo)
<1>1. Starting(ch)
  BY DEF StartOp, Starting, sessionVars
<1>2. \/ StartWaits(ch)
      \/ \E result \in ResultsOf(ch) : StartKeeps(ch, result) \/ StartPosts(ch, result)
  BY <1>1 DEF StartOp, StartWaits, StartKeeps, StartPosts
<1> QED
  BY <1>2

Sending(s) ==
    /\ s \in (opened \cap Sockets) \ writing
    /\ pc["server"] = "idle" /\ ~destroying
    /\ writing' = writing \cup {s}
    /\ UNCHANGED <<stopped, task_interrupted, op_queue, wake, privateVars, opened, failed, broken, destroying>>

SendWaits(s) == Sending(s) /\ Waits(<<s, "write">>) /\ UNCHANGED <<pc, posted>>

SendPerforms(s, result) ==
    /\ Sending(s) /\ Performs(<<s, "write">>, result)
    /\ posted' = Op(result, s)
    /\ Goto("server", "work_started")
    /\ UNCHANGED outstanding_work

LEMMA SendCases ==
    ASSUME Send
    PROVE  \E s : SendWaits(s) \/ \E result \in ResultsOf(<<s, "write">>) : SendPerforms(s, result)
BY DEF Send, Sending, SendWaits, SendPerforms

\* What perform_io() finds on a descriptor, and what it leaves of one channel.
ReportedOn(d) == {<<d, t>> : t \in events[d]}
DoneOn(d) == {ch \in ReportedOn(d) \cap waiting : Ready(ch)}
OutcomesOn(d, ch) == IF ch \in DoneOn(d) THEN {<<Op(result, d)>> : result \in ResultsOf(ch)} ELSE {<<>>}
ExhaustedOn(d, w, r) ==
    {ch \in DoneOn(d) : \E op \in Range(IF ch[2] = "write" THEN w ELSE r) : Exhausted(ch, op.kind)}

Performing(d, w, r) ==
    /\ d = Head(op_queue).d /\ Runs({"io"})
    /\ w \in OutcomesOn(d, <<d, "write">>) /\ r \in OutcomesOn(d, <<d, "read">>)
    /\ waiting' = waiting \ DoneOn(d)
    /\ units' = [ch \in Channels |-> IF ch \in DoneOn(d) THEN UnitsAfter(ch) ELSE units[ch]]
    /\ try_speculative' = (try_speculative \cup ReportedOn(d)) \ ExhaustedOn(d, w, r)
    /\ events' = [events EXCEPT ![d] = {}]
    /\ UNCHANGED <<outstanding_work, stopped, private_queue, blocking, todo, edge, out_registered,
                   opened, failed, writing, broken, posted, destroying>>

PerformsNone(d, w, r) ==
    /\ Performing(d, w, r) /\ w \o r = <<>>
    /\ private_work' = private_work + 1
    /\ op_queue' = Tail(op_queue)
    /\ Goto("io", "handler")
    /\ UNCHANGED <<running, task_interrupted, wake>>

PerformsSome(d, w, r) ==
    /\ Performing(d, w, r) /\ w \o r # <<>>
    /\ running' = Head(w \o r)
    /\ op_queue' = Tail(op_queue) \o Tail(w \o r)
    /\ WakeOneThread
    /\ Goto("io", "complete")
    /\ UNCHANGED private_work

LEMMA PerformIoCases ==
    ASSUME PerformIo
    PROVE  \E d, w, r : PerformsNone(d, w, r) \/ PerformsSome(d, w, r)
<1> DEFINE d == Head(op_queue).d
<1>1. PICK w \in OutcomesOn(d, <<d, "write">>), r \in OutcomesOn(d, <<d, "read">>) :
        /\ try_speculative' = SpeculationAfter(try_speculative \cup ReportedOn(d), DoneOn(d), ExhaustedOn(d, w, r))
        /\ \/ /\ w \o r = <<>>
              /\ private_work' = private_work + Compensation
              /\ op_queue' = Tail(op_queue)
              /\ Goto("io", "handler")
              /\ UNCHANGED <<running, task_interrupted, wake>>
           \/ /\ w \o r # <<>>
              /\ running' = Head(w \o r)
              /\ op_queue' = Tail(op_queue) \o Tail(w \o r)
              /\ WakeOneThread
              /\ Goto("io", "complete")
              /\ UNCHANGED private_work
  BY DEF PerformIo, ReportedOn, DoneOn, OutcomesOn, ExhaustedOn
<1>2. Performing(d, w, r)
  BY <1>1 DEF PerformIo, Performing, ReportedOn, DoneOn, SpeculationAfter, sessionVars
<1> QED
  BY <1>1, <1>2 DEF PerformsNone, PerformsSome, Compensation

-----------------------------------------------------------------------------
(* Types. *)

LEMMA UsedFacts ==
    ASSUME NEW ch \in Used
    PROVE  /\ ch \in Channels /\ ch = <<ch[1], ch[2]>> /\ ch[1] \in Descriptors /\ ch[2] \in OpTypes
           /\ ch[2] = "write" => ch[1] \in Sockets
           /\ ch[2] # "write" => ch[2] = "read"
BY DEF Used, Channels, Descriptors, OpTypes

LEMMA FailedBroken ==
    ASSUME Types, Errors, NEW ch \in Used, ch[1] \in failed
    PROVE  ch \in broken
<1>1. ch[1] \in Sockets /\ <<ch[1], "read">> \in broken /\ <<ch[1], "write">> \in broken
  BY DEF Types, Errors
<1>2. ch = <<ch[1], "read">> \/ ch = <<ch[1], "write">>
  BY UsedFacts
<1> QED
  BY <1>1, <1>2

\* perform() takes no more than there is.
LEMMA UnitsFacts ==
    ASSUME Types, Errors, NEW ch \in Used, Ready(ch) \/ ch[1] \in failed
    PROVE  UnitsAfter(ch) \in Nat /\ UnitsAfter(ch) <= units[ch] /\ units[ch] \in Nat
<1>1. units[ch] \in Nat
  BY UsedFacts DEF Types
<1>2. CASE ch \in broken
  BY <1>1, <1>2 DEF UnitsAfter
<1>3. CASE ch \notin broken
  <2>1. units[ch] > 0
    BY <1>3, FailedBroken DEF Ready
  <2> QED BY <1>1, <1>3, <2>1 DEF UnitsAfter
<1> QED
  BY <1>2, <1>3

LEMMA ResultFacts ==
    ASSUME Types, Errors, NEW ch \in Used, NEW result \in ResultsOf(ch)
    PROVE  /\ result \in Results /\ result \in KindsOf(ch[2])
           /\ Op(result, ch[1]) \in Ops /\ Op(result, ch[1]) \in Good /\ Op(result, ch[1]) \in OpsOn(ch)
           /\ Op(result, ch[1]).kind = result /\ Op(result, ch[1]).d = ch[1]
<1>1. ch[2] \in OpTypes /\ ch[1] \in Descriptors /\ (ch[2] = "write" => ch[1] \in Sockets)
  BY UsedFacts
<1>2. result \in KindsOf(ch[2]) /\ result \in Results
  BY <1>1 DEF ResultsOf, KindsOf, Results, OpTypes
<1>3. Op(result, ch[1]) \in Ops /\ Op(result, ch[1]).kind = result /\ Op(result, ch[1]).d = ch[1]
  BY <1>1, <1>2, OpFacts DEF Op, Ops
<1>4. result \in {"eof", "epipe"} => <<ch[1], "read">> \in broken
  <2>1. result \in {"eof", "epipe"} => ch \in broken
    BY <1>1, FailedBroken DEF ResultsOf, OpTypes
  <2>2. ch \in broken => <<ch[1], "read">> \in broken
    BY UsedFacts DEF Errors
  <2> QED BY <2>1, <2>2
<1>5. result \in KindsOf("write") => ch[1] \in Sockets
  BY <1>1, <1>2 DEF KindsOf, OpTypes
<1> QED
  BY <1>2, <1>3, <1>4, <1>5 DEF Good, OpsOn

\* The units after operations on a set of channels.
LEMMA UnitsTyped ==
    ASSUME Types, Errors, NEW done \in SUBSET Used,
           \A ch \in done : Ready(ch) \/ ch[1] \in failed,
           units' = [ch \in Channels |-> IF ch \in done THEN UnitsAfter(ch) ELSE units[ch]]
    PROVE  units' \in [Channels -> Nat] /\ \A ch \in Channels : units'[ch] <= MaxUnits[ch[1]][ch[2]]
<1>1. ASSUME NEW ch \in Channels
      PROVE  units'[ch] \in Nat /\ units'[ch] <= units[ch] /\ units[ch] \in Nat
  <2>1. units[ch] \in Nat
    BY DEF Types
  <2>2. CASE ch \in done
    BY <2>2, UnitsFacts
  <2>3. CASE ch \notin done
    BY <2>1, <2>3
  <2> QED BY <2>2, <2>3
<1>2. ASSUME NEW ch \in Channels PROVE MaxUnits[ch[1]][ch[2]] \in Nat
  BY IoContextAssumption DEF Channels, Descriptors, OpTypes
<1> QED
  BY <1>1, <1>2 DEF Types

LEMMA PerformsTypes ==
    ASSUME Types, Errors, NEW ch \in Used, NEW result \in ResultsOf(ch), Performs(ch, result)
    PROVE  /\ units' \in [Channels -> Nat] /\ \A c \in Channels : units'[c] <= MaxUnits[c[1]][c[2]]
           /\ try_speculative' \subseteq Channels
           /\ UNCHANGED <<edge, events, out_registered, waiting>>
<1>1. Ready(ch) \/ ch[1] \in failed
  BY DEF Performs, Speculates
<1>2. units' = [c \in Channels |-> IF c \in {ch} THEN UnitsAfter(c) ELSE units[c]]
  BY UsedFacts DEF Performs, Types
<1>3. /\ units' \in [Channels -> Nat]
      /\ \A c \in Channels : units'[c] <= MaxUnits[c[1]][c[2]]
  BY <1>1, <1>2, UnitsTyped
<1> QED
  BY <1>3 DEF Performs, Types, SpeculationAfter

LEMMA WaitsTypes ==
    ASSUME Types, NEW ch \in Used, Waits(ch)
    PROVE  /\ waiting' \subseteq Used /\ outstanding_work' \in Int /\ out_registered' \subseteq Descriptors
           /\ edge' \subseteq Descriptors
           /\ UNCHANGED <<events, try_speculative, units>>
BY UsedFacts DEF Types, Waits

LEMMA WakeTypes ==
    ASSUME Types, WakeOneThread
    PROVE  task_interrupted' \in BOOLEAN /\ wake' \in BOOLEAN
BY DEF Types, WakeOneThread, Interrupt

LEMMA StartTypes ==
    ASSUME Types, NEW ch, Starting(ch)
    PROVE  ch \in Used /\ todo' \in Seq(Used) /\ todo = <<ch>> \o todo'
<1>1. todo \in Seq(Used) /\ todo # <<>>
  BY DEF Types, Starting
<1>2. Head(todo) \in Used /\ Tail(todo) \in Seq(Used)
  BY <1>1, HeadTailProperties
<1>3. todo = <<Head(todo)>> \o Tail(todo)
  BY <1>1
<1> QED
  BY <1>2, <1>3 DEF Starting

\* What perform_io() leaves of a channel: nothing, or the result of its operation.
LEMMA OutcomeFacts ==
    ASSUME Types, Errors, NEW d, NEW t \in OpTypes, NEW x \in OutcomesOn(d, <<d, t>>)
    PROVE  \/ x = <<>> /\ <<d, t>> \notin DoneOn(d)
           \/ /\ <<d, t>> \in DoneOn(d) /\ <<d, t>> \in Used
              /\ \E result \in ResultsOf(<<d, t>>) :
                    /\ x = <<Op(result, d)>>
                    /\ Op(result, d) \in Ops /\ Op(result, d) \in Good /\ Op(result, d) \in OpsOn(<<d, t>>)
                    /\ Op(result, d).kind = result /\ result \in Results
<1>1. CASE <<d, t>> \notin DoneOn(d)
  BY <1>1 DEF OutcomesOn
<1>2. CASE <<d, t>> \in DoneOn(d)
  <2>1. <<d, t>> \in Used
    BY <1>2 DEF DoneOn, Types
  <2>2. PICK result \in ResultsOf(<<d, t>>) : x = <<Op(result, d)>>
    BY <1>2 DEF OutcomesOn
  <2> DEFINE ch == <<d, t>>
  <2>3. ch \in Used /\ result \in ResultsOf(ch) /\ ch[1] = d
    BY <2>1, <2>2
  <2> HIDE DEF ch
  <2>4. /\ result \in Results /\ Op(result, ch[1]) \in Ops /\ Op(result, ch[1]) \in Good
        /\ Op(result, ch[1]) \in OpsOn(ch) /\ Op(result, ch[1]).kind = result
    BY <2>3, ResultFacts
  <2>5. /\ result \in Results /\ Op(result, d) \in Ops /\ Op(result, d) \in Good
        /\ Op(result, d) \in OpsOn(<<d, t>>) /\ Op(result, d).kind = result
    BY <2>3, <2>4 DEF ch
  <2> QED BY <1>2, <2>1, <2>2, <2>5
<1> QED
  BY <1>1, <1>2

\* One outcome as a sequence of performed operations.
LEMMA OutcomeSeq ==
    ASSUME Types, Errors, NEW d, NEW t \in OpTypes, NEW x \in OutcomesOn(d, <<d, t>>)
    PROVE  x \in Seq(Ops) /\ AllKinds(x, Results) /\ AllIn(x, Good) /\ Len(x) = One(<<d, t>> \in DoneOn(d))
<1>1. CASE x = <<>> /\ <<d, t>> \notin DoneOn(d)
  BY <1>1 DEF AllKinds, AllIn, One
<1>2. CASE <<d, t>> \in DoneOn(d) /\ \E result \in Results :
                    x = <<Op(result, d)>> /\ Op(result, d) \in Ops /\ Op(result, d) \in Good /\ Op(result, d).kind = result
  <2>1. PICK op \in Ops : x = <<op>> /\ op \in Good /\ op.kind \in Results
    BY <1>2
  <2>2. x \in Seq(Ops) /\ Len(x) = 1 /\ x[1] = op
    BY <2>1
  <2> QED BY <1>2, <2>1, <2>2 DEF AllKinds, AllIn, One
<1> QED
  BY <1>1, <1>2, OutcomeFacts

LEMMA PerformingFacts ==
    ASSUME Types, Errors, NEW d, NEW w, NEW r, Performing(d, w, r)
    PROVE  /\ d \in Descriptors /\ op_queue # <<>> /\ Head(op_queue).kind = "io" /\ pc["io"] = "loop"
           /\ DoneOn(d) \subseteq Used /\ DoneOn(d) \subseteq waiting
           /\ w \in Seq(Ops) /\ AllKinds(w, Results) /\ AllIn(w, Good) /\ Len(w) = One(<<d, "write">> \in DoneOn(d))
           /\ r \in Seq(Ops) /\ AllKinds(r, Results) /\ AllIn(r, Good) /\ Len(r) = One(<<d, "read">> \in DoneOn(d))
<1>1. op_queue # <<>> /\ Head(op_queue).kind = "io" /\ pc["io"] = "loop" /\ d = Head(op_queue).d
  BY DEF Performing, Runs
<1>2. d \in Descriptors
  BY <1>1, TailOps DEF Types, Ops
<1>3. DoneOn(d) \subseteq Used /\ DoneOn(d) \subseteq waiting
  BY DEF DoneOn, Types
<1>4. "write" \in OpTypes /\ "read" \in OpTypes
  BY DEF OpTypes
<1>5. w \in OutcomesOn(d, <<d, "write">>) /\ r \in OutcomesOn(d, <<d, "read">>)
  BY DEF Performing
<1>6. w \in Seq(Ops) /\ AllKinds(w, Results) /\ AllIn(w, Good) /\ Len(w) = One(<<d, "write">> \in DoneOn(d))
  BY <1>4, <1>5, OutcomeSeq
<1>7. r \in Seq(Ops) /\ AllKinds(r, Results) /\ AllIn(r, Good) /\ Len(r) = One(<<d, "read">> \in DoneOn(d))
  BY <1>4, <1>5, OutcomeSeq
<1> QED
  BY <1>1, <1>2, <1>3, <1>6, <1>7

LEMMA AllInConcat ==
    ASSUME NEW q \in Seq(Ops), NEW s \in Seq(Ops), NEW set, AllIn(q, set), AllIn(s, set)
    PROVE  AllIn(q \o s, set)
<1> SUFFICES ASSUME NEW i \in 1 .. Len(q \o s) PROVE (q \o s)[i] \in set
  BY DEF AllIn
<1>1. CASE i \in 1 .. Len(q)
  BY <1>1, ConcatOps DEF AllIn
<1>2. CASE i > Len(q)
  BY <1>2, ConcatOps DEF AllIn
<1> QED
  BY <1>1, <1>2, ConcatOps

LEMMA AllInTail ==
    ASSUME NEW q \in Seq(Ops), q # <<>>, NEW set, AllIn(q, set)
    PROVE  Head(q) \in set /\ AllIn(Tail(q), set)
BY TailOps DEF AllIn

LEMMA AllInOne ==
    ASSUME NEW x \in Ops, NEW set
    PROVE  AllIn(<<x>>, set) <=> x \in set
BY SingleFacts DEF AllIn

LEMMA AllKindsTail ==
    ASSUME NEW q \in Seq(Ops), q # <<>>, NEW kinds, AllKinds(q, kinds)
    PROVE  Head(q).kind \in kinds /\ AllKinds(Tail(q), kinds)
BY TailOps DEF AllKinds

LEMMA AllKindsOne ==
    ASSUME NEW x \in Ops, NEW kinds, x.kind \in kinds
    PROVE  AllKinds(<<x>>, kinds)
BY SingleFacts DEF AllKinds

LEMMA PerformedFacts ==
    ASSUME Types, Errors, NEW d, NEW w, NEW r, PerformsSome(d, w, r)
    PROVE  /\ w \o r \in Seq(Ops) /\ w \o r # <<>> /\ Tail(w \o r) \in Seq(Ops)
           /\ AllKinds(Tail(w \o r), Results) /\ AllIn(Tail(w \o r), Good)
           /\ running' \in Ops /\ running' \in Good /\ running'.kind \in Results
<1>1. w \in Seq(Ops) /\ r \in Seq(Ops) /\ AllKinds(w, Results) /\ AllKinds(r, Results) /\ AllIn(w, Good) /\ AllIn(r, Good)
  BY PerformingFacts DEF PerformsSome
<1> DEFINE p == w \o r
<1>2. p \in Seq(Ops) /\ AllKinds(p, Results) /\ AllIn(p, Good) /\ p # <<>> /\ running' = Head(p)
  BY <1>1, ConcatOps, AllConcat, AllInConcat DEF PerformsSome
<1> HIDE DEF p
<1>3. Tail(p) \in Seq(Ops) /\ Head(p) \in Ops
  BY <1>2, TailOps
<1>4. Head(p).kind \in Results /\ AllKinds(Tail(p), Results)
  BY <1>2, AllKindsTail
<1>5. Head(p) \in Good /\ AllIn(Tail(p), Good)
  BY <1>2, AllInTail
<1> QED
  BY <1>2, <1>3, <1>4, <1>5 DEF p

LEMMA DescriptorsFinite == IsFiniteSet(Descriptors)
BY IoContextAssumption, FS_AddElement DEF Descriptors

\* epoll_wait reports every descriptor it has once, in some order.
LEMMA OrderFacts ==
    ASSUME NEW set \in SUBSET Descriptors, NEW order \in SetToSeqs(set)
    PROVE  /\ order \in Seq(set)
           /\ \A d \in set : \E i \in 1 .. Len(order) : order[i] = d
<1>1. IsFiniteSet(set) /\ Cardinality(set) \in Nat
  BY DescriptorsFinite, FS_Subset, FS_CardinalityType
<1>2. PICK n \in Nat : n = Cardinality(set)
  BY <1>1
<1>3. order \in [1 .. n -> set] /\ \A i, j \in 1 .. n : i # j => order[i] # order[j]
  BY <1>2 DEF SetToSeqs
<1>4. order \in Seq(set) /\ Len(order) = n
  BY <1>3
<1>5. order \in Injection(1 .. n, set)
  BY <1>3 DEF Injection, IsInjective
<1>6. Cardinality(1 .. n) = n
  BY FS_Interval
<1>7. order \in Surjection(1 .. n, set)
  BY <1>1, <1>2, <1>5, <1>6, FS_Injection
<1> QED
  BY <1>4, <1>7 DEF Surjection

Found(order) == [i \in DOMAIN order |-> Op("io", order[i])]

LEMMA FoundFacts ==
    ASSUME NEW order \in Seq(Descriptors)
    PROVE  /\ Found(order) \in Seq(Ops) /\ Len(Found(order)) = Len(order)
           /\ \A i \in 1 .. Len(order) : Found(order)[i] = Op("io", order[i])
           /\ AllKinds(Found(order), {"io"}) /\ AllIn(Found(order), Good)
<1>1. ASSUME NEW i \in 1 .. Len(order)
      PROVE  Op("io", order[i]) \in Ops /\ Op("io", order[i]).kind = "io" /\ Op("io", order[i]) \in Good
  <2>1. order[i] \in Descriptors
    OBVIOUS
  <2> QED BY <2>1 DEF Op, Ops, Good, KindsOf
<1>2. /\ Found(order) \in Seq(Ops) /\ Len(Found(order)) = Len(order)
      /\ \A i \in 1 .. Len(order) : Found(order)[i] = Op("io", order[i])
  BY <1>1 DEF Found
<1> QED
  BY <1>1, <1>2 DEF AllKinds, AllIn

LEMMA PollFacts ==
    ASSUME Types, Places, Poll
    PROVE  /\ Reported \subseteq Descriptors
           /\ \E order \in Seq(Descriptors) :
                 /\ private_queue' = Found(order)
                 /\ \A d \in Reported : \E i \in 1 .. Len(order) : order[i] = d
<1>1. Reported \in SUBSET Descriptors
  BY DEF Reported, Types
<1>2. private_queue = <<>>
  BY DEF Places, Poll
<1>3. PICK order \in SetToSeqs(Reported) : private_queue' = <<>> \o Found(order)
  BY <1>2 DEF Poll, Found
<1>4. order \in Seq(Reported) /\ \A d \in Reported : \E i \in 1 .. Len(order) : order[i] = d
  BY <1>1, OrderFacts
<1>5. order \in Seq(Descriptors)
  BY <1>1, <1>4
<1>6. Found(order) \in Seq(Ops)
  BY <1>5, FoundFacts
<1>7. <<>> \o Found(order) = Found(order)
  BY <1>6
<1> QED
  BY <1>1, <1>3, <1>4, <1>5, <1>7

-----------------------------------------------------------------------------
LEMMA TypesInit == Init => Types
<1> SUFFICES ASSUME Init PROVE Types
  OBVIOUS
<1>1. Task \in Ops /\ <<Task>> \in Seq(Ops) /\ <<>> \in Seq(Ops)
  BY TaskFacts
<1>2. Accepting \in Used
  BY DEF Accepting, Used, Descriptors
<1>3. todo \in Seq(Used)
  BY <1>2 DEF Init
<1>4. opened \subseteq Descriptors
  BY DEF Init, Descriptors
<1>5. try_speculative \subseteq Channels /\ broken \subseteq Channels
  BY <1>4 DEF Init, Channels, OpTypes
<1>6. pc \in Pcs
  BY DEF Init, Pcs, Labels, ServerLabels
<1>7. ASSUME NEW ch \in Channels PROVE units[ch] = 0 /\ MaxUnits[ch[1]][ch[2]] \in Nat
  BY IoContextAssumption DEF Init, Channels, Descriptors, OpTypes
<1>8. units \in [Channels -> Nat] /\ \A ch \in Channels : units[ch] <= MaxUnits[ch[1]][ch[2]]
  BY <1>7 DEF Init
<1>9. outstanding_work \in Int /\ private_work \in Nat
  BY DEF Init
<1>10. /\ stopped \in BOOLEAN /\ task_interrupted \in BOOLEAN /\ wake \in BOOLEAN /\ blocking \in BOOLEAN
      /\ destroying \in BOOLEAN
  BY DEF Init
<1>11. /\ events \in [Descriptors -> SUBSET OpTypes] /\ edge \subseteq Descriptors
       /\ out_registered \subseteq Descriptors /\ waiting \subseteq Used
       /\ failed \subseteq Sockets /\ writing \subseteq Sockets
  BY DEF Init
<1>12. /\ op_queue \in Seq(Ops) /\ private_queue \in Seq(Ops)
       /\ running \in Ops /\ posted \in Ops
  BY <1>1 DEF Init
<1> QED
  BY <1>3, <1>4, <1>5, <1>6, <1>8, <1>9, <1>11, <1>12, <1>10 DEF Types

LEMMA TypesStartOp ==
    ASSUME Types, Errors, StartOp
    PROVE  Types'
<1>1. PICK ch : \/ StartWaits(ch)
                \/ \E result \in ResultsOf(ch) : StartKeeps(ch, result) \/ StartPosts(ch, result)
  BY StartOpCases
<1>2. Starting(ch)
  BY <1>1 DEF StartWaits, StartKeeps, StartPosts
<1>3. ch \in Used /\ todo' \in Seq(Used)
  BY <1>2, StartTypes
<1>4. CASE StartWaits(ch)
  <2>1. Waits(ch)
    BY <1>4 DEF StartWaits
  <2>2. /\ waiting' \subseteq Used /\ outstanding_work' \in Int /\ out_registered' \subseteq Descriptors
        /\ edge' \subseteq Descriptors /\ UNCHANGED <<events, try_speculative, units>>
    BY <1>3, <2>1, WaitsTypes
  <2> QED BY <1>3, <1>4, <2>2 DEF StartWaits, Starting, Types
<1>5. ASSUME NEW result \in ResultsOf(ch), StartKeeps(ch, result) \/ StartPosts(ch, result)
      PROVE  Types'
  <2>1. Op(result, ch[1]) \in Ops
    BY <1>3, ResultFacts
  <2>2. Performs(ch, result)
    BY <1>5 DEF StartKeeps, StartPosts
  <2>3. /\ units' \in [Channels -> Nat] /\ \A c \in Channels : units'[c] <= MaxUnits[c[1]][c[2]]
        /\ try_speculative' \subseteq Channels
        /\ UNCHANGED <<edge, events, out_registered, waiting>>
    BY <1>3, <2>2, PerformsTypes
  <2>4. CASE StartKeeps(ch, result)
    <3>1. private_queue' \in Seq(Ops)
      BY <2>1, <2>4 DEF StartKeeps, Types
    <3> QED BY <1>2, <1>3, <2>3, <2>4, <3>1 DEF StartKeeps, Starting, Types, schedulerVars
  <2>5. CASE StartPosts(ch, result)
    <3>1. op_queue' \in Seq(Ops)
      BY <2>1, <2>5, ConcatOps, SingleFacts DEF StartPosts, PushAndWake, Types
    <3>2. task_interrupted' \in BOOLEAN /\ wake' \in BOOLEAN
      BY <2>5, WakeTypes DEF StartPosts, PushAndWake
    <3> QED BY <1>2, <1>3, <2>3, <2>5, <3>1, <3>2 DEF StartPosts, Starting, Types
  <2> QED BY <1>5, <2>4, <2>5
<1> QED
  BY <1>1, <1>4, <1>5

LEMMA TypesComplete ==
    ASSUME Types, Errors, Places, Complete
    PROVE  Types'
<1>1. pc' \in Pcs
  BY GotoIo DEF Complete, Types, Labels
<1>2. running' \in Ops
  BY TaskFacts DEF Complete
<1>3. running \in Ops /\ running.d \in Descriptors
  BY DEF Types, Ops
<1> DEFINE Goal ==
      /\ todo' \in Seq(Used) /\ opened' \subseteq Descriptors /\ try_speculative' \subseteq Channels
      /\ units' \in [Channels -> Nat] /\ \A ch \in Channels : units'[ch] <= MaxUnits[ch[1]][ch[2]]
      /\ failed' \subseteq Sockets /\ writing' \subseteq Sockets
<1>4. Goal
  <2>1. Accepting \in Used
    BY DEF Accepting, Used, Descriptors
  <2>2. ASSUME NEW s \in Sockets \ opened,
               opened' = opened \cup {s},
               try_speculative' = try_speculative \cup ({s} \X OpTypes),
               units' = [units EXCEPT ![<<s, "write">>] = MaxUnits[s]["write"]],
               todo' = <<<<s, "read">>, Accepting>>,
               UNCHANGED <<failed, writing>>
        PROVE  Goal
    <3>1. <<s, "read">> \in Used
      BY DEF Used, Descriptors
    <3>2. todo' \in Seq(Used)
      BY <2>1, <2>2, <3>1
    <3>3. opened' \subseteq Descriptors
      BY <2>2 DEF Types, Descriptors
    <3>4. try_speculative' \subseteq Channels
      BY <2>2 DEF Types, Channels, Descriptors
    <3>5. MaxUnits[s]["write"] \in Nat
      BY IoContextAssumption
    <3>6. ASSUME NEW ch \in Channels PROVE units'[ch] \in Nat /\ units'[ch] <= MaxUnits[ch[1]][ch[2]]
      BY <2>2, <3>5 DEF Types
    <3>7. units' \in [Channels -> Nat]
      BY <2>2, <3>5 DEF Types
    <3> QED BY <2>2, <3>2, <3>3, <3>4, <3>6, <3>7 DEF Types
  <2>3. CASE OnAccept
    <3>1. CASE todo' = <<Accepting>> /\ UNCHANGED <<opened, try_speculative, units>>
      BY <2>1, <2>3, <3>1 DEF OnAccept, Types
    <3> QED BY <2>2, <2>3, <3>1 DEF OnAccept
  <2>4. CASE OnReadDone
    <3>1. <<running.d, "read">> \in Used
      BY <1>3 DEF Used
    <3>2. todo' \in Seq(Used)
      BY <2>4, <3>1 DEF OnReadDone
    <3>3. failed' \subseteq Sockets
      BY <1>3, <2>4 DEF OnReadDone, Types, Descriptors
    <3> QED BY <2>4, <3>2, <3>3 DEF OnReadDone, Types
  <2>5. CASE OnWritePart
    <3>1. running.d \in Sockets
      BY <2>5 DEF OnWritePart, Errors, Good, KindsOf
    <3>2. <<running.d, "write">> \in Used
      BY <3>1 DEF Used
    <3>3. todo' \in Seq(Used)
      BY <2>5, <3>2 DEF OnWritePart
    <3> QED BY <2>5, <3>3 DEF OnWritePart, Types
  <2>6. CASE OnWrite
    <3>1. running.d \in Sockets
      BY <2>6 DEF OnWrite, Errors, Good, KindsOf
    <3>2. failed' \subseteq Sockets /\ writing' \subseteq Sockets
      BY <2>6, <3>1 DEF OnWrite, Types
    <3> QED BY <2>6, <3>2 DEF OnWrite, Types
  <2> QED BY <2>3, <2>4, <2>5, <2>6 DEF Complete
<1> QED
  BY <1>1, <1>2, <1>4 DEF Complete, Types, schedulerVars

LEMMA TypesPerformIo ==
    ASSUME Types, Errors, PerformIo
    PROVE  Types'
<1>1. PICK d, w, r : PerformsNone(d, w, r) \/ PerformsSome(d, w, r)
  BY PerformIoCases
<1>2. Performing(d, w, r)
  BY <1>1 DEF PerformsNone, PerformsSome
<1>3. d \in Descriptors /\ op_queue # <<>> /\ DoneOn(d) \subseteq Used
  BY <1>2, PerformingFacts
<1>4. Tail(op_queue) \in Seq(Ops)
  BY <1>3, TailOps DEF Types
<1>5. /\ units' \in [Channels -> Nat] /\ \A ch \in Channels : units'[ch] <= MaxUnits[ch[1]][ch[2]]
  BY <1>2, <1>3, UnitsTyped DEF Performing, DoneOn
<1>6. events' \in [Descriptors -> SUBSET OpTypes]
  BY <1>2, <1>3 DEF Performing, Types
<1>7. try_speculative' \subseteq Channels
  <2>1. ReportedOn(d) \subseteq Channels
    BY <1>3 DEF ReportedOn, Types, Channels
  <2> QED BY <1>2, <2>1 DEF Performing, Types
<1>8. waiting' \subseteq Used
  BY <1>2 DEF Performing, Types
<1>9. CASE PerformsNone(d, w, r)
  <2>1. pc' \in Pcs
    BY <1>9, GotoIo DEF PerformsNone, Types, Labels
  <2> QED BY <1>2, <1>4, <1>5, <1>6, <1>7, <1>8, <1>9, <2>1 DEF PerformsNone, Performing, Types
<1>10. CASE PerformsSome(d, w, r)
  <2>1. pc' \in Pcs
    BY <1>10, GotoIo DEF PerformsSome, Types, Labels
  <2>2. running' \in Ops /\ Tail(w \o r) \in Seq(Ops)
    BY <1>10, PerformedFacts
  <2>3. op_queue' \in Seq(Ops)
    BY <1>4, <1>10, <2>2, ConcatOps DEF PerformsSome
  <2>4. task_interrupted' \in BOOLEAN /\ wake' \in BOOLEAN
    BY <1>10, WakeTypes DEF PerformsSome
  <2> QED BY <1>2, <1>5, <1>6, <1>7, <1>8, <1>10, <2>1, <2>2, <2>3, <2>4 DEF PerformsSome, Performing, Types
<1> QED
  BY <1>1, <1>9, <1>10

LEMMA TypesSend ==
    ASSUME Types, Errors, Send
    PROVE  Types'
<1>1. PICK s : SendWaits(s) \/ \E result \in ResultsOf(<<s, "write">>) : SendPerforms(s, result)
  BY SendCases
<1>2. Sending(s)
  BY <1>1 DEF SendWaits, SendPerforms
<1> DEFINE ch == <<s, "write">>
<1>3. ch \in Used /\ ch[1] = s /\ writing' \subseteq Sockets
  BY <1>2 DEF Sending, Used, Types
<1>4. CASE SendWaits(s)
  <2>1. Waits(ch)
    BY <1>4 DEF SendWaits
  <2> HIDE DEF ch
  <2>2. /\ waiting' \subseteq Used /\ outstanding_work' \in Int /\ out_registered' \subseteq Descriptors
        /\ edge' \subseteq Descriptors /\ UNCHANGED <<events, try_speculative, units>>
    BY <1>3, <2>1, WaitsTypes
  <2> QED BY <1>2, <1>3, <1>4, <2>2 DEF SendWaits, Sending, Types, privateVars
<1>5. ASSUME NEW result \in ResultsOf(ch), SendPerforms(s, result)
      PROVE  Types'
  <2>1. Performs(ch, result) /\ posted' = Op(result, ch[1])
    BY <1>5 DEF SendPerforms
  <2>2. pc' \in Pcs
    BY <1>5, GotoServer DEF SendPerforms, Types, ServerLabels
  <2>3. UNCHANGED outstanding_work
    BY <1>5 DEF SendPerforms
  <2> HIDE DEF ch
  <2>4. posted' \in Ops
    BY <1>3, <2>1, ResultFacts
  <2>5. /\ units' \in [Channels -> Nat] /\ \A c \in Channels : units'[c] <= MaxUnits[c[1]][c[2]]
        /\ try_speculative' \subseteq Channels
        /\ UNCHANGED <<edge, events, out_registered, waiting>>
    BY <1>3, <2>1, PerformsTypes
  <2> QED BY <1>2, <1>3, <2>2, <2>3, <2>4, <2>5 DEF Sending, Types, privateVars
<1> QED
  BY <1>1, <1>4, <1>5

LEMMA TypesKernel ==
    ASSUME Types, Arrive \/ Reset
    PROVE  Types'
<1>1. CASE Arrive
  <2>1. PICK ch \in (opened \X OpTypes) \ broken :
          /\ units[ch] < MaxUnits[ch[1]][ch[2]]
          /\ units' = [units EXCEPT ![ch] = @ + 1]
          /\ edge' = IF ch[2] = "read" \/ ch[1] \in out_registered THEN edge \cup {ch[1]} ELSE edge
    BY <1>1 DEF Arrive
  <2>2. ch \in Channels /\ ch[1] \in Descriptors
    BY DEF Channels, Types
  <2>3. units[ch] \in Nat /\ MaxUnits[ch[1]][ch[2]] \in Nat
    BY <2>2, IoContextAssumption DEF Types, Channels, Descriptors, OpTypes
  <2>4. units' \in [Channels -> Nat]
    BY <2>1, <2>2, <2>3 DEF Types
  <2>5. ASSUME NEW c \in Channels PROVE units'[c] <= MaxUnits[c[1]][c[2]]
    BY <2>1, <2>2, <2>3 DEF Types
  <2>6. edge' \subseteq Descriptors
    BY <2>1, <2>2 DEF Types
  <2> QED BY <1>1, <2>4, <2>5, <2>6 DEF Arrive, Types, schedulerVars, privateVars, sessionVars
<1>2. CASE Reset
  <2>1. PICK s \in opened \cap Sockets :
          /\ broken' = broken \cup ({s} \X OpTypes)
          /\ edge' = edge \cup {s}
          /\ units' = [ch \in Channels |-> IF ch[1] = s THEN 0 ELSE units[ch]]
    BY <1>2 DEF Reset
  <2>2. units' \in [Channels -> Nat]
    BY <2>1 DEF Types
  <2>3. ASSUME NEW c \in Channels PROVE units'[c] <= MaxUnits[c[1]][c[2]]
    <3>1. MaxUnits[c[1]][c[2]] \in Nat
      BY IoContextAssumption DEF Channels, Descriptors, OpTypes
    <3> QED BY <2>1, <3>1 DEF Types
  <2>4. broken' \subseteq Channels /\ edge' \subseteq Descriptors
    BY <2>1 DEF Types, Channels
  <2> QED BY <1>2, <2>2, <2>3, <2>4 DEF Reset, Types, schedulerVars, privateVars, sessionVars
<1> QED
  BY <1>1, <1>2

LEMMA TypesNext ==
    ASSUME Types, Errors, Places, [Next]_vars
    PROVE  Types'
<1> USE DEF schedulerVars, privateVars, descriptorVars, sessionVars
<1>1. CASE StartOp
  BY <1>1, TypesStartOp
<1>2. CASE Complete
  BY <1>2, TypesComplete
<1>3. CASE EnterRun
  <2>1. pc' \in Pcs
    BY <1>3, GotoIo DEF EnterRun, Types, Labels
  <2>2. stopped' \in BOOLEAN /\ task_interrupted' \in BOOLEAN /\ wake' \in BOOLEAN
    BY <1>3, WakeTypes DEF EnterRun, Stop, Types
  <2> QED BY <1>3, <2>1, <2>2 DEF EnterRun, Types
<1>4. CASE LeaveRun
  <2>1. pc' \in Pcs
    BY <1>4, GotoIo DEF LeaveRun, Types, Labels
  <2> QED BY <1>4, <2>1 DEF LeaveRun, Types
<1>5. CASE PopTask
  <2>1. pc' \in Pcs
    BY <1>5, GotoIo DEF PopTask, Types, Labels
  <2>2. op_queue' \in Seq(Ops)
    BY <1>5, TailOps DEF PopTask, Runs, Types
  <2>3. task_interrupted' \in BOOLEAN /\ blocking' \in BOOLEAN
    BY <1>5 DEF PopTask
  <2> QED BY <1>5, <2>1, <2>2, <2>3 DEF PopTask, Types
<1>6. CASE Poll
  <2>1. pc' \in Pcs
    BY <1>6, GotoIo DEF Poll, Types, Labels
  <2>2. private_queue' \in Seq(Ops)
    BY <1>6, PollFacts, FoundFacts
  <2>3. events' \in [Descriptors -> SUBSET OpTypes]
    BY <1>6 DEF Poll, Types, ReadyTypes
  <2>4. edge' \subseteq Descriptors /\ wake' \in BOOLEAN /\ blocking' \in BOOLEAN
    BY <1>6 DEF Poll
  <2> QED BY <1>6, <2>1, <2>2, <2>3, <2>4 DEF Poll, Types
<1>7. CASE TaskCleanup
  <2>1. pc' \in Pcs
    BY <1>7, GotoIo DEF TaskCleanup, Types, Labels
  <2>2. op_queue' \in Seq(Ops)
    <3> DEFINE found == op_queue \o private_queue
    <3>1. found \in Seq(Ops) /\ op_queue' = found \o <<Task>>
      BY <1>7, ConcatOps DEF TaskCleanup, Requeued, Types
    <3> HIDE DEF found
    <3> QED BY <3>1, ConcatOps, SingleFacts, TaskFacts
  <2>3. outstanding_work' \in Int /\ private_work' \in Nat /\ task_interrupted' \in BOOLEAN
    BY <1>7 DEF TaskCleanup, Types
  <2> QED BY <1>7, <2>1, <2>2, <2>3 DEF TaskCleanup, Types
<1>8. CASE PopHandler
  <2>1. pc' \in Pcs
    BY <1>8, GotoIo DEF PopHandler, Types, Labels
  <2>2. op_queue' \in Seq(Ops) /\ running' \in Ops
    BY <1>8, TailOps DEF PopHandler, Runs, Types
  <2>3. task_interrupted' \in BOOLEAN /\ wake' \in BOOLEAN
    BY <1>8, WakeTypes DEF PopHandler, Types
  <2> QED BY <1>8, <2>1, <2>2, <2>3 DEF PopHandler, Types
<1>9. CASE PerformIo
  BY <1>9, TypesPerformIo
<1>10. CASE WorkCleanup
  <2>1. pc' \in Pcs
    BY <1>10, GotoIo DEF WorkCleanup, Types, Labels
  <2>2. op_queue' \in Seq(Ops) /\ private_queue' \in Seq(Ops)
    BY <1>10, ConcatOps DEF WorkCleanup, Types
  <2>3. stopped' \in BOOLEAN /\ task_interrupted' \in BOOLEAN /\ wake' \in BOOLEAN
    BY <1>10, WakeTypes DEF WorkCleanup, Stop, Types
  <2>4. outstanding_work' \in Int /\ private_work' \in Nat
    BY <1>10 DEF WorkCleanup, WorkAfter, Types
  <2> QED BY <1>10, <2>1, <2>2, <2>3, <2>4 DEF WorkCleanup, Types
<1>11. CASE Send
  BY <1>11, TypesSend
<1>12. CASE WorkStarted
  <2>1. pc' \in Pcs
    BY <1>12, GotoServer DEF WorkStarted, Types, ServerLabels
  <2> QED BY <1>12, <2>1 DEF WorkStarted, Types
<1>13. CASE Push
  <2>1. pc' \in Pcs
    BY <1>13, GotoServer DEF Push, Types, ServerLabels
  <2>2. op_queue' \in Seq(Ops)
    BY <1>13, ConcatOps, SingleFacts DEF Push, PushAndWake, Types
  <2>3. posted' \in Ops
    BY <1>13, TaskFacts DEF Push
  <2>4. task_interrupted' \in BOOLEAN /\ wake' \in BOOLEAN
    BY <1>13, WakeTypes DEF Push, PushAndWake
  <2> QED BY <1>13, <2>1, <2>2, <2>3, <2>4 DEF Push, Types
<1>14. CASE Destroy
  <2>1. stopped' \in BOOLEAN /\ task_interrupted' \in BOOLEAN /\ wake' \in BOOLEAN /\ destroying' \in BOOLEAN
    BY <1>14, WakeTypes DEF Destroy, Stop
  <2> QED BY <1>14, <2>1 DEF Destroy, Types
<1>15. CASE Arrive \/ Reset
  BY <1>15, TypesKernel
<1>16. CASE UNCHANGED vars
  BY <1>16 DEF vars, Types
<1> QED
  BY <1>1, <1>2, <1>3, <1>4, <1>5, <1>6, <1>7, <1>8, <1>9, <1>10, <1>11, <1>12, <1>13, <1>14, <1>15, <1>16
     DEF Next, IoThread, ServerThread, Joined

-----------------------------------------------------------------------------
(* Errors. *)

LEMMA TaskGood == Task \in Good
BY TaskFacts DEF Good, KindsOf

LEMMA ErrorsNext ==
    ASSUME Types, Errors, Places, [Next]_vars
    PROVE  Errors'
<1> USE DEF schedulerVars, privateVars, descriptorVars, sessionVars
<1>1. ASSUME UNCHANGED broken, failed' \X {"read"} \subseteq broken,
             AllIn(op_queue', Good), AllIn(private_queue', Good), running' \in Good, posted' \in Good
      PROVE  Errors'
  <2>1. Good' = Good
    BY <1>1 DEF Good
  <2> QED BY <1>1, <2>1 DEF Errors
<1>2. CASE StartOp
  <2>1. PICK ch : \/ StartWaits(ch)
                  \/ \E result \in ResultsOf(ch) : StartKeeps(ch, result) \/ StartPosts(ch, result)
    BY <1>2, StartOpCases
  <2>2. Starting(ch)
    BY <2>1 DEF StartWaits, StartKeeps, StartPosts
  <2>3. ch \in Used
    BY <2>2, StartTypes
  <2>4. CASE StartWaits(ch)
    BY <1>1, <2>2, <2>4 DEF StartWaits, Starting, Errors
  <2>5. ASSUME NEW result \in ResultsOf(ch), StartKeeps(ch, result) PROVE Errors'
    <3>1. Op(result, ch[1]) \in Good /\ Op(result, ch[1]) \in Ops
      BY <2>3, ResultFacts
    <3>2. AllIn(private_queue', Good)
      <4>1. private_queue' = private_queue \o <<Op(result, ch[1])>>
        BY <2>5, <3>1 DEF StartKeeps, Types
      <4> QED BY <3>1, <4>1, AllInOne, AllInConcat, SingleFacts DEF Errors, Types
    <3> QED BY <1>1, <2>2, <2>5, <3>2 DEF StartKeeps, Starting, Errors
  <2>6. ASSUME NEW result \in ResultsOf(ch), StartPosts(ch, result) PROVE Errors'
    <3>1. Op(result, ch[1]) \in Good /\ Op(result, ch[1]) \in Ops
      BY <2>3, ResultFacts
    <3>2. AllIn(op_queue', Good)
      BY <2>6, <3>1, AllInOne, AllInConcat, SingleFacts DEF StartPosts, PushAndWake, Errors, Types
    <3> QED BY <1>1, <2>2, <2>6, <3>2 DEF StartPosts, Starting, Errors
  <2> QED BY <2>1, <2>4, <2>5, <2>6
<1>3. CASE Complete
  <2>1. failed' \X {"read"} \subseteq broken
    <3>1. running.kind \in {"eof", "epipe"} => <<running.d, "read">> \in broken
      BY DEF Errors, Good
    <3>2. failed' = failed \/ (running.kind \in {"eof", "epipe"} /\ failed' \subseteq failed \cup {running.d})
      BY <1>3 DEF Complete, OnAccept, OnReadDone, OnWritePart, OnWrite
    <3>3. failed \X {"read"} \subseteq broken
      BY DEF Errors
    <3> QED BY <3>1, <3>2, <3>3
  <2> QED BY <1>1, <1>3, <2>1, TaskGood DEF Complete, Errors
<1>4. CASE EnterRun \/ LeaveRun \/ WorkStarted \/ Destroy \/ Arrive
  BY <1>1, <1>4 DEF EnterRun, LeaveRun, WorkStarted, Destroy, Arrive, Errors
<1>5. CASE PopTask
  BY <1>1, <1>5, AllInTail DEF PopTask, Runs, Errors, Types
<1>6. CASE Poll
  <2>1. AllIn(private_queue', Good)
    BY <1>6, PollFacts, FoundFacts
  <2> QED BY <1>1, <1>6, <2>1 DEF Poll, Errors
<1>7. CASE TaskCleanup
  <2> DEFINE found == op_queue \o private_queue
  <2>1. found \in Seq(Ops) /\ AllIn(found, Good)
    BY ConcatOps, AllInConcat DEF Types, Errors
  <2>2. op_queue' = found \o <<Task>>
    BY <1>7 DEF TaskCleanup, Requeued
  <2> HIDE DEF found
  <2>3. <<Task>> \in Seq(Ops) /\ AllIn(<<Task>>, Good)
    BY TaskFacts, TaskGood, AllInOne
  <2>4. AllIn(op_queue', Good)
    BY <2>1, <2>2, <2>3, AllInConcat
  <2>5. AllIn(private_queue', Good)
    BY <1>7 DEF TaskCleanup, AllIn
  <2> QED BY <1>1, <1>7, <2>4, <2>5 DEF TaskCleanup, Errors
<1>8. CASE PopHandler
  BY <1>1, <1>8, AllInTail DEF PopHandler, Runs, Errors, Types
<1>9. CASE PerformIo
  <2>1. PICK d, w, r : PerformsNone(d, w, r) \/ PerformsSome(d, w, r)
    BY <1>9, PerformIoCases
  <2>2. Performing(d, w, r)
    BY <2>1 DEF PerformsNone, PerformsSome
  <2>3. op_queue # <<>>
    BY <2>2, PerformingFacts
  <2>4. AllIn(Tail(op_queue), Good) /\ Tail(op_queue) \in Seq(Ops)
    BY <2>3, AllInTail, TailOps DEF Errors, Types
  <2>5. CASE PerformsNone(d, w, r)
    BY <1>1, <2>2, <2>4, <2>5 DEF PerformsNone, Performing, Errors
  <2>6. CASE PerformsSome(d, w, r)
    <3>1. Tail(w \o r) \in Seq(Ops) /\ AllIn(Tail(w \o r), Good) /\ running' \in Good
      BY <2>6, PerformedFacts
    <3>2. AllIn(op_queue', Good)
      BY <2>4, <2>6, <3>1, AllInConcat DEF PerformsSome
    <3> QED BY <1>1, <2>2, <2>6, <3>1, <3>2 DEF Performing, Errors
  <2> QED BY <2>1, <2>5, <2>6
<1>10. CASE WorkCleanup
  <2>1. AllIn(op_queue', Good) /\ AllIn(private_queue', Good)
    <3>1. AllIn(op_queue', Good)
      BY <1>10, AllInConcat DEF WorkCleanup, Errors, Types
    <3> QED BY <1>10, <3>1 DEF WorkCleanup, AllIn
  <2> QED BY <1>1, <1>10, <2>1 DEF WorkCleanup, Errors
<1>11. CASE Send
  <2>1. PICK s : SendWaits(s) \/ \E result \in ResultsOf(<<s, "write">>) : SendPerforms(s, result)
    BY <1>11, SendCases
  <2>2. Sending(s)
    BY <2>1 DEF SendWaits, SendPerforms
  <2>3. CASE SendWaits(s)
    BY <1>1, <2>2, <2>3 DEF SendWaits, Sending, Errors
  <2>4. ASSUME NEW result \in ResultsOf(<<s, "write">>), SendPerforms(s, result) PROVE Errors'
    <3> DEFINE ch == <<s, "write">>
    <3>1. ch \in Used /\ result \in ResultsOf(ch) /\ posted' = Op(result, ch[1])
      BY <2>2, <2>4 DEF Sending, SendPerforms, Used
    <3> HIDE DEF ch
    <3>2. posted' \in Good
      BY <3>1, ResultFacts
    <3> QED BY <1>1, <2>2, <3>2 DEF Sending, Errors
  <2> QED BY <2>1, <2>3, <2>4
<1>12. CASE Push
  <2>1. AllIn(op_queue', Good)
    BY <1>12, AllInOne, AllInConcat, SingleFacts DEF Push, PushAndWake, Errors, Types
  <2> QED BY <1>1, <1>12, <2>1, TaskGood DEF Push, Errors
<1>13. CASE Reset
  <2>1. PICK s \in opened \cap Sockets : broken' = broken \cup ({s} \X OpTypes)
    BY <1>13 DEF Reset
  <2>2. Good \subseteq Good'
    BY <2>1 DEF Good
  <2>3. /\ AllIn(op_queue, Good)' /\ AllIn(private_queue, Good)' /\ (running \in Good)' /\ (posted \in Good)'
    BY <1>13, <2>2 DEF Reset, Errors, AllIn
  <2>4. ASSUME NEW u, NEW t \in OpTypes
        PROVE  <<u, t>> \in broken' <=> <<u, t>> \in broken \/ u = s
    BY <2>1
  <2>5. ASSUME NEW u \in Sockets PROVE <<u, "read">> \in broken' <=> <<u, "write">> \in broken'
    <3>1. <<u, "read">> \in broken <=> <<u, "write">> \in broken
      BY DEF Errors
    <3> QED BY <2>4, <3>1 DEF OpTypes
  <2>6. failed' \X {"read"} \subseteq broken'
    BY <1>13, <2>1 DEF Reset, Errors
  <2> QED BY <2>3, <2>5, <2>6 DEF Errors
<1>14. CASE UNCHANGED vars
  BY <1>1, <1>14 DEF vars, Errors
<1> QED
  BY <1>2, <1>3, <1>4, <1>5, <1>6, <1>7, <1>8, <1>9, <1>10, <1>11, <1>12, <1>13, <1>14
     DEF Next, IoThread, ServerThread, Joined

LEMMA ErrorsInit == Init => Errors
<1> SUFFICES ASSUME Init PROVE Errors
  OBVIOUS
<1>1. Task \in Ops /\ Task \in Good
  BY TaskFacts, TaskGood
<1>2. op_queue = <<Task>> /\ private_queue = <<>> /\ running = Task /\ posted = Task /\ failed = {}
  BY DEF Init
<1>3. AllIn(op_queue, Good) /\ AllIn(private_queue, Good)
  BY <1>1, <1>2, AllInOne DEF AllIn
<1>4. ASSUME NEW s \in Sockets PROVE <<s, "read">> \notin broken /\ <<s, "write">> \notin broken
  BY IoContextAssumption DEF Init
<1> QED
  BY <1>1, <1>2, <1>3, <1>4 DEF Errors

-----------------------------------------------------------------------------
(* Places. *)

LEMMA PlacesInit == Init => Places
<1> SUFFICES ASSUME Init PROVE Places
  OBVIOUS
<1>1. pc["io"] = "start" /\ pc["server"] = "idle"
  BY DEF Init
<1>2. op_queue = <<Task>> /\ private_queue = <<>> /\ running = Task /\ posted = Task
  BY DEF Init
<1>3. Len(<<Task>>) = 1 /\ <<Task>>[1] = Task /\ Task.kind = "task"
  BY TaskFacts, SingleFacts
<1>4. TaskAt(op_queue, 1) /\ 1 \in 1 .. Len(op_queue)
  BY <1>2, <1>3 DEF TaskAt
<1> QED
  BY <1>1, <1>2, <1>4 DEF Places, Queued

LEMMA QueuedPush ==
    ASSUME NEW q \in Seq(Ops), NEW s \in Seq(Ops), NEW label, Queued(q, label), AllKinds(s, Results)
    PROVE  Queued(q \o s, label)
<1>1. CASE label \in {"poll", "task_cleanup"}
  BY <1>1, AllConcat DEF Queued
<1>2. CASE label \notin {"poll", "task_cleanup"}
  <2>1. PICK n \in 1 .. Len(q) : TaskAt(q, n)
    BY <1>2 DEF Queued
  <2>2. TaskAt(q \o s, n)
    BY <2>1, TaskAfterPush
  <2>3. n \in 1 .. Len(q \o s)
    BY <2>2 DEF TaskAt
  <2> QED BY <1>2, <2>2, <2>3 DEF Queued
<1> QED
  BY <1>1, <1>2

LEMMA QueuedPop ==
    ASSUME NEW q \in Seq(Ops), NEW label, label \notin {"poll", "task_cleanup"}, Queued(q, label),
           Head(q).kind # "task", NEW label2, label2 \notin {"poll", "task_cleanup"}
    PROVE  Queued(Tail(q), label2)
<1>1. PICK n \in 1 .. Len(q) : TaskAt(q, n)
  BY DEF Queued
<1>2. TaskAt(Tail(q), n - 1)
  BY <1>1, TaskAfterPop
<1>3. n - 1 \in 1 .. Len(Tail(q))
  BY <1>2 DEF TaskAt
<1> QED
  BY <1>2, <1>3 DEF Queued

LEMMA PlacesNext ==
    ASSUME Types, Errors, Places, [Next]_vars
    PROVE  Places'
<1> USE DEF schedulerVars, privateVars, descriptorVars, sessionVars
<1>1. CASE StartOp
  <2>1. PICK ch : \/ StartWaits(ch)
                  \/ \E result \in ResultsOf(ch) : StartKeeps(ch, result) \/ StartPosts(ch, result)
    BY <1>1, StartOpCases
  <2>2. Starting(ch) /\ pc["io"] \in {"start", "handler"}
    BY <2>1 DEF StartWaits, StartKeeps, StartPosts, Starting
  <2>3. ch \in Used
    BY <2>2, StartTypes
  <2>4. CASE StartWaits(ch)
    BY <2>2, <2>4 DEF StartWaits, Starting, Places
  <2>5. ASSUME NEW result \in ResultsOf(ch), StartKeeps(ch, result) PROVE Places'
    <3>1. Op(result, ch[1]) \in Ops /\ Op(result, ch[1]).kind \in Results
      BY <2>3, ResultFacts
    <3>2. private_queue' = private_queue \o <<Op(result, ch[1])>> /\ pc["io"] = "handler"
      BY <2>5, <3>1 DEF StartKeeps, Types
    <3>3. AllKinds(<<Op(result, ch[1])>>, Results) /\ <<Op(result, ch[1])>> \in Seq(Ops)
      BY <3>1, AllKindsOne, SingleFacts
    <3>4. AllKinds(private_queue, Results)
      BY <3>2 DEF Places
    <3>5. AllKinds(private_queue', Results)
      BY <3>2, <3>3, <3>4, AllConcat DEF Types
    <3> QED BY <2>2, <2>5, <3>2, <3>5 DEF StartKeeps, Starting, Places
  <2>6. ASSUME NEW result \in ResultsOf(ch), StartPosts(ch, result) PROVE Places'
    <3>1. Op(result, ch[1]) \in Ops /\ Op(result, ch[1]).kind \in Results
      BY <2>3, ResultFacts
    <3>2. AllKinds(<<Op(result, ch[1])>>, Results) /\ <<Op(result, ch[1])>> \in Seq(Ops)
      BY <3>1, AllKindsOne, SingleFacts
    <3>3. Queued(op_queue', pc["io"])
      BY <2>6, <3>2, QueuedPush DEF StartPosts, PushAndWake, Places, Types
    <3> QED BY <2>2, <2>6, <3>3 DEF StartPosts, Starting, Places
  <2> QED BY <2>1, <2>4, <2>5, <2>6
<1>2. CASE Complete
  <2>1. pc["io"] = "complete" /\ pc'["io"] = "handler" /\ pc'["server"] = pc["server"]
    BY <1>2, GotoIo DEF Complete, Types, Labels
  <2>2. Queued(op_queue', pc'["io"]) /\ private_queue' = <<>>
    BY <1>2, <2>1 DEF Complete, Places, Queued
  <2>3. AllKinds(private_queue', Results)
    BY <2>2 DEF AllKinds
  <2> QED BY <1>2, <2>1, <2>2, <2>3 DEF Complete, Places
<1>3. CASE EnterRun
  <2>1. pc["io"] = "start" /\ pc'["io"] \in {"exited", "loop"} /\ pc'["server"] = pc["server"]
    BY <1>3, GotoIo DEF EnterRun, Types, Labels
  <2>2. Queued(op_queue', pc'["io"])
    BY <1>3, <2>1 DEF EnterRun, Places, Queued
  <2> QED BY <1>3, <2>1, <2>2 DEF EnterRun, Places
<1>4. CASE LeaveRun
  <2>1. pc["io"] = "loop" /\ pc'["io"] = "exited" /\ pc'["server"] = pc["server"]
    BY <1>4, GotoIo DEF LeaveRun, Types, Labels
  <2>2. Queued(op_queue', pc'["io"])
    BY <1>4, <2>1 DEF LeaveRun, Places, Queued
  <2> QED BY <1>4, <2>1, <2>2 DEF LeaveRun, Places
<1>5. CASE PopTask
  <2>1. pc["io"] = "loop" /\ pc'["io"] = "poll" /\ pc'["server"] = pc["server"]
    BY <1>5, GotoIo DEF PopTask, Runs, Types, Labels
  <2>2. op_queue # <<>> /\ Head(op_queue).kind = "task" /\ op_queue' = Tail(op_queue)
    BY <1>5 DEF PopTask, Runs
  <2>3. PICK n \in 1 .. Len(op_queue) : TaskAt(op_queue, n)
    BY <2>1 DEF Places, Queued
  <2>4. AllKinds(op_queue', Results)
    BY <2>2, <2>3, AfterTask DEF Types
  <2>5. Queued(op_queue', pc'["io"])
    BY <2>1, <2>4 DEF Queued
  <2> QED BY <1>5, <2>1, <2>5 DEF PopTask, Places
<1>6. CASE Poll
  <2>1. pc["io"] = "poll" /\ pc'["io"] = "task_cleanup" /\ pc'["server"] = pc["server"]
    BY <1>6, GotoIo DEF Poll, Types, Labels
  <2>2. Queued(op_queue', pc'["io"])
    BY <1>6, <2>1 DEF Poll, Places, Queued
  <2>3. AllKinds(private_queue', {"io"})
    BY <1>6, PollFacts, FoundFacts
  <2> QED BY <1>6, <2>1, <2>2, <2>3 DEF Poll, Places
<1>7. CASE TaskCleanup
  <2>1. pc["io"] = "task_cleanup" /\ pc'["io"] = "loop" /\ pc'["server"] = pc["server"]
    BY <1>7, GotoIo DEF TaskCleanup, Types, Labels
  <2>2. AllKinds(op_queue, Results) /\ AllKinds(private_queue, {"io"}) /\ op_queue' = Requeued(op_queue, private_queue)
    BY <1>7, <2>1 DEF TaskCleanup, Places, Queued
  <2>3. PICK n : TaskAt(op_queue', n)
    BY <2>2, TaskRequeued DEF Types
  <2>4. Queued(op_queue', pc'["io"])
    BY <2>1, <2>3 DEF Queued, TaskAt
  <2> QED BY <1>7, <2>1, <2>4 DEF TaskCleanup, Places
<1>8. CASE PopHandler
  <2>1. pc["io"] = "loop" /\ pc'["io"] = "complete" /\ pc'["server"] = pc["server"]
    BY <1>8, GotoIo DEF PopHandler, Runs, Types, Labels
  <2>2. op_queue # <<>> /\ Head(op_queue).kind \in Results /\ op_queue' = Tail(op_queue) /\ running' = Head(op_queue)
    BY <1>8 DEF PopHandler, Runs
  <2>3. Queued(op_queue', pc'["io"])
    BY <2>1, <2>2, QueuedPop, TaskFacts DEF Places, Types
  <2> QED BY <1>8, <2>1, <2>2, <2>3 DEF PopHandler, Places
<1>9. CASE PerformIo
  <2>1. PICK d, w, r : PerformsNone(d, w, r) \/ PerformsSome(d, w, r)
    BY <1>9, PerformIoCases
  <2>2. Performing(d, w, r)
    BY <2>1 DEF PerformsNone, PerformsSome
  <2>3. op_queue # <<>> /\ Head(op_queue).kind = "io" /\ pc["io"] = "loop"
    BY <2>2, PerformingFacts
  <2>4. Queued(Tail(op_queue), "handler") /\ Queued(Tail(op_queue), "complete")
    <3>1. op_queue \in Seq(Ops) /\ Queued(op_queue, "loop") /\ Head(op_queue).kind # "task"
      BY <2>3 DEF Places, Types
    <3>2. ASSUME NEW label \in {"handler", "complete"} PROVE Queued(Tail(op_queue), label)
      BY <3>1, QueuedPop
    <3> QED BY <3>2
  <2>5. CASE PerformsNone(d, w, r)
    <3>1. pc'["io"] = "handler" /\ pc'["server"] = pc["server"]
      BY <2>5, GotoIo DEF PerformsNone, Types, Labels
    <3>2. Queued(op_queue', pc'["io"])
      BY <2>4, <2>5, <3>1 DEF PerformsNone
    <3>3. AllKinds(private_queue', Results)
      BY <2>2, <2>3 DEF Performing, Places, AllKinds
    <3> QED BY <2>2, <2>3, <2>5, <3>1, <3>2, <3>3 DEF PerformsNone, Performing, Places
  <2>6. CASE PerformsSome(d, w, r)
    <3>1. pc'["io"] = "complete" /\ pc'["server"] = pc["server"]
      BY <2>6, GotoIo DEF PerformsSome, Types, Labels
    <3>2. Tail(w \o r) \in Seq(Ops) /\ AllKinds(Tail(w \o r), Results) /\ running'.kind \in Results
      BY <2>6, PerformedFacts
    <3>3. Tail(op_queue) \in Seq(Ops)
      BY <2>3, TailOps DEF Types
    <3>4. Queued(op_queue', pc'["io"])
      BY <2>4, <2>6, <3>1, <3>2, <3>3, QueuedPush DEF PerformsSome
    <3> QED BY <2>2, <2>3, <3>1, <3>2, <3>4 DEF Performing, Places
  <2> QED BY <2>1, <2>5, <2>6
<1>10. CASE WorkCleanup
  <2>1. pc["io"] = "handler" /\ pc'["io"] = "loop" /\ pc'["server"] = pc["server"] /\ todo = <<>>
    BY <1>10, GotoIo DEF WorkCleanup, Types, Labels
  <2>2. Queued(op_queue, pc'["io"]) /\ AllKinds(private_queue, Results)
    BY <2>1 DEF Places, Queued
  <2>3. Queued(op_queue', pc'["io"])
    BY <1>10, <2>2, QueuedPush DEF WorkCleanup, Types
  <2> QED BY <1>10, <2>1, <2>3 DEF WorkCleanup, Places
<1>11. CASE Send
  <2>1. PICK s : SendWaits(s) \/ \E result \in ResultsOf(<<s, "write">>) : SendPerforms(s, result)
    BY <1>11, SendCases
  <2>2. Sending(s)
    BY <2>1 DEF SendWaits, SendPerforms
  <2>3. CASE SendWaits(s)
    BY <2>2, <2>3 DEF SendWaits, Sending, Places
  <2>4. ASSUME NEW result \in ResultsOf(<<s, "write">>), SendPerforms(s, result) PROVE Places'
    <3> DEFINE ch == <<s, "write">>
    <3>1. ch \in Used /\ result \in ResultsOf(ch) /\ posted' = Op(result, ch[1]) /\ ch[2] = "write"
      BY <2>2, <2>4 DEF Sending, SendPerforms, Used
    <3> HIDE DEF ch
    <3>2. posted'.kind \in KindsOf("write")
      BY <3>1, ResultFacts
    <3>3. pc'["server"] = "work_started" /\ pc'["io"] = pc["io"]
      BY <2>4, GotoServer DEF SendPerforms, Types, ServerLabels
    <3> QED BY <2>2, <3>2, <3>3 DEF Sending, Places
  <2> QED BY <2>1, <2>3, <2>4
<1>12. CASE WorkStarted
  <2>1. pc["server"] = "work_started" /\ pc'["server"] = "push" /\ pc'["io"] = pc["io"]
    BY <1>12, GotoServer DEF WorkStarted, Types, ServerLabels
  <2> QED BY <1>12, <2>1 DEF WorkStarted, Places
<1>13. CASE Push
  <2>1. pc["server"] = "push" /\ pc'["server"] = "idle" /\ pc'["io"] = pc["io"]
    BY <1>13, GotoServer DEF Push, Types, ServerLabels
  <2>2. posted \in Ops /\ posted.kind \in Results
    BY <2>1 DEF Types, Places, KindsOf, Results, OpTypes
  <2>3. Queued(op_queue', pc["io"])
    BY <1>13, <2>2, QueuedPush, AllKindsOne, SingleFacts DEF Push, PushAndWake, Places, Types
  <2> QED BY <1>13, <2>1, <2>3 DEF Push, Places
<1>14. CASE Destroy \/ Arrive \/ Reset \/ UNCHANGED vars
  BY <1>14 DEF Destroy, Arrive, Reset, vars, Places
<1> QED
  BY <1>1, <1>2, <1>3, <1>4, <1>5, <1>6, <1>7, <1>8, <1>9, <1>10, <1>11, <1>12, <1>13, <1>14
     DEF Next, IoThread, ServerThread, Joined

LEMMA AwakeNext ==
    ASSUME Types, Places, Awake, [Next]_vars
    PROVE  Awake'
<1> USE DEF schedulerVars, privateVars, descriptorVars, sessionVars
<1>1. ASSUME WakeOneThread, pc' = pc, UNCHANGED blocking
      PROVE  Awake'
  BY <1>1 DEF WakeOneThread, Interrupt, Awake, Types
<1>2. CASE StartOp
  <2>1. pc["io"] # "poll" /\ pc' = pc
    BY <1>2 DEF StartOp
  <2> QED BY <2>1 DEF Awake
<1>3. CASE Complete \/ EnterRun \/ LeaveRun \/ Poll \/ TaskCleanup \/ PopHandler \/ WorkCleanup
  <2>1. pc'["io"] # "poll"
    BY <1>3, GotoIo DEF Complete, EnterRun, LeaveRun, Poll, TaskCleanup, PopHandler, WorkCleanup, Types, Labels
  <2> QED BY <2>1 DEF Awake
<1>4. CASE PerformIo
  <2>1. pc'["io"] # "poll"
    BY <1>4, GotoIo DEF PerformIo, Types, Labels
  <2> QED BY <2>1 DEF Awake
<1>5. CASE PopTask
  <2>1. ~stopped' /\ (blocking' => op_queue' = <<>> /\ ~task_interrupted')
    BY <1>5 DEF PopTask, Runs
  <2> QED BY <2>1 DEF Awake
<1>6. CASE Send \/ WorkStarted
  <2>1. pc'["io"] = pc["io"]
    BY <1>6, GotoServer DEF Send, WorkStarted, Types, ServerLabels
  <2> QED BY <1>6, <2>1 DEF Send, WorkStarted, Awake
<1>7. CASE Push
  <2>1. pc'["io"] = pc["io"]
    BY <1>7, GotoServer DEF Push, Types, ServerLabels
  <2> QED BY <1>7, <2>1 DEF Push, PushAndWake, WakeOneThread, Interrupt, Awake, Types
<1>8. CASE Destroy
  BY <1>1, <1>8 DEF Destroy, Stop
<1>9. CASE Arrive \/ Reset \/ UNCHANGED vars
  BY <1>9 DEF Arrive, Reset, vars, Awake
<1> QED
  BY <1>2, <1>3, <1>4, <1>5, <1>6, <1>7, <1>8, <1>9 DEF Next, IoThread, ServerThread, Joined

-----------------------------------------------------------------------------
(* The io thread and the reactor. *)

LEMMA ShapeInvariant == Spec => []ShapeInv
<1>1. Init => ShapeInv
  BY TypesInit, ErrorsInit, PlacesInit DEF Init, Awake, ShapeInv
<1>2. ShapeInv /\ [Next]_vars => ShapeInv'
  BY TypesNext, ErrorsNext, PlacesNext, AwakeNext DEF ShapeInv
<1> QED
  BY <1>1, <1>2, PTL DEF Spec

\* The io thread never looks at an empty queue, and does not block in epoll_wait over a
\* queued operation or stop() (scheduler.ipp, do_run_one and wake_one_thread_and_unlock):
\* whatever the order of the server thread's push, the interrupt and the poll.
THEOREM NotOversleptCorrect == Spec => []NotOverslept
<1>1. ShapeInv => NotOverslept
  <2> SUFFICES ASSUME ShapeInv PROVE NotOverslept
    OBVIOUS
  <2>1. ASSUME pc["io"] = "loop" PROVE op_queue # <<>>
    <3>1. PICK n \in 1 .. Len(op_queue) : TaskAt(op_queue, n)
      BY <2>1 DEF ShapeInv, Places, Queued
    <3> QED BY <3>1 DEF ShapeInv, Types
  <2> QED BY <2>1 DEF ShapeInv, Awake, NotOverslept
<1> QED
  BY <1>1, ShapeInvariant, PTL

\* "any previously returned descriptor operations have already been dequeued" when the
\* reactor runs (epoll_reactor.ipp:451-452), because ~task_cleanup queues the reactor behind
\* all that it has found.
THEOREM DequeuedBeforePollCorrect == Spec => []DequeuedBeforePoll
<1>1. ShapeInv => DequeuedBeforePoll
  <2> SUFFICES ASSUME ShapeInv, pc["io"] = "poll", NEW i \in DOMAIN op_queue
               PROVE  op_queue[i].kind # "io"
    BY DEF DequeuedBeforePoll
  <2>1. op_queue \in Seq(Ops) /\ AllKinds(op_queue, Results)
    BY DEF ShapeInv, Types, Places, Queued
  <2>2. i \in 1 .. Len(op_queue)
    BY <2>1
  <2> QED BY <2>1, <2>2, TaskFacts DEF AllKinds
<1> QED
  BY <1>1, ShapeInvariant, PTL

-----------------------------------------------------------------------------
(* Counting. *)

LEMMA CountType ==
    ASSUME NEW S, NEW q \in Seq(S), NEW set
    PROVE  Count(q, set) \in Nat /\ IsFiniteSet(Where(q, set))
<1>1. IsFiniteSet(1 .. Len(q))
  BY FS_Interval
<1>2. IsFiniteSet(Where(q, set))
  BY <1>1, FS_Subset DEF Where
<1> QED
  BY <1>2, FS_CardinalityType DEF Count

LEMMA CountConcat ==
    ASSUME NEW S, NEW q \in Seq(S), NEW s \in Seq(S), NEW set
    PROVE  Count(q \o s, set) = Count(q, set) + Count(s, set)
<1> DEFINE u == q \o s
           A == {i \in 1 .. Len(q) : q[i] \in set}
           B == {i \in 1 .. Len(s) : s[i] \in set}
           C == {i \in 1 .. Len(u) : u[i] \in set}
           D == {i \in C : i > Len(q)}
           f == [i \in B |-> Len(q) + i]
<1>1. /\ u \in Seq(S) /\ Len(u) = Len(q) + Len(s)
      /\ \A i \in 1 .. Len(q) + Len(s) : u[i] = IF i <= Len(q) THEN q[i] ELSE s[i - Len(q)]
  BY ConcatProperties
<1>2. IsFiniteSet(A) /\ IsFiniteSet(B) /\ IsFiniteSet(C) /\ Cardinality(A) \in Nat /\ Cardinality(B) \in Nat
  BY <1>1, CountType, FS_CardinalityType DEF Where
<1>3. PICK a \in Nat, b \in Nat : a = Len(q) /\ b = Len(s)
  OBVIOUS
<1> HIDE DEF u
<1>4. Len(u) = a + b /\ \A i \in 1 .. a + b : u[i] = IF i <= a THEN q[i] ELSE s[i - a]
  BY <1>1, <1>3
<1>5. C = A \cup D
  <2>1. ASSUME NEW i \in A PROVE i \in C
    BY <1>3, <1>4
  <2>2. ASSUME NEW i \in C, ~(i > Len(q)) PROVE i \in A
    BY <1>3, <1>4, <2>2
  <2> QED BY <2>1, <2>2
<1>6. A \cap D = {}
  BY <1>3
<1>7. f \in Bijection(B, D)
  <2>1. ASSUME NEW i \in B PROVE f[i] = a + i /\ f[i] \in D
    <3>1. i \in 1 .. b /\ s[i] \in set /\ f[i] = a + i
      BY <1>3
    <3>2. a + i \in 1 .. a + b /\ ~(a + i <= a) /\ a + i - a = i
      BY <3>1
    <3>3. u[a + i] = s[i]
      BY <1>4, <3>2
    <3> QED BY <1>3, <1>4, <3>1, <3>2, <3>3
  <2>2. f \in Injection(B, D)
    <3>1. f \in [B -> D]
      BY <2>1
    <3>2. ASSUME NEW i \in B, NEW j \in B, f[i] = f[j] PROVE i = j
      <4>1. i \in Int /\ j \in Int /\ a + i = a + j
        BY <2>1, <3>2
      <4> QED BY <4>1
    <3> HIDE DEF f, B, D
    <3> QED BY <3>1, <3>2 DEF Injection, IsInjective
  <2>3. ASSUME NEW k \in D PROVE \E i \in B : f[i] = k
    <3>1. k \in 1 .. a + b /\ k > a /\ u[k] \in set
      BY <1>3, <1>4
    <3>2. k - a \in 1 .. b /\ u[k] = s[k - a] /\ a + (k - a) = k
      BY <1>4, <3>1
    <3>3. k - a \in B
      BY <1>3, <3>1, <3>2
    <3> QED BY <2>1, <3>2, <3>3
  <2> QED BY <2>1, <2>2, <2>3 DEF Bijection, Surjection
<1>8. IsFiniteSet(D) /\ Cardinality(D) = Cardinality(B)
  BY <1>2, <1>7, FS_Bijection DEF ExistsBijection
<1>9. Cardinality(C) = Cardinality(A) + Cardinality(D)
  <2> HIDE DEF A, D, C
  <2>1. Cardinality(A \cap D) = 0
    BY <1>6, FS_EmptySet
  <2>2. Cardinality(A \cup D) = Cardinality(A) + Cardinality(D) - Cardinality(A \cap D)
    BY <1>2, <1>8, FS_Union
  <2> QED BY <1>2, <1>5, <1>8, <2>1, <2>2
<1> QED
  BY <1>8, <1>9 DEF Count, Where, u

LEMMA CountSingle ==
    ASSUME NEW x, NEW set
    PROVE  Count(<<x>>, set) = One(x \in set)
<1>1. Where(<<x>>, set) = IF x \in set THEN {1} ELSE {}
  <2>1. Len(<<x>>) = 1 /\ <<x>>[1] = x
    OBVIOUS
  <2>2. 1 .. 1 = {1}
    OBVIOUS
  <2> QED BY <2>1, <2>2 DEF Where
<1> QED
  BY <1>1, FS_Singleton, FS_EmptySet DEF Count, One

LEMMA CountEmpty ==
    ASSUME NEW set
    PROVE  Count(<<>>, set) = 0
<1>1. Where(<<>>, set) = {}
  BY DEF Where
<1> QED
  BY <1>1, FS_EmptySet DEF Count

LEMMA CountTail ==
    ASSUME NEW S, NEW q \in Seq(S), q # <<>>, NEW set
    PROVE  Count(q, set) = One(Head(q) \in set) + Count(Tail(q), set)
<1>1. q = <<Head(q)>> \o Tail(q) /\ Tail(q) \in Seq(S) /\ Head(q) \in S
  BY HeadTailProperties
<1>2. <<Head(q)>> \in Seq(S)
  BY <1>1
<1>3. Count(<<Head(q)>> \o Tail(q), set) = Count(<<Head(q)>>, set) + Count(Tail(q), set)
  BY <1>1, <1>2, CountConcat
<1> QED
  BY <1>1, <1>3, CountSingle

LEMMA CountNone ==
    ASSUME NEW q, NEW set, \A i \in 1 .. Len(q) : q[i] \notin set
    PROVE  Count(q, set) = 0
<1>1. Where(q, set) = {}
  BY DEF Where
<1> QED
  BY <1>1, FS_EmptySet DEF Count

LEMMA CountSome ==
    ASSUME NEW S, NEW q \in Seq(S), NEW set, Count(q, set) = 0, NEW i \in 1 .. Len(q)
    PROVE  q[i] \notin set
<1>1. Where(q, set) = {}
  BY CountType, FS_EmptySet DEF Count
<1> QED
  BY <1>1 DEF Where

LEMMA CountWider ==
    ASSUME NEW S, NEW q \in Seq(S), NEW set, NEW wider, set \subseteq wider
    PROVE  Count(q, set) <= Count(q, wider)
<1>1. Where(q, set) \in SUBSET Where(q, wider)
  BY DEF Where
<1> QED
  BY <1>1, CountType, FS_Subset DEF Count

-----------------------------------------------------------------------------
(* One operation in flight on each channel. *)

LEMMA CountsTyped ==
    ASSUME Types, NEW c
    PROVE  Count(todo, {c}) \in Nat /\ Count(op_queue, OpsOn(c)) \in Nat /\ Count(private_queue, OpsOn(c)) \in Nat
BY CountType DEF Types

\* A performed operation tells its channel.
LEMMA OpsOnOne ==
    ASSUME NEW ch \in Channels, NEW c \in Channels, NEW op \in OpsOn(ch)
    PROVE  op \in OpsOn(c) <=> c = ch
<1>1. ch = <<ch[1], ch[2]>> /\ c = <<c[1], c[2]>> /\ ch[2] \in OpTypes /\ c[2] \in OpTypes
  BY DEF Channels
<1>2. op \in OpsOn(c) => c[1] = ch[1] /\ c[2] = ch[2]
  BY <1>1 DEF OpsOn, KindsOf, OpTypes
<1> QED
  BY <1>1, <1>2

LEMMA OpsOnKind ==
    ASSUME NEW c, NEW op \in OpsOn(c)
    PROVE  op.kind \in Results /\ op.kind # "task" /\ op.kind # "io" /\ op # Task /\ op \in Ops
BY TaskFacts DEF OpsOn, KindsOf, Results, OpTypes

LEMMA PushedCount ==
    ASSUME NEW q \in Seq(Ops), NEW op \in Ops, NEW set
    PROVE  Count(q \o <<op>>, set) = Count(q, set) + One(op \in set) /\ Count(q, set) \in Nat
<1> DEFINE one == <<op>>
<1>1. one \in Seq(Ops) /\ Count(one, set) = One(op \in set)
  BY SingleFacts, CountSingle
<1> HIDE DEF one
<1>2. Count(q \o one, set) = Count(q, set) + Count(one, set)
  BY <1>1, CountConcat
<1> QED
  BY <1>1, <1>2, CountType DEF one

LEMMA FlightInit == Init => OneInFlight
<1> SUFFICES ASSUME Init, NEW c \in Channels PROVE InFlight(c) = One(c \in Started)
  BY DEF OneInFlight
<1>1. op_queue = <<Task>> /\ private_queue = <<>> /\ running = Task /\ posted = Task /\ waiting = {} /\ writing = {}
  BY DEF Init
<1>2. Task \notin OpsOn(c)
  BY OpsOnKind
<1>3. Count(op_queue, OpsOn(c)) = 0 /\ Count(private_queue, OpsOn(c)) = 0
  BY <1>1, <1>2, CountSingle, CountEmpty DEF One
<1>4. CASE opened = {}
  <2>1. todo = <<>> /\ c \notin Started
    BY <1>1, <1>4 DEF Init, Started
  <2> QED BY <1>1, <1>2, <1>3, <2>1, CountEmpty DEF InFlight, One
<1>5. CASE opened = {Acceptor}
  <2>1. todo = <<Accepting>> /\ (c \in Started <=> c = Accepting)
    BY <1>1, <1>5 DEF Init, Started, Accepting, Channels
  <2>2. Count(todo, {c}) = One(c \in Started)
    BY <2>1, CountSingle DEF One
  <2> QED BY <1>1, <1>2, <1>3, <2>2 DEF InFlight, One
<1> QED
  BY <1>4, <1>5 DEF Init

LEMMA FlightStartOp ==
    ASSUME Types, Errors, OneInFlight, StartOp
    PROVE  OneInFlight'
<1> SUFFICES ASSUME NEW c \in Channels PROVE InFlight(c)' = One(c \in Started')
  BY DEF OneInFlight
<1>1. PICK ch : \/ StartWaits(ch)
                \/ \E result \in ResultsOf(ch) : StartKeeps(ch, result) \/ StartPosts(ch, result)
  BY StartOpCases
<1>2. Starting(ch)
  BY <1>1 DEF StartWaits, StartKeeps, StartPosts
<1>3. ch \in Used /\ todo' \in Seq(Used) /\ todo = <<ch>> \o todo'
  BY <1>2, StartTypes
<1>4. ch \in Channels
  BY <1>3, UsedFacts
<1>5. Count(todo, {c}) = One(c = ch) + Count(todo', {c}) /\ Count(todo', {c}) \in Nat
  <2> DEFINE one == <<ch>>
  <2>1. one \in Seq(Used) /\ todo = one \o todo' /\ todo' \in Seq(Used)
    BY <1>3
  <2>2. Count(one, {c}) = One(c = ch)
    BY CountSingle DEF One
  <2> HIDE DEF one
  <2>3. Count(one \o todo', {c}) = Count(one, {c}) + Count(todo', {c})
    BY <2>1, CountConcat
  <2> QED BY <2>1, <2>2, <2>3, CountType
<1>6. InFlight(c) = One(c \in Started) /\ Started' = Started
  BY <1>2 DEF OneInFlight, Starting, Started
<1>7. PICK t \in Nat, q \in Nat, p \in Nat :
        t = Count(todo', {c}) /\ q = Count(op_queue, OpsOn(c)) /\ p = Count(private_queue, OpsOn(c))
  BY <1>5, CountsTyped
<1>8. One(c = ch) + t + One(c \in waiting) + q + p + One(running \in OpsOn(c)) + One(posted \in OpsOn(c)) = One(c \in Started)
  BY <1>5, <1>6, <1>7 DEF InFlight
<1>9. running' = running /\ posted' = posted
  BY <1>2 DEF Starting
<1>10. CASE StartWaits(ch)
  <2>1. waiting' = waiting \cup {ch} /\ op_queue' = op_queue /\ private_queue' = private_queue
    BY <1>10 DEF StartWaits, Waits
  <2>2. InFlight(c)' = t + One(c \in waiting') + q + p + One(running \in OpsOn(c)) + One(posted \in OpsOn(c))
    BY <1>7, <1>9, <2>1 DEF InFlight
  <2>3. One(c \in waiting') = One(c = ch) + One(c \in waiting)
    BY <1>7, <1>8, <2>1 DEF One
  <2> QED BY <1>6, <1>8, <2>2, <2>3 DEF One
<1>11. ASSUME NEW result \in ResultsOf(ch), StartKeeps(ch, result) \/ StartPosts(ch, result)
       PROVE  InFlight(c)' = One(c \in Started')
  <2> DEFINE op == Op(result, ch[1])
  <2>1. op \in Ops /\ op \in OpsOn(ch)
    BY <1>3, ResultFacts
  <2>2. waiting' = waiting
    BY <1>11 DEF StartKeeps, StartPosts, Performs
  <2>3. One(op \in OpsOn(c)) = One(c = ch)
    BY <1>4, <2>1, OpsOnOne
  <2>4. CASE StartKeeps(ch, result)
    <3>1. private_queue' = private_queue \o <<op>> /\ op_queue' = op_queue
      BY <2>1, <2>4 DEF StartKeeps, Types, schedulerVars
    <3> HIDE DEF op
    <3>2. Count(private_queue', OpsOn(c)) = p + One(c = ch)
      BY <1>7, <2>1, <2>3, <3>1, PushedCount DEF Types
    <3>3. InFlight(c)' = t + One(c \in waiting) + q + (p + One(c = ch)) + One(running \in OpsOn(c)) + One(posted \in OpsOn(c))
      BY <1>7, <1>9, <2>2, <3>1, <3>2 DEF InFlight
    <3> QED BY <1>6, <1>8, <3>3 DEF One
  <2>5. CASE StartPosts(ch, result)
    <3>1. op_queue' = op_queue \o <<op>> /\ private_queue' = private_queue
      BY <2>5 DEF StartPosts, PushAndWake
    <3> HIDE DEF op
    <3>2. Count(op_queue', OpsOn(c)) = q + One(c = ch)
      BY <1>7, <2>1, <2>3, <3>1, PushedCount DEF Types
    <3>3. InFlight(c)' = t + One(c \in waiting) + (q + One(c = ch)) + p + One(running \in OpsOn(c)) + One(posted \in OpsOn(c))
      BY <1>7, <1>9, <2>2, <3>1, <3>2 DEF InFlight
    <3> QED BY <1>6, <1>8, <3>3 DEF One
  <2> QED BY <1>11, <2>4, <2>5
<1> QED
  BY <1>1, <1>10, <1>11

LEMMA FlightComplete ==
    ASSUME Types, Errors, Places, OneInFlight, Complete
    PROVE  OneInFlight'
<1> SUFFICES ASSUME NEW c \in Channels PROVE InFlight(c)' = One(c \in Started')
  BY DEF OneInFlight
<1>1. todo = <<>> /\ running' = Task /\ UNCHANGED <<op_queue, private_queue, waiting, posted>>
  BY DEF Complete, Places, schedulerVars
<1>2. Task \notin OpsOn(c) /\ Count(todo, {c}) = 0
  BY <1>1, OpsOnKind, CountEmpty
<1>3. PICK q \in Nat, p \in Nat : q = Count(op_queue, OpsOn(c)) /\ p = Count(private_queue, OpsOn(c))
  BY CountsTyped
<1>4. One(c \in waiting) + q + p + One(running \in OpsOn(c)) + One(posted \in OpsOn(c)) = One(c \in Started)
  BY <1>2, <1>3 DEF OneInFlight, InFlight, One
<1>5. running \in Ops /\ running.d \in Descriptors
  BY DEF Types, Ops
<1>6. ASSUME NEW t \in Nat, t = Count(todo', {c}), One(c \in Started') = One(c \in Started) - One(running \in OpsOn(c)) + t
      PROVE  InFlight(c)' = One(c \in Started')
  <2>1. InFlight(c)' = t + One(c \in waiting) + q + p + 0 + One(posted \in OpsOn(c))
    BY <1>1, <1>2, <1>3, <1>6 DEF InFlight, One
  <2> QED BY <1>4, <1>6, <2>1 DEF One
<1>7. CASE OnAccept
  <2>1. Accepting \in Channels /\ running \in OpsOn(Accepting)
    BY <1>5, <1>7 DEF OnAccept, Accepting, Channels, Descriptors, OpTypes, OpsOn, Op, KindsOf
  <2>2. running \in OpsOn(c) <=> c = Accepting
    BY <2>1, OpsOnOne
  <2>3. ASSUME NEW s \in Sockets \ opened, opened' = opened \cup {s}, todo' = <<<<s, "read">>, Accepting>>,
               UNCHANGED writing
        PROVE  InFlight(c)' = One(c \in Started')
    <3> DEFINE a == <<s, "read">>
               b == Accepting
    <3>1. a \in Channels /\ b \in Channels /\ a # b /\ a \notin Started
      BY <2>1, IoContextAssumption DEF Channels, Descriptors, OpTypes, Accepting, Started
    <3>2. c \in Started' <=> c \in Started \/ c = a
      BY <2>3 DEF Started, Channels
    <3>3. todo' = <<a>> \o <<b>> /\ <<a>> \in Seq(Channels) /\ <<b>> \in Seq(Channels)
      BY <2>3, <3>1
    <3> HIDE DEF a, b
    <3> DEFINE x == <<a>>
               y == <<b>>
    <3>4. Count(x, {c}) = One(c = a) /\ Count(y, {c}) = One(c = b) /\ x \in Seq(Channels) /\ y \in Seq(Channels)
          /\ todo' = x \o y
      BY <3>3, CountSingle DEF One
    <3> HIDE DEF x, y
    <3>5. Count(todo', {c}) = One(c = a) + One(c = b)
      BY <3>4, CountConcat
    <3>6. running \in OpsOn(c) <=> c = b
      BY <2>2 DEF b
    <3>7. One(c \in Started') = One(c \in Started) - One(running \in OpsOn(c)) + (One(c = a) + One(c = b))
      BY <3>1, <3>2, <3>6 DEF One
    <3>8. One(c = a) + One(c = b) \in Nat
      BY DEF One
    <3> QED BY <1>6, <3>5, <3>7, <3>8
  <2>4. CASE todo' = <<Accepting>> /\ UNCHANGED <<opened, writing>>
    <3>1. Count(todo', {c}) = One(c = Accepting) /\ One(c = Accepting) \in Nat
      BY <2>4, CountSingle DEF One
    <3>2. Started' = Started
      BY <2>4 DEF Started
    <3> QED BY <1>6, <2>2, <3>1, <3>2 DEF One
  <2> QED BY <1>7, <2>3, <2>4 DEF OnAccept
<1>8. ASSUME NEW ch \in Channels, running \in OpsOn(ch), todo' = <<ch>>, UNCHANGED <<opened, writing>>
      PROVE  InFlight(c)' = One(c \in Started')
  <2>1. Count(todo', {c}) = One(c = ch) /\ One(c = ch) \in Nat
    BY <1>8, CountSingle DEF One
  <2>2. Started' = Started /\ (running \in OpsOn(c) <=> c = ch)
    BY <1>8, OpsOnOne DEF Started
  <2> QED BY <1>6, <2>1, <2>2 DEF One
<1>9. CASE OnReadDone
  <2> DEFINE ch == <<running.d, "read">>
  <2>1. ch \in Channels /\ running \in OpsOn(ch)
    BY <1>5, <1>9 DEF OnReadDone, Channels, OpTypes, OpsOn, KindsOf
  <2>2. todo' = <<ch>> /\ UNCHANGED <<opened, writing>>
    BY <1>9 DEF OnReadDone
  <2> HIDE DEF ch
  <2> QED BY <1>8, <2>1, <2>2
<1>10. CASE OnWritePart
  <2> DEFINE ch == <<running.d, "write">>
  <2>1. ch \in Channels /\ running \in OpsOn(ch)
    BY <1>5, <1>10 DEF OnWritePart, Channels, OpTypes, OpsOn, KindsOf
  <2>2. todo' = <<ch>> /\ UNCHANGED <<opened, writing>>
    BY <1>10 DEF OnWritePart
  <2> HIDE DEF ch
  <2> QED BY <1>8, <2>1, <2>2
<1>11. CASE OnWrite
  <2> DEFINE ch == <<running.d, "write">>
  <2>1. ch \in Channels /\ running \in OpsOn(ch)
    BY <1>5, <1>11 DEF OnWrite, Channels, OpTypes, OpsOn, KindsOf
  <2>2. Count(todo', {c}) = 0
    BY <1>11, CountEmpty DEF OnWrite
  <2>3. c \in Started' <=> c \in Started /\ c # ch
    BY <1>11 DEF OnWrite, Started, Channels
  <2> HIDE DEF ch
  <2>4. running \in OpsOn(c) <=> c = ch
    BY <2>1, OpsOnOne
  <2>5. One(c \in Started') = One(c \in Started) - One(running \in OpsOn(c)) + 0
    BY <1>3, <1>4, <2>3, <2>4 DEF One
  <2> QED BY <1>6, <2>2, <2>5
<1> QED
  BY <1>7, <1>9, <1>10, <1>11 DEF Complete

\* What perform_io() completes is what it takes off the descriptor's queues.
LEMMA OutcomeCount ==
    ASSUME Types, Errors, NEW d \in Descriptors, NEW t \in OpTypes, NEW x \in OutcomesOn(d, <<d, t>>), NEW c \in Channels
    PROVE  Count(x, OpsOn(c)) = One(c = <<d, t>> /\ c \in DoneOn(d))
<1> DEFINE ch == <<d, t>>
<1>1. ch \in Channels
  BY DEF Channels
<1>2. CASE x = <<>> /\ ch \notin DoneOn(d)
  BY <1>2, CountEmpty DEF One
<1>3. CASE ch \in DoneOn(d) /\ \E result \in ResultsOf(ch) : x = <<Op(result, d)>> /\ Op(result, d) \in OpsOn(ch)
  <2> HIDE DEF ch
  <2>1. PICK op \in OpsOn(ch) : x = <<op>>
    BY <1>3
  <2>2. Count(x, OpsOn(c)) = One(op \in OpsOn(c))
    BY <2>1, CountSingle
  <2>3. op \in OpsOn(c) <=> c = ch
    BY <1>1, OpsOnOne
  <2> QED BY <1>3, <2>2, <2>3 DEF One, ch
<1> QED
  BY <1>2, <1>3, OutcomeFacts

LEMMA PerformedCount ==
    ASSUME Types, Errors, NEW d, NEW w, NEW r, Performing(d, w, r), NEW c \in Channels
    PROVE  Count(w \o r, OpsOn(c)) = One(c \in DoneOn(d)) /\ w \o r \in Seq(Ops)
<1>1. d \in Descriptors /\ w \in Seq(Ops) /\ r \in Seq(Ops)
  BY PerformingFacts
<1>2. w \in OutcomesOn(d, <<d, "write">>) /\ r \in OutcomesOn(d, <<d, "read">>) /\ "write" \in OpTypes /\ "read" \in OpTypes
  BY DEF Performing, OpTypes
<1>3. Count(w, OpsOn(c)) = One(c = <<d, "write">> /\ c \in DoneOn(d))
  BY <1>1, <1>2, OutcomeCount
<1>4. Count(r, OpsOn(c)) = One(c = <<d, "read">> /\ c \in DoneOn(d))
  BY <1>1, <1>2, OutcomeCount
<1>5. Count(w \o r, OpsOn(c)) = Count(w, OpsOn(c)) + Count(r, OpsOn(c))
  BY <1>1, CountConcat
<1>6. c \in DoneOn(d) => c = <<d, "write">> \/ c = <<d, "read">>
  BY <1>1 DEF DoneOn, ReportedOn, Types, OpTypes
<1> QED
  BY <1>1, <1>3, <1>4, <1>5, <1>6, ConcatOps DEF One

LEMMA FlightPerformIo ==
    ASSUME Types, Errors, Places, OneInFlight, PerformIo
    PROVE  OneInFlight'
<1> SUFFICES ASSUME NEW c \in Channels PROVE InFlight(c)' = One(c \in Started')
  BY DEF OneInFlight
<1>1. PICK d, w, r : PerformsNone(d, w, r) \/ PerformsSome(d, w, r)
  BY PerformIoCases
<1>2. Performing(d, w, r)
  BY <1>1 DEF PerformsNone, PerformsSome
<1>3. op_queue # <<>> /\ Head(op_queue).kind = "io" /\ pc["io"] = "loop" /\ DoneOn(d) \subseteq waiting
  BY <1>2, PerformingFacts
<1>4. /\ todo' = todo /\ private_queue' = private_queue /\ posted' = posted /\ Started' = Started
      /\ waiting' = waiting \ DoneOn(d)
  BY <1>2 DEF Performing, Started
<1>5. running = Task /\ Task \notin OpsOn(c)
  BY <1>3, OpsOnKind DEF Places
<1>6. op_queue \in Seq(Ops) /\ Tail(op_queue) \in Seq(Ops)
  BY <1>3, TailOps DEF Types
<1>7. Count(op_queue, OpsOn(c)) = Count(Tail(op_queue), OpsOn(c)) /\ Count(Tail(op_queue), OpsOn(c)) \in Nat
  <2>1. Head(op_queue) \notin OpsOn(c)
    BY <1>3, OpsOnKind
  <2>2. Count(op_queue, OpsOn(c)) = One(Head(op_queue) \in OpsOn(c)) + Count(Tail(op_queue), OpsOn(c))
    BY <1>3, <1>6, CountTail
  <2>3. Count(Tail(op_queue), OpsOn(c)) \in Nat
    BY <1>6, CountType
  <2> QED BY <2>1, <2>2, <2>3 DEF One
<1>8. PICK t \in Nat, q \in Nat, p \in Nat :
        t = Count(todo, {c}) /\ q = Count(Tail(op_queue), OpsOn(c)) /\ p = Count(private_queue, OpsOn(c))
  BY <1>7, CountsTyped
<1>9. t + One(c \in waiting) + q + p + 0 + One(posted \in OpsOn(c)) = One(c \in Started)
  BY <1>5, <1>7, <1>8 DEF OneInFlight, InFlight, One
<1>10. One(c \in waiting') + One(c \in DoneOn(d)) = One(c \in waiting)
  BY <1>3, <1>4 DEF One
<1> DEFINE done == w \o r
<1>11. done \in Seq(Ops) /\ Count(done, OpsOn(c)) = One(c \in DoneOn(d))
  BY <1>2, PerformedCount
<1>12. CASE PerformsNone(d, w, r)
  <2>1. done = <<>> /\ op_queue' = Tail(op_queue) /\ running' = running
    BY <1>12 DEF PerformsNone
  <2> HIDE DEF done
  <2>2. One(c \in DoneOn(d)) = 0
    BY <1>11, <2>1, CountEmpty
  <2>3. InFlight(c)' = t + One(c \in waiting') + q + p + 0 + One(posted \in OpsOn(c))
    BY <1>4, <1>5, <1>8, <2>1 DEF InFlight, One
  <2> QED BY <1>4, <1>9, <1>10, <2>2, <2>3 DEF One
<1>13. CASE PerformsSome(d, w, r)
  <2>1. done # <<>> /\ op_queue' = Tail(op_queue) \o Tail(done) /\ running' = Head(done)
    BY <1>13 DEF PerformsSome
  <2> HIDE DEF done
  <2>2. Tail(done) \in Seq(Ops)
    BY <1>11, <2>1, TailOps
  <2>3. PICK n \in Nat : n = Count(Tail(done), OpsOn(c))
    BY <2>2, CountType
  <2>4. One(c \in DoneOn(d)) = One(running' \in OpsOn(c)) + n
    BY <1>11, <2>1, <2>3, CountTail
  <2>5. Count(op_queue', OpsOn(c)) = q + n
    BY <1>6, <1>8, <2>1, <2>2, <2>3, CountConcat
  <2>6. InFlight(c)' = t + One(c \in waiting') + (q + n) + p + One(running' \in OpsOn(c)) + One(posted \in OpsOn(c))
    BY <1>4, <1>8, <2>5 DEF InFlight
  <2> QED BY <1>4, <1>9, <1>10, <2>4, <2>6 DEF One
<1> QED
  BY <1>1, <1>12, <1>13

LEMMA FlightSend ==
    ASSUME Types, Errors, Places, OneInFlight, Send
    PROVE  OneInFlight'
<1> SUFFICES ASSUME NEW c \in Channels PROVE InFlight(c)' = One(c \in Started')
  BY DEF OneInFlight
<1>1. PICK s : SendWaits(s) \/ \E result \in ResultsOf(<<s, "write">>) : SendPerforms(s, result)
  BY SendCases
<1>2. Sending(s)
  BY <1>1 DEF SendWaits, SendPerforms
<1> DEFINE ch == <<s, "write">>
<1>3. ch \in Used /\ ch \in Channels /\ ch \notin Started /\ ch[1] = s
  BY <1>2 DEF Sending, Used, Channels, Descriptors, OpTypes, Started
<1>4. c \in Started' <=> c \in Started \/ c = ch
  BY <1>2 DEF Sending, Started, Channels
<1>5. posted = Task /\ Task \notin OpsOn(c) /\ UNCHANGED <<todo, op_queue, private_queue, running>>
  BY <1>2, OpsOnKind DEF Sending, Places, privateVars
<1>6. PICK t \in Nat, q \in Nat, p \in Nat :
        t = Count(todo, {c}) /\ q = Count(op_queue, OpsOn(c)) /\ p = Count(private_queue, OpsOn(c))
  BY CountsTyped
<1>7. t + One(c \in waiting) + q + p + One(running \in OpsOn(c)) + 0 = One(c \in Started)
  BY <1>5, <1>6 DEF OneInFlight, InFlight, One
<1>8. CASE SendWaits(s)
  <2>1. waiting' = waiting \cup {ch} /\ posted' = posted
    BY <1>8 DEF SendWaits, Waits
  <2> HIDE DEF ch
  <2>2. InFlight(c)' = t + One(c \in waiting') + q + p + One(running \in OpsOn(c)) + 0
    BY <1>5, <1>6, <2>1 DEF InFlight, One
  <2> QED BY <1>3, <1>4, <1>7, <2>1, <2>2 DEF One
<1>9. ASSUME NEW result \in ResultsOf(ch), SendPerforms(s, result)
      PROVE  InFlight(c)' = One(c \in Started')
  <2>1. waiting' = waiting /\ posted' = Op(result, ch[1])
    BY <1>9 DEF SendPerforms, Performs
  <2> HIDE DEF ch
  <2>2. posted' \in OpsOn(ch)
    BY <1>3, <2>1, ResultFacts
  <2>3. posted' \in OpsOn(c) <=> c = ch
    BY <1>3, <2>2, OpsOnOne
  <2>4. InFlight(c)' = t + One(c \in waiting) + q + p + One(running \in OpsOn(c)) + One(posted' \in OpsOn(c))
    BY <1>5, <1>6, <2>1 DEF InFlight
  <2> QED BY <1>3, <1>4, <1>7, <2>3, <2>4 DEF One
<1> QED
  BY <1>1, <1>8, <1>9

LEMMA FlightNext ==
    ASSUME Types, Errors, Places, OneInFlight, [Next]_vars
    PROVE  OneInFlight'
<1> USE DEF schedulerVars, privateVars, descriptorVars, sessionVars
<1>1. CASE StartOp
  BY <1>1, FlightStartOp
<1>2. CASE Complete
  BY <1>2, FlightComplete
<1>3. CASE PerformIo
  BY <1>3, FlightPerformIo
<1>4. CASE Send
  BY <1>4, FlightSend
<1>5. CASE EnterRun \/ LeaveRun \/ WorkStarted \/ Destroy \/ Arrive \/ Reset \/ UNCHANGED vars
  BY <1>5 DEF EnterRun, LeaveRun, WorkStarted, Destroy, Arrive, Reset, vars, OneInFlight, InFlight, Started
<1>6. ASSUME NEW c \in Channels, UNCHANGED <<todo, waiting, opened, writing>>,
             NEW q \in Nat, q = Count(op_queue, OpsOn(c)), NEW p \in Nat, p = Count(private_queue, OpsOn(c)),
             NEW q2 \in Nat, q2 = Count(op_queue', OpsOn(c)), NEW p2 \in Nat, p2 = Count(private_queue', OpsOn(c)),
             q + p + One(running \in OpsOn(c)) + One(posted \in OpsOn(c))
                = q2 + p2 + One(running' \in OpsOn(c)) + One(posted' \in OpsOn(c))
      PROVE  InFlight(c)' = One(c \in Started')
  <2>1. PICK t \in Nat : t = Count(todo, {c})
    BY CountsTyped
  <2>2. t + One(c \in waiting) + q + p + One(running \in OpsOn(c)) + One(posted \in OpsOn(c)) = One(c \in Started)
    BY <1>6, <2>1 DEF OneInFlight, InFlight
  <2>3. InFlight(c)' = t + One(c \in waiting) + q2 + p2 + One(running' \in OpsOn(c)) + One(posted' \in OpsOn(c))
    BY <1>6, <2>1 DEF InFlight
  <2>4. Started' = Started
    BY <1>6 DEF Started
  <2> QED BY <1>6, <2>2, <2>3, <2>4 DEF One
<1>7. CASE PopTask \/ PopHandler \/ Poll \/ TaskCleanup \/ WorkCleanup \/ Push
  <2> SUFFICES ASSUME NEW c \in Channels PROVE InFlight(c)' = One(c \in Started')
    BY DEF OneInFlight
  <2>1. UNCHANGED <<todo, waiting, opened, writing>>
    BY <1>7 DEF PopTask, PopHandler, Poll, TaskCleanup, WorkCleanup, Push
  <2>2. PICK q \in Nat, p \in Nat : q = Count(op_queue, OpsOn(c)) /\ p = Count(private_queue, OpsOn(c))
    BY CountsTyped
  <2>3. op_queue \in Seq(Ops) /\ private_queue \in Seq(Ops) /\ posted \in Ops /\ Task \notin OpsOn(c)
    BY OpsOnKind DEF Types
  <2>4. CASE PopTask \/ PopHandler
    <3>1. /\ op_queue # <<>> /\ op_queue' = Tail(op_queue) /\ private_queue' = private_queue /\ posted' = posted
          /\ pc["io"] = "loop"
      BY <2>4 DEF PopTask, PopHandler, Runs
    <3>2. running = Task
      BY <3>1 DEF Places
    <3>3. Tail(op_queue) \in Seq(Ops)
      BY <2>3, <3>1, TailOps
    <3>4. PICK q2 \in Nat : q2 = Count(op_queue', OpsOn(c))
      BY <3>1, <3>3, CountType
    <3>5. q = One(Head(op_queue) \in OpsOn(c)) + q2
      BY <2>2, <2>3, <3>1, <3>4, CountTail
    <3>6. One(running' \in OpsOn(c)) = One(Head(op_queue) \in OpsOn(c))
      BY <2>3, <2>4, <3>2, OpsOnKind DEF PopTask, PopHandler, Runs, One
    <3>7. q + p + One(running \in OpsOn(c)) + One(posted \in OpsOn(c))
             = q2 + p + One(running' \in OpsOn(c)) + One(posted' \in OpsOn(c))
      BY <2>3, <3>1, <3>2, <3>5, <3>6 DEF One
    <3> QED BY <1>6, <2>1, <2>2, <3>1, <3>4, <3>7
  <2>5. CASE Poll
    <3>1. op_queue' = op_queue /\ running' = running /\ posted' = posted /\ private_queue = <<>>
      BY <2>5 DEF Poll, Places
    <3>2. AllKinds(private_queue', {"io"})
      BY <2>5, PollFacts, FoundFacts
    <3>3. p = 0 /\ Count(private_queue', OpsOn(c)) = 0
      BY <2>2, <3>1, <3>2, CountEmpty, CountNone, OpsOnKind DEF AllKinds
    <3> QED BY <1>6, <2>1, <2>2, <3>1, <3>3
  <2>6. CASE TaskCleanup
    <3> DEFINE found == op_queue \o private_queue
    <3>1. found \in Seq(Ops) /\ op_queue' = found \o <<Task>> /\ private_queue' = <<>> /\ running' = running /\ posted' = posted
      BY <2>3, <2>6, ConcatOps DEF TaskCleanup, Requeued
    <3>2. Count(found, OpsOn(c)) = q + p
      BY <2>2, <2>3, CountConcat
    <3> HIDE DEF found
    <3>3. Count(op_queue', OpsOn(c)) = q + p
      BY <2>3, <3>1, <3>2, PushedCount, TaskFacts DEF One
    <3>4. Count(private_queue', OpsOn(c)) = 0 /\ q + p \in Nat
      BY <3>1, CountEmpty
    <3>5. q + p + One(running \in OpsOn(c)) + One(posted \in OpsOn(c))
             = (q + p) + 0 + One(running' \in OpsOn(c)) + One(posted' \in OpsOn(c))
      BY <3>1 DEF One
    <3> QED BY <1>6, <2>1, <2>2, <3>3, <3>4, <3>5
  <2>7. CASE WorkCleanup
    <3>1. op_queue' = op_queue \o private_queue /\ private_queue' = <<>> /\ running' = running /\ posted' = posted
      BY <2>7 DEF WorkCleanup
    <3>2. Count(op_queue', OpsOn(c)) = q + p
      BY <2>2, <2>3, <3>1, CountConcat
    <3>3. Count(private_queue', OpsOn(c)) = 0 /\ q + p \in Nat
      BY <3>1, CountEmpty
    <3>4. q + p + One(running \in OpsOn(c)) + One(posted \in OpsOn(c))
             = (q + p) + 0 + One(running' \in OpsOn(c)) + One(posted' \in OpsOn(c))
      BY <3>1 DEF One
    <3> QED BY <1>6, <2>1, <2>2, <3>2, <3>3, <3>4
  <2>8. CASE Push
    <3>1. op_queue' = op_queue \o <<posted>> /\ private_queue' = private_queue /\ running' = running /\ posted' = Task
      BY <2>8 DEF Push, PushAndWake
    <3>2. Count(op_queue', OpsOn(c)) = q + One(posted \in OpsOn(c))
      BY <2>2, <2>3, <3>1, PushedCount
    <3>3. q + One(posted \in OpsOn(c)) \in Nat
      BY DEF One
    <3>4. q + p + One(running \in OpsOn(c)) + One(posted \in OpsOn(c))
             = (q + One(posted \in OpsOn(c))) + p + One(running' \in OpsOn(c)) + One(posted' \in OpsOn(c))
      BY <2>3, <3>1 DEF One
    <3> QED BY <1>6, <2>1, <2>2, <3>1, <3>2, <3>3, <3>4
  <2> QED BY <1>7, <2>4, <2>5, <2>6, <2>7, <2>8
<1> QED
  BY <1>1, <1>2, <1>3, <1>4, <1>5, <1>7 DEF Next, IoThread, ServerThread, Joined

-----------------------------------------------------------------------------
(* Outstanding work. *)

LEMMA WaitingFinite ==
    ASSUME Types
    PROVE  IsFiniteSet(waiting) /\ Cardinality(waiting) \in Nat
<1>1. IsFiniteSet(OpTypes)
  <2>1. IsFiniteSet({"read"} \cup {"write"})
    BY FS_Singleton, FS_Union
  <2>2. OpTypes = {"read"} \cup {"write"}
    BY DEF OpTypes
  <2> QED BY <2>1, <2>2
<1>2. IsFiniteSet(Channels)
  BY <1>1, DescriptorsFinite, FS_Product DEF Channels
<1>3. waiting \in SUBSET Channels
  BY UsedFacts DEF Types
<1>4. IsFiniteSet(waiting)
  BY <1>2, <1>3, FS_Subset
<1> QED
  BY <1>4, FS_CardinalityType

LEMMA PendingFacts ==
    ASSUME NEW op \in Ops
    PROVE  op \in Pending <=> op.kind \in Results
BY DEF Pending, OfKind

LEMMA PendingPerformed ==
    ASSUME NEW q \in Seq(Ops)
    PROVE  Cardinality(Performed(q)) = Count(q, Pending)
<1>1. Performed(q) = Where(q, Pending)
  BY PendingFacts DEF Performed, Where
<1> QED
  BY <1>1 DEF Count

LEMMA WorkIsCounted ==
    ASSUME Types
    PROVE  WorkAccounted <=> WorkCounted
BY PendingPerformed DEF Types, WorkAccounted, WorkCounted, One

LEMMA WorkTyped ==
    ASSUME Types
    PROVE  Cardinality(waiting) \in Nat /\ Count(op_queue, Pending) \in Nat /\ Count(private_queue, Pending) \in Nat
BY WaitingFinite, CountType DEF Types

LEMMA CountAll ==
    ASSUME NEW q \in Seq(Ops), AllKinds(q, Results)
    PROVE  Count(q, Pending) = Len(q)
<1>1. Where(q, Pending) = 1 .. Len(q)
  BY PendingFacts DEF Where, AllKinds
<1>2. PICK n \in Nat : n = Len(q)
  OBVIOUS
<1>3. Cardinality(1 .. n) = n
  BY FS_Interval
<1> QED
  BY <1>1, <1>2, <1>3 DEF Count

LEMMA CountNoResults ==
    ASSUME NEW q \in Seq(Ops), AllKinds(q, {"io"})
    PROVE  Count(q, Pending) = 0
<1>1. \A i \in 1 .. Len(q) : q[i] \notin Pending
  BY PendingFacts, TaskFacts DEF AllKinds
<1> QED
  BY <1>1, CountNone

LEMMA CapOne ==
    ASSUME NEW S, NEW x
    PROVE  IsFiniteSet(S \cap {x}) /\ Cardinality(S \cap {x}) = One(x \in S)
<1>1. CASE x \in S
  <2>1. S \cap {x} = {x}
    BY <1>1
  <2> QED BY <1>1, <2>1, FS_Singleton DEF One
<1>2. CASE x \notin S
  <2>1. S \cap {x} = {}
    BY <1>2
  <2> QED BY <1>2, <2>1, FS_EmptySet DEF One
<1> QED
  BY <1>1, <1>2

\* perform_io() completes as many operations as it takes off the descriptor's queues.
LEMMA DoneCardinality ==
    ASSUME Types, Errors, NEW d, NEW w, NEW r, Performing(d, w, r)
    PROVE  /\ Count(w \o r, Pending) = Cardinality(DoneOn(d)) /\ Cardinality(DoneOn(d)) \in Nat
           /\ Cardinality(waiting \ DoneOn(d)) = Cardinality(waiting) - Cardinality(DoneOn(d))
<1>1. /\ d \in Descriptors /\ DoneOn(d) \subseteq waiting
      /\ w \in Seq(Ops) /\ AllKinds(w, Results) /\ Len(w) = One(<<d, "write">> \in DoneOn(d))
      /\ r \in Seq(Ops) /\ AllKinds(r, Results) /\ Len(r) = One(<<d, "read">> \in DoneOn(d))
  BY PerformingFacts
<1>2. DoneOn(d) \subseteq {<<d, "write">>, <<d, "read">>}
  BY <1>1 DEF DoneOn, ReportedOn, Types, OpTypes
<1>3. PICK a, b : a = <<d, "write">> /\ b = <<d, "read">>
  OBVIOUS
<1>4. a # b /\ DoneOn(d) \subseteq {a, b} /\ Len(w) = One(a \in DoneOn(d)) /\ Len(r) = One(b \in DoneOn(d))
  BY <1>1, <1>2, <1>3
<1> DEFINE A == DoneOn(d) \cap {a}
           B == DoneOn(d) \cap {b}
<1>5. IsFiniteSet(A) /\ Cardinality(A) = One(a \in DoneOn(d))
  BY CapOne
<1>6. IsFiniteSet(B) /\ Cardinality(B) = One(b \in DoneOn(d))
  BY CapOne
<1>7. A \cap B = {} /\ DoneOn(d) = A \cup B
  BY <1>4
<1> HIDE DEF A, B
<1>8. Cardinality(DoneOn(d)) = Len(w) + Len(r)
  <2>1. Cardinality(A \cup B) = Cardinality(A) + Cardinality(B) - Cardinality(A \cap B)
    BY <1>5, <1>6, FS_Union
  <2>2. Cardinality(A \cap B) = 0
    BY <1>7, FS_EmptySet
  <2> QED BY <1>4, <1>5, <1>6, <1>7, <2>1, <2>2 DEF One
<1>9. Count(w \o r, Pending) = Len(w) + Len(r)
  <2>1. Count(w \o r, Pending) = Count(w, Pending) + Count(r, Pending)
    BY <1>1, CountConcat
  <2> QED BY <1>1, <2>1, CountAll
<1>10. Cardinality(DoneOn(d)) \in Nat
  BY <1>1, <1>8
<1>11. Cardinality(waiting \ DoneOn(d)) = Cardinality(waiting) - Cardinality(waiting \cap DoneOn(d))
  BY WaitingFinite, FS_Difference
<1>12. waiting \cap DoneOn(d) = DoneOn(d)
  BY <1>1
<1> QED
  BY <1>8, <1>9, <1>10, <1>11, <1>12

LEMMA WorkInit == Init => WorkCounted /\ PrivateShare
<1> SUFFICES ASSUME Init PROVE WorkCounted /\ PrivateShare
  OBVIOUS
<1>1. /\ op_queue = <<Task>> /\ private_queue = <<>> /\ waiting = {} /\ outstanding_work = 0 /\ private_work = 0
      /\ pc["io"] = "start" /\ pc["server"] = "idle"
  BY DEF Init
<1>2. Task \notin Pending
  BY PendingFacts, TaskFacts
<1>3. Count(op_queue, Pending) = 0 /\ Count(private_queue, Pending) = 0 /\ Cardinality(waiting) = 0
  BY <1>1, <1>2, CountSingle, CountEmpty, FS_EmptySet DEF One
<1> QED
  BY <1>1, <1>3 DEF WorkCounted, PrivateShare, One

\* An operation that is started is new to the descriptor's queue.
LEMMA WaitsNew ==
    ASSUME Types, OneInFlight, NEW ch \in Channels, NEW n \in Nat, n = Count(todo, {ch}), n > 0 \/ ch \notin Started
    PROVE  ch \notin waiting /\ Cardinality(waiting \cup {ch}) = Cardinality(waiting) + 1
<1>1. PICK q \in Nat, p \in Nat : q = Count(op_queue, OpsOn(ch)) /\ p = Count(private_queue, OpsOn(ch))
  BY CountsTyped
<1>2. n + One(ch \in waiting) + q + p + One(running \in OpsOn(ch)) + One(posted \in OpsOn(ch)) = One(ch \in Started)
  BY <1>1 DEF OneInFlight, InFlight
<1>3. ch \notin waiting
  BY <1>1, <1>2 DEF One
<1> QED
  BY <1>3, WaitingFinite, FS_AddElement

LEMMA HeadCounts ==
    ASSUME Types, NEW ch, Starting(ch)
    PROVE  \E n \in Nat : n = Count(todo, {ch}) /\ n > 0
<1>1. todo \in Seq(Used) /\ todo # <<>> /\ Head(todo) = ch
  BY DEF Types, Starting
<1>2. Count(todo, {ch}) = One(Head(todo) \in {ch}) + Count(Tail(todo), {ch})
  BY <1>1, CountTail
<1>3. Tail(todo) \in Seq(Used)
  BY <1>1, HeadTailProperties
<1>4. Count(Tail(todo), {ch}) \in Nat
  BY <1>3, CountType
<1> QED
  BY <1>1, <1>2, <1>4 DEF One

LEMMA WorkStartOp ==
    ASSUME Types, Errors, Places, OneInFlight, WorkCounted, PrivateShare, StartOp
    PROVE  WorkCounted' /\ PrivateShare'
<1>1. PICK ch : \/ StartWaits(ch)
                \/ \E result \in ResultsOf(ch) : StartKeeps(ch, result) \/ StartPosts(ch, result)
  BY StartOpCases
<1>2. Starting(ch) /\ pc' = pc /\ todo # <<>>
  BY <1>1 DEF StartWaits, StartKeeps, StartPosts, Starting
<1>3. ch \in Used /\ ch \in Channels
  BY <1>2, StartTypes, UsedFacts
<1>4. PICK n \in Nat, q \in Nat, p \in Nat, x \in Int, y \in Nat :
        /\ n = Cardinality(waiting) /\ q = Count(op_queue, Pending) /\ p = Count(private_queue, Pending)
        /\ x = outstanding_work /\ y = private_work
  BY WorkTyped DEF Types
<1>5. PICK i \in Nat, j \in Nat : i = One(pc["io"] \in {"complete", "handler"}) /\ j = One(pc["server"] = "push")
  BY DEF One
<1>6. x + y = n + q + p + i + j /\ y = p /\ (pc["io"] # "handler" => y = 0)
  BY <1>2, <1>4, <1>5 DEF WorkCounted, PrivateShare
<1>7. CASE StartWaits(ch)
  <2>1. /\ outstanding_work' = x + 1 /\ private_work' = y /\ waiting' = waiting \cup {ch} /\ op_queue' = op_queue
        /\ private_queue' = private_queue
    BY <1>4, <1>7 DEF StartWaits, Waits
  <2>2. PICK m \in Nat : m = Count(todo, {ch}) /\ m > 0
    BY <1>2, HeadCounts
  <2>3. Cardinality(waiting') = n + 1
    BY <1>3, <1>4, <2>1, <2>2, WaitsNew
  <2>4. WorkCounted'
    <3>1. (x + 1) + y = (n + 1) + q + p + i + j
      BY <1>6
    <3>2. i = One(pc'["io"] \in {"complete", "handler"}) /\ j = One(pc'["server"] = "push")
      BY <1>2, <1>5
    <3>3. q = Count(op_queue', Pending) /\ p = Count(private_queue', Pending)
      BY <1>4, <2>1
    <3> QED BY <2>1, <2>3, <3>1, <3>2, <3>3 DEF WorkCounted
  <2> QED BY <1>2, <1>4, <1>6, <2>1, <2>4 DEF PrivateShare
<1>8. ASSUME NEW result \in ResultsOf(ch), StartKeeps(ch, result) \/ StartPosts(ch, result)
      PROVE  WorkCounted' /\ PrivateShare'
  <2> DEFINE op == Op(result, ch[1])
  <2>1. op \in Ops /\ One(op \in Pending) = 1
    BY <1>3, ResultFacts, PendingFacts DEF One
  <2>2. waiting' = waiting
    BY <1>8 DEF StartKeeps, StartPosts, Performs
  <2>3. CASE StartKeeps(ch, result)
    <3>1. /\ private_queue' = private_queue \o <<op>> /\ op_queue' = op_queue /\ private_work' = y + 1
          /\ outstanding_work' = x /\ pc["io"] = "handler"
      BY <1>4, <2>1, <2>3 DEF StartKeeps, Types, schedulerVars
    <3> HIDE DEF op
    <3>2. Count(private_queue', Pending) = p + 1
      BY <1>4, <2>1, <3>1, PushedCount DEF Types
    <3>3. WorkCounted'
      <4>1. x + (y + 1) = n + q + (p + 1) + i + j
        BY <1>6
      <4>2. i = One(pc'["io"] \in {"complete", "handler"}) /\ j = One(pc'["server"] = "push")
        BY <1>2, <1>5
      <4>3. n = Cardinality(waiting') /\ q = Count(op_queue', Pending)
        BY <1>4, <2>2, <3>1
      <4> QED BY <3>1, <3>2, <4>1, <4>2, <4>3 DEF WorkCounted
    <3> QED BY <1>2, <1>4, <1>6, <3>1, <3>2, <3>3 DEF PrivateShare
  <2>4. CASE StartPosts(ch, result)
    <3>1. /\ op_queue' = op_queue \o <<op>> /\ private_queue' = private_queue /\ private_work' = y
          /\ outstanding_work' = x + 1
      BY <1>4, <2>4 DEF StartPosts, PushAndWake
    <3> HIDE DEF op
    <3>2. Count(op_queue', Pending) = q + 1
      BY <1>4, <2>1, <3>1, PushedCount DEF Types
    <3>3. WorkCounted'
      <4>1. (x + 1) + y = n + (q + 1) + p + i + j
        BY <1>6
      <4>2. i = One(pc'["io"] \in {"complete", "handler"}) /\ j = One(pc'["server"] = "push")
        BY <1>2, <1>5
      <4>3. n = Cardinality(waiting') /\ p = Count(private_queue', Pending)
        BY <1>4, <2>2, <3>1
      <4> QED BY <3>1, <3>2, <4>1, <4>2, <4>3 DEF WorkCounted
    <3> QED BY <1>2, <1>4, <1>6, <3>1, <3>2, <3>3 DEF PrivateShare
  <2> QED BY <1>8, <2>3, <2>4
<1> QED
  BY <1>1, <1>7, <1>8

LEMMA WorkPerformIo ==
    ASSUME Types, Errors, Places, WorkCounted, PrivateShare, PerformIo
    PROVE  WorkCounted' /\ PrivateShare'
<1>1. PICK d, w, r : PerformsNone(d, w, r) \/ PerformsSome(d, w, r)
  BY PerformIoCases
<1>2. Performing(d, w, r)
  BY <1>1 DEF PerformsNone, PerformsSome
<1>3. op_queue # <<>> /\ Head(op_queue).kind = "io" /\ pc["io"] = "loop" /\ w \in Seq(Ops) /\ r \in Seq(Ops)
  BY <1>2, PerformingFacts
<1>4. todo = <<>> /\ private_queue = <<>> /\ private_work = 0
  BY <1>3 DEF Places, PrivateShare
<1>5. /\ todo' = todo /\ private_queue' = private_queue /\ outstanding_work' = outstanding_work
      /\ waiting' = waiting \ DoneOn(d)
  BY <1>2 DEF Performing
<1>6. op_queue \in Seq(Ops) /\ Tail(op_queue) \in Seq(Ops) /\ Head(op_queue) \in Ops
  BY <1>3, TailOps DEF Types
<1>7. PICK n \in Nat, q \in Nat, x \in Int :
        n = Cardinality(waiting) /\ q = Count(Tail(op_queue), Pending) /\ x = outstanding_work
  BY <1>6, WaitingFinite, CountType DEF Types
<1>8. Count(op_queue, Pending) = q
  <2>1. Count(op_queue, Pending) = One(Head(op_queue) \in Pending) + Count(Tail(op_queue), Pending)
    BY <1>3, <1>6, CountTail
  <2> QED BY <1>3, <1>6, <1>7, <2>1, PendingFacts, TaskFacts DEF One
<1>9. PICK j \in Nat : j = One(pc["server"] = "push")
  BY DEF One
<1>10. x + 0 = n + q + 0 + 0 + j
  BY <1>3, <1>4, <1>7, <1>8, <1>9, CountEmpty DEF WorkCounted, One
<1> DEFINE done == w \o r
<1>11. PICK k \in Nat : Count(done, Pending) = k /\ Cardinality(waiting') = n - k
  BY <1>2, <1>5, <1>7, DoneCardinality
<1>12. done \in Seq(Ops)
  BY <1>3, ConcatOps
<1>13. Count(private_queue', Pending) = 0
  BY <1>4, <1>5, CountEmpty
<1>14. CASE PerformsNone(d, w, r)
  <2>1. done = <<>> /\ op_queue' = Tail(op_queue) /\ private_work' = 1
    BY <1>4, <1>14 DEF PerformsNone
  <2>2. pc'["io"] = "handler" /\ pc'["server"] = pc["server"]
    BY <1>14, GotoIo DEF PerformsNone, Types, Labels
  <2> HIDE DEF done
  <2>3. k = 0
    BY <1>11, <2>1, CountEmpty
  <2>4. WorkCounted'
    BY <1>5, <1>7, <1>9, <1>10, <1>11, <1>13, <2>1, <2>2, <2>3 DEF WorkCounted, One
  <2> QED BY <1>4, <1>5, <2>1, <2>2, <2>4 DEF PrivateShare
<1>15. CASE PerformsSome(d, w, r)
  <2>1. done # <<>> /\ op_queue' = Tail(op_queue) \o Tail(done) /\ private_work' = 0 /\ running' = Head(done)
    BY <1>4, <1>15 DEF PerformsSome
  <2>2. pc'["io"] = "complete" /\ pc'["server"] = pc["server"]
    BY <1>15, GotoIo DEF PerformsSome, Types, Labels
  <2>3. running' \in Ops /\ running'.kind \in Results
    BY <1>15, PerformedFacts
  <2> HIDE DEF done
  <2>4. Tail(done) \in Seq(Ops)
    BY <1>12, <2>1, TailOps
  <2>5. PICK m \in Nat : m = Count(Tail(done), Pending)
    BY <2>4, CountType
  <2>6. k = 1 + m
    <3>1. Count(done, Pending) = One(Head(done) \in Pending) + Count(Tail(done), Pending)
      BY <1>12, <2>1, CountTail
    <3> QED BY <1>11, <2>1, <2>3, <2>5, <3>1, PendingFacts DEF One
  <2>7. Count(op_queue', Pending) = q + m
    BY <1>6, <1>7, <2>1, <2>4, <2>5, CountConcat
  <2>8. WorkCounted'
    BY <1>5, <1>7, <1>9, <1>10, <1>11, <1>13, <2>1, <2>2, <2>6, <2>7 DEF WorkCounted, One
  <2> QED BY <1>13, <2>1, <2>8 DEF PrivateShare
<1> QED
  BY <1>1, <1>14, <1>15

LEMMA WorkSend ==
    ASSUME Types, Errors, Places, OneInFlight, WorkCounted, PrivateShare, Send
    PROVE  WorkCounted' /\ PrivateShare'
<1>1. PICK s : SendWaits(s) \/ \E result \in ResultsOf(<<s, "write">>) : SendPerforms(s, result)
  BY SendCases
<1>2. Sending(s) /\ pc["server"] = "idle" /\ UNCHANGED <<op_queue, private_queue, private_work, todo>>
  BY <1>1 DEF SendWaits, SendPerforms, Sending, privateVars
<1>3. CASE SendWaits(s)
  <2> DEFINE ch == <<s, "write">>
  <2>1. ch \in Channels /\ ch \notin Started
    BY <1>2 DEF Sending, Channels, Descriptors, OpTypes, Started
  <2>2. waiting' = waiting \cup {ch} /\ outstanding_work' = outstanding_work + 1 /\ pc' = pc
    BY <1>3 DEF SendWaits, Waits
  <2> HIDE DEF ch
  <2>3. PICK m \in Nat : m = Count(todo, {ch})
    BY CountsTyped
  <2>4. Cardinality(waiting') = Cardinality(waiting) + 1
    BY <2>1, <2>2, <2>3, WaitsNew
  <2>5. WorkCounted'
    <3>1. PICK n \in Nat, q \in Nat, p \in Nat, x \in Int, y \in Nat, i \in Nat, j \in Nat :
            /\ n = Cardinality(waiting) /\ q = Count(op_queue, Pending) /\ p = Count(private_queue, Pending)
            /\ x = outstanding_work /\ y = private_work
            /\ i = One(pc["io"] \in {"complete", "handler"}) /\ j = One(pc["server"] = "push")
      BY WorkTyped DEF Types, One
    <3>2. x + y = n + q + p + i + j
      BY <3>1 DEF WorkCounted
    <3>3. (x + 1) + y = (n + 1) + q + p + i + j
      BY <3>2
    <3>4. /\ q = Count(op_queue', Pending) /\ p = Count(private_queue', Pending)
          /\ i = One(pc'["io"] \in {"complete", "handler"}) /\ j = One(pc'["server"] = "push")
      BY <1>2, <2>2, <3>1
    <3> QED BY <1>2, <2>2, <2>4, <3>1, <3>3, <3>4 DEF WorkCounted
  <2> QED BY <1>2, <2>2, <2>5 DEF PrivateShare
<1>4. ASSUME NEW result, SendPerforms(s, result)
      PROVE  WorkCounted' /\ PrivateShare'
  <2>1. UNCHANGED <<waiting, outstanding_work>>
    BY <1>4 DEF SendPerforms, Performs
  <2>2. pc'["io"] = pc["io"] /\ pc'["server"] = "work_started"
    BY <1>4, GotoServer DEF SendPerforms, Types, ServerLabels
  <2> QED BY <1>2, <2>1, <2>2 DEF WorkCounted, PrivateShare, One
<1> QED
  BY <1>1, <1>3, <1>4

LEMMA WorkNext ==
    ASSUME Types, Errors, Places, OneInFlight, WorkCounted, PrivateShare, [Next]_vars
    PROVE  WorkCounted' /\ PrivateShare'
<1> USE DEF schedulerVars, privateVars, descriptorVars, sessionVars
<1>1. CASE StartOp
  BY <1>1, WorkStartOp
<1>2. CASE PerformIo
  BY <1>2, WorkPerformIo
<1>3. CASE Send
  BY <1>3, WorkSend
<1>4. PICK n \in Nat, q \in Nat, p \in Nat, x \in Int, y \in Nat, i \in Nat, j \in Nat :
        /\ n = Cardinality(waiting) /\ q = Count(op_queue, Pending) /\ p = Count(private_queue, Pending)
        /\ x = outstanding_work /\ y = private_work
        /\ i = One(pc["io"] \in {"complete", "handler"}) /\ j = One(pc["server"] = "push")
  BY WorkTyped DEF Types, One
<1>5. x + y = n + q + p + i + j
  BY <1>4 DEF WorkCounted
<1>6. op_queue \in Seq(Ops) /\ private_queue \in Seq(Ops) /\ posted \in Ops
  BY DEF Types
<1>7. CASE Complete
  <2>1. UNCHANGED <<waiting, op_queue, private_queue, outstanding_work, private_work>>
    BY <1>7 DEF Complete
  <2>2. pc["io"] = "complete" /\ pc'["io"] = "handler" /\ pc'["server"] = pc["server"]
    BY <1>7, GotoIo DEF Complete, Types, Labels
  <2>3. private_work = 0 /\ Count(private_queue, Pending) = 0
    BY <2>2, CountEmpty DEF PrivateShare, Places
  <2> QED BY <2>1, <2>2, <2>3 DEF WorkCounted, PrivateShare, One
<1>8. CASE EnterRun \/ LeaveRun
  <2>1. UNCHANGED <<waiting, op_queue, private_queue, outstanding_work, private_work, todo>>
    BY <1>8 DEF EnterRun, LeaveRun
  <2>2. pc["io"] \in {"start", "loop"} /\ pc'["io"] \in {"loop", "exited"} /\ pc'["server"] = pc["server"]
    BY <1>8, GotoIo DEF EnterRun, LeaveRun, Types, Labels
  <2> QED BY <2>1, <2>2 DEF WorkCounted, PrivateShare, One
<1>9. CASE PopTask \/ PopHandler
  <2>1. /\ UNCHANGED <<waiting, private_queue, outstanding_work, private_work, todo>> /\ pc["io"] = "loop"
        /\ op_queue # <<>> /\ op_queue' = Tail(op_queue)
    BY <1>9 DEF PopTask, PopHandler, Runs
  <2>2. Tail(op_queue) \in Seq(Ops) /\ Head(op_queue) \in Ops
    BY <1>6, <2>1, TailOps
  <2>3. PICK q2 \in Nat : q2 = Count(op_queue', Pending)
    BY <2>1, <2>2, CountType
  <2>4. q = One(Head(op_queue) \in Pending) + q2
    BY <1>4, <1>6, <2>1, <2>3, CountTail
  <2>5. pc'["io"] = (IF PopTask THEN "poll" ELSE "complete") /\ pc'["server"] = pc["server"]
    BY <1>9, GotoIo, TaskFacts DEF PopTask, PopHandler, Runs, Types, Labels
  <2>6. One(Head(op_queue) \in Pending) = One(pc'["io"] \in {"complete", "handler"})
    BY <1>9, <2>2, <2>5, PendingFacts, TaskFacts DEF PopTask, PopHandler, Runs, One
  <2>7. i = 0 /\ y = 0
    BY <1>4, <2>1 DEF PrivateShare, One
  <2>8. x + y = n + q2 + p + One(pc'["io"] \in {"complete", "handler"}) + j
    BY <1>5, <2>4, <2>6, <2>7 DEF One
  <2>9. WorkCounted'
    BY <1>4, <2>1, <2>3, <2>5, <2>8 DEF WorkCounted
  <2> QED BY <1>4, <2>1, <2>7, <2>9 DEF PrivateShare
<1>10. CASE Poll
  <2>1. UNCHANGED <<waiting, op_queue, outstanding_work, private_work>> /\ private_queue = <<>> /\ pc["io"] = "poll"
    BY <1>10 DEF Poll, Places
  <2>2. private_queue' \in Seq(Ops) /\ AllKinds(private_queue', {"io"})
    BY <1>10, PollFacts, FoundFacts
  <2>3. Count(private_queue', Pending) = 0 /\ Count(private_queue, Pending) = 0 /\ private_work = 0
    BY <2>1, <2>2, CountNoResults, CountEmpty DEF PrivateShare
  <2>4. pc'["io"] = "task_cleanup" /\ pc'["server"] = pc["server"]
    BY <1>10, GotoIo DEF Poll, Types, Labels
  <2> QED BY <2>1, <2>3, <2>4 DEF WorkCounted, PrivateShare, One
<1>11. CASE TaskCleanup
  <2> DEFINE found == op_queue \o private_queue
  <2>1. /\ found \in Seq(Ops) /\ op_queue' = found \o <<Task>> /\ private_queue' = <<>> /\ UNCHANGED waiting
        /\ outstanding_work' = outstanding_work + private_work /\ private_work' = 0
    BY <1>6, <1>11, ConcatOps DEF TaskCleanup, Requeued
  <2>2. Count(found, Pending) = q + p
    BY <1>4, <1>6, CountConcat
  <2> HIDE DEF found
  <2>3. Count(op_queue', Pending) = q + p
    <3>1. Task \in Ops /\ One(Task \in Pending) = 0
      BY TaskFacts, PendingFacts DEF One
    <3>2. Count(found \o <<Task>>, Pending) = Count(found, Pending) + One(Task \in Pending)
      BY <2>1, <3>1, PushedCount
    <3> QED BY <2>1, <2>2, <3>1, <3>2
  <2>4. Count(private_queue', Pending) = 0
    BY <2>1, CountEmpty
  <2>5. pc["io"] = "task_cleanup" /\ pc'["io"] = "loop" /\ pc'["server"] = pc["server"]
    BY <1>11, GotoIo DEF TaskCleanup, Types, Labels
  <2>6. (x + y) + 0 = n + (q + p) + 0 + 0 + j
    BY <1>4, <1>5, <2>5 DEF One
  <2>7. WorkCounted'
    BY <1>4, <2>1, <2>3, <2>4, <2>5, <2>6 DEF WorkCounted, One
  <2> QED BY <2>1, <2>4, <2>7 DEF PrivateShare
<1>12. CASE WorkCleanup
  <2>1. /\ op_queue' = op_queue \o private_queue /\ private_queue' = <<>> /\ UNCHANGED waiting
        /\ outstanding_work' = x + y - 1 /\ private_work' = 0
    BY <1>4, <1>12 DEF WorkCleanup, WorkAfter
  <2>2. Count(op_queue', Pending) = q + p
    BY <1>4, <1>6, <2>1, CountConcat
  <2>3. Count(private_queue', Pending) = 0
    BY <2>1, CountEmpty
  <2>4. pc["io"] = "handler" /\ pc'["io"] = "loop" /\ pc'["server"] = pc["server"]
    BY <1>12, GotoIo DEF WorkCleanup, Types, Labels
  <2>5. (x + y - 1) + 0 = n + (q + p) + 0 + 0 + j
    BY <1>4, <1>5, <2>4 DEF One
  <2>6. WorkCounted'
    BY <1>4, <2>1, <2>2, <2>3, <2>4, <2>5 DEF WorkCounted, One
  <2> QED BY <2>1, <2>3, <2>6 DEF PrivateShare
<1>13. CASE WorkStarted
  <2>1. UNCHANGED <<waiting, op_queue, private_queue, private_work, todo>> /\ outstanding_work' = x + 1
    BY <1>4, <1>13 DEF WorkStarted
  <2>2. pc["server"] = "work_started" /\ pc'["server"] = "push" /\ pc'["io"] = pc["io"]
    BY <1>13, GotoServer DEF WorkStarted, Types, ServerLabels
  <2>3. (x + 1) + y = n + q + p + i + 1
    BY <1>4, <1>5, <2>2 DEF One
  <2>4. i = One(pc'["io"] \in {"complete", "handler"})
    BY <1>4, <2>2
  <2>5. One(pc'["server"] = "push") = 1
    BY <2>2 DEF One
  <2>6. WorkCounted'
    BY <1>4, <2>1, <2>3, <2>4, <2>5 DEF WorkCounted
  <2> QED BY <2>1, <2>2, <2>6 DEF PrivateShare
<1>14. CASE Push
  <2>1. UNCHANGED <<waiting, outstanding_work, private_queue, private_work, todo>> /\ op_queue' = op_queue \o <<posted>>
    BY <1>14 DEF Push, PushAndWake
  <2>2. pc["server"] = "push" /\ pc'["server"] = "idle" /\ pc'["io"] = pc["io"]
    BY <1>14, GotoServer DEF Push, Types, ServerLabels
  <2>3. One(posted \in Pending) = 1
    BY <1>6, <2>2, PendingFacts DEF Places, KindsOf, Results, OpTypes, One
  <2>4. Count(op_queue', Pending) = q + 1
    BY <1>4, <1>6, <2>1, <2>3, PushedCount
  <2>5. x + y = n + (q + 1) + p + i + 0
    BY <1>4, <1>5, <2>2 DEF One
  <2>6. i = One(pc'["io"] \in {"complete", "handler"})
    BY <1>4, <2>2
  <2>7. One(pc'["server"] = "push") = 0
    BY <2>2 DEF One
  <2>8. WorkCounted'
    BY <1>4, <2>1, <2>4, <2>5, <2>6, <2>7 DEF WorkCounted
  <2> QED BY <2>1, <2>2, <2>8 DEF PrivateShare
<1>15. CASE Destroy \/ Arrive \/ Reset \/ UNCHANGED vars
  BY <1>15 DEF Destroy, Arrive, Reset, vars, WorkCounted, PrivateShare
<1> QED
  BY <1>1, <1>2, <1>3, <1>7, <1>8, <1>9, <1>10, <1>11, <1>12, <1>13, <1>14, <1>15
     DEF Next, IoThread, ServerThread, Joined

-----------------------------------------------------------------------------
WorkInv == ShapeInv /\ OneInFlight /\ WorkCounted /\ PrivateShare

LEMMA WorkInvariant == Spec => []WorkInv
<1>1. Init => WorkInv
  BY TypesInit, ErrorsInit, PlacesInit, FlightInit, WorkInit DEF Init, Awake, ShapeInv, WorkInv
<1>2. WorkInv /\ [Next]_vars => WorkInv'
  <2>1. WorkInv /\ [Next]_vars => Types' /\ Errors' /\ Places' /\ Awake'
    BY TypesNext, ErrorsNext, PlacesNext, AwakeNext DEF ShapeInv, WorkInv
  <2>2. WorkInv /\ [Next]_vars => OneInFlight' /\ WorkCounted' /\ PrivateShare'
    BY FlightNext, WorkNext DEF ShapeInv, WorkInv
  <2> QED BY <2>1, <2>2 DEF ShapeInv, WorkInv
<1> QED
  BY <1>1, <1>2, PTL DEF Spec

\* outstanding_work_ and the io thread's share count exactly the operations that are started
\* and not handled (scheduler.hpp:92-96, scheduler.ipp:60-72, 430-470), for any number of
\* sessions and whatever is posted, performed, compensated or failed in which order.
THEOREM WorkAccountedCorrect == Spec => []WorkAccounted
<1>1. WorkInv => WorkAccounted
  BY WorkIsCounted DEF WorkInv, ShapeInv
<1> QED
  BY <1>1, WorkInvariant, PTL

\* outstanding_work_ never falls below zero, units never exceed what the kernel holds, only
\* sockets fail and are written: the state of the io_context stays of its type.
THEOREM IoTypesCorrect == Spec => []TypeOK
<1>1. WorkInv => TypeOK
  <2> SUFFICES ASSUME WorkInv PROVE TypeOK
    OBVIOUS
  <2>1. Types
    BY DEF WorkInv, ShapeInv
  <2>2. PICK n \in Nat, q \in Nat, p \in Nat, x \in Int, y \in Nat :
          /\ n = Cardinality(waiting) /\ q = Count(op_queue, Pending) /\ p = Count(private_queue, Pending)
          /\ x = outstanding_work /\ y = private_work
    BY <2>1, WorkTyped DEF Types
  <2>3. x + y = n + q + p + One(pc["io"] \in {"complete", "handler"}) + One(pc["server"] = "push")
    BY <2>2 DEF WorkInv, WorkCounted
  <2>4. x >= 0
    <3>1. CASE pc["io"] = "handler"
      <4>1. y = p \/ y = 1
        BY <2>2 DEF WorkInv, PrivateShare
      <4> QED BY <2>2, <2>3, <3>1, <4>1 DEF One
    <3>2. CASE pc["io"] # "handler"
      <4>1. y = 0
        BY <2>2, <3>2 DEF WorkInv, PrivateShare
      <4> QED BY <2>2, <2>3, <4>1 DEF One
    <3> QED BY <3>1, <3>2
  <2>5. outstanding_work \in Nat
    BY <2>2, <2>4
  <2>6. todo \in Seq(Channels) /\ waiting \subseteq Channels
    <3>1. Used \subseteq Channels
      BY UsedFacts
    <3> QED BY <2>1, <3>1 DEF Types
  <2>7. pc \in [io : {"start", "loop", "poll", "task_cleanup", "complete", "handler", "exited"},
                server : {"idle", "work_started", "push"}]
    BY <2>1 DEF Types, Pcs, Labels, ServerLabels
  <2> QED BY <2>1, <2>5, <2>6, <2>7 DEF Types, TypeOK
<1> QED
  BY <1>1, WorkInvariant, PTL

\* With an open acceptor its accept is in flight, and counts.
LEMMA AcceptCounts ==
    ASSUME WorkInv, Acceptor \in opened, todo = <<>>, running = Task
    PROVE  ~(Cardinality(waiting) = 0 /\ Count(op_queue, Pending) = 0 /\ Count(private_queue, Pending) = 0)
<1> SUFFICES ASSUME Cardinality(waiting) = 0, Count(op_queue, Pending) = 0, Count(private_queue, Pending) = 0
             PROVE  FALSE
  OBVIOUS
<1>1. Types /\ Places /\ OneInFlight
  BY DEF WorkInv, ShapeInv
<1>2. Accepting \in Channels /\ Accepting \in Started
  BY DEF Accepting, Channels, Descriptors, OpTypes, Started
<1>3. Accepting \notin waiting
  BY <1>1, WaitingFinite, FS_EmptySet
<1>4. OpsOn(Accepting) \subseteq Pending
  BY OpsOnKind, PendingFacts
<1>5. ASSUME NEW q \in Seq(Ops), Count(q, Pending) = 0 PROVE Count(q, OpsOn(Accepting)) = 0
  <2>1. ASSUME NEW i \in 1 .. Len(q) PROVE q[i] \notin OpsOn(Accepting)
    BY <1>4, <1>5, CountSome
  <2> QED BY <2>1, CountNone
<1>6. running \notin OpsOn(Accepting) /\ posted \notin OpsOn(Accepting)
  BY <1>1, OpsOnKind DEF Places, OpsOn, KindsOf, Accepting
<1>7. Count(todo, {Accepting}) = 0
  BY CountEmpty
<1>8. InFlight(Accepting) = 0
  BY <1>1, <1>3, <1>5, <1>6, <1>7 DEF InFlight, One, Types
<1> QED
  BY <1>1, <1>2, <1>8 DEF OneInFlight, One

StopInv == RunsUntilStopped /\ (opened # {} => Acceptor \in opened)

\* Only ~RPCServer stops an io_context whose acceptor is open: neither run() at its start nor
\* ~work_cleanup finds the count at zero (scheduler.ipp:140-150, 60-72), because the accept is
\* always waiting, queued or about to be started again.
THEOREM RunsUntilStoppedCorrect == Spec => []RunsUntilStopped
<1>1. Init => StopInv
  BY DEF Init, StopInv, RunsUntilStopped
<1>2. WorkInv /\ StopInv /\ [Next]_vars => StopInv'
  <2> SUFFICES ASSUME WorkInv, StopInv, [Next]_vars PROVE StopInv'
    OBVIOUS
  <2> USE DEF schedulerVars, privateVars, descriptorVars, sessionVars
  <2>1. Types /\ Places /\ WorkCounted /\ PrivateShare
    BY DEF WorkInv, ShapeInv
  <2>2. ASSUME UNCHANGED <<stopped, opened, destroying>> PROVE StopInv'
    BY <2>2 DEF StopInv, RunsUntilStopped
  <2>3. PICK n \in Nat, q \in Nat, p \in Nat, x \in Int, y \in Nat :
          /\ n = Cardinality(waiting) /\ q = Count(op_queue, Pending) /\ p = Count(private_queue, Pending)
          /\ x = outstanding_work /\ y = private_work
    BY <2>1, WorkTyped DEF Types
  <2>4. PICK i \in Nat, j \in Nat :
          /\ i = One(pc["io"] \in {"complete", "handler"}) /\ j = One(pc["server"] = "push")
          /\ x + y = n + q + p + i + j
    <3>1. One(pc["io"] \in {"complete", "handler"}) \in Nat /\ One(pc["server"] = "push") \in Nat
      BY DEF One
    <3> QED BY <2>1, <2>3, <3>1 DEF WorkCounted
  <2>5. CASE EnterRun
    <3>1. todo = <<>> /\ running = Task /\ pc["io"] = "start" /\ UNCHANGED <<opened, destroying>>
      BY <2>1, <2>5 DEF EnterRun, Places
    <3>2. CASE outstanding_work = 0
      <4>1. y = 0
        BY <2>1, <2>3, <3>1 DEF PrivateShare
      <4>2. x + y = n + q + p + i + j /\ x = 0
        BY <2>3, <2>4, <3>2
      <4>3. n = 0 /\ q = 0 /\ p = 0
        BY <4>1, <4>2
      <4>4. opened = {}
        BY <2>3, <3>1, <4>3, AcceptCounts DEF StopInv
      <4> QED BY <3>1, <4>4 DEF StopInv, RunsUntilStopped
    <3>3. CASE outstanding_work # 0
      BY <2>2, <2>5, <3>3 DEF EnterRun
    <3> QED BY <3>2, <3>3
  <2>6. CASE WorkCleanup
    <3>1. todo = <<>> /\ pc["io"] = "handler" /\ UNCHANGED <<opened, destroying>> /\ outstanding_work' = x + y - 1
      BY <2>3, <2>6 DEF WorkCleanup, WorkAfter
    <3>2. running = Task
      BY <2>1, <3>1 DEF Places
    <3>3. CASE outstanding_work' = 0
      <4>1. x + y = n + q + p + i + j /\ i = 1 /\ x + y - 1 = 0
        BY <2>4, <3>1, <3>3 DEF One
      <4>2. n = 0 /\ q = 0 /\ p = 0
        BY <4>1
      <4>3. opened = {}
        BY <2>3, <3>1, <3>2, <4>2, AcceptCounts DEF StopInv
      <4> QED BY <3>1, <4>3 DEF StopInv, RunsUntilStopped
    <3>4. CASE outstanding_work' # 0
      BY <2>2, <2>6, <3>1, <3>4 DEF WorkCleanup
    <3> QED BY <3>3, <3>4
  <2>7. CASE Complete
    <3>1. UNCHANGED <<stopped, destroying>>
      BY <2>7 DEF Complete
    <3>2. CASE opened' = opened
      BY <2>2, <3>1, <3>2
    <3>3. CASE opened' # opened
      <4>1. running = Op("read", Acceptor) /\ opened \subseteq opened'
        BY <2>7, <3>3 DEF Complete, OnAccept, OnReadDone, OnWritePart, OnWrite
      <4>2. Accepting \in Channels /\ running \in OpsOn(Accepting)
        BY <2>1, <4>1 DEF Types, Accepting, Channels, Descriptors, OpTypes, OpsOn, Op, KindsOf
      <4>3. InFlight(Accepting) = One(Accepting \in Started)
        BY <4>2 DEF WorkInv, OneInFlight
      <4>4. PICK t \in Nat, a \in Nat, b \in Nat :
              t = Count(todo, {Accepting}) /\ a = Count(op_queue, OpsOn(Accepting)) /\ b = Count(private_queue, OpsOn(Accepting))
        BY <2>1, CountsTyped
      <4>5. Accepting \in Started
        BY <4>2, <4>3, <4>4 DEF InFlight, One
      <4>6. Acceptor \in opened
        BY <4>5 DEF Started, Accepting
      <4> QED BY <3>1, <4>1, <4>6 DEF StopInv, RunsUntilStopped
    <3> QED BY <3>2, <3>3
  <2>8. CASE Destroy
    BY <2>8 DEF Destroy, StopInv, RunsUntilStopped
  <2>9. CASE StartOp
    BY <2>2, <2>9 DEF StartOp
  <2>10. CASE PerformIo
    BY <2>2, <2>10 DEF PerformIo
  <2>11. CASE Send
    BY <2>2, <2>11 DEF Send
  <2>12. CASE LeaveRun \/ PopTask \/ Poll \/ TaskCleanup \/ PopHandler
    BY <2>2, <2>12 DEF LeaveRun, PopTask, Poll, TaskCleanup, PopHandler
  <2>13. CASE WorkStarted \/ Push \/ Arrive \/ Reset \/ UNCHANGED vars
    BY <2>2, <2>13 DEF WorkStarted, Push, Arrive, Reset, vars
  <2> QED BY <2>5, <2>6, <2>7, <2>8, <2>9, <2>10, <2>11, <2>12, <2>13 DEF Next, IoThread, ServerThread, Joined
<1>3. StopInv => RunsUntilStopped
  BY DEF StopInv
<1> QED
  BY <1>1, <1>2, <1>3, WorkInvariant, PTL DEF Spec

-----------------------------------------------------------------------------
(* No edge is lost. *)

LEMMA HoldsConcat ==
    ASSUME NEW q \in Seq(Ops), NEW s \in Seq(Ops), NEW op
    PROVE  Holds(q \o s, op) <=> Holds(q, op) \/ Holds(s, op)
<1> DEFINE u == q \o s
<1>1. PICK a \in Nat, b \in Nat : a = Len(q) /\ b = Len(s)
  OBVIOUS
<1>2. /\ Len(u) = a + b
      /\ \A i \in 1 .. a : u[i] = q[i]
      /\ \A i \in 1 .. b : u[a + i] = s[i]
      /\ \A i \in 1 .. a + b : i > a => i - a \in 1 .. b /\ u[i] = s[i - a]
  BY <1>1, ConcatOps
<1> HIDE DEF u
<1>3. ASSUME NEW i \in 1 .. a, q[i] = op PROVE Holds(u, op)
  <2>1. i \in 1 .. Len(u) /\ u[i] = op
    BY <1>2, <1>3
  <2> QED BY <2>1 DEF Holds
<1>4. ASSUME NEW i \in 1 .. b, s[i] = op PROVE Holds(u, op)
  <2>1. a + i \in 1 .. Len(u) /\ u[a + i] = op
    BY <1>2, <1>4
  <2> QED BY <2>1 DEF Holds
<1>5. ASSUME NEW i \in 1 .. a + b, u[i] = op PROVE Holds(q, op) \/ Holds(s, op)
  <2>1. CASE i \in 1 .. a
    BY <1>1, <1>2, <1>5, <2>1 DEF Holds
  <2>2. CASE i > a
    BY <1>1, <1>2, <1>5, <2>2 DEF Holds
  <2> QED BY <2>1, <2>2
<1> QED
  BY <1>1, <1>2, <1>3, <1>4, <1>5 DEF Holds, u

LEMMA HoldsOne ==
    ASSUME NEW x \in Ops, NEW op
    PROVE  Holds(<<x>>, op) <=> x = op
BY SingleFacts DEF Holds

LEMMA HoldsEmpty ==
    ASSUME NEW op
    PROVE  ~Holds(<<>>, op)
BY DEF Holds

LEMMA HoldsTail ==
    ASSUME NEW q \in Seq(Ops), q # <<>>, NEW op
    PROVE  Holds(q, op) <=> Head(q) = op \/ Holds(Tail(q), op)
<1>1. q = <<Head(q)>> \o Tail(q) /\ Tail(q) \in Seq(Ops) /\ Head(q) \in Ops
  BY HeadTailProperties
<1> DEFINE h == <<Head(q)>>
<1>2. h \in Seq(Ops) /\ (Holds(h, op) <=> Head(q) = op) /\ q = h \o Tail(q)
  BY <1>1, HoldsOne
<1> HIDE DEF h
<1>3. h \in Seq(Ops) /\ Tail(q) \in Seq(Ops)
  BY <1>1, <1>2
<1>4. Holds(h \o Tail(q), op) <=> Holds(h, op) \/ Holds(Tail(q), op)
  BY <1>3, HoldsConcat
<1> QED
  BY <1>2, <1>4

LEMMA ErrorFacts ==
    ASSUME NEW ch \in Channels
    PROVE  /\ ErrorOn(ch) \in OpsOn(ch) /\ ErrorOn(ch) \in Ops
           /\ ErrorOn(ch).kind \in {"eof", "epipe"} /\ ErrorOn(ch).d = ch[1]
           /\ ErrorOn(ch).kind = "eof" <=> ch[2] = "read"
           /\ ErrorOn(ch) # Op("io", ch[1]) /\ ErrorOn(ch) # Task
BY DEF ErrorOn, Op, OpsOn, Ops, KindsOf, Channels, OpTypes, Results, Task

LEMMA NoHold ==
    ASSUME NEW q \in Seq(Ops), NEW ch \in Channels, Count(q, OpsOn(ch)) = 0
    PROVE  ~Holds(q, ErrorOn(ch))
<1>1. ASSUME NEW i \in 1 .. Len(q) PROVE q[i] \notin OpsOn(ch)
  BY CountSome
<1> QED
  BY <1>1, ErrorFacts DEF Holds

\* The operation that starts is the only one of its channel.
LEMMA StartsAlone ==
    ASSUME Types, OneInFlight, NEW ch \in Channels, NEW n \in Nat, n = Count(todo, {ch}), n > 0 \/ ch \notin Started
    PROVE  ch \notin waiting /\ ~ErrorPending(ch) /\ (n > 0 => ch \in Started)
<1>1. PICK q \in Nat, p \in Nat : q = Count(op_queue, OpsOn(ch)) /\ p = Count(private_queue, OpsOn(ch))
  BY CountsTyped
<1>2. n + One(ch \in waiting) + q + p + One(running \in OpsOn(ch)) + One(posted \in OpsOn(ch)) = One(ch \in Started)
  BY <1>1 DEF OneInFlight, InFlight
<1>3. ch \notin waiting /\ q = 0 /\ p = 0 /\ running \notin OpsOn(ch) /\ posted \notin OpsOn(ch) /\ (n > 0 => ch \in Started)
  BY <1>1, <1>2 DEF One
<1> QED
  BY <1>1, <1>3, NoHold, ErrorFacts DEF ErrorPending, HeldBack, Types

LEMMA WaitingStarted ==
    ASSUME Types, OneInFlight, writing \subseteq opened, NEW ch \in waiting
    PROVE  ch[1] \in opened
<1>1. ch \in Channels
  BY UsedFacts DEF Types
<1>2. PICK t \in Nat, q \in Nat, p \in Nat :
        t = Count(todo, {ch}) /\ q = Count(op_queue, OpsOn(ch)) /\ p = Count(private_queue, OpsOn(ch))
  BY CountsTyped
<1>3. t + 1 + q + p + One(running \in OpsOn(ch)) + One(posted \in OpsOn(ch)) = One(ch \in Started)
  BY <1>1, <1>2 DEF OneInFlight, InFlight, One
<1>4. ch \in Started
  BY <1>2, <1>3 DEF One
<1> QED
  BY <1>4 DEF Started

\* A step that makes nothing worse for a channel.
LEMMA NoticeKept ==
    ASSUME NEW ch, Noticed(ch), Ready(ch)' => Ready(ch),
           (ch \in waiting \/ Relies(ch))' => ch \in waiting \/ Relies(ch), Seen(ch) => Seen(ch)'
    PROVE  Noticed(ch)'
BY DEF Noticed

LEMMA NoticeWaits ==
    ASSUME Types, Errors, NoticeInv, NEW c \in Used, c \notin waiting, ~ErrorPending(c), c[1] \in opened, Waits(c),
           UNCHANGED <<opened, failed, broken, op_queue, private_queue, running, posted>>
    PROVE  /\ \A ch \in waiting' : ch[2] = "write" => ch[1] \in out_registered'
           /\ \A ch \in Used : Noticed(ch)'
<1>1. /\ waiting' = waiting \cup {c} /\ UNCHANGED <<events, try_speculative, units>> /\ edge \subseteq edge'
      /\ out_registered \subseteq out_registered'
  BY DEF Waits
<1>2. \A op : HeldBack(op)' <=> HeldBack(op)
  BY DEF HeldBack
<1>3. \A ch : (ErrorPending(ch)' <=> ErrorPending(ch)) /\ (Ready(ch)' <=> Ready(ch)) /\ (Seen(ch) => Seen(ch)')
  BY <1>1, <1>2 DEF ErrorPending, Ready, Seen
<1>4. c = <<c[1], c[2]>> /\ c[2] \in OpTypes
  BY UsedFacts
<1>5. ASSUME NEW ch \in waiting', ch[2] = "write" PROVE ch[1] \in out_registered'
  BY <1>1, <1>5 DEF NoticeInv, Waits, Registers
<1>6. ASSUME NEW ch \in Used PROVE Noticed(ch)'
  <2>1. CASE ch = c
    <3>1. SUFFICES ASSUME Ready(c) PROVE Seen(c)'
      BY <1>3, <2>1 DEF Noticed
    <3>2. c \notin try_speculative /\ c[1] \notin failed
      BY <3>1 DEF Waits, Speculates
    <3>3. CASE Registers(c)
      <4>1. c[1] \in edge'
        BY <1>4, <3>1, <3>3 DEF Waits
      <4> QED BY <4>1 DEF Seen
    <3>4. CASE ~Registers(c)
      <4>1. c[2] = "read" \/ c[1] \in out_registered
        BY <3>4, UsedFacts DEF Registers
      <4>2. Relies(c)
        BY <3>2, <4>1 DEF Relies
      <4> QED BY <1>3, <3>1, <4>2 DEF NoticeInv, Noticed
    <3> QED BY <3>3, <3>4
  <2>2. CASE ch # c
    <3>1. ch \in waiting' => ch \in waiting
      BY <1>1, <2>2
    <3>2. ch[1] \in out_registered' => ch[1] \in out_registered \/ ch[2] # "write"
      <4>1. ch = <<ch[1], ch[2]>>
        BY UsedFacts
      <4> QED BY <1>4, <2>2, <4>1 DEF Waits, Registers
    <3>3. Relies(ch)' => Relies(ch)
      BY <1>1, <1>3, <3>2, UsedFacts DEF Relies
    <3> QED BY <1>3, <3>1, <3>3, NoticeKept DEF NoticeInv
  <2> QED BY <2>1, <2>2
<1> QED
  BY <1>5, <1>6

\* perform() has taken what was ready, or the channel is tried again, or the error is on its
\* way to the handler.
LEMMA TakenOrError ==
    ASSUME Types, Errors, NEW c \in Used, NEW result \in ResultsOf(c), Exhausted(c, result),
           UNCHANGED broken, units'[c] = UnitsAfter(c)
    PROVE  ~Ready(c)' \/ Op(result, c[1]) = ErrorOn(c)
<1>1. c[2] \in OpTypes /\ units[c] \in Nat
  BY UsedFacts DEF Types
<1>2. CASE c \in broken \/ c[1] \in failed
  BY <1>1, <1>2 DEF ResultsOf, ErrorOn, OpTypes
<1>3. CASE ~(c \in broken \/ c[1] \in failed)
  <2>1. result = "part" /\ units[c] = 1
    BY <1>1, <1>3 DEF ResultsOf, Exhausted, OpTypes
  <2>2. units'[c] = 0 /\ c \notin broken'
    BY <1>3, <2>1 DEF UnitsAfter
  <2> QED BY <2>2 DEF Ready
<1> QED
  BY <1>2, <1>3

LEMMA NoticePerforms ==
    ASSUME Types, Errors, NoticeInv, NEW c \in Used, c \notin waiting, NEW result \in ResultsOf(c), Performs(c, result),
           UNCHANGED <<opened, failed, broken>>,
           \A ch \in Used : (ErrorPending(ch) => ErrorPending(ch)') /\ (Seen(ch) => Seen(ch)'),
           Op(result, c[1]) = ErrorOn(c) => ErrorPending(c)'
    PROVE  /\ Acceptor \in opened => Accepting \in try_speculative'
           /\ \A ch \in Used : Noticed(ch)'
<1>1. /\ UNCHANGED <<edge, events, out_registered, waiting>> /\ units' = [units EXCEPT ![c] = UnitsAfter(c)]
      /\ try_speculative' = try_speculative \ {e \in {c} : Exhausted(e, result)}
  BY DEF Performs, SpeculationAfter
<1>2. Acceptor \in opened => Accepting \in try_speculative'
  BY <1>1 DEF NoticeInv, Exhausted, Accepting
<1>3. ASSUME NEW ch \in Used PROVE Noticed(ch)'
  <2>1. c \in Channels /\ ch \in Channels
    BY UsedFacts
  <2>2. CASE ch = c
    <3>1. SUFFICES ASSUME Ready(c)', Relies(c)' PROVE FALSE
      BY <1>1, <2>2 DEF Noticed
    <3>2. c \notin try_speculative' /\ c[1] \notin failed /\ ~ErrorPending(c)'
      BY <3>1 DEF Relies
    <3>3. c \in try_speculative
      BY <3>2 DEF Performs, Speculates
    <3>4. Exhausted(c, result)
      BY <1>1, <3>2, <3>3
    <3>5. units'[c] = UnitsAfter(c)
      BY <1>1, <2>1 DEF Types
    <3>6. ~Ready(c)' \/ Op(result, c[1]) = ErrorOn(c)
      BY <3>4, <3>5, TakenOrError
    <3> QED BY <3>1, <3>2, <3>6
  <2>3. CASE ch # c
    <3>1. units'[ch] = units[ch] /\ (ch \in try_speculative' <=> ch \in try_speculative)
      BY <1>1, <2>1, <2>3 DEF Types
    <3>2. Ready(ch)' => Ready(ch)
      BY <3>1 DEF Ready
    <3>3. Relies(ch)' => Relies(ch)
      BY <1>1, <3>1 DEF Relies
    <3> QED BY <1>1, <3>2, <3>3, NoticeKept DEF NoticeInv
  <2> QED BY <2>2, <2>3
<1> QED
  BY <1>2, <1>3

LEMMA NoticeStartOp ==
    ASSUME Types, Errors, OneInFlight, NoticeInv, StartOp
    PROVE  NoticeInv'
<1>1. PICK c : \/ StartWaits(c)
               \/ \E result \in ResultsOf(c) : StartKeeps(c, result) \/ StartPosts(c, result)
  BY StartOpCases
<1>2. Starting(c)
  BY <1>1 DEF StartWaits, StartKeeps, StartPosts
<1>3. c \in Used /\ c \in Channels
  BY <1>2, StartTypes, UsedFacts
<1>4. PICK n \in Nat : n = Count(todo, {c}) /\ n > 0
  BY <1>2, HeadCounts
<1>5. c \notin waiting /\ ~ErrorPending(c) /\ c \in Started
  BY <1>3, <1>4, StartsAlone
<1>6. c[1] \in opened
  BY <1>5 DEF Started, NoticeInv
<1>7. CASE StartWaits(c)
  <2>1. /\ Waits(c) /\ UNCHANGED <<opened, failed, broken, op_queue, private_queue, running, posted, writing>>
        /\ try_speculative' = try_speculative
    BY <1>2, <1>7 DEF StartWaits, Starting, Waits
  <2>2. /\ \A ch \in waiting' : ch[2] = "write" => ch[1] \in out_registered'
        /\ \A ch \in Used : Noticed(ch)'
    BY <1>3, <1>5, <1>6, <2>1, NoticeWaits
  <2> QED BY <2>1, <2>2 DEF NoticeInv
<1>8. ASSUME NEW result \in ResultsOf(c), StartKeeps(c, result) \/ StartPosts(c, result)
      PROVE  NoticeInv'
  <2> DEFINE op == Op(result, c[1])
  <2>1. Performs(c, result) /\ UNCHANGED <<opened, failed, broken, running, posted, writing>>
    BY <1>2, <1>8 DEF StartKeeps, StartPosts, Starting
  <2>2. op \in Ops
    BY <1>3, ResultFacts
  <2>3. \/ op_queue' = op_queue /\ private_queue' = private_queue \o <<op>>
        \/ op_queue' = op_queue \o <<op>> /\ private_queue' = private_queue
    BY <1>8, <2>2 DEF StartKeeps, StartPosts, PushAndWake, Types, schedulerVars
  <2>4. <<op>> \in Seq(Ops)
    BY <2>2
  <2>5. \A x : HeldBack(x)' <=> HeldBack(x) \/ op = x
    <3> HIDE DEF op
    <3>1. \A x : Holds(<<op>>, x) <=> op = x
      BY <2>2, HoldsOne
    <3> DEFINE one == <<op>>
    <3>2. one \in Seq(Ops) /\ (\A x : Holds(one, x) <=> op = x)
          /\ \/ op_queue' = op_queue /\ private_queue' = private_queue \o one
             \/ op_queue' = op_queue \o one /\ private_queue' = private_queue
      BY <2>3, <2>4, <3>1
    <3> HIDE DEF one
    <3>3. op_queue \in Seq(Ops) /\ private_queue \in Seq(Ops)
      BY DEF Types
    <3>4. \A x : Holds(op_queue \o one, x) <=> Holds(op_queue, x) \/ Holds(one, x)
      BY <3>2, <3>3, HoldsConcat
    <3>5. \A x : Holds(private_queue \o one, x) <=> Holds(private_queue, x) \/ Holds(one, x)
      BY <3>2, <3>3, HoldsConcat
    <3> QED BY <3>2, <3>4, <3>5 DEF HeldBack
  <2>6. /\ \A ch \in Used : (ErrorPending(ch) => ErrorPending(ch)') /\ (Seen(ch) => Seen(ch)')
        /\ op = ErrorOn(c) => ErrorPending(c)'
    BY <2>1, <2>5 DEF ErrorPending, Seen, Performs
  <2>7. /\ Acceptor \in opened => Accepting \in try_speculative'
        /\ \A ch \in Used : Noticed(ch)'
    BY <1>3, <1>5, <2>1, <2>6, NoticePerforms
  <2> QED BY <2>1, <2>7 DEF NoticeInv, Performs
<1> QED
  BY <1>1, <1>7, <1>8

LEMMA NoticeSend ==
    ASSUME Types, Errors, Places, OneInFlight, NoticeInv, Send
    PROVE  NoticeInv'
<1>1. PICK s : SendWaits(s) \/ \E result \in ResultsOf(<<s, "write">>) : SendPerforms(s, result)
  BY SendCases
<1>2. Sending(s)
  BY <1>1 DEF SendWaits, SendPerforms
<1> DEFINE c == <<s, "write">>
<1>3. c \in Used /\ c \in Channels /\ c \notin Started /\ c[1] = s /\ s \in opened
  BY <1>2 DEF Sending, Used, Channels, Descriptors, OpTypes, Started
<1>4. /\ UNCHANGED <<opened, failed, broken, op_queue, private_queue, running>>
      /\ writing' \subseteq opened' /\ posted = Task
  BY <1>2 DEF Sending, privateVars, NoticeInv, Places
<1>5. c \notin waiting /\ ~ErrorPending(c)
  <2> HIDE DEF c
  <2>1. PICK n \in Nat : n = Count(todo, {c})
    BY CountsTyped
  <2> QED BY <1>3, <2>1, StartsAlone
<1>6. CASE SendWaits(s)
  <2>1. Waits(c) /\ UNCHANGED posted
    BY <1>6 DEF SendWaits
  <2> HIDE DEF c
  <2>2. /\ \A ch \in waiting' : ch[2] = "write" => ch[1] \in out_registered'
        /\ \A ch \in Used : Noticed(ch)'
    BY <1>3, <1>4, <1>5, <2>1, NoticeWaits
  <2> QED BY <1>4, <2>1, <2>2 DEF NoticeInv, Waits
<1>7. ASSUME NEW result \in ResultsOf(c), SendPerforms(s, result)
      PROVE  NoticeInv'
  <2>1. Performs(c, result) /\ posted' = Op(result, c[1])
    BY <1>7 DEF SendPerforms
  <2> HIDE DEF c
  <2>2. \A x : HeldBack(x)' <=> HeldBack(x)
    BY <1>4 DEF HeldBack
  <2>3. \A ch \in Used : ErrorOn(ch) # posted
    BY <1>4, ErrorFacts, UsedFacts
  <2>4. /\ \A ch \in Used : (ErrorPending(ch) => ErrorPending(ch)') /\ (Seen(ch) => Seen(ch)')
        /\ Op(result, c[1]) = ErrorOn(c) => ErrorPending(c)'
    BY <1>4, <2>1, <2>2, <2>3 DEF ErrorPending, Seen, Performs
  <2>5. /\ Acceptor \in opened => Accepting \in try_speculative'
        /\ \A ch \in Used : Noticed(ch)'
    BY <1>3, <1>4, <1>5, <2>1, <2>4, NoticePerforms
  <2> QED BY <1>4, <2>1, <2>5 DEF NoticeInv, Performs
<1> QED
  BY <1>1, <1>6, <1>7

\* Operations that move between the queues and the threads.
LEMMA NoticeMoves ==
    ASSUME NoticeInv, UNCHANGED <<opened, failed, writing, broken, units, waiting, try_speculative, out_registered, events, edge>>,
           \A ch \in Used : (ErrorPending(ch) => ErrorPending(ch)')
                            /\ (HeldBack(Op("io", ch[1])) => HeldBack(Op("io", ch[1]))')
    PROVE  NoticeInv'
<1>1. ASSUME NEW ch \in Used PROVE Noticed(ch)'
  <2>1. Ready(ch)' => Ready(ch)
    BY DEF Ready
  <2>2. Relies(ch)' => Relies(ch)
    BY DEF Relies
  <2>3. Seen(ch) => Seen(ch)'
    BY DEF Seen
  <2> QED BY <2>1, <2>2, <2>3, NoticeKept DEF NoticeInv
<1> QED
  BY <1>1 DEF NoticeInv

LEMMA NoticeQueues ==
    ASSUME Types, Errors, Places, NoticeInv, PopTask \/ PopHandler \/ TaskCleanup \/ WorkCleanup \/ Push
    PROVE  NoticeInv'
<1> USE DEF schedulerVars, privateVars, descriptorVars, sessionVars
<1>1. UNCHANGED <<opened, failed, writing, broken, units, waiting, try_speculative, out_registered, events, edge>>
  BY DEF PopTask, PopHandler, TaskCleanup, WorkCleanup, Push
<1>2. op_queue \in Seq(Ops) /\ private_queue \in Seq(Ops) /\ posted \in Ops
  BY DEF Types
<1>3. \A ch \in Used : ErrorOn(ch) # Task /\ ErrorOn(ch).kind # "io" /\ Op("io", ch[1]).kind = "io"
  BY ErrorFacts, UsedFacts DEF Op
<1>4. CASE PopTask
  <2>1. op_queue # <<>> /\ op_queue' = Tail(op_queue) /\ Head(op_queue).kind = "task" /\ UNCHANGED <<private_queue, running, posted>>
    BY <1>4 DEF PopTask, Runs
  <2>2. ASSUME NEW x, HeldBack(x), x.kind # "task" PROVE HeldBack(x)'
    BY <1>2, <2>1, <2>2, HoldsTail DEF HeldBack
  <2>3. ASSUME NEW ch \in Used PROVE ErrorOn(ch).kind # "task" /\ Op("io", ch[1]).kind # "task"
    BY ErrorFacts, UsedFacts DEF Op
  <2>4. \A ch \in Used : (ErrorPending(ch) => ErrorPending(ch)') /\ (HeldBack(Op("io", ch[1])) => HeldBack(Op("io", ch[1]))')
    BY <2>1, <2>2, <2>3 DEF ErrorPending
  <2> QED BY <1>1, <2>4, NoticeMoves
<1>5. CASE PopHandler
  <2>1. /\ op_queue # <<>> /\ op_queue' = Tail(op_queue) /\ Head(op_queue).kind \in Results
        /\ UNCHANGED <<private_queue, posted>> /\ running' = Head(op_queue) /\ pc["io"] = "loop"
    BY <1>5 DEF PopHandler, Runs
  <2>2. running = Task
    BY <2>1 DEF Places
  <2>3. ASSUME NEW x, HeldBack(x) PROVE HeldBack(x)' \/ running' = x
    BY <1>2, <2>1, <2>3, HoldsTail DEF HeldBack
  <2>4. ASSUME NEW ch \in Used PROVE Op("io", ch[1]) # running'
    BY <1>3, <2>1, TaskFacts
  <2>5. \A ch \in Used : (ErrorPending(ch) => ErrorPending(ch)') /\ (HeldBack(Op("io", ch[1])) => HeldBack(Op("io", ch[1]))')
    BY <1>3, <2>1, <2>2, <2>3, <2>4 DEF ErrorPending
  <2> QED BY <1>1, <2>5, NoticeMoves
<1>6. CASE TaskCleanup
  <2> DEFINE found == op_queue \o private_queue
             task == <<Task>>
  <2>1. /\ found \in Seq(Ops) /\ task \in Seq(Ops) /\ op_queue' = found \o task
        /\ UNCHANGED <<running, posted>>
    BY <1>2, <1>6, ConcatOps, TaskFacts DEF TaskCleanup, Requeued
  <2>2. \A x : Holds(found, x) <=> Holds(op_queue, x) \/ Holds(private_queue, x)
    BY <1>2, HoldsConcat
  <2> HIDE DEF found, task
  <2>3. \A x : Holds(found \o task, x) <=> Holds(found, x) \/ Holds(task, x)
    BY <2>1, HoldsConcat
  <2>4. \A x : HeldBack(x) => HeldBack(x)'
    BY <2>1, <2>2, <2>3 DEF HeldBack
  <2>5. \A ch \in Used : (ErrorPending(ch) => ErrorPending(ch)') /\ (HeldBack(Op("io", ch[1])) => HeldBack(Op("io", ch[1]))')
    BY <2>1, <2>4 DEF ErrorPending
  <2> QED BY <1>1, <2>5, NoticeMoves
<1>7. CASE WorkCleanup
  <2>1. op_queue' = op_queue \o private_queue /\ UNCHANGED <<running, posted>>
    BY <1>7 DEF WorkCleanup
  <2>2. \A x : Holds(op_queue \o private_queue, x) <=> Holds(op_queue, x) \/ Holds(private_queue, x)
    BY <1>2, HoldsConcat
  <2>3. \A x : HeldBack(x) => HeldBack(x)'
    BY <2>1, <2>2 DEF HeldBack
  <2>4. \A ch \in Used : (ErrorPending(ch) => ErrorPending(ch)') /\ (HeldBack(Op("io", ch[1])) => HeldBack(Op("io", ch[1]))')
    BY <2>1, <2>3 DEF ErrorPending
  <2> QED BY <1>1, <2>4, NoticeMoves
<1>8. CASE Push
  <2> DEFINE one == <<posted>>
  <2>1. op_queue' = op_queue \o one /\ UNCHANGED <<private_queue, running>> /\ one \in Seq(Ops)
    BY <1>2, <1>8 DEF Push, PushAndWake
  <2>2. \A x : Holds(one, x) <=> posted = x
    BY <1>2, HoldsOne
  <2> HIDE DEF one
  <2>3. \A x : Holds(op_queue \o one, x) <=> Holds(op_queue, x) \/ Holds(one, x)
    BY <1>2, <2>1, HoldsConcat
  <2>4. \A x : HeldBack(x)' <=> HeldBack(x) \/ posted = x
    BY <2>1, <2>2, <2>3 DEF HeldBack
  <2>5. \A ch \in Used : (ErrorPending(ch) => ErrorPending(ch)') /\ (HeldBack(Op("io", ch[1])) => HeldBack(Op("io", ch[1]))')
    BY <2>1, <2>4 DEF ErrorPending
  <2> QED BY <1>1, <2>5, NoticeMoves
<1> QED
  BY <1>4, <1>5, <1>6, <1>7, <1>8

\* A handler that has seen an error makes its stream fail; a listener accepts again.
LEMMA NoticeComplete ==
    ASSUME Types, OneInFlight, NoticeInv, Complete
    PROVE  NoticeInv'
<1>1. UNCHANGED <<op_queue, private_queue, edge, events, out_registered, waiting, broken, posted>> /\ running' = Task
  BY DEF Complete, schedulerVars
<1>2. \A x : HeldBack(x)' <=> HeldBack(x)
  BY <1>1 DEF HeldBack
<1>3. \A ch : Seen(ch)' <=> Seen(ch)
  BY <1>1, <1>2 DEF Seen
<1>4. \A ch \in Used : ErrorPending(ch) => ErrorPending(ch)' \/ running = ErrorOn(ch)
  BY <1>1, <1>2 DEF ErrorPending
<1>5. ASSUME NEW ch \in Used, units'[ch] = units[ch], ch \in try_speculative => ch \in try_speculative',
             ch[1] \in opened' => ch[1] \in opened, failed \subseteq failed',
             running = ErrorOn(ch) => ch[1] \in failed' \/ ch = Accepting
      PROVE  Noticed(ch)'
  <2>1. Ready(ch)' => Ready(ch)
    BY <1>1, <1>5 DEF Ready
  <2>2. Relies(ch)' => Relies(ch)
    <3>1. CASE running = ErrorOn(ch)
      <4>1. ch[1] \in failed' \/ (ch = Accepting /\ (Acceptor \in opened => Accepting \in try_speculative))
        BY <1>5, <3>1 DEF NoticeInv
      <4>2. ch = Accepting => ch[1] = Acceptor
        BY DEF Accepting
      <4> QED BY <1>5, <4>1, <4>2 DEF Relies
    <3>2. CASE running # ErrorOn(ch)
      BY <1>1, <1>4, <1>5, <3>2 DEF Relies
    <3> QED BY <3>1, <3>2
  <2> QED BY <1>1, <1>3, <2>1, <2>2, NoticeKept DEF NoticeInv
<1>6. running \in Ops /\ \A ch \in Used : ErrorOn(ch).kind \in {"eof", "epipe"} /\ ErrorOn(ch).d = ch[1]
                                    /\ (ErrorOn(ch).kind = "eof" <=> ch[2] = "read")
  BY UsedFacts, ErrorFacts DEF Types
<1>7. ASSUME writing' \subseteq opened', Acceptor \in opened' => Accepting \in try_speculative',
             \A ch \in Used : Noticed(ch)'
      PROVE  NoticeInv'
  BY <1>1, <1>7 DEF NoticeInv
<1>8. CASE OnAccept
  <2>1. running.kind = "read" /\ UNCHANGED <<failed, writing>>
    BY <1>8 DEF OnAccept, Op
  <2>2. CASE UNCHANGED <<opened, try_speculative, units>>
    <3>1. \A ch \in Used : Noticed(ch)'
      BY <1>5, <1>6, <2>1, <2>2
    <3> QED BY <1>7, <2>1, <2>2, <3>1 DEF NoticeInv
  <2>3. ASSUME NEW s \in Sockets \ opened, opened' = opened \cup {s},
               try_speculative' = try_speculative \cup ({s} \X OpTypes),
               units' = [units EXCEPT ![<<s, "write">>] = MaxUnits[s]["write"]]
        PROVE  NoticeInv'
    <3>1. ASSUME NEW ch \in Used PROVE Noticed(ch)'
      <4>1. ch \in Channels /\ ch = <<ch[1], ch[2]>> /\ ch[2] \in OpTypes
        BY UsedFacts
      <4>2. CASE ch[1] = s
        <5>1. ch \in try_speculative'
          BY <2>3, <4>1, <4>2
        <5>2. ch \notin waiting'
          BY <1>1, <4>2, WaitingStarted DEF NoticeInv
        <5> QED BY <5>1, <5>2 DEF Noticed, Relies
      <4>3. CASE ch[1] # s
        <5>1. units'[ch] = units[ch]
          BY <2>3, <4>1, <4>3 DEF Types
        <5> QED BY <1>5, <1>6, <2>1, <2>3, <4>3, <5>1
      <4> QED BY <4>2, <4>3
    <3>2. Acceptor \in opened' => Accepting \in try_speculative'
      BY <2>3, IoContextAssumption DEF NoticeInv
    <3> QED BY <1>7, <2>1, <2>3, <3>1, <3>2 DEF NoticeInv
  <2> QED BY <1>8, <2>2, <2>3 DEF OnAccept
<1>9. CASE OnReadDone
  <2>1. UNCHANGED <<opened, try_speculative, units, writing>>
        /\ failed' = (IF running.kind = "eof" THEN failed \cup ({running.d} \ {Acceptor}) ELSE failed)
        /\ running.kind \in {"read", "eof"}
    BY <1>9 DEF OnReadDone
  <2>2. ASSUME NEW ch \in Used, running = ErrorOn(ch) PROVE ch[1] \in failed' \/ ch = Accepting
    <3>1. running.kind = "eof" /\ ch[2] = "read" /\ running.d = ch[1] /\ ch = <<ch[1], ch[2]>>
      BY <1>6, <2>1, <2>2, UsedFacts
    <3> QED BY <2>1, <3>1 DEF Accepting
  <2>3. \A ch \in Used : Noticed(ch)'
    BY <1>5, <2>1, <2>2
  <2> QED BY <1>7, <2>1, <2>3 DEF NoticeInv
<1>10. CASE OnWritePart
  <2>1. UNCHANGED <<opened, try_speculative, units, writing, failed>> /\ running.kind = "part"
    BY <1>10 DEF OnWritePart
  <2>2. \A ch \in Used : Noticed(ch)'
    BY <1>5, <1>6, <2>1
  <2> QED BY <1>7, <2>1, <2>2 DEF NoticeInv
<1>11. CASE OnWrite
  <2>1. UNCHANGED <<opened, try_speculative, units>> /\ writing' \subseteq writing
        /\ failed' = (IF running.kind = "epipe" THEN failed \cup {running.d} ELSE failed)
        /\ running.kind \in {"write", "epipe"}
    BY <1>11 DEF OnWrite
  <2>2. ASSUME NEW ch \in Used, running = ErrorOn(ch) PROVE ch[1] \in failed'
    <3>1. running.kind = "epipe" /\ running.d = ch[1]
      BY <1>6, <2>1, <2>2
    <3> QED BY <2>1, <3>1
  <2>3. \A ch \in Used : Noticed(ch)'
    BY <1>5, <2>1, <2>2
  <2> QED BY <1>7, <2>1, <2>3 DEF NoticeInv
<1> QED
  BY <1>8, <1>9, <1>10, <1>11 DEF Complete

\* The reactor queues every descriptor that has something to report.
LEMMA NoticePoll ==
    ASSUME Types, Places, NoticeInv, Poll
    PROVE  NoticeInv'
<1> USE DEF schedulerVars, privateVars, descriptorVars, sessionVars
<1>1. UNCHANGED <<op_queue, running, posted, opened, failed, writing, broken, units, waiting, try_speculative, out_registered>>
  BY DEF Poll
<1>2. private_queue = <<>> /\ AllKinds(op_queue, Results) /\ pc["io"] = "poll"
  BY DEF Poll, Places, Queued
<1>3. \A d : ~HeldBack(Op("io", d))
  <2>1. ASSUME NEW d, Holds(op_queue, Op("io", d)) PROVE FALSE
    <3>1. PICK i \in 1 .. Len(op_queue) : op_queue[i] = Op("io", d)
      BY <2>1 DEF Holds
    <3>2. op_queue[i].kind = "io" /\ op_queue[i].kind \in Results
      BY <1>2, <3>1 DEF AllKinds, Op
    <3> QED BY <3>2, TaskFacts
  <2> QED BY <1>2, <2>1, HoldsEmpty DEF HeldBack
<1>4. PICK order \in Seq(Descriptors) :
        private_queue' = Found(order) /\ \A d \in Reported : \E i \in 1 .. Len(order) : order[i] = d
  BY PollFacts
<1>5. \A i \in 1 .. Len(order) : Found(order)[i] = Op("io", order[i])
  BY <1>4, FoundFacts
<1>6. Len(Found(order)) = Len(order)
  BY <1>4, FoundFacts
<1>7. \A d \in Reported : HeldBack(Op("io", d))'
  BY <1>4, <1>5, <1>6 DEF HeldBack, Holds
<1>8. ASSUME NEW ch \in Used PROVE Noticed(ch)'
  <2>1. (Ready(ch)' <=> Ready(ch)) /\ (ch \in waiting' <=> ch \in waiting)
    BY <1>1 DEF Ready
  <2>2. ~Holds(private_queue, ErrorOn(ch))
    BY <1>2, HoldsEmpty
  <2>3. ErrorPending(ch) => ErrorPending(ch)'
    BY <1>1, <2>2 DEF ErrorPending, HeldBack
  <2>4. Relies(ch)' => Relies(ch)
    BY <1>1, <2>3 DEF Relies
  <2>5. ASSUME Ready(ch), ch \in waiting \/ Relies(ch) PROVE Seen(ch)'
    <3>1. ch[1] \in edge
      BY <1>3, <2>5 DEF NoticeInv, Noticed, Seen
    <3>2. ch[1] \in Descriptors /\ ch[2] \in OpTypes /\ ch = <<ch[1], ch[2]>>
          /\ (ch[2] # "write" => ch[2] = "read")
      BY UsedFacts
    <3>3. ch[2] = "read" \/ ch[1] \in out_registered
      BY <2>5, <3>2 DEF NoticeInv, Relies
    <3>4. ch[2] \in ReadyTypes(ch[1])
      BY <2>5, <3>2, <3>3 DEF ReadyTypes
    <3>5. ch[1] \in Reported
      BY <3>1, <3>4 DEF Reported
    <3>6. ch[2] \in events'[ch[1]]
      BY <3>2, <3>4, <3>5 DEF Poll
    <3> QED BY <1>7, <3>5, <3>6 DEF Seen
  <2> QED BY <2>1, <2>4, <2>5 DEF Noticed
<1> QED
  BY <1>1, <1>8 DEF NoticeInv

LEMMA NoticeKernel ==
    ASSUME Types, NoticeInv, Arrive \/ Reset
    PROVE  NoticeInv'
<1> USE DEF schedulerVars, privateVars, descriptorVars, sessionVars
<1>1. UNCHANGED <<op_queue, private_queue, running, posted, opened, failed, writing, events, waiting, try_speculative, out_registered>>
  BY DEF Arrive, Reset
<1>2. \A x : HeldBack(x)' <=> HeldBack(x)
  BY <1>1 DEF HeldBack
<1>3. edge \subseteq edge'
  BY DEF Arrive, Reset
<1>4. \A ch : (Relies(ch)' <=> Relies(ch)) /\ (Seen(ch) => Seen(ch)')
  BY <1>1, <1>2, <1>3 DEF Relies, Seen, ErrorPending
<1>5. ASSUME NEW ch \in Used, ch \in waiting \/ Relies(ch) PROVE ch[2] = "read" \/ ch[1] \in out_registered
  BY <1>5, UsedFacts DEF NoticeInv, Relies
<1>6. CASE Arrive
  <2>1. PICK c \in (opened \X OpTypes) \ broken :
          /\ units' = [units EXCEPT ![c] = @ + 1]
          /\ edge' = IF c[2] = "read" \/ c[1] \in out_registered THEN edge \cup {c[1]} ELSE edge
    BY <1>6 DEF Arrive
  <2>2. ASSUME NEW ch \in Used PROVE Noticed(ch)'
    <3>1. CASE ch = c
      <4>1. ch \in waiting \/ Relies(ch) => ch[1] \in edge'
        BY <1>5, <2>1, <3>1
      <4> QED BY <1>1, <1>4, <4>1 DEF Noticed, Seen
    <3>2. CASE ch # c
      <4>1. units'[ch] = units[ch]
        BY <2>1, <3>2, UsedFacts DEF Types
      <4>2. Ready(ch)' => Ready(ch)
        BY <1>6, <4>1 DEF Ready, Arrive
      <4> QED BY <1>1, <1>4, <4>2, NoticeKept DEF NoticeInv
    <3> QED BY <3>1, <3>2
  <2> QED BY <1>1, <2>2 DEF NoticeInv
<1>7. CASE Reset
  <2>1. PICK s \in opened \cap Sockets :
          /\ broken' = broken \cup ({s} \X OpTypes)
          /\ edge' = edge \cup {s}
          /\ units' = [ch \in Channels |-> IF ch[1] = s THEN 0 ELSE units[ch]]
    BY <1>7 DEF Reset
  <2>2. ASSUME NEW ch \in Used PROVE Noticed(ch)'
    <3>1. CASE ch[1] = s
      BY <2>1, <3>1 DEF Noticed, Seen
    <3>2. CASE ch[1] # s
      <4>1. units'[ch] = units[ch] /\ (ch \in broken' <=> ch \in broken)
        BY <2>1, <3>2, UsedFacts
      <4>2. Ready(ch)' => Ready(ch)
        BY <4>1 DEF Ready
      <4> QED BY <1>1, <1>4, <4>2, NoticeKept DEF NoticeInv
    <3> QED BY <3>1, <3>2
  <2> QED BY <1>1, <2>2 DEF NoticeInv
<1> QED
  BY <1>6, <1>7

\* What perform_io() has performed on a channel is on its way to the handler.
LEMMA PerformedHeld ==
    ASSUME Types, Errors, NEW d, NEW w, NEW r, PerformsSome(d, w, r), NEW x, Holds(w, x) \/ Holds(r, x)
    PROVE  HeldBack(x)' \/ running' = x
<1>1. w \in Seq(Ops) /\ r \in Seq(Ops) /\ op_queue # <<>>
  BY PerformingFacts DEF PerformsSome
<1>2. Tail(op_queue) \in Seq(Ops) /\ op_queue \in Seq(Ops)
  BY <1>1, TailOps DEF Types
<1> DEFINE p == w \o r
           q == Tail(op_queue)
<1>3. p \in Seq(Ops) /\ p # <<>> /\ running' = Head(p) /\ op_queue' = q \o Tail(p) /\ Tail(p) \in Seq(Ops) /\ q \in Seq(Ops)
  BY <1>1, <1>2, PerformedFacts DEF PerformsSome
<1>4. Holds(p, x)
  BY <1>1, HoldsConcat
<1> HIDE DEF p, q
<1>5. Head(p) = x \/ Holds(Tail(p), x)
  BY <1>3, <1>4, HoldsTail
<1> DEFINE u == Tail(p)
<1>6. u \in Seq(Ops) /\ op_queue' = q \o u /\ (Head(p) = x \/ Holds(u, x))
  BY <1>3, <1>5
<1> HIDE DEF u
<1>7. Holds(q \o u, x) <=> Holds(q, x) \/ Holds(u, x)
  BY <1>3, <1>6, HoldsConcat
<1> QED
  BY <1>3, <1>6, <1>7 DEF HeldBack

\* perform_io() only takes its descriptor off the queues.
LEMMA PerformIoHolds ==
    ASSUME Types, Errors, NEW d, NEW w, NEW r, PerformsNone(d, w, r) \/ PerformsSome(d, w, r),
           NEW x, HeldBack(x), x # Op("io", d)
    PROVE  HeldBack(x)'
<1>1. Performing(d, w, r)
  BY DEF PerformsNone, PerformsSome
<1>2. op_queue \in Seq(Ops) /\ op_queue # <<>> /\ Head(op_queue).kind = "io" /\ Head(op_queue).d = d /\ private_queue' = private_queue
  BY <1>1, PerformingFacts DEF Performing, Types
<1>3. Head(op_queue) \in Ops /\ Tail(op_queue) \in Seq(Ops)
  BY <1>2, TailOps
<1>4. Head(op_queue) = Op("io", d)
  BY <1>2, <1>3 DEF Ops, Op
<1> DEFINE q == Tail(op_queue)
<1>5. Holds(q, x) \/ Holds(private_queue, x)
  BY <1>2, <1>4, HoldsTail DEF HeldBack
<1>6. CASE PerformsNone(d, w, r)
  BY <1>2, <1>5, <1>6 DEF PerformsNone, HeldBack
<1>7. CASE PerformsSome(d, w, r)
  <2> DEFINE u == Tail(w \o r)
  <2>1. u \in Seq(Ops) /\ op_queue' = q \o u /\ q \in Seq(Ops)
    BY <1>3, <1>7, PerformedFacts DEF PerformsSome
  <2> HIDE DEF q, u
  <2>2. Holds(q \o u, x) <=> Holds(q, x) \/ Holds(u, x)
    BY <2>1, HoldsConcat
  <2> QED BY <1>2, <1>5, <2>1, <2>2 DEF HeldBack
<1> QED
  BY <1>6, <1>7

\* An operation that perform_io() has taken to the end is in what it has performed.
LEMMA ExhaustedHeld ==
    ASSUME Types, Errors, NEW d, NEW w, NEW r, Performing(d, w, r), NEW c \in ExhaustedOn(d, w, r)
    PROVE  /\ c \in DoneOn(d) /\ c[1] = d
           /\ \E result \in ResultsOf(c) :
                 Exhausted(c, result) /\ (Holds(w, Op(result, d)) \/ Holds(r, Op(result, d)))
<1>1. c \in DoneOn(d)
  BY DEF ExhaustedOn
<1>2. c \in Used /\ d \in Descriptors
  BY <1>1, PerformingFacts
<1>3. c = <<d, c[2]>> /\ c[1] = d
  BY <1>1 DEF DoneOn, ReportedOn
<1>4. c[2] = "write" \/ c[2] = "read"
  BY <1>2, UsedFacts
<1> DEFINE x == IF c[2] = "write" THEN w ELSE r
<1>5. x \in OutcomesOn(d, <<d, c[2]>>) /\ \E op \in Range(x) : Exhausted(c, op.kind)
  BY <1>4 DEF Performing, ExhaustedOn
<1>6. (\A op : Holds(x, op) => Holds(w, op) \/ Holds(r, op))
  OBVIOUS
<1> HIDE DEF x
<1>7. PICK result \in ResultsOf(<<d, c[2]>>) : x = <<Op(result, d)>> /\ Op(result, d) \in Ops /\ Op(result, d).kind = result
  BY <1>1, <1>2, <1>3, <1>5, UsedFacts, OutcomeFacts
<1>8. PICK op \in Range(x) : Exhausted(c, op.kind)
  BY <1>5
<1>9. op = Op(result, d) /\ Holds(x, Op(result, d))
  BY <1>7, <1>8, SingleFacts, HoldsOne DEF Range
<1> QED
  BY <1>1, <1>3, <1>6, <1>7, <1>8, <1>9

LEMMA NoticePerformIo ==
    ASSUME Types, Errors, Places, NoticeInv, PerformIo
    PROVE  NoticeInv'
<1>1. PICK d, w, r : PerformsNone(d, w, r) \/ PerformsSome(d, w, r)
  BY PerformIoCases
<1>2. Performing(d, w, r)
  BY <1>1 DEF PerformsNone, PerformsSome
<1>3. d \in Descriptors /\ pc["io"] = "loop" /\ DoneOn(d) \subseteq Used
  BY <1>2, PerformingFacts
<1>4. /\ UNCHANGED <<edge, out_registered, opened, failed, writing, broken, posted>>
      /\ waiting' = waiting \ DoneOn(d)
      /\ units' = [ch \in Channels |-> IF ch \in DoneOn(d) THEN UnitsAfter(ch) ELSE units[ch]]
      /\ try_speculative' = (try_speculative \cup ReportedOn(d)) \ ExhaustedOn(d, w, r)
      /\ events' = [events EXCEPT ![d] = {}]
  BY <1>2 DEF Performing
<1>5. running = Task
  BY <1>3 DEF Places
<1>6. ASSUME NEW ch \in Used, ErrorPending(ch) PROVE ErrorPending(ch)'
  <2>1. ErrorOn(ch) # running /\ ErrorOn(ch) # Op("io", d)
    BY <1>5, UsedFacts, ErrorFacts DEF Op
  <2> QED BY <1>1, <1>4, <1>6, <2>1, PerformIoHolds DEF ErrorPending
<1>7. ASSUME NEW ch \in ExhaustedOn(d, w, r) PROVE ~Ready(ch)' \/ ErrorPending(ch)'
  <2>1. ch \in DoneOn(d) /\ ch[1] = d
    BY <1>2, <1>7, ExhaustedHeld
  <2>2. PICK result \in ResultsOf(ch) : Exhausted(ch, result) /\ (Holds(w, Op(result, d)) \/ Holds(r, Op(result, d)))
    BY <1>2, <1>7, ExhaustedHeld
  <2>3. ch \in Used /\ units'[ch] = UnitsAfter(ch)
    BY <1>3, <1>4, <2>1, UsedFacts
  <2>4. ~Ready(ch)' \/ Op(result, ch[1]) = ErrorOn(ch)
    BY <1>4, <2>2, <2>3, TakenOrError
  <2>5. PerformsSome(d, w, r)
    <3>1. CASE PerformsNone(d, w, r)
      <4>1. w \in Seq(Ops) /\ r \in Seq(Ops) /\ w \o r = <<>>
        BY <1>2, <3>1, PerformingFacts DEF PerformsNone
      <4>2. w = <<>> /\ r = <<>>
        BY <4>1
      <4> QED BY <2>2, <4>2, HoldsEmpty
    <3> QED BY <1>1, <3>1
  <2>6. HeldBack(Op(result, d))' \/ running' = Op(result, d)
    BY <2>2, <2>5, PerformedHeld
  <2> QED BY <2>1, <2>4, <2>6 DEF ErrorPending
<1>8. ASSUME NEW ch \in Used PROVE Noticed(ch)'
  <2>1. ch \in Channels /\ ch = <<ch[1], ch[2]>> /\ ch[1] \in Descriptors
    BY UsedFacts
  <2>2. CASE ch \in ExhaustedOn(d, w, r)
    <3>1. ch \notin waiting'
      BY <1>4, <2>2 DEF ExhaustedOn
    <3> QED BY <1>7, <2>2, <3>1 DEF Noticed, Relies
  <2>3. CASE ch \in ReportedOn(d) /\ ch \notin ExhaustedOn(d, w, r)
    <3>1. ch \in try_speculative'
      BY <1>4, <2>3
    <3>2. ch \in waiting' => ~Ready(ch)'
      <4>1. ASSUME ch \in waiting' PROVE ch \notin DoneOn(d) /\ ch \in waiting /\ ~Ready(ch)
        BY <1>4, <2>3, <4>1 DEF DoneOn
      <4>2. ASSUME ch \in waiting' PROVE units'[ch] = units[ch]
        BY <1>4, <2>1, <4>1, <4>2
      <4> QED BY <1>4, <4>1, <4>2 DEF Ready
    <3> QED BY <3>1, <3>2 DEF Noticed, Relies
  <2>4. CASE ch \notin ReportedOn(d)
    <3>1. ch \notin DoneOn(d)
      BY <2>4 DEF DoneOn
    <3>2. units'[ch] = units[ch] /\ (ch \in waiting' <=> ch \in waiting) /\ (ch \in try_speculative => ch \in try_speculative')
      BY <1>4, <2>1, <3>1 DEF ExhaustedOn
    <3>3. Ready(ch)' => Ready(ch)
      BY <1>4, <3>2 DEF Ready
    <3>4. Relies(ch)' => Relies(ch)
      BY <1>4, <1>6, <3>2 DEF Relies
    <3>5. Seen(ch) => Seen(ch)'
      <4>1. CASE ch[1] = d
        <5>1. ch[2] \notin events[ch[1]]
          BY <2>1, <2>4, <4>1 DEF ReportedOn
        <5> QED BY <1>4, <5>1 DEF Seen
      <4>2. CASE ch[1] # d
        <5>1. events'[ch[1]] = events[ch[1]] /\ Op("io", ch[1]) # Op("io", d)
          BY <1>4, <2>1, <4>2 DEF Types, Op
        <5> QED BY <1>1, <1>4, <5>1, PerformIoHolds DEF Seen
      <4> QED BY <4>1, <4>2
    <3> QED BY <3>2, <3>3, <3>4, <3>5, NoticeKept DEF NoticeInv
  <2> QED BY <2>2, <2>3, <2>4
<1>9. Acceptor \in opened' => Accepting \in try_speculative'
  <2>1. Accepting \notin ExhaustedOn(d, w, r)
    BY DEF ExhaustedOn, Exhausted, Accepting
  <2> QED BY <1>4, <2>1 DEF NoticeInv
<1> QED
  BY <1>4, <1>8, <1>9 DEF NoticeInv

LEMMA NoticeInit == Init => NoticeInv
<1> SUFFICES ASSUME Init PROVE NoticeInv
  OBVIOUS
<1>1. ASSUME NEW ch \in Used, ch[1] \in opened PROVE ch \in try_speculative
  BY <1>1, UsedFacts DEF Init
<1>2. writing = {} /\ waiting = {}
  BY DEF Init
<1>3. Acceptor \in opened => Accepting \in try_speculative
  BY DEF Init, Accepting, OpTypes
<1>4. \A ch \in Used : Noticed(ch)
  BY <1>1, <1>2 DEF Noticed, Relies
<1> QED
  BY <1>2, <1>3, <1>4 DEF NoticeInv

\* An operation that waits although the kernel could complete it is about to be looked at,
\* however the arrival of data, the speculative attempt and the start of the operation race
\* (epoll_reactor.ipp:251-320, 740-755): for any number of sessions and any amount of data.
THEOREM EventsNoticedCorrect == Spec => []EventsNoticed
<1>1. WorkInv /\ NoticeInv /\ [Next]_vars => NoticeInv'
  <2> SUFFICES ASSUME WorkInv, NoticeInv, [Next]_vars PROVE NoticeInv'
    OBVIOUS
  <2> USE DEF schedulerVars, privateVars, descriptorVars, sessionVars
  <2>1. Types /\ Errors /\ Places /\ OneInFlight
    BY DEF WorkInv, ShapeInv
  <2>2. CASE StartOp
    BY <2>1, <2>2, NoticeStartOp
  <2>3. CASE Complete
    BY <2>1, <2>3, NoticeComplete
  <2>4. CASE PopTask \/ PopHandler \/ TaskCleanup \/ WorkCleanup \/ Push
    BY <2>1, <2>4, NoticeQueues
  <2>5. CASE Poll
    BY <2>1, <2>5, NoticePoll
  <2>6. CASE PerformIo
    BY <2>1, <2>6, NoticePerformIo
  <2>7. CASE Send
    BY <2>1, <2>7, NoticeSend
  <2>8. CASE Arrive \/ Reset
    BY <2>1, <2>8, NoticeKernel
  <2>9. CASE EnterRun \/ LeaveRun \/ WorkStarted \/ Destroy \/ UNCHANGED vars
    <3>1. UNCHANGED <<opened, failed, writing, broken, units, waiting, try_speculative, out_registered, events, edge>>
      BY <2>9 DEF EnterRun, LeaveRun, WorkStarted, Destroy, vars
    <3>2. UNCHANGED <<op_queue, private_queue, running, posted>>
      BY <2>9 DEF EnterRun, LeaveRun, WorkStarted, Destroy, vars
    <3>3. \A x : HeldBack(x)' <=> HeldBack(x)
      BY <3>2 DEF HeldBack
    <3>4. \A ch \in Used : (ErrorPending(ch) => ErrorPending(ch)') /\ (HeldBack(Op("io", ch[1])) => HeldBack(Op("io", ch[1]))')
      BY <3>2, <3>3 DEF ErrorPending
    <3> QED BY <3>1, <3>4, NoticeMoves
  <2> QED
    BY <2>2, <2>3, <2>4, <2>5, <2>6, <2>7, <2>8, <2>9 DEF Next, IoThread, ServerThread, Joined
<1>2. WorkInv /\ NoticeInv => EventsNoticed
  <2> SUFFICES ASSUME WorkInv, NoticeInv, NEW ch \in waiting, Ready(ch)
               PROVE  (ch[1] \in edge /\ ch[2] \in ReadyTypes(ch[1])) \/ EventQueued(ch)
    BY DEF EventsNoticed
  <2>1. Types
    BY DEF WorkInv, ShapeInv
  <2>2. ch \in Used /\ ch = <<ch[1], ch[2]>> /\ ch[2] \in OpTypes /\ (ch[2] # "write" => ch[2] = "read")
    BY <2>1, UsedFacts DEF Types
  <2>3. ch[2] \in ReadyTypes(ch[1])
    BY <2>2 DEF ReadyTypes, NoticeInv
  <2>4. Seen(ch)
    BY <2>2 DEF NoticeInv, Noticed
  <2>5. ASSUME HeldBack(Op("io", ch[1])), ch[2] \in events[ch[1]] PROVE EventQueued(ch)
    <3>1. DOMAIN op_queue = 1 .. Len(op_queue) /\ DOMAIN private_queue = 1 .. Len(private_queue)
      BY <2>1 DEF Types
    <3> QED BY <2>5, <3>1 DEF HeldBack, Holds, EventQueued
  <2> QED BY <2>3, <2>4, <2>5 DEF Seen
<1> QED
  BY <1>1, <1>2, NoticeInit, WorkInvariant, PTL DEF Spec

=============================================================================
