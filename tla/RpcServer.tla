------------------------------ MODULE RpcServer ------------------------------
(***************************************************************************)
(* rpc_server.cpp: class Listener and class Session, between the clients   *)
(* and the two queues of the dispatcher.                                   *)
(*                                                                         *)
(*   io thread      runs the completion handlers of ioc->run() one after   *)
(*                  the other, in the order in which they became ready     *)
(*   server thread  pops a request, lets the emulator answer it and gives  *)
(*                  the response to Listener::Send                         *)
(*                                                                         *)
(* Session::Send runs on the server thread although the handlers of the    *)
(* same session run on the io thread: write_buffer, the websocket stream   *)
(* and the sessions map are used by both threads without a lock.  Each of  *)
(* their uses is a step.  Two uses at the same time are undefined          *)
(* behaviour: race records the object, and the process may die at any      *)
(* later moment.                                                           *)
(*                                                                         *)
(* Connections are numbered in the order of their acceptance.  A response  *)
(* is named by its request.  The dispatcher between OnRead and SendResponse *)
(* is the one of module Dispatcher, which EmuRPC implements.               *)
(***************************************************************************)
EXTENDS Integers, Sequences

CONSTANTS
    MaxConnections,  \* bound: connections ever accepted
    IdModulus,       \* number of values of u32 next_client_id
    Slots,           \* requests the dispatcher holds at most
    Kinds,           \* what each client sends
    Window,          \* requests a client has outstanding at most
    MaxMessages,     \* bound: messages each client ever sends
    NoSession        \* an expired or empty weak_ptr

Connections == 0 .. MaxConnections - 1
ClientIds == 0 .. IdModulus - 1

\* What arrives for an async_read: a request the codec accepts, one that it rejects, one
\* without payload, the first part of one whose connection broke, and the end of the
\* connection, with or without a close frame.
AllKinds == {"request", "malformed", "empty", "partial", "close"}
Farewells == {"partial", "close"}
Message == [conn : Connections, num : Nat, kind : AllKinds]

ASSUME RpcServerAssumption ==
    /\ MaxConnections \in Nat
    /\ IdModulus \in Nat \ {0}
    /\ Slots \in Nat
    /\ Kinds \in [Connections -> SUBSET AllKinds]
    /\ Window \in Nat
    /\ MaxMessages \in [Connections -> Nat]
    /\ NoSession \notin Connections

VARIABLES
    attempts,        \* connections clients have opened
    accepted,        \* connections OnAccept has made a session for
    next_client_id,  \* Listener::next_client_id
    sessions,        \* Listener::sessions
    id,              \* Session::id, by connection
    stream,          \* status of Session::ws: none, handshake, failed, open, closing or closed
    reading,         \* an async_read that found the stream open waits for the socket
    inbox,           \* messages on their way to the server
    messages,        \* messages each client has sent
    gone,            \* clients that closed or lost their connection
    ready,           \* completion handlers that wait for the io thread
    io,              \* the session in whose OnRead the io thread is, before DoRead
    pending,         \* requests inside the dispatcher
    pc,              \* where the server thread is in Listener::Send
    current,         \* the request whose response it sends
    target,          \* the session it looked up
    write_buffer,    \* Session::write_buffer: the responses in it
    wr_block,        \* stream::wr_block_: the kind of operation that writes
    paused_rd,       \* stream::paused_rd_: sessions whose read waits to answer a close frame
    paused_wr,       \* stream::paused_wr_: sessions with a parked async_write
    data,            \* what the async_write in progress sends
    outbox,          \* messages the client has received, each a sequence of responses
    terminated,      \* the process died
    race,            \* objects that two threads have used at the same time
    overlap,         \* sessions with an async_write before the last one had completed
    crossed,         \* history: sessions with a Send before the last OnWrite
    answered         \* history: what Send was called with, by connection

listenerVars == <<attempts, accepted, next_client_id, sessions, id>>
readVars == <<reading, inbox, messages, gone, io>>
serverVars == <<pc, current, target>>
blockVars == <<wr_block, paused_rd, paused_wr>>
writeVars == <<write_buffer, blockVars, data, outbox>>
flags == <<terminated, race, overlap>>
history == <<crossed, answered>>
vars == <<listenerVars, readVars, stream, ready, pending, serverVars, writeVars, flags, history>>

Tagged == [client : ClientIds, req : Message]

Dispatch == INSTANCE Dispatcher WITH Requests <- Tagged, None <- NoSession

\* The handlers the io thread can run.
Event(type, c) == [type |-> type, conn |-> c]
EventTypes == {"accept", "handshake", "read", "resume", "closed", "sent", "broken", "written"}
Queued(type, c) == \E i \in DOMAIN ready : ready[i] = Event(type, c)
\* The io thread runs, or is about to run, this handler.
Runs(type, c) ==
    ~terminated /\ io = NoSession /\ ready # <<>> /\ Head(ready) = Event(type, c)

\* What two threads can use at once: the write_buffer of a session, the sessions map or a
\* stream; of which session is not recorded.
Objects == ({"write_buffer"} \X Connections) \cup ({"sessions", "stream"} \X {NoSession})

Init ==
    /\ attempts = 0 /\ accepted = 0
    /\ next_client_id = 0
    /\ sessions = [i \in ClientIds |-> NoSession]
    /\ id = [c \in Connections |-> 0]
    /\ stream = [c \in Connections |-> "none"]
    /\ reading = [c \in Connections |-> FALSE]
    /\ inbox = [c \in Connections |-> <<>>]
    /\ messages = [c \in Connections |-> 0]
    /\ gone = {}
    /\ ready = <<>> /\ io = NoSession
    /\ Dispatch!Init
    /\ pc = "idle" /\ target = NoSession
    /\ write_buffer = [c \in Connections |-> <<>>]
    /\ wr_block = [c \in Connections |-> "none"]
    /\ paused_rd = {} /\ paused_wr = {}
    /\ data = [c \in Connections |-> <<>>]
    /\ outbox = [c \in Connections |-> <<>>]
    /\ terminated = FALSE /\ race = {} /\ overlap = {}
    /\ crossed = {}
    /\ answered = [c \in Connections |-> <<>>]

-----------------------------------------------------------------------------
(* The clients and their connections. *)

Received(c) == Len(outbox[c])

\* A client opens a connection: the accept completes.
ClientConnects ==
    /\ ~terminated /\ attempts < MaxConnections
    /\ attempts' = attempts + 1
    /\ ready' = Append(ready, Event("accept", 0))
    /\ UNCHANGED <<accepted, next_client_id, sessions, id, readVars, stream, pending,
                   serverVars, writeVars, flags, history>>

\* A client sends a message, or its connection ends.
ClientSends(c, kind) ==
    /\ ~terminated
    /\ stream[c] = "open" /\ c \notin gone
    /\ messages[c] < MaxMessages[c]
    /\ kind \in Farewells \/ messages[c] - Received(c) < Window
    /\ messages' = [messages EXCEPT ![c] = @ + 1]
    /\ inbox' = [inbox EXCEPT ![c] =
                    Append(@, [conn |-> c, num |-> messages[c] + 1, kind |-> kind])]
    /\ gone' = IF kind \in Farewells THEN gone \cup {c} ELSE gone
    /\ UNCHANGED <<listenerVars, reading, io, stream, ready, pending, serverVars, writeVars,
                   flags, history>>

\* The handshake of the client arrives or fails.
HandshakeArrives(c) ==
    /\ ~terminated
    /\ stream[c] = "handshake" /\ ~Queued("handshake", c)
    /\ ready' = Append(ready, Event("handshake", c))
    /\ UNCHANGED <<listenerVars, readVars, stream, pending, serverVars, writeVars, flags, history>>

\* The reactor finds a message for an outstanding async_read, also when a failing write has
\* changed the status of the stream meanwhile.
MessageArrives(c) ==
    /\ ~terminated
    /\ reading[c] /\ inbox[c] # <<>> /\ ~Queued("read", c)
    /\ ready' = Append(ready, Event("read", c))
    /\ UNCHANGED <<listenerVars, readVars, stream, pending, serverVars, writeVars, flags, history>>

-----------------------------------------------------------------------------
(* The io thread: Listener::OnAccept and the handlers of Session. *)

NextClientIdStays(n) == n
NextClientId(n) == (n + 1) % IdModulus

\* Listener::OnAccept with ec: no session, and the next accept.  The connection is gone,
\* or it is still in the backlog and the next accept completes at once.
OnAcceptError ==
    /\ Runs("accept", 0)
    /\ ready' \in {Tail(ready), Append(Tail(ready), Event("accept", 0))}
    /\ UNCHANGED <<listenerVars, readVars, stream, pending, serverVars, writeVars, flags, history>>

\* Listener::OnAccept: make a session, enter it into the map, start its handshake.
\* The server thread may be looking into the same map.
OnAccept ==
    LET c == accepted IN
    /\ Runs("accept", 0)
    /\ c \in Connections
    /\ ready' = Tail(ready)
    /\ accepted' = accepted + 1
    /\ id' = [id EXCEPT ![c] = next_client_id]
    /\ sessions' = [sessions EXCEPT ![next_client_id] = c]
    /\ next_client_id' = NextClientId(next_client_id)
    /\ stream' = [stream EXCEPT ![c] = "handshake"]
    /\ race' = IF pc = "lookup" THEN race \cup {<<"sessions", NoSession>>} ELSE race
    /\ UNCHANGED <<attempts, readVars, pending, serverVars, writeVars, terminated, overlap, history>>

DoReadFirst(c, state, queue) ==
    IF state = "open" THEN queue ELSE <<Event("read", c)>> \o queue
\* The handlers that wait once DoRead() has run: a stream that is not open
\* completes the new async_read at once, with an error and no bytes.
DoReadQueue(c, state, queue) ==
    IF state = "open" THEN queue ELSE Append(queue, Event("read", c))

\* The server thread is inside ws.async_write of this session.
Sending(c) == pc \in {"write", "post"} /\ target = c
\* The io thread uses the stream of this session: its status, its blocks, its socket.
UsesStream(c) == race' = IF Sending(c) THEN race \cup {<<"stream", NoSession>>} ELSE race

\* Session::OnAccept ignores ec and reads, whether the handshake worked or not.
SessionOnAccept(c) ==
    /\ Runs("handshake", c) /\ stream[c] = "handshake"
    /\ \E state \in {"open", "failed"} :
          /\ stream' = [stream EXCEPT ![c] = state]
          /\ reading' = [reading EXCEPT ![c] = state = "open"]
          /\ ready' = DoReadQueue(c, state, Tail(ready))
    /\ UsesStream(c)
    /\ UNCHANGED <<listenerVars, inbox, messages, gone, io, pending, serverVars, writeVars,
                   terminated, overlap, history>>

\* The handler of an async_read that has found this on the socket.
HasRead(c, kinds) ==
    /\ Runs("read", c) /\ reading[c] /\ inbox[c] # <<>>
    /\ Head(inbox[c]).kind \in kinds

\* Session::OnRead with an error and no bytes, from an async_read of a stream that was not
\* open: read again.
OnReadError(c) ==
    /\ Runs("read", c) /\ ~reading[c]
    /\ ready' = DoReadQueue(c, stream[c], Tail(ready))
    /\ reading' = [reading EXCEPT ![c] = stream[c] = "open"]
    /\ UsesStream(c)
    /\ UNCHANGED <<listenerVars, inbox, messages, gone, io, stream, pending, serverVars, writeVars,
                   terminated, overlap, history>>

\* Session::OnRead with no bytes, for an empty message: read again.
OnReadEmpty(c) ==
    /\ HasRead(c, {"empty"})
    /\ inbox' = [inbox EXCEPT ![c] = Tail(@)]
    /\ ready' = DoReadQueue(c, stream[c], Tail(ready))
    /\ reading' = [reading EXCEPT ![c] = stream[c] = "open"]
    /\ UsesStream(c)
    /\ UNCHANGED <<listenerVars, messages, gone, io, stream, pending, serverVars, writeVars,
                   terminated, overlap, history>>

\* Session::OnRead with no bytes, at the end of a connection without a close frame: the
\* stream has failed; read again.
OnReadEof(c) ==
    /\ HasRead(c, {"close"})
    /\ stream' = [stream EXCEPT ![c] = "failed"]
    /\ inbox' = [inbox EXCEPT ![c] = Tail(@)]
    /\ ready' = DoReadQueue(c, "failed", Tail(ready))
    /\ reading' = [reading EXCEPT ![c] = FALSE]
    /\ UsesStream(c)
    /\ UNCHANGED <<listenerVars, messages, gone, io, pending, serverVars, writeVars, terminated,
                   overlap, history>>

\* Inside the async_read: a close frame.  The read takes the write block to answer it, and
\* waits for it while a write is in progress.
OnReadClose(c) ==
    /\ HasRead(c, {"close"})
    /\ inbox' = [inbox EXCEPT ![c] = Tail(@)]
    /\ reading' = [reading EXCEPT ![c] = FALSE]
    /\ ready' = Tail(ready)
    /\ \/ /\ wr_block[c] = "none"
          /\ wr_block' = [wr_block EXCEPT ![c] = "read"]
          /\ stream' = [stream EXCEPT ![c] = "closing"]
          /\ UNCHANGED paused_rd
       \/ /\ wr_block[c] # "none"
          /\ paused_rd' = paused_rd \cup {c}
          /\ UNCHANGED <<wr_block, stream>>
    /\ UsesStream(c)
    /\ UNCHANGED <<listenerVars, messages, gone, io, pending, serverVars, write_buffer, paused_wr,
                   data, outbox, terminated, overlap, history>>

\* The end of an async_read that has answered a close frame, or could not.  If it has the
\* write block it gives it to a parked write, which the stream posts: that will find the
\* stream no longer open and call OnWrite.  Then OnRead, with no bytes, reads again.
ReadReleases(c) ==
    LET resumes == wr_block[c] = "read" /\ c \in paused_wr
        rest == IF resumes THEN Append(Tail(ready), Event("sent", c)) ELSE Tail(ready)
    IN  /\ wr_block' = [wr_block EXCEPT ![c] = IF resumes THEN "write"
                                                ELSE IF @ = "read" THEN "none" ELSE @]
        /\ paused_wr' = IF resumes THEN paused_wr \ {c} ELSE paused_wr
        /\ ready' = Append(rest, Event("read", c))

\* Inside the async_read: it has got the write block it waited for.  If the stream is open
\* it answers the close frame, and if not, the read is over.
OnReadResume(c) ==
    /\ Runs("resume", c)
    /\ \/ /\ stream[c] = "open"
          /\ stream' = [stream EXCEPT ![c] = "closing"]
          /\ ready' = Tail(ready)
          /\ UNCHANGED <<wr_block, paused_wr>>
       \/ /\ stream[c] # "open"
          /\ ReadReleases(c)
          /\ UNCHANGED stream
    /\ UsesStream(c)
    /\ UNCHANGED <<listenerVars, readVars, pending, serverVars, write_buffer, paused_rd, data,
                   outbox, terminated, overlap, history>>

\* The end of the async_read that answered a close frame: the socket is closed, or answering
\* failed.  OnRead, with no bytes, reads again.
OnReadClosed(c) ==
    /\ Runs("closed", c)
    /\ \E state \in {"closed", "failed"} : stream' = [stream EXCEPT ![c] = state]
    /\ ReadReleases(c)
    /\ UsesStream(c)
    /\ UNCHANGED <<listenerVars, readVars, pending, serverVars, write_buffer, paused_rd, data,
                   outbox, terminated, overlap, history>>

\* Session::OnRead with a request, or with the first part of one that happens to be a
\* request itself: push it and ignore whether that worked.  DoRead is still to come.
OnReadRequest(c) ==
    /\ HasRead(c, {"request", "partial"})
    /\ stream' = [stream EXCEPT ![c] = IF Head(inbox[c]).kind = "partial" THEN "failed" ELSE @]
    /\ inbox' = [inbox EXCEPT ![c] = Tail(@)]
    /\ \/ Dispatch!Accept([client |-> id[c], req |-> Head(inbox[c])])
       \/ Dispatch!Refuse
    /\ ready' = Tail(ready)
    /\ reading' = [reading EXCEPT ![c] = FALSE]
    /\ io' = c
    /\ UsesStream(c)
    /\ UNCHANGED <<listenerVars, messages, gone, pc, target, writeVars, terminated, overlap, history>>

\* Session::DoRead at the end of OnRead, when the server thread may already be sending the
\* response.
DoRead(c) ==
    /\ ~terminated /\ io = c
    /\ io' = NoSession
    /\ ready' = DoReadQueue(c, stream[c], ready)
    /\ reading' = [reading EXCEPT ![c] = stream[c] = "open"]
    /\ UsesStream(c)
    /\ UNCHANGED <<listenerVars, inbox, messages, gone, stream, pending, serverVars, writeVars,
                   terminated, overlap, history>>

\* The io thread has given DeserializeRequest what it may reject: a malformed text, the
\* first part of a text, or what was read of a message before a write made the stream fail.
Rejected(c) ==
    /\ inbox[c] # <<>>
    /\ \/ Head(inbox[c]).kind \in {"malformed", "partial"}
       \/ Head(inbox[c]).kind = "request" /\ stream[c] = "failed"

\* Session::OnRead with bytes that DeserializeRequest rejects: the exception
\* leaves ioc->run() and the io thread.
OnReadThrows(c) ==
    /\ HasRead(c, AllKinds) /\ Rejected(c)
    /\ terminated' = TRUE
    /\ UsesStream(c)
    /\ UNCHANGED <<listenerVars, readVars, stream, ready, pending, serverVars, writeVars, overlap,
                   history>>

\* A write gives up the write block, to the read that waits for it if there is one, and
\* goes on to OnWrite.
WriteReleases(c) ==
    /\ wr_block' = [wr_block EXCEPT ![c] = IF c \in paused_rd THEN "read" ELSE "none"]
    /\ paused_rd' = paused_rd \ {c}
    /\ LET rest == IF c \in paused_rd THEN Append(Tail(ready), Event("resume", c)) ELSE Tail(ready)
       IN  ready' = <<Event("written", c)>> \o rest

\* A write has completed.
WriteCompletes(c) ==
    /\ Runs("sent", c)
    /\ WriteReleases(c)
    /\ UsesStream(c)
    /\ UNCHANGED <<listenerVars, readVars, stream, pending, serverVars, write_buffer, paused_wr,
                   data, outbox, terminated, overlap, history>>

\* A write has failed: the stream is not open any more.
WriteFails(c) ==
    /\ Runs("broken", c)
    /\ stream' = [stream EXCEPT ![c] = IF @ = "closed" THEN @ ELSE "failed"]
    /\ WriteReleases(c)
    /\ UsesStream(c)
    /\ UNCHANGED <<listenerVars, readVars, pending, serverVars, write_buffer, paused_wr, data,
                   outbox, terminated, overlap, history>>

Remaining(buffer) == buffer
\* write_buffer.consume(write_buffer.size())
Consumed(buffer) == <<>>

\* Session::OnWrite: empty the buffer, which the server thread may be filling or handing
\* to the stream, and the stream may be sending.
OnWrite(c) ==
    /\ Runs("written", c)
    /\ write_buffer' = [write_buffer EXCEPT ![c] = Consumed(@)]
    /\ race' = IF wr_block[c] = "write" \/ (pc \in {"copy", "write"} /\ target = c)
               THEN race \cup {<<"write_buffer", c>>} ELSE race
    /\ ready' = Tail(ready)
    /\ UNCHANGED <<listenerVars, readVars, stream, pending, serverVars, blockVars, data, outbox,
                   terminated, overlap, history>>

-----------------------------------------------------------------------------
(* The server thread: the dispatcher, Listener::Send and Session::Send. *)

\* The dispatcher calls SendResponse.
Answer ==
    /\ ~terminated /\ pc = "idle"
    /\ Dispatch!Deliver
    /\ pc' = "lookup"
    /\ UNCHANGED <<listenerVars, readVars, stream, ready, target, writeVars, flags, history>>

\* The server thread, outside SendResponse, loses a request.
Drop ==
    /\ ~terminated /\ pc = "idle"
    /\ Dispatch!Lose
    /\ UNCHANGED <<listenerVars, readVars, stream, ready, pc, target, writeVars, flags, history>>

\* No write of the session is in progress or parked, and OnWrite has seen the last one.
Settled(c) ==
    /\ wr_block[c] # "write" /\ c \notin paused_wr
    /\ \A type \in {"sent", "broken", "written"} : ~Queued(type, c)

\* Listener::Send: sessions[client_id].lock(), and on to Session::Send.
Lookup ==
    LET c == sessions[current.client] IN
    /\ ~terminated /\ pc = "lookup"
    /\ target' = c
    /\ pc' = IF c = NoSession THEN "idle" ELSE "copy"
    /\ crossed' = IF c = NoSession \/ Settled(c) THEN crossed ELSE crossed \cup {c}
    /\ UNCHANGED <<listenerVars, readVars, stream, ready, pending, current, writeVars, flags,
                   answered>>

\* Session::Send: append the response to write_buffer.
Copy ==
    /\ ~terminated /\ pc = "copy"
    /\ write_buffer' = [write_buffer EXCEPT ![target] = Append(@, current.req)]
    /\ answered' = [answered EXCEPT ![target] = Append(@, current.req)]
    /\ pc' = "write"
    /\ UNCHANGED <<listenerVars, readVars, stream, ready, pending, current, target, blockVars,
                   data, outbox, flags, crossed>>

\* Session::Send: async_write of what is in the buffer.  The socket takes it at
\* once (pc = "post") or later (Transmit).
AsyncWrite ==
    /\ ~terminated /\ pc = "write"
    /\ wr_block[target] = "none" /\ stream[target] = "open"
    /\ wr_block' = [wr_block EXCEPT ![target] = "write"]
    /\ data' = [data EXCEPT ![target] = write_buffer[target]]
    /\ \/ /\ outbox' = [outbox EXCEPT ![target] = Append(@, write_buffer[target])]
          /\ pc' = "post"
       \/ /\ outbox' = outbox
          /\ pc' = "idle"
    /\ UNCHANGED <<listenerVars, readVars, stream, ready, pending, current, target, write_buffer,
                   paused_rd, paused_wr, flags, history>>

\* The same for a Send that writes the buffer a second time.
PostCompletionRetries ==
    /\ ~terminated /\ pc = "post"
    /\ ready' = Append(ready, Event("sent", target))
    /\ pc' = "write"
    /\ UNCHANGED <<listenerVars, readVars, stream, pending, current, target, writeVars, flags, history>>

\* The rest of an async_write whose data the socket took at once: Send returns.
PostCompletion ==
    /\ ~terminated /\ pc = "post"
    /\ ready' = Append(ready, Event("sent", target))
    /\ pc' = "idle"
    /\ UNCHANGED <<listenerVars, readVars, stream, pending, current, target, writeVars, flags, history>>

\* async_write on a stream that is not open fails; OnWrite will be called.
AsyncWriteFails ==
    /\ ~terminated /\ pc = "write"
    /\ wr_block[target] = "none" /\ stream[target] # "open"
    /\ ready' = Append(ready, Event("written", target))
    /\ pc' = "idle"
    /\ UNCHANGED <<listenerVars, readVars, stream, pending, current, target, writeVars, flags, history>>

\* async_write while the write block is taken: it is parked until a read releases the block.
\* If another write has it or is parked already, an assertion of the stream fails.
AsyncWriteParks ==
    /\ ~terminated /\ pc = "write" /\ wr_block[target] # "none"
    /\ paused_wr' = paused_wr \cup {target}
    /\ overlap' = IF wr_block[target] = "write" \/ target \in paused_wr
                  THEN overlap \cup {target} ELSE overlap
    /\ pc' = "idle"
    /\ UNCHANGED <<listenerVars, readVars, stream, ready, pending, current, target, write_buffer,
                   wr_block, paused_rd, data, outbox, terminated, race, history>>

-----------------------------------------------------------------------------
(* The sockets. *)

\* The socket has neither taken nor refused the data of the write in progress.
Waiting(c) ==
    /\ wr_block[c] = "write" /\ ~(pc = "post" /\ target = c)
    /\ ~Queued("sent", c) /\ ~Queued("broken", c)

\* The socket takes the data of a write that had to wait.
Transmit(c) ==
    /\ ~terminated /\ Waiting(c)
    /\ outbox' = [outbox EXCEPT ![c] = Append(@, data[c])]
    /\ ready' = Append(ready, Event("sent", c))
    /\ UNCHANGED <<listenerVars, readVars, stream, pending, serverVars, write_buffer, blockVars,
                   data, flags, history>>

\* A client that is gone resets the connection: the write fails.
WriteBreaks(c) ==
    /\ ~terminated /\ Waiting(c) /\ c \in gone
    /\ ready' = Append(ready, Event("broken", c))
    /\ UNCHANGED <<listenerVars, readVars, stream, pending, serverVars, writeVars, flags, history>>

\* The answer to a close frame is sent and the client has closed the socket, or one of the
\* two has failed.
CloseSent(c) ==
    /\ ~terminated
    /\ stream[c] = "closing" /\ wr_block[c] = "read" /\ ~Queued("closed", c)
    /\ ready' = Append(ready, Event("closed", c))
    /\ UNCHANGED <<listenerVars, readVars, stream, pending, serverVars, writeVars, flags, history>>

\* Undefined behaviour, or a failed assertion, may end the process.
Abort ==
    /\ ~terminated /\ (race # {} \/ overlap # {})
    /\ terminated' = TRUE
    /\ UNCHANGED <<listenerVars, readVars, stream, ready, pending, serverVars, writeVars,
                   race, overlap, history>>

-----------------------------------------------------------------------------
IoHandler(c) ==
    \/ SessionOnAccept(c)
    \/ OnReadError(c) \/ OnReadEmpty(c) \/ OnReadRequest(c) \/ DoRead(c) \/ OnReadThrows(c)
    \/ OnReadEof(c) \/ OnReadClose(c) \/ OnReadResume(c) \/ OnReadClosed(c)
    \/ WriteCompletes(c) \/ WriteFails(c) \/ OnWrite(c)
IoStep == OnAccept \/ OnAcceptError \/ \E c \in Connections : IoHandler(c)
Reactor(c) ==
    HandshakeArrives(c) \/ MessageArrives(c) \/ Transmit(c) \/ WriteBreaks(c) \/ CloseSent(c)
ServerStep ==
    Lookup \/ Copy \/ AsyncWrite \/ PostCompletion \/ AsyncWriteFails \/ AsyncWriteParks

Next ==
    \/ ClientConnects
    \/ \E c \in Connections : \E kind \in Kinds[c] : ClientSends(c, kind)
    \/ \E c \in Connections : Reactor(c)
    \/ IoStep
    \/ Answer \/ Drop
    \/ ServerStep
    \/ Abort

Spec == Init /\ [][Next]_vars

\* The io thread runs the handlers in its queue and polls the sockets that it reads.
\* Nothing obliges a client to send, to receive or to close, and the server thread to run.
FairSpec ==
    /\ Spec
    /\ WF_vars(IoStep)
    /\ \A c \in Connections : WF_vars(MessageArrives(c))

-----------------------------------------------------------------------------
(* Properties. *)

Statuses == {"none", "handshake", "failed", "open", "closing", "closed"}

\* The type invariant: write_buffer, pending and the histories hold requests,
\* the map holds sessions, and the dispatcher stays within its slots.
TypeOK ==
    /\ attempts \in 0 .. MaxConnections /\ accepted \in 0 .. MaxConnections
    /\ next_client_id \in ClientIds
    /\ sessions \in [ClientIds -> Connections \cup {NoSession}]
    /\ id \in [Connections -> ClientIds]
    /\ stream \in [Connections -> Statuses]
    /\ reading \in [Connections -> BOOLEAN]
    /\ inbox \in [Connections -> Seq(Message)]
    /\ messages \in [Connections -> Nat]
    /\ gone \subseteq Connections
    /\ io \in Connections \cup {NoSession}
    /\ ready \in Seq([type : EventTypes, conn : Connections \cup {0}])
    /\ pending \in Seq(Tagged) /\ Len(pending) <= Slots
    /\ pc \in {"idle", "lookup", "copy", "write", "post"}
    /\ current \in Tagged \cup {NoSession}
    /\ target \in Connections \cup {NoSession}
    /\ write_buffer \in [Connections -> Seq(Message)]
    /\ wr_block \in [Connections -> {"none", "write", "read"}]
    /\ paused_rd \subseteq Connections /\ paused_wr \subseteq Connections
    /\ data \in [Connections -> Seq(Message)]
    /\ outbox \in [Connections -> Seq(Seq(Message))]
    /\ terminated \in BOOLEAN
    /\ race \subseteq Objects
    /\ overlap \subseteq Connections /\ crossed \subseteq Connections
    /\ answered \in [Connections -> Seq(Message)]

\* A response goes to a session with the client id of its request, whatever the other
\* clients, the handlers and the sender do in between; and while next_client_id has not
\* come round, that is the client that asked (Listener::OnAccept, Listener::Send).
Routed ==
    \A c \in Connections :
        \A i \in DOMAIN outbox[c] :
            \A j \in DOMAIN outbox[c][i] :
                /\ id[outbox[c][i][j].conn] = id[c]
                /\ accepted <= IdModulus => outbox[c][i][j].conn = c

\* As long as every Send comes after the OnWrite of the one before, and next_client_id has
\* not come round to a session whose handshake is not over, a client receives each
\* response once, in the order of Send, one to a message (Session::Send, OnWrite).
Intact ==
    accepted <= IdModulus =>
        \A c \in Connections \ crossed :
            /\ Len(outbox[c]) <= Len(answered[c])
            /\ \A i \in DOMAIN outbox[c] : outbox[c][i] = <<answered[c][i]>>

\* Two writes of a session at once, and two threads in its write_buffer, are only met after
\* a Send to it that did not wait for the OnWrite before; two threads in the map, only when
\* a second client connects.  Without undefined behaviour only a text that is rejected ends
\* the process (Session::Send, OnWrite, OnRead, Listener::OnAccept).  Of the stream there
\* is nothing to say: the first response to a client that waits for it can meet the DoRead
\* of its own request.
UndefinedHasCause ==
    /\ overlap \subseteq crossed
    /\ \A c \in Connections : <<"write_buffer", c>> \in race => c \in crossed
    /\ <<"sessions", NoSession>> \in race => accepted > 1
    /\ terminated => race # {} \/ overlap # {} \/ \E c \in Connections : Rejected(c)

\* The requests of a client are answered at most once and in the order in which it sent
\* them, from its socket through OnRead and pending to Session::Send.
AnsweredInOrder ==
    \A c \in Connections :
        \A i, j \in DOMAIN answered[c] :
            i < j /\ answered[c][i].conn = answered[c][j].conn
                => answered[c][i].num < answered[c][j].num

\* Whatever the clients send is read in the end, although other connections fail over and
\* over again: OnRead always starts the next read, and a failed read goes to the end of the
\* io thread's queue.  Only what a client left behind when it went can stay unread, after
\* a read or a write to it has failed.
ReadEventually ==
    <>[](terminated \/ \A c \in Connections :
            inbox[c] = <<>> \/ (c \in gone /\ stream[c] = "failed"))

\* What the stream demands of its user (stream_base.hpp:99-105, an assertion): an
\* async_write starts only after the last one has completed.
OneWriteAtATime == overlap = {}
=============================================================================
