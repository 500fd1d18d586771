--------------------------- MODULE RpcServerProofs ---------------------------
(***************************************************************************)
(* Theorems about RpcServer: types, and the routing of responses, for any  *)
(* number of clients, any number of slots and any traffic.                 *)
(***************************************************************************)
EXTENDS RpcServer, SequenceTheorems, TLAPS

\* The type invariant is inductive with this: Send has a request, and a session once it has
\* looked it up.
SendTyped ==
    /\ pc # "idle" => current \in Tagged
    /\ pc \in {"copy", "write", "post"} => target \in Connections

TypeInv == TypeOK /\ SendTyped

\* The handlers that can wait for the io thread.
Events == [type : EventTypes, conn : Connections \cup {0}]

\* Request r came from a session that has client id k.
Known(r, k) == r.conn < accepted /\ id[r.conn] = k

\* Everything in sequence s answers requests with the client id of session c.
Belongs(c, s) == \A i \in DOMAIN s : c < accepted /\ Known(s[i], id[c])

\* Until next_client_id comes round, the sessions' ids are their numbers.
IdsInv ==
    /\ accepted < IdModulus => next_client_id = accepted
    /\ accepted <= IdModulus => \A c \in Connections : c < accepted => id[c] = c

\* The map leads from an id to a session with that id.
MapInv ==
    \A k \in ClientIds :
        sessions[k] # NoSession => sessions[k] < accepted /\ id[sessions[k]] = k

\* A connection carries its own messages, and none before it was accepted.
InboxInv ==
    /\ \A c \in Connections : stream[c] \in {"handshake", "open"} => c < accepted
    /\ \A c \in Connections : \A i \in DOMAIN inbox[c] : inbox[c][i].conn = c /\ c < accepted

\* A queued request carries the id of the session that read it.
QueueInv == \A i \in DOMAIN pending : Known(pending[i].req, pending[i].client)

\* Send has a request with a known client, and once it has looked it up a session with its id.
SendInv ==
    /\ pc \in {"lookup", "copy"} => Known(current.req, current.client)
    /\ pc = "copy" => target < accepted /\ id[target] = current.client

\* So do the buffer, the write in progress and what the client has received.
BufferInv ==
    \A c \in Connections :
        /\ Belongs(c, write_buffer[c])
        /\ Belongs(c, data[c])
        /\ \A i \in DOMAIN outbox[c] : Belongs(c, outbox[c][i])

RoutedInv == IdsInv /\ MapInv /\ InboxInv /\ QueueInv /\ SendInv /\ BufferInv

-----------------------------------------------------------------------------
(* Types. *)

\* The parts of the type invariant that only a few actions touch.
LEMMA TypeInit == Init => TypeInv
<1> SUFFICES ASSUME Init PROVE TypeInv
  OBVIOUS
<1>1. 0 \in ClientIds
  BY RpcServerAssumption DEF ClientIds
<1>2. /\ sessions \in [ClientIds -> Connections \cup {NoSession}]
      /\ id \in [Connections -> ClientIds]
      /\ stream \in [Connections -> Statuses]
      /\ reading \in [Connections -> BOOLEAN]
      /\ wr_block \in [Connections -> {"none", "write", "read"}]
      /\ messages \in [Connections -> Nat]
  BY <1>1 DEF Init, Statuses
<1>3. /\ inbox \in [Connections -> Seq(Message)]
      /\ write_buffer \in [Connections -> Seq(Message)]
      /\ data \in [Connections -> Seq(Message)]
      /\ outbox \in [Connections -> Seq(Seq(Message))]
      /\ answered \in [Connections -> Seq(Message)]
  BY DEF Init
<1>4. /\ ready \in Seq(Events)
      /\ pending \in Seq(Tagged) /\ Len(pending) <= Slots
      /\ attempts \in 0 .. MaxConnections /\ accepted \in 0 .. MaxConnections
  BY RpcServerAssumption DEF Init, Dispatch!Init
<1>5. /\ next_client_id \in ClientIds
      /\ gone \subseteq Connections
      /\ pc = "idle" /\ current = NoSession /\ target = NoSession
      /\ terminated \in BOOLEAN /\ race \subseteq Objects
      /\ overlap \subseteq Connections /\ crossed \subseteq Connections
      /\ paused_rd \subseteq Connections /\ paused_wr \subseteq Connections
      /\ io \in Connections \cup {NoSession}
  BY <1>1 DEF Init, Dispatch!Init
<1> QED
  BY <1>2, <1>3, <1>4, <1>5 DEF TypeInv, TypeOK, SendTyped, Events

\* next_client_id stays a u32 and counts by one until it comes round.
LEMMA NextClientIdRange ==
    ASSUME NEW n \in ClientIds
    PROVE  /\ NextClientId(n) \in ClientIds
           /\ n + 1 < IdModulus => NextClientId(n) = n + 1
<1>1. IdModulus \in Nat /\ IdModulus > 0 /\ n \in 0 .. IdModulus - 1
  BY RpcServerAssumption DEF ClientIds
<1>2. (n + 1) % IdModulus \in 0 .. IdModulus - 1
  BY <1>1
<1>3. n + 1 < IdModulus => (n + 1) % IdModulus = n + 1
  BY <1>1
<1> QED
  BY <1>2, <1>3 DEF NextClientId, ClientIds

\* Losing a request leaves a sequence of the others, in order.
LEMMA WithoutElements ==
    ASSUME NEW S, NEW s \in Seq(S), NEW i \in 1 .. Len(s)
    PROVE  /\ Dispatch!Without(s, i) \in Seq(S)
           /\ Len(Dispatch!Without(s, i)) = Len(s) - 1
           /\ \A k \in DOMAIN Dispatch!Without(s, i) :
                 \E j \in DOMAIN s : Dispatch!Without(s, i)[k] = s[j]
<1> DEFINE w == [k \in 1 .. Len(s) - 1 |-> IF k < i THEN s[k] ELSE s[k + 1]]
<1>1. Dispatch!Without(s, i) = w
  BY DEF Dispatch!Without
<1>2. Len(s) \in Nat /\ Len(s) >= 1 /\ DOMAIN s = 1 .. Len(s)
  OBVIOUS
<1>3. ASSUME NEW k \in 1 .. Len(s) - 1
      PROVE  w[k] \in S /\ \E j \in DOMAIN s : w[k] = s[j]
  <2>1. CASE k < i
    BY <1>2, <1>3, <2>1
  <2>2. CASE ~(k < i)
    BY <1>2, <1>3, <2>2
  <2> QED BY <2>1, <2>2
<1>4. w \in [1 .. Len(s) - 1 -> S]
  BY <1>3
<1>5. w \in Seq(S) /\ Len(w) = Len(s) - 1 /\ DOMAIN w = 1 .. Len(s) - 1
  BY <1>2, <1>4
<1> QED
  BY <1>1, <1>3, <1>5

\* What the actions do to the queue of handlers keeps it one.
LEMMA EventSequences ==
    ASSUME NEW q \in Seq(Events), NEW type \in EventTypes, NEW c \in Connections \cup {0}
    PROVE  /\ Append(q, Event(type, c)) \in Seq(Events)
           /\ <<Event(type, c)>> \o q \in Seq(Events)
           /\ q # <<>> => Tail(q) \in Seq(Events)
<1>1. Event(type, c) \in Events
  BY DEF Event, Events
<1> QED
  BY <1>1

\* The queue that a handler leaves: it is gone, and a read of a stream that is not open is
\* queued again.
LEMMA HandlerQueues ==
    ASSUME TypeInv, NEW c \in Connections, ready # <<>>, NEW state
    PROVE  /\ Tail(ready) \in Seq(Events)
           /\ DoReadQueue(c, state, Tail(ready)) \in Seq(Events)
           /\ DoReadQueue(c, state, ready) \in Seq(Events)
           /\ ReadReleases(c) => ready' \in Seq(Events)
           /\ WriteReleases(c) => ready' \in Seq(Events)
<1>1. ready \in Seq(Events) /\ {"read", "sent", "written", "resume"} \subseteq EventTypes
  BY DEF TypeInv, TypeOK, Events, EventTypes
<1>2. Tail(ready) \in Seq(Events)
  BY <1>1, EventSequences
<1>3. ReadReleases(c) => ready' \in Seq(Events)
  BY <1>1, <1>2, EventSequences DEF ReadReleases
<1>4. WriteReleases(c) => ready' \in Seq(Events)
  BY <1>1, <1>2, EventSequences DEF WriteReleases
<1> QED
  BY <1>1, <1>2, <1>3, <1>4, EventSequences DEF DoReadQueue

\* A step of the reactor or of a client only adds a handler.
LEMMA ArrivalTyped ==
    ASSUME TypeInv, NEW c \in Connections \cup {0}, NEW type \in EventTypes,
           ready' = Append(ready, Event(type, c)),
           UNCHANGED <<listenerVars, readVars, stream, pending, serverVars, writeVars, flags, history>>
    PROVE  TypeInv'
<1>1. ready' \in Seq(Events)
  BY EventSequences DEF TypeInv, TypeOK, Events
<1> QED
  BY <1>1 DEF Events, TypeInv, TypeOK, SendTyped, listenerVars, readVars, serverVars, writeVars, blockVars, flags, history

\* The objects that the actions record are objects.
LEMMA ObjectsKnown ==
    /\ <<"sessions", NoSession>> \in Objects /\ <<"stream", NoSession>> \in Objects
    /\ \A c \in Connections : <<"write_buffer", c>> \in Objects
BY DEF Objects

\* A handler of a session leaves alone what belongs to the listener and to the server thread.
LEMMA HandlerTyped ==
    ASSUME TypeInv, NEW c \in Connections,
           UNCHANGED <<listenerVars, messages, gone, pending, serverVars, write_buffer, data, outbox,
                       overlap, history>>,
           UsesStream(c), terminated' \in BOOLEAN,
           stream' \in [Connections -> Statuses],
           reading' \in [Connections -> BOOLEAN],
           inbox' \in [Connections -> Seq(Message)],
           io' \in Connections \cup {NoSession},
           ready' \in Seq(Events),
           wr_block' \in [Connections -> {"none", "write", "read"}],
           paused_rd' \subseteq Connections, paused_wr' \subseteq Connections
    PROVE  TypeInv'
<1>1. race' \subseteq Objects
  <2>1. race \subseteq Objects
    BY DEF TypeInv, TypeOK
  <2> QED
    BY <2>1, ObjectsKnown DEF UsesStream
<1> QED
  BY <1>1 DEF Events, TypeInv, TypeOK, SendTyped, listenerVars, serverVars, history

\* Every step keeps the types: indices of the map and of the sessions stay in range.
LEMMA TypeStep ==
    ASSUME TypeInv, [Next]_vars
    PROVE  TypeInv'
<1> USE RpcServerAssumption
<1>t. /\ EventTypes = {"accept", "handshake", "read", "resume", "closed", "sent", "broken", "written"}
      /\ ready \in Seq(Events)
  BY DEF TypeInv, TypeOK, Events, EventTypes
<1>1. CASE ClientConnects
  <2>1. ready' \in Seq(Events)
    BY <1>1, <1>t, EventSequences DEF ClientConnects
  <2> QED
    <3>1. attempts' \in 0 .. MaxConnections
      BY <1>1 DEF ClientConnects, TypeInv, TypeOK
    <3> QED
      BY <1>1, <2>1, <3>1 DEF ClientConnects, Events, TypeInv, TypeOK, SendTyped, listenerVars, readVars, serverVars, writeVars, blockVars, flags, history
<1>2. ASSUME NEW c \in Connections, HandshakeArrives(c)
      PROVE  TypeInv'
  BY <1>2, <1>t, ArrivalTyped DEF HandshakeArrives
<1>3. ASSUME NEW c \in Connections, MessageArrives(c)
      PROVE  TypeInv'
  BY <1>3, <1>t, ArrivalTyped DEF MessageArrives
<1>3b. ASSUME NEW c \in Connections, WriteBreaks(c)
      PROVE  TypeInv'
  BY <1>3b, <1>t, ArrivalTyped DEF WriteBreaks
<1>3c. ASSUME NEW c \in Connections, CloseSent(c)
      PROVE  TypeInv'
  BY <1>3c, <1>t, ArrivalTyped DEF CloseSent
<1>4. ASSUME NEW c \in Connections, Transmit(c)
      PROVE  TypeInv'
  <2>1. ready' \in Seq(Events)
    BY <1>4, <1>t, EventSequences DEF Transmit
  <2>2. outbox' \in [Connections -> Seq(Seq(Message))]
    BY <1>4 DEF Transmit, TypeInv, TypeOK
  <2> QED
    BY <1>4, <2>1, <2>2 DEF Transmit, Events, TypeInv, TypeOK, SendTyped, listenerVars, readVars, serverVars, writeVars, blockVars, flags, history
<1>5. ASSUME NEW c \in Connections, NEW kind \in Kinds[c], ClientSends(c, kind)
      PROVE  TypeInv'
  <2> DEFINE m == [conn |-> c, num |-> messages[c] + 1, kind |-> kind]
  <2>a. messages' \in [Connections -> Nat] /\ m \in Message
    BY <1>5 DEF ClientSends, Message, TypeInv, TypeOK
  <2>b. inbox' = [inbox EXCEPT ![c] = Append(@, m)]
    BY <1>5 DEF ClientSends
  <2> HIDE DEF m
  <2>1. inbox' \in [Connections -> Seq(Message)] /\ messages' \in [Connections -> Nat]
    BY <2>a, <2>b DEF TypeInv, TypeOK
  <2>2. gone' \subseteq Connections
    BY <1>5 DEF ClientSends, TypeInv, TypeOK
  <2> QED
    BY <1>5, <2>1, <2>2 DEF ClientSends, TypeInv, TypeOK, SendTyped, listenerVars, readVars, serverVars, writeVars, blockVars, flags, history
<1>6. CASE OnAccept
  <2>1. next_client_id' \in ClientIds
    BY <1>6, NextClientIdRange DEF OnAccept, TypeInv, TypeOK
  <2>2. /\ sessions' \in [ClientIds -> Connections \cup {NoSession}]
        /\ id' \in [Connections -> ClientIds]
        /\ stream' \in [Connections -> Statuses]
    BY <1>6 DEF OnAccept, Statuses, TypeInv, TypeOK
  <2>3. accepted' \in 0 .. MaxConnections
    BY <1>6 DEF OnAccept, TypeInv, TypeOK, Connections
  <2>4. ready' \in Seq(Events)
    BY <1>6, <1>t DEF OnAccept, Runs
  <2>5. race' \subseteq Objects
    BY <1>6 DEF OnAccept, Objects, TypeInv, TypeOK
  <2> QED
    BY <1>6, <2>1, <2>2, <2>3, <2>4, <2>5 DEF OnAccept, Events, TypeInv, TypeOK, SendTyped, listenerVars, readVars, serverVars, writeVars, blockVars, flags, history
<1>7. CASE OnAcceptError
  <2>1. ready' \in Seq(Events)
    <3>1. Tail(ready) \in Seq(Events) /\ "accept" \in EventTypes
      BY <1>7, <1>t DEF OnAcceptError, Runs
    <3>2. Append(Tail(ready), Event("accept", 0)) \in Seq(Events)
      BY <3>1, EventSequences
    <3> QED
      BY <1>7, <3>1, <3>2 DEF OnAcceptError
  <2> QED
    BY <1>7, <2>1 DEF OnAcceptError, Events, TypeInv, TypeOK, SendTyped, listenerVars, readVars, serverVars, writeVars, blockVars, flags, history
<1>8. ASSUME NEW c \in Connections, SessionOnAccept(c)
      PROVE  TypeInv'
  <2>1. ready' \in Seq(Events)
    BY <1>8, HandlerQueues DEF SessionOnAccept, Runs
  <2>2. /\ stream' \in [Connections -> Statuses]
        /\ reading' \in [Connections -> BOOLEAN]
        /\ inbox' \in [Connections -> Seq(Message)]
        /\ io' \in Connections \cup {NoSession}
        /\ wr_block' \in [Connections -> {"none", "write", "read"}]
        /\ paused_rd' \subseteq Connections /\ paused_wr' \subseteq Connections
    BY <1>8 DEF SessionOnAccept, Statuses, TypeInv, TypeOK, readVars, writeVars, blockVars
  <2> QED
    BY <1>8, <2>1, <2>2, HandlerTyped DEF SessionOnAccept, TypeInv, TypeOK, readVars, writeVars, blockVars
<1>9. ASSUME NEW c \in Connections, OnReadError(c)
      PROVE  TypeInv'
  <2>1. ready' \in Seq(Events)
    BY <1>9, HandlerQueues DEF OnReadError, Runs
  <2>2. /\ stream' \in [Connections -> Statuses]
        /\ reading' \in [Connections -> BOOLEAN]
        /\ inbox' \in [Connections -> Seq(Message)]
        /\ io' \in Connections \cup {NoSession}
        /\ wr_block' \in [Connections -> {"none", "write", "read"}]
        /\ paused_rd' \subseteq Connections /\ paused_wr' \subseteq Connections
    BY <1>9 DEF OnReadError, Statuses, TypeInv, TypeOK, readVars, writeVars, blockVars
  <2> QED
    BY <1>9, <2>1, <2>2, HandlerTyped DEF OnReadError, TypeInv, TypeOK, readVars, writeVars, blockVars
<1>10. ASSUME NEW c \in Connections, OnReadEmpty(c)
      PROVE  TypeInv'
  <2>1. ready' \in Seq(Events)
    BY <1>10, HandlerQueues DEF OnReadEmpty, Runs, HasRead
  <2>2. /\ stream' \in [Connections -> Statuses]
        /\ reading' \in [Connections -> BOOLEAN]
        /\ inbox' \in [Connections -> Seq(Message)]
        /\ io' \in Connections \cup {NoSession}
        /\ wr_block' \in [Connections -> {"none", "write", "read"}]
        /\ paused_rd' \subseteq Connections /\ paused_wr' \subseteq Connections
    BY <1>10 DEF OnReadEmpty, Statuses, TypeInv, TypeOK, readVars, writeVars, blockVars, HasRead, Runs
  <2> QED
    BY <1>10, <2>1, <2>2, HandlerTyped DEF OnReadEmpty, TypeInv, TypeOK, readVars, writeVars, blockVars
<1>10a. ASSUME NEW c \in Connections, OnReadEof(c)
      PROVE  TypeInv'
  <2>1. ready' \in Seq(Events)
    BY <1>10a, HandlerQueues DEF OnReadEof, Runs, HasRead
  <2>2. /\ stream' \in [Connections -> Statuses]
        /\ reading' \in [Connections -> BOOLEAN]
        /\ inbox' \in [Connections -> Seq(Message)]
        /\ io' \in Connections \cup {NoSession}
        /\ wr_block' \in [Connections -> {"none", "write", "read"}]
        /\ paused_rd' \subseteq Connections /\ paused_wr' \subseteq Connections
    BY <1>10a DEF OnReadEof, Statuses, TypeInv, TypeOK, readVars, writeVars, blockVars, HasRead, Runs
  <2> QED
    BY <1>10a, <2>1, <2>2, HandlerTyped DEF OnReadEof, TypeInv, TypeOK, readVars, writeVars, blockVars
<1>10b. ASSUME NEW c \in Connections, OnReadClose(c)
      PROVE  TypeInv'
  <2>1. ready' \in Seq(Events)
    BY <1>10b, HandlerQueues DEF OnReadClose, Runs, HasRead
  <2>2. /\ stream' \in [Connections -> Statuses]
        /\ reading' \in [Connections -> BOOLEAN]
        /\ inbox' \in [Connections -> Seq(Message)]
        /\ io' \in Connections \cup {NoSession}
        /\ wr_block' \in [Connections -> {"none", "write", "read"}]
        /\ paused_rd' \subseteq Connections /\ paused_wr' \subseteq Connections
    <3>1. stream' \in [Connections -> Statuses]
      BY <1>10b DEF OnReadClose, Statuses, TypeInv, TypeOK
    <3>2. wr_block' \in [Connections -> {"none", "write", "read"}]
      BY <1>10b DEF OnReadClose, ReadReleases, TypeInv, TypeOK
    <3>3. paused_rd' \subseteq Connections /\ paused_wr' \subseteq Connections
      BY <1>10b DEF OnReadClose, ReadReleases, TypeInv, TypeOK
    <3>4. /\ reading' \in [Connections -> BOOLEAN]
          /\ inbox' \in [Connections -> Seq(Message)]
          /\ io' \in Connections \cup {NoSession}
      BY <1>10b DEF OnReadClose, HasRead, TypeInv, TypeOK, readVars
    <3> QED
      BY <3>1, <3>2, <3>3, <3>4
  <2> QED
    BY <1>10b, <2>1, <2>2, HandlerTyped DEF OnReadClose, TypeInv, TypeOK, readVars, writeVars, blockVars
<1>10c. ASSUME NEW c \in Connections, OnReadResume(c)
      PROVE  TypeInv'
  <2>1. ready' \in Seq(Events)
    BY <1>10c, HandlerQueues DEF OnReadResume, Runs
  <2>2. /\ stream' \in [Connections -> Statuses]
        /\ reading' \in [Connections -> BOOLEAN]
        /\ inbox' \in [Connections -> Seq(Message)]
        /\ io' \in Connections \cup {NoSession}
        /\ wr_block' \in [Connections -> {"none", "write", "read"}]
        /\ paused_rd' \subseteq Connections /\ paused_wr' \subseteq Connections
    <3>1. stream' \in [Connections -> Statuses]
      BY <1>10c DEF OnReadResume, Statuses, TypeInv, TypeOK
    <3>2. wr_block' \in [Connections -> {"none", "write", "read"}]
      BY <1>10c DEF OnReadResume, ReadReleases, TypeInv, TypeOK
    <3>3. paused_rd' \subseteq Connections /\ paused_wr' \subseteq Connections
      BY <1>10c DEF OnReadResume, ReadReleases, TypeInv, TypeOK
    <3>4. /\ reading' \in [Connections -> BOOLEAN]
          /\ inbox' \in [Connections -> Seq(Message)]
          /\ io' \in Connections \cup {NoSession}
      BY <1>10c DEF OnReadResume, HasRead, TypeInv, TypeOK, readVars
    <3> QED
      BY <3>1, <3>2, <3>3, <3>4
  <2> QED
    BY <1>10c, <2>1, <2>2, HandlerTyped DEF OnReadResume, TypeInv, TypeOK, readVars, writeVars, blockVars
<1>10d. ASSUME NEW c \in Connections, OnReadClosed(c)
      PROVE  TypeInv'
  <2>1. ready' \in Seq(Events)
    BY <1>10d, HandlerQueues DEF OnReadClosed, Runs
  <2>2. /\ stream' \in [Connections -> Statuses]
        /\ reading' \in [Connections -> BOOLEAN]
        /\ inbox' \in [Connections -> Seq(Message)]
        /\ io' \in Connections \cup {NoSession}
        /\ wr_block' \in [Connections -> {"none", "write", "read"}]
        /\ paused_rd' \subseteq Connections /\ paused_wr' \subseteq Connections
    BY <1>10d DEF OnReadClosed, Statuses, TypeInv, TypeOK, readVars, writeVars, blockVars, ReadReleases
  <2> QED
    BY <1>10d, <2>1, <2>2, HandlerTyped DEF OnReadClosed, TypeInv, TypeOK, readVars, writeVars, blockVars
<1>11. ASSUME NEW c \in Connections, OnReadRequest(c)
      PROVE  TypeInv'
  <2>1. /\ Head(inbox[c]) \in Message
        /\ inbox' \in [Connections -> Seq(Message)]
        /\ reading' \in [Connections -> BOOLEAN]
        /\ stream' \in [Connections -> Statuses]
    BY <1>11 DEF OnReadRequest, HasRead, Statuses, TypeInv, TypeOK
  <2>2. [client |-> id[c], req |-> Head(inbox[c])] \in Tagged
    BY <2>1 DEF Tagged, TypeInv, TypeOK
  <2>3. pending' \in Seq(Tagged) /\ Len(pending') <= Slots
    <3> DEFINE e == [client |-> id[c], req |-> Head(inbox[c])]
    <3>1. \/ Len(pending) < Slots /\ pending' = Append(pending, e)
          \/ pending' = pending
      BY <1>11 DEF OnReadRequest, Dispatch!Accept, Dispatch!Refuse, Dispatch!Room, Dispatch!Appended
    <3>2. pending \in Seq(Tagged) /\ Len(pending) <= Slots /\ e \in Tagged
      BY <2>2 DEF TypeInv, TypeOK
    <3> HIDE DEF e
    <3> QED
      BY <3>1, <3>2
  <2>4. ready' \in Seq(Events)
    BY <1>11, HandlerQueues DEF OnReadRequest, HasRead, Runs
  <2>5. current' = current /\ io' = c
    BY <1>11 DEF OnReadRequest, Dispatch!Accept, Dispatch!Refuse
  <2>6. race' \subseteq Objects
    BY <1>11 DEF OnReadRequest, UsesStream, Objects, TypeInv, TypeOK
  <2> QED
    BY <1>11, <2>1, <2>3, <2>4, <2>5, <2>6 DEF OnReadRequest, Events, TypeInv, TypeOK, SendTyped, listenerVars, readVars, serverVars, writeVars, blockVars, flags, history
<1>11b. ASSUME NEW c \in Connections, DoRead(c)
      PROVE  TypeInv'
  <2>1. ready' \in Seq(Events)
    BY <1>11b, <1>t, EventSequences DEF DoRead, DoReadQueue
  <2>2. reading' \in [Connections -> BOOLEAN]
    BY <1>11b DEF DoRead, TypeInv, TypeOK
  <2> QED
    BY <1>11b, <2>1, <2>2, HandlerTyped DEF DoRead, TypeInv, TypeOK, writeVars, blockVars
<1>12. ASSUME NEW c \in Connections, OnReadThrows(c)
      PROVE  TypeInv'
  BY <1>12, <1>t, HandlerTyped DEF OnReadThrows, TypeInv, TypeOK, readVars, writeVars, blockVars
<1>13. ASSUME NEW c \in Connections, WriteCompletes(c)
      PROVE  TypeInv'
  <2>1. ready' \in Seq(Events)
    BY <1>13, HandlerQueues DEF WriteCompletes, Runs
  <2>2. /\ stream' \in [Connections -> Statuses]
        /\ reading' \in [Connections -> BOOLEAN]
        /\ inbox' \in [Connections -> Seq(Message)]
        /\ io' \in Connections \cup {NoSession}
        /\ wr_block' \in [Connections -> {"none", "write", "read"}]
        /\ paused_rd' \subseteq Connections /\ paused_wr' \subseteq Connections
    BY <1>13 DEF WriteCompletes, Statuses, TypeInv, TypeOK, readVars, writeVars, blockVars, WriteReleases
  <2> QED
    BY <1>13, <2>1, <2>2, HandlerTyped DEF WriteCompletes, TypeInv, TypeOK, readVars, writeVars, blockVars
<1>13b. ASSUME NEW c \in Connections, WriteFails(c)
      PROVE  TypeInv'
  <2>1. ready' \in Seq(Events)
    BY <1>13b, HandlerQueues DEF WriteFails, Runs
  <2>2. /\ stream' \in [Connections -> Statuses]
        /\ reading' \in [Connections -> BOOLEAN]
        /\ inbox' \in [Connections -> Seq(Message)]
        /\ io' \in Connections \cup {NoSession}
        /\ wr_block' \in [Connections -> {"none", "write", "read"}]
        /\ paused_rd' \subseteq Connections /\ paused_wr' \subseteq Connections
    BY <1>13b DEF WriteFails, Statuses, TypeInv, TypeOK, readVars, writeVars, blockVars, WriteReleases
  <2> QED
    BY <1>13b, <2>1, <2>2, HandlerTyped DEF WriteFails, TypeInv, TypeOK, readVars, writeVars, blockVars
<1>14. ASSUME NEW c \in Connections, OnWrite(c)
      PROVE  TypeInv'
  <2>1. ready' \in Seq(Events) /\ race' \subseteq Objects
    <3>1. race \subseteq Objects
      BY DEF TypeInv, TypeOK
    <3>2. race' \subseteq Objects
      BY <1>14, <3>1, ObjectsKnown DEF OnWrite
    <3> QED
      BY <1>14, <3>2, HandlerQueues DEF OnWrite, Runs
  <2>2. write_buffer' \in [Connections -> Seq(Message)]
    BY <1>14 DEF OnWrite, Consumed, TypeInv, TypeOK
  <2> QED
    BY <1>14, <2>1, <2>2 DEF OnWrite, Events, TypeInv, TypeOK, SendTyped, listenerVars, readVars, serverVars, writeVars, blockVars, flags, history
<1>15. CASE Answer
  <2>1. /\ pending' \in Seq(Tagged) /\ Len(pending') <= Slots
        /\ current' \in Tagged
    BY <1>15 DEF Answer, Dispatch!Deliver, TypeInv, TypeOK
  <2> QED
    BY <1>15, <2>1 DEF Answer, TypeInv, TypeOK, SendTyped, listenerVars, readVars, serverVars, writeVars, blockVars, flags, history
<1>16. CASE Drop
  <2>1. pending' \in Seq(Tagged) /\ Len(pending') <= Slots /\ current' = current
    <3>1. PICK i \in 1 .. Len(pending) : pending' = Dispatch!Without(pending, i)
      BY <1>16 DEF Drop, Dispatch!Lose
    <3>2. pending \in Seq(Tagged) /\ Len(pending) <= Slots
      BY DEF TypeInv, TypeOK
    <3> QED
      BY <1>16, <3>1, <3>2, WithoutElements DEF Drop, Dispatch!Lose
  <2> QED
    BY <1>16, <2>1 DEF Drop, TypeInv, TypeOK, SendTyped, listenerVars, readVars, serverVars, writeVars, blockVars, flags, history
<1>17. CASE Lookup
  <2>1. /\ target' \in Connections \cup {NoSession}
        /\ pc' # "idle" => target' \in Connections
        /\ pc' \in {"idle", "copy"}
        /\ crossed' \subseteq Connections
        /\ pc # "idle" /\ UNCHANGED current
    <3>1. sessions[current.client] \in Connections \cup {NoSession}
      BY <1>17 DEF Lookup, Tagged, TypeInv, TypeOK, SendTyped
    <3>2. crossed \subseteq Connections
      BY DEF TypeInv, TypeOK
    <3> QED
      BY <1>17, <3>1, <3>2 DEF Lookup
  <2> QED
    BY <1>17, <2>1 DEF Lookup, TypeInv, TypeOK, SendTyped, listenerVars, readVars, serverVars, writeVars, blockVars, flags, history
<1>18. CASE Copy
  <2>1. target \in Connections /\ current.req \in Message
    BY <1>18 DEF Copy, TypeInv, SendTyped, Tagged
  <2>2. /\ write_buffer' \in [Connections -> Seq(Message)]
        /\ answered' \in [Connections -> Seq(Message)]
    BY <1>18, <2>1 DEF Copy, TypeInv, TypeOK
  <2> QED
    BY <1>18, <2>1, <2>2 DEF Copy, TypeInv, TypeOK, SendTyped, listenerVars, readVars, serverVars, writeVars, blockVars, flags, history
<1>19. CASE AsyncWrite
  <2>1. target \in Connections
    BY <1>19 DEF AsyncWrite, TypeInv, SendTyped
  <2>2. /\ wr_block' \in [Connections -> {"none", "write", "read"}]
        /\ data' \in [Connections -> Seq(Message)]
    BY <1>19, <2>1 DEF AsyncWrite, TypeInv, TypeOK
  <2>3. outbox' \in [Connections -> Seq(Seq(Message))]
    <3>1. /\ outbox \in [Connections -> Seq(Seq(Message))]
          /\ write_buffer[target] \in Seq(Message)
      BY <2>1 DEF TypeInv, TypeOK
    <3>2. Append(outbox[target], write_buffer[target]) \in Seq(Seq(Message))
      BY <2>1, <3>1
    <3>3. \/ outbox' = outbox
          \/ outbox' = [outbox EXCEPT ![target] = Append(outbox[target], write_buffer[target])]
      BY <1>19 DEF AsyncWrite
    <3> QED
      BY <2>1, <3>1, <3>2, <3>3
  <2>4. pc' \in {"idle", "lookup", "copy", "write", "post"}
    BY <1>19 DEF AsyncWrite
  <2> QED
    BY <1>19, <2>1, <2>2, <2>3, <2>4 DEF AsyncWrite, TypeInv, TypeOK, SendTyped, listenerVars, readVars, serverVars, writeVars, blockVars, flags, history
<1>20. CASE PostCompletion
  <2>1. ready' \in Seq(Events)
    BY <1>20, <1>t, EventSequences DEF PostCompletion, TypeInv, SendTyped
  <2> QED
    BY <1>20, <2>1 DEF PostCompletion, Events, TypeInv, TypeOK, SendTyped, listenerVars, readVars, serverVars, writeVars, blockVars, flags, history
<1>21. CASE AsyncWriteFails
  <2>1. ready' \in Seq(Events)
    BY <1>21, <1>t, EventSequences DEF AsyncWriteFails, TypeInv, SendTyped
  <2> QED
    BY <1>21, <2>1 DEF AsyncWriteFails, Events, TypeInv, TypeOK, SendTyped, listenerVars, readVars, serverVars, writeVars, blockVars, flags, history
<1>22. CASE AsyncWriteParks
  BY <1>22 DEF AsyncWriteParks, TypeInv, TypeOK, SendTyped, listenerVars, readVars, serverVars, writeVars, blockVars, flags, history
<1>23. CASE Abort
  BY <1>23 DEF Abort, TypeInv, TypeOK, SendTyped, listenerVars, readVars, serverVars, writeVars, blockVars, flags, history
<1>24. CASE UNCHANGED vars
  BY <1>24 DEF vars, TypeInv, TypeOK, SendTyped, listenerVars, readVars, serverVars, writeVars, blockVars, flags, history
<1> QED
  BY <1>1, <1>2, <1>3, <1>3b, <1>3c, <1>4, <1>5, <1>6, <1>7, <1>8, <1>9, <1>10, <1>10a, <1>10b, <1>10c,
     <1>10d, <1>11, <1>11b, <1>12, <1>13, <1>13b, <1>14, <1>15, <1>16, <1>17, <1>18, <1>19, <1>20, <1>21,
     <1>22, <1>23, <1>24
  DEF Next, Reactor, IoStep, IoHandler, ServerStep

\* All variables keep their types; the dispatcher stays within its slots.
THEOREM TypeCorrect == Spec => []TypeOK
<1>1. TypeInv => TypeOK
  BY DEF TypeInv
<1> QED
  BY <1>1, TypeInit, TypeStep, PTL DEF Spec

-----------------------------------------------------------------------------
(* Routing. *)

\* What Append and Tail leave in a sequence.
LEMMA AppendElements ==
    ASSUME NEW S, NEW s \in Seq(S), NEW e \in S, NEW i \in DOMAIN Append(s, e)
    PROVE  (i \in DOMAIN s /\ Append(s, e)[i] = s[i]) \/ Append(s, e)[i] = e
OBVIOUS

LEMMA TailElements ==
    ASSUME NEW S, NEW s \in Seq(S), s # <<>>, NEW i \in DOMAIN Tail(s)
    PROVE  \E k \in DOMAIN s : Tail(s)[i] = s[k]
<1> i \in 1 .. Len(s) - 1 /\ Tail(s)[i] = s[i + 1]
  OBVIOUS
<1> QED
  BY i + 1 \in DOMAIN s

LEMMA RoutedInit == Init => RoutedInv
<1> SUFFICES ASSUME Init PROVE RoutedInv
  OBVIOUS
<1>1. IdsInv /\ MapInv /\ SendInv
  BY RpcServerAssumption DEF Init, IdsInv, MapInv, SendInv, Connections
<1>2. InboxInv
  BY DEF Init, InboxInv
<1>3. QueueInv
  BY DEF Init, Dispatch!Init, QueueInv
<1>4. BufferInv
  BY DEF Init, BufferInv, Belongs
<1> QED
  BY <1>1, <1>2, <1>3, <1>4 DEF RoutedInv

\* Each part of the invariant speaks of a few variables; a step that leaves them alone keeps it.
LEMMA IdsFrame == IdsInv /\ UNCHANGED <<accepted, next_client_id, id>> => IdsInv'
BY DEF IdsInv
LEMMA MapFrame == MapInv /\ UNCHANGED <<sessions, accepted, id>> => MapInv'
BY DEF MapInv
LEMMA InboxFrame == InboxInv /\ UNCHANGED <<stream, inbox, accepted>> => InboxInv'
BY DEF InboxInv
LEMMA QueueFrame == QueueInv /\ UNCHANGED <<pending, accepted, id>> => QueueInv'
BY DEF QueueInv, Known
LEMMA SendFrame == SendInv /\ UNCHANGED <<pc, current, target, accepted, id>> => SendInv'
BY DEF SendInv, Known
LEMMA BufferFrame ==
    BufferInv /\ UNCHANGED <<write_buffer, data, outbox, accepted, id>> => BufferInv'
BY DEF BufferInv, Belongs, Known

\* A step that changes neither ids nor what is on its way to a client.
LEMMA HandlerRouted ==
    ASSUME RoutedInv, InboxInv',
           UNCHANGED <<listenerVars, pending, serverVars, write_buffer, data, outbox>>
    PROVE  RoutedInv'
BY IdsFrame, MapFrame, QueueFrame, SendFrame, BufferFrame DEF RoutedInv, listenerVars, serverVars

\* A handler takes at most the first message from a socket and opens no stream.
LEMMA InboxShrinks ==
    ASSUME TypeInv, InboxInv, NEW c \in Connections, accepted' = accepted,
           inbox' = inbox \/ (inbox[c] # <<>> /\ inbox' = [inbox EXCEPT ![c] = Tail(@)]),
           \A d \in Connections : stream'[d] \in {"handshake", "open"} => stream[d] \in {"handshake", "open"}
    PROVE  InboxInv'
<1>1. inbox \in [Connections -> Seq(Message)]
  BY DEF TypeInv, TypeOK
<1>2. ASSUME NEW d \in Connections, NEW i \in DOMAIN inbox'[d]
      PROVE  inbox'[d][i].conn = d /\ d < accepted
  <2>1. \E k \in DOMAIN inbox[d] : inbox'[d][i] = inbox[d][k]
    <3>1. CASE d = c /\ inbox' # inbox
      BY <1>1, <1>2, <3>1, TailElements
    <3>2. CASE d # c \/ inbox' = inbox
      BY <1>1, <1>2, <3>2
    <3> QED
      BY <3>1, <3>2
  <2> QED
    BY <2>1 DEF InboxInv
<1> QED
  BY <1>2 DEF InboxInv

\* Every step keeps the routing invariant.
LEMMA RoutedStep ==
    ASSUME TypeInv, TypeInv', RoutedInv, [Next]_vars
    PROVE  RoutedInv'
<1> USE RpcServerAssumption
<1>1. CASE ClientConnects
  BY <1>1, IdsFrame, MapFrame, InboxFrame, QueueFrame, SendFrame, BufferFrame
  DEF ClientConnects, RoutedInv, listenerVars, readVars, serverVars, writeVars, blockVars, flags, history
<1>2. ASSUME NEW c \in Connections, HandshakeArrives(c)
      PROVE  RoutedInv'
  BY <1>2, InboxFrame, HandlerRouted DEF HandshakeArrives, RoutedInv, listenerVars, readVars, writeVars
<1>3. ASSUME NEW c \in Connections, MessageArrives(c)
      PROVE  RoutedInv'
  BY <1>3, InboxFrame, HandlerRouted DEF MessageArrives, RoutedInv, listenerVars, readVars, writeVars
<1>3b. ASSUME NEW c \in Connections, WriteBreaks(c)
      PROVE  RoutedInv'
  BY <1>3b, InboxFrame, HandlerRouted DEF WriteBreaks, RoutedInv, listenerVars, readVars, writeVars
<1>3c. ASSUME NEW c \in Connections, CloseSent(c)
      PROVE  RoutedInv'
  BY <1>3c, InboxFrame, HandlerRouted DEF CloseSent, RoutedInv, listenerVars, readVars, writeVars
<1>4. ASSUME NEW c \in Connections, Transmit(c)
      PROVE  RoutedInv'
  <2>1. BufferInv'
    <3>1. \A d \in Connections : outbox[d] \in Seq(Seq(Message)) /\ data[d] \in Seq(Message)
      BY DEF TypeInv, TypeOK
    <3>2. outbox' = [outbox EXCEPT ![c] = Append(@, data[c])]
      BY <1>4 DEF Transmit
    <3>3. UNCHANGED <<write_buffer, data, accepted, id>>
      BY <1>4 DEF Transmit, listenerVars
    <3>4. ASSUME NEW d \in Connections, NEW i \in DOMAIN outbox'[d]
          PROVE  Belongs(d, outbox'[d][i])
      <4>1. CASE d = c
        <5>1. outbox'[d] = Append(outbox[c], data[c])
          BY <3>2, <4>1 DEF TypeInv, TypeOK
        <5>2. (i \in DOMAIN outbox[c] /\ outbox'[d][i] = outbox[c][i]) \/ outbox'[d][i] = data[c]
          BY <3>1, <3>4, <5>1, AppendElements
        <5> QED
          BY <4>1, <5>2 DEF RoutedInv, BufferInv
      <4>2. CASE d # c
        BY <3>2, <3>4, <4>2 DEF RoutedInv, BufferInv, TypeInv, TypeOK
      <4> QED
        BY <4>1, <4>2
    <3> QED
      BY <3>3, <3>4 DEF RoutedInv, BufferInv, Belongs, Known
  <2> QED
    BY <1>4, <2>1, IdsFrame, MapFrame, InboxFrame, QueueFrame, SendFrame
    DEF Transmit, RoutedInv, listenerVars, readVars, serverVars, writeVars, blockVars, flags, history
<1>5. ASSUME NEW c \in Connections, NEW kind \in Kinds[c], ClientSends(c, kind)
      PROVE  RoutedInv'
  <2>1. InboxInv'
    <3> DEFINE m == [conn |-> c, num |-> messages[c] + 1, kind |-> kind]
    <3>1. /\ inbox' = [inbox EXCEPT ![c] = Append(@, m)]
          /\ UNCHANGED <<stream, accepted>> /\ stream[c] = "open"
      BY <1>5 DEF ClientSends, listenerVars
    <3>2. m \in Message /\ m.conn = c
      <4>1. kind \in AllKinds /\ c \in Connections
        BY <1>5
      <4>2. messages[c] \in Nat
        BY <4>1 DEF TypeInv, TypeOK
      <4> QED
        BY <4>1, <4>2 DEF Message
    <3>3. inbox \in [Connections -> Seq(Message)]
      BY DEF TypeInv, TypeOK
    <3>4. c < accepted
      BY <3>1 DEF RoutedInv, InboxInv
    <3> HIDE DEF m
    <3>5. ASSUME NEW d \in Connections, NEW i \in DOMAIN inbox'[d]
          PROVE  inbox'[d][i].conn = d /\ d < accepted
      <4>1. CASE d = c
        <5>1. (i \in DOMAIN inbox[c] /\ inbox'[d][i] = inbox[c][i]) \/ inbox'[d][i] = m
          BY <3>1, <3>2, <3>3, <3>5, <4>1, AppendElements
        <5> QED
          BY <3>2, <3>4, <4>1, <5>1 DEF RoutedInv, InboxInv
      <4>2. CASE d # c
        BY <3>1, <3>3, <3>5, <4>2 DEF RoutedInv, InboxInv
      <4> QED
        BY <4>1, <4>2
    <3> QED
      BY <3>1, <3>5 DEF RoutedInv, InboxInv
  <2> QED
    BY <1>5, <2>1, IdsFrame, MapFrame, QueueFrame, SendFrame, BufferFrame
    DEF ClientSends, RoutedInv, listenerVars, readVars, serverVars, writeVars, blockVars, flags, history
<1>6. CASE OnAccept
  <2>a. accepted' = accepted + 1 /\ accepted \in Connections
    BY <1>6 DEF OnAccept
  <2>b. \A d \in Connections : d # accepted => id'[d] = id[d]
    BY <1>6 DEF OnAccept, TypeInv, TypeOK
  <2>c. ASSUME NEW r \in Message, NEW k, Known(r, k)
        PROVE  r.conn < accepted' /\ id'[r.conn] = k
    BY <2>a, <2>b, <2>c DEF Known, Message, Connections
  <2>1. IdsInv'
    <3>1. /\ next_client_id' = NextClientId(next_client_id) /\ next_client_id \in ClientIds
          /\ id' = [id EXCEPT ![accepted] = next_client_id]
          /\ id \in [Connections -> ClientIds]
          /\ Connections \subseteq Nat /\ IdModulus \in Nat
      BY <1>6 DEF OnAccept, Connections, TypeInv, TypeOK
    <3>2. next_client_id + 1 < IdModulus => NextClientId(next_client_id) = next_client_id + 1
      BY <3>1, NextClientIdRange
    <3> QED
      BY <2>a, <2>b, <3>1, <3>2 DEF RoutedInv, IdsInv
  <2>2. MapInv'
    <3>1. /\ sessions' = [sessions EXCEPT ![next_client_id] = accepted]
          /\ id' = [id EXCEPT ![accepted] = next_client_id]
      BY <1>6 DEF OnAccept
    <3>2. /\ next_client_id \in ClientIds
          /\ sessions \in [ClientIds -> Connections \cup {NoSession}]
          /\ id \in [Connections -> ClientIds]
      BY DEF TypeInv, TypeOK
    <3>3. Connections \subseteq Nat
      BY DEF Connections
    <3>4. ASSUME NEW k \in ClientIds, sessions'[k] # NoSession
          PROVE  sessions'[k] < accepted' /\ id'[sessions'[k]] = k
      <4>1. CASE k = next_client_id
        BY <2>a, <3>1, <3>2, <3>3, <4>1
      <4>2. CASE k # next_client_id
        <5>1. sessions'[k] = sessions[k] /\ sessions[k] \in Connections
          BY <3>1, <3>2, <3>4, <4>2
        <5>2. sessions[k] < accepted /\ id[sessions[k]] = k
          BY <3>4, <5>1 DEF RoutedInv, MapInv
        <5>3. sessions[k] # accepted /\ sessions[k] < accepted + 1
          <6> accepted \in Nat /\ sessions[k] \in Nat
            BY <2>a, <3>3, <5>1
          <6> QED
            BY <5>2
        <5> QED
          BY <2>a, <2>b, <5>1, <5>2, <5>3
      <4> QED
        BY <4>1, <4>2
    <3> QED
      BY <3>4 DEF MapInv
  <2>3. InboxInv'
    <3>1. stream' = [stream EXCEPT ![accepted] = "handshake"] /\ inbox' = inbox
      BY <1>6 DEF OnAccept, readVars
    <3>2. Connections \subseteq Nat
      BY DEF Connections
    <3>3. \A d \in Connections : d < accepted => d < accepted'
      BY <2>a, <3>2
    <3>4. ASSUME NEW d \in Connections, stream'[d] \in {"handshake", "open"}
          PROVE  d < accepted'
      <4>1. CASE d = accepted
        BY <2>a, <3>2, <4>1
      <4>2. CASE d # accepted
        <5>1. stream'[d] = stream[d]
          BY <3>1, <4>2 DEF TypeInv, TypeOK
        <5> QED
          BY <3>3, <3>4, <5>1 DEF RoutedInv, InboxInv
      <4> QED
        BY <4>1, <4>2
    <3> QED
      BY <3>1, <3>3, <3>4 DEF RoutedInv, InboxInv
  <2>4. QueueInv'
    <3>1. pending' = pending /\ pending \in Seq(Tagged)
      BY <1>6 DEF OnAccept, TypeInv, TypeOK
    <3>2. ASSUME NEW i \in DOMAIN pending
          PROVE  Known(pending[i].req, pending[i].client)'
      <4>1. pending[i] \in Tagged
        BY <3>1, <3>2
      <4>2. pending[i].req \in Message
        BY <4>1 DEF Tagged
      <4>3. Known(pending[i].req, pending[i].client)
        BY <3>2 DEF RoutedInv, QueueInv
      <4> QED
        BY <2>c, <3>1, <4>2, <4>3 DEF Known
    <3> QED
      BY <3>1, <3>2 DEF QueueInv
  <2>5. SendInv'
    <3>1. UNCHANGED <<pc, current, target>>
      BY <1>6 DEF OnAccept, serverVars
    <3>2. pc # "idle" => current.req \in Message
      BY DEF TypeInv, SendTyped, Tagged
    <3>3. pc = "copy" => target \in Connections
      BY DEF TypeInv, SendTyped
    <3>4. pc \in {"lookup", "copy"} => Known(current.req, current.client)'
      BY <2>c, <3>1, <3>2 DEF RoutedInv, SendInv, Known
    <3>5. pc = "copy" => target < accepted' /\ id'[target] = current.client
      BY <2>a, <2>b, <3>3 DEF RoutedInv, SendInv, Connections
    <3> QED
      BY <3>1, <3>4, <3>5 DEF SendInv
  <2>6. BufferInv'
    <3>1. UNCHANGED <<write_buffer, data, outbox>>
      BY <1>6 DEF OnAccept, writeVars
    <3>2. ASSUME NEW d \in Connections, NEW q \in Seq(Message), Belongs(d, q)
          PROVE  Belongs(d, q)'
      <4>1. ASSUME NEW i \in DOMAIN q
            PROVE  d < accepted' /\ Known(q[i], id[d])'
        <5>1. d < accepted /\ Known(q[i], id[d]) /\ q[i] \in Message
          BY <3>2, <4>1 DEF Belongs
        <5>2. id'[d] = id[d] /\ d < accepted'
          BY <2>a, <2>b, <5>1 DEF Connections
        <5> QED
          BY <2>c, <5>1, <5>2 DEF Known
      <4> QED
        BY <4>1 DEF Belongs
    <3>3. \A d \in Connections :
             /\ write_buffer[d] \in Seq(Message) /\ data[d] \in Seq(Message)
             /\ \A i \in DOMAIN outbox[d] : outbox[d][i] \in Seq(Message)
      <4>1. /\ write_buffer \in [Connections -> Seq(Message)]
            /\ data \in [Connections -> Seq(Message)]
            /\ outbox \in [Connections -> Seq(Seq(Message))]
        BY DEF TypeInv, TypeOK
      <4> QED
        BY <4>1
    <3> QED
      BY <3>1, <3>2, <3>3 DEF RoutedInv, BufferInv
  <2> QED
    BY <1>6, <2>1, <2>2, <2>3, <2>4, <2>5, <2>6
    DEF OnAccept, RoutedInv, listenerVars, readVars, serverVars, writeVars, blockVars, flags, history
<1>7. CASE OnAcceptError
  BY <1>7, IdsFrame, MapFrame, InboxFrame, QueueFrame, SendFrame, BufferFrame
  DEF OnAcceptError, RoutedInv, listenerVars, readVars, serverVars, writeVars, blockVars, flags, history
<1>8. ASSUME NEW c \in Connections, SessionOnAccept(c)
      PROVE  RoutedInv'
  <2>1. InboxInv'
    BY <1>8, InboxShrinks DEF SessionOnAccept, RoutedInv, TypeInv, TypeOK, listenerVars, readVars
  <2> QED
    BY <1>8, <2>1, HandlerRouted DEF SessionOnAccept, writeVars
<1>9. ASSUME NEW c \in Connections, OnReadError(c)
      PROVE  RoutedInv'
  BY <1>9, InboxFrame, HandlerRouted DEF OnReadError, RoutedInv, listenerVars, readVars, writeVars
<1>10. ASSUME NEW c \in Connections, OnReadEmpty(c)
      PROVE  RoutedInv'
  <2>1. InboxInv'
    BY <1>10, InboxShrinks DEF OnReadEmpty, HasRead, RoutedInv, TypeInv, TypeOK, listenerVars, readVars
  <2> QED
    BY <1>10, <2>1, HandlerRouted DEF OnReadEmpty, writeVars
<1>10a. ASSUME NEW c \in Connections, OnReadEof(c)
      PROVE  RoutedInv'
  <2>1. InboxInv'
    BY <1>10a, InboxShrinks DEF OnReadEof, HasRead, RoutedInv, TypeInv, TypeOK, listenerVars, readVars
  <2> QED
    BY <1>10a, <2>1, HandlerRouted DEF OnReadEof, writeVars
<1>10b. ASSUME NEW c \in Connections, OnReadClose(c)
      PROVE  RoutedInv'
  <2>1. InboxInv'
    BY <1>10b, InboxShrinks DEF OnReadClose, HasRead, RoutedInv, TypeInv, TypeOK, listenerVars, readVars
  <2> QED
    BY <1>10b, <2>1, HandlerRouted DEF OnReadClose, writeVars
<1>10c. ASSUME NEW c \in Connections, OnReadResume(c)
      PROVE  RoutedInv'
  <2>1. InboxInv'
    BY <1>10c, InboxShrinks DEF OnReadResume, RoutedInv, TypeInv, TypeOK, listenerVars, readVars
  <2> QED
    BY <1>10c, <2>1, HandlerRouted DEF OnReadResume, writeVars
<1>10d. ASSUME NEW c \in Connections, OnReadClosed(c)
      PROVE  RoutedInv'
  <2>1. InboxInv'
    BY <1>10d, InboxShrinks DEF OnReadClosed, RoutedInv, TypeInv, TypeOK, listenerVars, readVars
  <2> QED
    BY <1>10d, <2>1, HandlerRouted DEF OnReadClosed, writeVars
<1>11. ASSUME NEW c \in Connections, OnReadRequest(c)
      PROVE  RoutedInv'
  <2>1. InboxInv'
    BY <1>11, InboxShrinks DEF OnReadRequest, HasRead, RoutedInv, TypeInv, TypeOK, listenerVars
  <2>2. QueueInv'
    <3> DEFINE e == [client |-> id[c], req |-> Head(inbox[c])]
    <3>1. /\ Head(inbox[c]) \in Message /\ Head(inbox[c]) = inbox[c][1] /\ 1 \in DOMAIN inbox[c]
      <4>1. inbox[c] \in Seq(Message) /\ inbox[c] # <<>>
        BY <1>11 DEF OnReadRequest, HasRead, TypeInv, TypeOK
      <4> QED
        BY <4>1
    <3>2. Known(e.req, e.client) /\ e \in Tagged
      <4>1. Head(inbox[c]).conn = c /\ c < accepted
        BY <1>11, <3>1 DEF RoutedInv, InboxInv
      <4>2. id[c] \in ClientIds
        BY <1>11 DEF TypeInv, TypeOK
      <4> QED
        BY <3>1, <4>1, <4>2 DEF Known, Tagged
    <3>3. /\ pending' = pending \/ pending' = Append(pending, e)
          /\ UNCHANGED <<accepted, id>>
      BY <1>11 DEF OnReadRequest, Dispatch!Accept, Dispatch!Refuse, Dispatch!Appended, listenerVars
    <3>4. pending \in Seq(Tagged)
      BY DEF TypeInv, TypeOK
    <3> HIDE DEF e
    <3>5. ASSUME NEW i \in DOMAIN pending'
          PROVE  Known(pending'[i].req, pending'[i].client)
      <4>1. (i \in DOMAIN pending /\ pending'[i] = pending[i]) \/ pending'[i] = e
        BY <3>2, <3>3, <3>4, <3>5, AppendElements
      <4> QED
        BY <3>2, <4>1 DEF RoutedInv, QueueInv
    <3> QED
      BY <3>3, <3>5 DEF QueueInv, Known
  <2> QED
    BY <1>11, <2>1, <2>2, IdsFrame, MapFrame, SendFrame, BufferFrame
    DEF OnReadRequest, Dispatch!Accept, Dispatch!Refuse, RoutedInv, listenerVars, readVars, serverVars, writeVars, blockVars, flags, history
<1>11b. ASSUME NEW c \in Connections, DoRead(c)
      PROVE  RoutedInv'
  BY <1>11b, InboxFrame, HandlerRouted DEF DoRead, RoutedInv, listenerVars, readVars, writeVars
<1>12. ASSUME NEW c \in Connections, OnReadThrows(c)
      PROVE  RoutedInv'
  BY <1>12, InboxFrame, HandlerRouted DEF OnReadThrows, RoutedInv, listenerVars, readVars, writeVars
<1>13. ASSUME NEW c \in Connections, WriteCompletes(c)
      PROVE  RoutedInv'
  BY <1>13, InboxFrame, HandlerRouted DEF WriteCompletes, RoutedInv, listenerVars, readVars, writeVars
<1>13b. ASSUME NEW c \in Connections, WriteFails(c)
      PROVE  RoutedInv'
  <2>1. InboxInv'
    BY <1>13b, InboxShrinks DEF WriteFails, RoutedInv, TypeInv, TypeOK, listenerVars, readVars
  <2> QED
    BY <1>13b, <2>1, HandlerRouted DEF WriteFails, writeVars
<1>14. ASSUME NEW c \in Connections, OnWrite(c)
      PROVE  RoutedInv'
  <2>1. BufferInv'
    <3>1. /\ write_buffer' = [write_buffer EXCEPT ![c] = <<>>]
          /\ UNCHANGED <<data, outbox, accepted, id>>
      BY <1>14 DEF OnWrite, Consumed, listenerVars
    <3>2. ASSUME NEW d \in Connections
          PROVE  Belongs(d, write_buffer'[d])
      <4>1. CASE d = c
        BY <3>1, <4>1 DEF Belongs, TypeInv, TypeOK
      <4>2. CASE d # c
        BY <3>1, <4>2 DEF RoutedInv, BufferInv, TypeInv, TypeOK
      <4> QED
        BY <4>1, <4>2
    <3> QED
      BY <3>1, <3>2 DEF RoutedInv, BufferInv, Belongs, Known
  <2> QED
    BY <1>14, <2>1, IdsFrame, MapFrame, InboxFrame, QueueFrame, SendFrame
    DEF OnWrite, RoutedInv, listenerVars, readVars, serverVars, writeVars, blockVars, flags, history
<1>15. CASE Answer
  <2>a. /\ pending \in Seq(Tagged) /\ pending # <<>>
        /\ current' = Head(pending) /\ pending' = Tail(pending) /\ pc' = "lookup"
        /\ UNCHANGED <<accepted, id>>
    BY <1>15 DEF Answer, Dispatch!Deliver, TypeInv, TypeOK, listenerVars
  <2>1. QueueInv'
    <3>1. \A k \in DOMAIN pending' : \E j \in DOMAIN pending : pending'[k] = pending[j]
      BY <2>a, TailElements
    <3> QED
      BY <2>a, <3>1 DEF RoutedInv, QueueInv, Known
  <2>2. SendInv'
    <3>1. 1 \in DOMAIN pending /\ current' = pending[1]
      BY <2>a
    <3> QED
      BY <2>a, <3>1 DEF RoutedInv, QueueInv, SendInv, Known
  <2> QED
    BY <1>15, <2>1, <2>2, IdsFrame, MapFrame, InboxFrame, BufferFrame
    DEF Answer, Dispatch!Deliver, RoutedInv, listenerVars, readVars, serverVars, writeVars, blockVars, flags, history
<1>16. CASE Drop
  <2>1. QueueInv'
    <3>1. PICK i \in 1 .. Len(pending) : pending' = Dispatch!Without(pending, i)
      BY <1>16 DEF Drop, Dispatch!Lose
    <3>2. pending \in Seq(Tagged) /\ UNCHANGED <<accepted, id>>
      BY <1>16 DEF Drop, listenerVars, TypeInv, TypeOK
    <3>3. \A k \in DOMAIN pending' : \E j \in DOMAIN pending : pending'[k] = pending[j]
      BY <3>1, <3>2, WithoutElements
    <3> QED
      BY <3>2, <3>3 DEF RoutedInv, QueueInv, Known
  <2> QED
    BY <1>16, <2>1, IdsFrame, MapFrame, InboxFrame, SendFrame, BufferFrame
    DEF Drop, Dispatch!Lose, RoutedInv, listenerVars, readVars, serverVars, writeVars, blockVars, flags, history
<1>17. CASE Lookup
  <2>1. SendInv'
    BY <1>17 DEF Lookup, RoutedInv, SendInv, Known, TypeInv, TypeOK, MapInv, SendTyped, Tagged, listenerVars, readVars, serverVars, writeVars, blockVars, flags, history
  <2> QED
    BY <1>17, <2>1, IdsFrame, MapFrame, InboxFrame, QueueFrame, BufferFrame
    DEF Lookup, RoutedInv, listenerVars, readVars, serverVars, writeVars, blockVars, flags, history
<1>18. CASE Copy
  <2>1. SendInv'
    BY <1>18 DEF Copy, RoutedInv, SendInv, Known, TypeInv, TypeOK, listenerVars, readVars, serverVars, writeVars, blockVars, flags, history
  <2>2. BufferInv'
    <3>1. /\ target \in Connections /\ current.req \in Message
      BY <1>18 DEF Copy, TypeInv, SendTyped, Tagged
    <3>2. /\ write_buffer' = [write_buffer EXCEPT ![target] = Append(@, current.req)]
          /\ UNCHANGED <<data, outbox, accepted, id>>
      BY <1>18 DEF Copy, listenerVars
    <3>3. write_buffer \in [Connections -> Seq(Message)]
      BY DEF TypeInv, TypeOK
    <3>4. target < accepted /\ Known(current.req, id[target])
      BY <1>18 DEF Copy, RoutedInv, SendInv, Known
    <3>5. ASSUME NEW d \in Connections, NEW i \in DOMAIN write_buffer'[d]
          PROVE  d < accepted /\ Known(write_buffer'[d][i], id[d])
      <4>1. CASE d = target
        <5>1. \/ i \in DOMAIN write_buffer[d] /\ write_buffer'[d][i] = write_buffer[d][i]
              \/ write_buffer'[d][i] = current.req
          BY <3>1, <3>2, <3>3, <3>5, <4>1, AppendElements
        <5> QED
          BY <3>4, <4>1, <5>1 DEF RoutedInv, BufferInv, Belongs
      <4>2. CASE d # target
        BY <3>2, <3>3, <3>5, <4>2 DEF RoutedInv, BufferInv, Belongs
      <4> QED
        BY <4>1, <4>2
    <3> QED
      BY <3>2, <3>5 DEF RoutedInv, BufferInv, Belongs, Known
  <2> QED
    BY <1>18, <2>1, <2>2, IdsFrame, MapFrame, InboxFrame, QueueFrame
    DEF Copy, RoutedInv, listenerVars, readVars, serverVars, writeVars, blockVars, flags, history
<1>19. CASE AsyncWrite
  <2>1. SendInv'
    BY <1>19 DEF AsyncWrite, RoutedInv, SendInv, Known, TypeInv, TypeOK, listenerVars, readVars, serverVars, writeVars, blockVars, flags, history
  <2>2. BufferInv'
    <3>1. target \in Connections
      BY <1>19 DEF AsyncWrite, TypeInv, SendTyped
    <3>2. /\ data' = [data EXCEPT ![target] = write_buffer[target]]
          /\ UNCHANGED <<write_buffer, accepted, id>>
          /\ \/ outbox' = outbox
             \/ outbox' = [outbox EXCEPT ![target] = Append(@, write_buffer[target])]
      BY <1>19 DEF AsyncWrite, listenerVars
    <3>3. /\ outbox \in [Connections -> Seq(Seq(Message))]
          /\ data \in [Connections -> Seq(Message)]
          /\ write_buffer[target] \in Seq(Message)
      BY <3>1 DEF TypeInv, TypeOK
    <3>4. Belongs(target, write_buffer[target])
      BY <3>1 DEF RoutedInv, BufferInv
    <3>5. ASSUME NEW d \in Connections
          PROVE  Belongs(d, data'[d])
      BY <3>1, <3>2, <3>3, <3>4 DEF RoutedInv, BufferInv
    <3>6. ASSUME NEW d \in Connections, NEW i \in DOMAIN outbox'[d]
          PROVE  Belongs(d, outbox'[d][i])
      <4>1. \/ i \in DOMAIN outbox[d] /\ outbox'[d][i] = outbox[d][i]
            \/ d = target /\ outbox'[d][i] = write_buffer[target]
        <5>1. CASE outbox' = outbox
          BY <3>6, <5>1
        <5>2. CASE outbox' # outbox /\ d = target
          <6>1. outbox'[d] = Append(outbox[d], write_buffer[target]) /\ outbox[d] \in Seq(Seq(Message))
            BY <3>2, <3>3, <5>2
          <6> QED
            BY <3>3, <3>6, <5>2, <6>1, AppendElements
        <5>3. CASE outbox' # outbox /\ d # target
          BY <3>2, <3>3, <3>6, <5>3
        <5> QED
          BY <5>1, <5>2, <5>3
      <4> QED
        BY <3>4, <4>1 DEF RoutedInv, BufferInv
    <3> QED
      BY <3>2, <3>5, <3>6 DEF RoutedInv, BufferInv, Belongs, Known
  <2> QED
    BY <1>19, <2>1, <2>2, IdsFrame, MapFrame, InboxFrame, QueueFrame
    DEF AsyncWrite, RoutedInv, listenerVars, readVars, serverVars, writeVars, blockVars, flags, history
<1>20. CASE PostCompletion
  <2>1. SendInv'
    BY <1>20 DEF PostCompletion, RoutedInv, SendInv, Known, TypeInv, TypeOK, listenerVars, readVars, serverVars, writeVars, blockVars, flags, history
  <2> QED
    BY <1>20, <2>1, IdsFrame, MapFrame, InboxFrame, QueueFrame, BufferFrame
    DEF PostCompletion, RoutedInv, listenerVars, readVars, serverVars, writeVars, blockVars, flags, history
<1>21. CASE AsyncWriteFails
  <2>1. SendInv'
    BY <1>21 DEF AsyncWriteFails, RoutedInv, SendInv, Known, TypeInv, TypeOK, listenerVars, readVars, serverVars, writeVars, blockVars, flags, history
  <2> QED
    BY <1>21, <2>1, IdsFrame, MapFrame, InboxFrame, QueueFrame, BufferFrame
    DEF AsyncWriteFails, RoutedInv, listenerVars, readVars, serverVars, writeVars, blockVars, flags, history
<1>22. CASE AsyncWriteParks
  <2>1. SendInv'
    BY <1>22 DEF AsyncWriteParks, RoutedInv, SendInv, Known, TypeInv, TypeOK, listenerVars, readVars, serverVars, writeVars, blockVars, flags, history
  <2> QED
    BY <1>22, <2>1, IdsFrame, MapFrame, InboxFrame, QueueFrame, BufferFrame
    DEF AsyncWriteParks, RoutedInv, listenerVars, readVars, serverVars, writeVars, blockVars, flags, history
<1>23. CASE Abort
  BY <1>23, IdsFrame, MapFrame, InboxFrame, QueueFrame, SendFrame, BufferFrame
  DEF Abort, RoutedInv, listenerVars, readVars, serverVars, writeVars, blockVars, flags, history
<1>24. CASE UNCHANGED vars
  BY <1>24, IdsFrame, MapFrame, InboxFrame, QueueFrame, SendFrame, BufferFrame
  DEF vars, RoutedInv, listenerVars, readVars, serverVars, writeVars, blockVars, flags, history
<1> QED
  BY <1>1, <1>2, <1>3, <1>3b, <1>3c, <1>4, <1>5, <1>6, <1>7, <1>8, <1>9, <1>10, <1>10a, <1>10b, <1>10c,
     <1>10d, <1>11, <1>11b, <1>12, <1>13, <1>13b, <1>14, <1>15, <1>16, <1>17, <1>18, <1>19, <1>20, <1>21,
     <1>22, <1>23, <1>24
  DEF Next, Reactor, IoStep, IoHandler, ServerStep

\* Responses go to a session with the id of the request's session; while ids have not come
\* round, to the client that asked.
THEOREM RoutedCorrect == Spec => []Routed
<1>1. TypeInv /\ RoutedInv => Routed
  <2> SUFFICES ASSUME TypeInv, RoutedInv, NEW c \in Connections, NEW i \in DOMAIN outbox[c],
                      NEW j \in DOMAIN outbox[c][i]
               PROVE  /\ id[outbox[c][i][j].conn] = id[c]
                      /\ accepted <= IdModulus => outbox[c][i][j].conn = c
    BY DEF Routed
  <2>1. /\ c < accepted /\ outbox[c][i][j].conn < accepted
        /\ id[outbox[c][i][j].conn] = id[c]
    BY DEF RoutedInv, BufferInv, Belongs, Known
  <2>2. outbox[c][i][j] \in Message
    BY DEF TypeInv, TypeOK
  <2> QED
    BY <2>1, <2>2 DEF RoutedInv, IdsInv, Message
<1> QED
  BY <1>1, TypeInit, TypeStep, RoutedInit, RoutedStep, PTL DEF Spec
=============================================================================
