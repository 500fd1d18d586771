------------------------- MODULE RpcServerSendProofs -------------------------
(***************************************************************************)
(* Theorems about RpcServer: the order of the answers, the causes of        *)
(* undefined behaviour, and what a client receives, for any number of       *)
(* clients, any number of slots and any traffic.                            *)
(***************************************************************************)
EXTENDS RpcServerProofs

LEMMA RoutedInvariant == Spec => [](TypeInv /\ RoutedInv)
BY TypeInit, TypeStep, RoutedInit, RoutedStep, PTL DEF Spec

-----------------------------------------------------------------------------
(* The order of the answers. *)

\* Messages of client c that the io thread has read.
Read(c) == messages[c] - Len(inbox[c])

\* What is on its way from a client is numbered from there on.
NumberedInv ==
    \A c \in Connections : Read(c) >= 0 /\ \A k \in DOMAIN inbox[c] : inbox[c][k].num = Read(c) + k

Passed(r) == r.num <= Read(r.conn)

\* Of two requests of one client, r was sent before s.
Before(r, s) == r.conn = s.conn => r.num < s.num

\* Send has a response that it has not copied yet.
Holding == pc \in {"lookup", "copy"}

\* Responses, the one that Send is about to copy, and requests that wait are in the order in
\* which they were sent, and all have been read.
AnsweredPart ==
    \A c \in Connections : \A i \in DOMAIN answered[c] :
        /\ Passed(answered[c][i])
        /\ Holding => Before(answered[c][i], current.req)
        /\ \A k \in DOMAIN pending : Before(answered[c][i], pending[k].req)

CurrentPart ==
    Holding =>
        /\ Passed(current.req)
        /\ \A k \in DOMAIN pending : Before(current.req, pending[k].req)

PendingPart ==
    /\ \A k \in DOMAIN pending : Passed(pending[k].req)
    /\ \A k, m \in DOMAIN pending : k < m => Before(pending[k].req, pending[m].req)

OrderInv == NumberedInv /\ AnsweredPart /\ CurrentPart /\ PendingPart /\ AnsweredInOrder

LEMMA OrderInit == Init => OrderInv
<1> SUFFICES ASSUME Init PROVE OrderInv
  OBVIOUS
<1>1. \A c \in Connections : messages[c] = 0 /\ inbox[c] = <<>> /\ answered[c] = <<>>
  BY DEF Init
<1>2. pending = <<>> /\ pc = "idle"
  BY DEF Init, Dispatch!Init
<1>3. NumberedInv
  BY <1>1 DEF NumberedInv, Read
<1>4. AnsweredPart /\ AnsweredInOrder
  BY <1>1 DEF AnsweredPart, AnsweredInOrder
<1>5. CurrentPart /\ PendingPart
  BY <1>2 DEF CurrentPart, PendingPart, Holding
<1> QED
  BY <1>3, <1>4, <1>5 DEF OrderInv

LEMMA ReadTyped ==
    ASSUME TypeInv, NEW c \in Connections
    PROVE  Read(c) \in Int /\ inbox[c] \in Seq(Message) /\ messages[c] \in Nat
<1>1. inbox[c] \in Seq(Message) /\ messages[c] \in Nat
  BY DEF TypeInv, TypeOK
<1> QED
  BY <1>1 DEF Read

\* The io thread takes a message of a client.
LEMMA NumberedRead ==
    ASSUME TypeInv, TypeInv', NumberedInv, NEW c \in Connections, inbox[c] # <<>>,
           inbox' = [inbox EXCEPT ![c] = Tail(@)], messages' = messages
    PROVE  /\ NumberedInv' /\ Head(inbox[c]).num = Read(c) + 1
           /\ \A d \in Connections : Read(d) <= Read(d)'
           /\ Read(c)' = Read(c) + 1
<1>1. inbox[c] \in Seq(Message) /\ messages[c] \in Nat /\ inbox \in [Connections -> Seq(Message)]
  BY DEF TypeInv, TypeOK
<1>2. PICK n \in Nat : n = Len(inbox[c]) /\ n > 0
  BY <1>1
<1>3. inbox'[c] = Tail(inbox[c]) /\ Len(inbox'[c]) = n - 1 /\ \A k \in 1 .. n - 1 : inbox'[c][k] = inbox[c][k + 1]
  BY <1>1, <1>2
<1>4. Read(c)' = Read(c) + 1 /\ Read(c) \in Int
  BY <1>1, <1>2, <1>3 DEF Read
<1>5. ASSUME NEW d \in Connections, d # c PROVE inbox'[d] = inbox[d] /\ Read(d)' = Read(d)
  BY <1>1, <1>5 DEF Read
<1>6. \A k \in 1 .. n : inbox[c][k].num = Read(c) + k
  BY <1>1, <1>2 DEF NumberedInv
<1>7. Head(inbox[c]).num = Read(c) + 1
  BY <1>1, <1>2, <1>6
<1>8. ASSUME NEW k \in 1 .. n - 1 PROVE inbox'[c][k].num = Read(c)' + k
  <2>1. k + 1 \in 1 .. n /\ inbox'[c][k] = inbox[c][k + 1]
    BY <1>3
  <2>2. inbox[c][k + 1].num = Read(c) + (k + 1)
    BY <1>6, <2>1
  <2>3. Read(c) + (k + 1) = Read(c)' + k
    BY <1>4
  <2> QED BY <2>1, <2>2, <2>3
<1>9. DOMAIN inbox'[c] = 1 .. n - 1
  BY <1>1, <1>2, <1>3
<1>10. ASSUME NEW d \in Connections
       PROVE  Read(d)' >= 0 /\ (\A k \in DOMAIN inbox'[d] : inbox'[d][k].num = Read(d)' + k) /\ Read(d) <= Read(d)'
  <2>1. Read(d) \in Int /\ Read(d) >= 0
    BY ReadTyped DEF NumberedInv
  <2>2. CASE d = c
    BY <1>4, <1>8, <1>9, <2>1, <2>2
  <2>3. CASE d # c
    BY <1>5, <2>1, <2>3 DEF NumberedInv
  <2> QED BY <2>2, <2>3
<1> QED
  BY <1>4, <1>7, <1>10 DEF NumberedInv

LEMMA NumberedSend ==
    ASSUME TypeInv, TypeInv', NumberedInv, NEW c \in Connections, NEW kind \in Kinds[c], ClientSends(c, kind)
    PROVE  NumberedInv' /\ \A d \in Connections : Read(d) <= Read(d)'
<1> DEFINE m == [conn |-> c, num |-> messages[c] + 1, kind |-> kind]
<1>1. inbox[c] \in Seq(Message) /\ messages[c] \in Nat /\ inbox \in [Connections -> Seq(Message)]
      /\ messages \in [Connections -> Nat]
  BY DEF TypeInv, TypeOK
<1>2. m.num = messages[c] + 1 /\ inbox' = [inbox EXCEPT ![c] = Append(@, m)] /\ messages' = [messages EXCEPT ![c] = @ + 1]
  BY DEF ClientSends
<1> HIDE DEF m
<1>3. PICK n \in Nat : n = Len(inbox[c])
  BY <1>1
<1>4. /\ inbox'[c] = Append(inbox[c], m) /\ DOMAIN inbox'[c] = 1 .. n + 1 /\ Len(inbox'[c]) = n + 1
      /\ \A k \in 1 .. n : inbox'[c][k] = inbox[c][k]
      /\ inbox'[c][n + 1] = m
  BY <1>1, <1>2, <1>3
<1>5. messages'[c] = messages[c] + 1
  BY <1>1, <1>2
<1>6. Read(c)' = Read(c) /\ Read(c) \in Int /\ Read(c) = messages[c] - n
  BY <1>1, <1>3, <1>4, <1>5 DEF Read
<1>7. \A k \in 1 .. n : inbox[c][k].num = Read(c) + k
  BY <1>1, <1>3 DEF NumberedInv
<1>8. ASSUME NEW k \in 1 .. n + 1 PROVE inbox'[c][k].num = Read(c)' + k
  <2>1. CASE k \in 1 .. n
    BY <1>4, <1>6, <1>7, <2>1
  <2>2. CASE k = n + 1
    BY <1>1, <1>2, <1>4, <1>6, <2>2
  <2> QED BY <2>1, <2>2
<1>9. ASSUME NEW d \in Connections, d # c PROVE inbox'[d] = inbox[d] /\ Read(d)' = Read(d)
  BY <1>1, <1>2, <1>9 DEF Read
<1>10. ASSUME NEW d \in Connections
       PROVE  Read(d)' >= 0 /\ (\A k \in DOMAIN inbox'[d] : inbox'[d][k].num = Read(d)' + k) /\ Read(d) <= Read(d)'
  <2>1. Read(d) \in Int /\ Read(d) >= 0
    BY ReadTyped DEF NumberedInv
  <2>2. CASE d = c
    <3>1. Read(c)' >= 0 /\ Read(c) <= Read(c)'
      BY <1>6, <2>1, <2>2
    <3>2. \A k \in DOMAIN inbox'[c] : inbox'[c][k].num = Read(c)' + k
      BY <1>4, <1>8
    <3> QED BY <2>2, <3>1, <3>2
  <2>3. CASE d # c
    BY <1>9, <2>1, <2>3 DEF NumberedInv
  <2> QED BY <2>2, <2>3
<1> QED
  BY <1>10 DEF NumberedInv

Pipeline == AnsweredPart /\ CurrentPart /\ PendingPart /\ AnsweredInOrder

LEMMA MessageFacts ==
    ASSUME NEW r \in Message
    PROVE  r.num \in Nat /\ r.conn \in Connections
BY DEF Message

LEMMA PipelineTypes ==
    ASSUME TypeInv
    PROVE  /\ \A c \in Connections : answered[c] \in Seq(Message)
           /\ \A c \in Connections : \A i \in DOMAIN answered[c] : answered[c][i] \in Message
           /\ pending \in Seq(Tagged) /\ \A k \in DOMAIN pending : pending[k] \in Tagged /\ pending[k].req \in Message
           /\ pc # "idle" => current.req \in Message
<1>1. \A c \in Connections : answered[c] \in Seq(Message)
  BY DEF TypeInv, TypeOK
<1>2. pending \in Seq(Tagged) /\ \A k \in DOMAIN pending : pending[k] \in Tagged
  BY DEF TypeInv, TypeOK
<1>3. \A x \in Tagged : x.req \in Message
  BY DEF Tagged
<1> QED
  BY <1>1, <1>2, <1>3 DEF TypeInv, SendTyped

\* What has been read stays read.
LEMMA PassedGrows ==
    ASSUME TypeInv, TypeInv', \A d \in Connections : Read(d) <= Read(d)', NEW r \in Message, Passed(r)
    PROVE  Passed(r)'
<1>1. r.num \in Nat /\ r.conn \in Connections
  BY MessageFacts
<1>2. Read(r.conn) \in Int
  BY <1>1, ReadTyped
<1>3. Read(r.conn)' \in Int
  <2> DEFINE c == r.conn
  <2>1. inbox'[c] \in Seq(Message) /\ messages'[c] \in Nat
    BY <1>1 DEF TypeInv, TypeOK
  <2> QED BY <2>1 DEF Read
<1> QED
  BY <1>1, <1>2, <1>3 DEF Passed

\* Requests that are read and dropped leave the order as it is.
LEMMA PipelineKept ==
    ASSUME TypeInv, TypeInv', Pipeline, UNCHANGED <<answered, pending, current>>, Holding' => Holding,
           \A d \in Connections : Read(d) <= Read(d)'
    PROVE  Pipeline'
<1>1. AnsweredPart'
  <2> SUFFICES ASSUME NEW c \in Connections, NEW i \in DOMAIN answered'[c]
               PROVE  /\ Passed(answered[c][i])'
                      /\ Holding' => Before(answered'[c][i], current'.req)
                      /\ \A k \in DOMAIN pending' : Before(answered'[c][i], pending'[k].req)
    BY DEF AnsweredPart, Before
  <2>1. answered'[c][i] = answered[c][i] /\ i \in DOMAIN answered[c]
    OBVIOUS
  <2>2. answered[c][i] \in Message
    BY <2>1, PipelineTypes
  <2>3. PICK r \in Message : r = answered[c][i] /\ Passed(r)
    BY <2>1, <2>2 DEF Pipeline, AnsweredPart
  <2>4. Passed(r)'
    BY <2>3, PassedGrows
  <2>5. Passed(answered[c][i])'
    BY <2>1, <2>3, <2>4 DEF Passed
  <2> QED BY <2>1, <2>5 DEF Pipeline, AnsweredPart
<1>2. CurrentPart'
  BY PipelineTypes, PassedGrows DEF Pipeline, CurrentPart, Holding, Before, Passed
<1>3. PendingPart'
  BY PipelineTypes, PassedGrows DEF Pipeline, PendingPart, Before, Passed
<1>4. AnsweredInOrder'
  BY DEF Pipeline, AnsweredInOrder
<1> QED
  BY <1>1, <1>2, <1>3, <1>4 DEF Pipeline

\* Session::Send appends the response that came next.
LEMMA PipelineCopy ==
    ASSUME TypeInv, TypeInv', Pipeline, Copy
    PROVE  Pipeline'
<1>1. /\ pc = "copy" /\ pc' = "write" /\ UNCHANGED <<pending, current, inbox, messages>>
      /\ answered' = [answered EXCEPT ![target] = Append(@, current.req)]
  BY DEF Copy, readVars
<1>2. Holding /\ ~Holding' /\ target \in Connections /\ current.req \in Message
  BY <1>1, PipelineTypes DEF Holding, TypeInv, SendTyped
<1>3. PICK r \in Message : r = current.req
  BY <1>2
<1>4. \A c \in Connections : answered[c] \in Seq(Message)
  BY PipelineTypes
<1>5. /\ \A c \in Connections : c # target => answered'[c] = answered[c]
      /\ answered'[target] = Append(answered[target], r)
  BY <1>1, <1>2, <1>3 DEF TypeInv, TypeOK
<1>6. \A x : Passed(x) <=> (Passed(x))'
  BY <1>1 DEF Passed, Read
<1>7. ASSUME NEW c \in Connections, NEW i \in DOMAIN answered'[c]
      PROVE  (i \in DOMAIN answered[c] /\ answered'[c][i] = answered[c][i]) \/ answered'[c][i] = r
  <2>1. CASE c = target
    BY <1>2, <1>4, <1>5, <1>7, <2>1, AppendElements
  <2>2. CASE c # target
    BY <1>5, <1>7, <2>2
  <2> QED BY <2>1, <2>2
<1>8. AnsweredPart'
  <2> SUFFICES ASSUME NEW c \in Connections, NEW i \in DOMAIN answered'[c]
               PROVE  /\ Passed(answered[c][i])'
                      /\ \A k \in DOMAIN pending' : Before(answered'[c][i], pending'[k].req)
    BY <1>2 DEF AnsweredPart, Before
  <2>1. CASE i \in DOMAIN answered[c] /\ answered'[c][i] = answered[c][i]
    BY <1>1, <1>6, <2>1 DEF Pipeline, AnsweredPart, Passed
  <2>2. CASE answered'[c][i] = r
    <3>1. Passed(r) /\ \A k \in DOMAIN pending : Before(r, pending[k].req)
      BY <1>2, <1>3 DEF Pipeline, CurrentPart
    <3> QED BY <1>1, <1>6, <2>2, <3>1 DEF Passed
  <2> QED BY <1>7, <2>1, <2>2
<1>9. AnsweredInOrder'
  <2> SUFFICES ASSUME NEW c \in Connections, NEW i \in DOMAIN answered'[c], NEW j \in DOMAIN answered'[c], i < j
               PROVE  Before(answered'[c][i], answered'[c][j])
    BY DEF AnsweredInOrder, Before
  <2>1. CASE c # target
    BY <1>5, <2>1 DEF Pipeline, AnsweredInOrder, Before
  <2>2. CASE c = target
    <3>1. PICK n \in Nat : n = Len(answered[c])
      BY <1>4
    <3>2. answered'[c] = Append(answered[c], r) /\ answered[c] \in Seq(Message)
      BY <1>4, <1>5, <2>2
    <3>3. /\ DOMAIN answered'[c] = 1 .. n + 1 /\ DOMAIN answered[c] = 1 .. n
          /\ \A k \in 1 .. n : answered'[c][k] = answered[c][k]
          /\ answered'[c][n + 1] = r
      BY <3>1, <3>2
    <3>4. i \in 1 .. n /\ (j \in 1 .. n \/ j = n + 1)
      BY <3>3
    <3>5. CASE j \in 1 .. n
      BY <3>3, <3>4, <3>5 DEF Pipeline, AnsweredInOrder, Before
    <3>6. CASE j = n + 1
      BY <1>2, <1>3, <3>3, <3>4, <3>6 DEF Pipeline, AnsweredPart
    <3> QED BY <3>4, <3>5, <3>6
  <2> QED BY <2>1, <2>2
<1>10. CurrentPart'
  BY <1>2 DEF CurrentPart
<1>11. PendingPart'
  BY <1>1, <1>6 DEF Pipeline, PendingPart, Passed, Before
<1> QED
  BY <1>8, <1>9, <1>10, <1>11 DEF Pipeline

\* The oldest request that waits becomes the one whose response is sent.
LEMMA PipelineAnswer ==
    ASSUME TypeInv, TypeInv', Pipeline, Answer
    PROVE  Pipeline'
<1>1. /\ pending # <<>> /\ current' = Head(pending) /\ pending' = Tail(pending)
      /\ UNCHANGED <<answered, inbox, messages>>
  BY DEF Answer, Dispatch!Deliver, readVars, history
<1>2. PICK n \in Nat : n = Len(pending) /\ n > 0
  BY <1>1 DEF TypeInv, TypeOK
<1>3. /\ DOMAIN pending = 1 .. n /\ DOMAIN pending' = 1 .. n - 1 /\ current' = pending[1]
      /\ \A k \in 1 .. n - 1 : k + 1 \in 1 .. n /\ 1 < k + 1 /\ pending'[k] = pending[k + 1]
  <2>1. pending \in Seq(Tagged)
    BY PipelineTypes
  <2> QED BY <1>1, <1>2, <2>1
<1>4. \A x : Passed(x) <=> (Passed(x))'
  BY <1>1 DEF Passed, Read
<1>5. AnsweredPart'
  BY <1>1, <1>2, <1>3, <1>4 DEF Pipeline, AnsweredPart, Passed, Before
<1>6. CurrentPart'
  <2>1. 1 \in DOMAIN pending
    BY <1>2, <1>3
  <2>2. Passed(current.req)'
    BY <1>3, <1>4, <2>1 DEF Pipeline, PendingPart, Passed
  <2>3. ASSUME NEW k \in DOMAIN pending' PROVE Before(current'.req, pending'[k].req)
    <3>1. k + 1 \in DOMAIN pending /\ 1 < k + 1 /\ pending'[k] = pending[k + 1]
      BY <1>3
    <3> QED BY <1>3, <2>1, <3>1 DEF Pipeline, PendingPart
  <2> QED BY <2>2, <2>3 DEF CurrentPart, Before
<1>7. PendingPart'
  <2>1. ASSUME NEW k \in DOMAIN pending' PROVE Passed(pending[k].req)'
    BY <1>3, <1>4 DEF Pipeline, PendingPart, Passed
  <2>2. ASSUME NEW k \in DOMAIN pending', NEW m \in DOMAIN pending', k < m PROVE Before(pending'[k].req, pending'[m].req)
    <3>1. k + 1 \in DOMAIN pending /\ m + 1 \in DOMAIN pending /\ k + 1 < m + 1
      BY <1>3, <2>2
    <3> QED BY <1>3, <3>1 DEF Pipeline, PendingPart
  <2> QED BY <2>1, <2>2 DEF PendingPart, Before
<1>8. AnsweredInOrder'
  BY <1>1 DEF Pipeline, AnsweredInOrder
<1> QED
  BY <1>5, <1>6, <1>7, <1>8 DEF Pipeline

\* Without keeps the order.
LEMMA WithoutOrder ==
    ASSUME NEW S, NEW s \in Seq(S), NEW i \in 1 .. Len(s), NEW k \in DOMAIN Dispatch!Without(s, i),
           NEW m \in DOMAIN Dispatch!Without(s, i), k < m
    PROVE  \E a, b \in DOMAIN s : a < b /\ Dispatch!Without(s, i)[k] = s[a] /\ Dispatch!Without(s, i)[m] = s[b]
<1> DEFINE w == [x \in 1 .. Len(s) - 1 |-> IF x < i THEN s[x] ELSE s[x + 1]]
<1>1. Dispatch!Without(s, i) = w
  BY DEF Dispatch!Without
<1>2. Len(s) \in Nat /\ DOMAIN s = 1 .. Len(s) /\ k \in 1 .. Len(s) - 1 /\ m \in 1 .. Len(s) - 1
  BY <1>1
<1> DEFINE a == IF k < i THEN k ELSE k + 1
           b == IF m < i THEN m ELSE m + 1
<1>3. a \in DOMAIN s /\ b \in DOMAIN s /\ a < b
  BY <1>2
<1>4. w[k] = s[a] /\ w[m] = s[b]
  BY <1>2
<1> QED
  BY <1>1, <1>3, <1>4

LEMMA PipelineDrop ==
    ASSUME TypeInv, TypeInv', Pipeline, Drop
    PROVE  Pipeline'
<1>1. UNCHANGED <<answered, current, inbox, messages, pc>>
  BY DEF Drop, Dispatch!Lose, readVars, history
<1>2. PICK i \in 1 .. Len(pending) : pending' = Dispatch!Without(pending, i)
  BY DEF Drop, Dispatch!Lose
<1>3. pending \in Seq(Tagged)
  BY PipelineTypes
<1>4. \A k \in DOMAIN pending' : \E a \in DOMAIN pending : pending'[k] = pending[a]
  BY <1>2, <1>3, WithoutElements
<1>5. \A k, m \in DOMAIN pending' : k < m => \E a, b \in DOMAIN pending : a < b /\ pending'[k] = pending[a] /\ pending'[m] = pending[b]
  BY <1>2, <1>3, WithoutOrder
<1>6. \A x : Passed(x) <=> (Passed(x))'
  BY <1>1 DEF Passed, Read
<1>7. (Holding' <=> Holding)
  BY <1>1 DEF Holding
<1>8. AnsweredPart'
  BY <1>1, <1>4, <1>6, <1>7 DEF Pipeline, AnsweredPart, Passed, Before
<1>9. CurrentPart'
  BY <1>1, <1>4, <1>6, <1>7 DEF Pipeline, CurrentPart, Passed, Before
<1>10. PendingPart'
  <2>1. ASSUME NEW k \in DOMAIN pending' PROVE Passed(pending[k].req)'
    BY <1>4, <1>6 DEF Pipeline, PendingPart, Passed
  <2>2. ASSUME NEW k \in DOMAIN pending', NEW m \in DOMAIN pending', k < m PROVE Before(pending'[k].req, pending'[m].req)
    BY <1>5, <2>2 DEF Pipeline, PendingPart
  <2> QED BY <2>1, <2>2 DEF PendingPart, Before
<1>11. AnsweredInOrder'
  BY <1>1 DEF Pipeline, AnsweredInOrder
<1> QED
  BY <1>8, <1>9, <1>10, <1>11 DEF Pipeline

\* Session::OnRead pushes the request that the client sent next.
LEMMA PipelineRequest ==
    ASSUME TypeInv, TypeInv', InboxInv, NumberedInv, Pipeline, NEW c \in Connections, OnReadRequest(c)
    PROVE  NumberedInv' /\ Pipeline'
<1>1. /\ inbox[c] # <<>> /\ inbox' = [inbox EXCEPT ![c] = Tail(@)] /\ UNCHANGED <<messages, pc, answered, current>>
      /\ Dispatch!Accept([client |-> id[c], req |-> Head(inbox[c])]) \/ Dispatch!Refuse
  BY DEF OnReadRequest, HasRead, Dispatch!Accept, Dispatch!Refuse, history
<1>2. /\ NumberedInv' /\ Head(inbox[c]).num = Read(c) + 1 /\ Read(c)' = Read(c) + 1
      /\ \A d \in Connections : Read(d) <= Read(d)'
  BY <1>1, NumberedRead
<1>3. Holding' <=> Holding
  BY <1>1 DEF Holding
<1>4. CASE Dispatch!Refuse
  <2>1. UNCHANGED pending
    BY <1>4 DEF Dispatch!Refuse
  <2> QED BY <1>1, <1>2, <1>3, <2>1, PipelineKept
<1>5. CASE Dispatch!Accept([client |-> id[c], req |-> Head(inbox[c])])
  <2>1. inbox[c] \in Seq(Message) /\ id[c] \in ClientIds /\ Read(c) \in Int
    BY ReadTyped DEF TypeInv, TypeOK
  <2>2. Head(inbox[c]) \in Message /\ 1 \in DOMAIN inbox[c] /\ Head(inbox[c]) = inbox[c][1]
    BY <1>1, <2>1
  <2>3. PICK r \in Message : r = Head(inbox[c]) /\ r.conn = c /\ r.num = Read(c) + 1
    BY <1>2, <2>2 DEF InboxInv
  <2>4. PICK x \in Tagged : pending' = Append(pending, x) /\ x.req = r
    <3>1. [client |-> id[c], req |-> r] \in Tagged
      BY <2>1 DEF Tagged
    <3> QED BY <1>5, <2>3, <3>1 DEF Dispatch!Accept, Dispatch!Appended
  <2>5. pending \in Seq(Tagged)
    BY PipelineTypes
  <2>6. PICK n \in Nat : n = Len(pending)
    BY <2>5
  <2>7. /\ DOMAIN pending = 1 .. n /\ DOMAIN pending' = 1 .. n + 1 /\ pending'[n + 1] = x
        /\ \A k \in 1 .. n : pending'[k] = pending[k]
    BY <2>4, <2>5, <2>6
  <2>8. ASSUME NEW s \in Message, Passed(s) PROVE Before(s, r) /\ Passed(s)'
    <3>1. s.num \in Nat
      BY MessageFacts
    <3>2. Before(s, r)
      BY <2>1, <2>3, <2>8, <3>1 DEF Before, Passed
    <3> QED BY <1>2, <2>8, <3>2, PassedGrows
  <2>9. Passed(r)'
    BY <1>2, <2>1, <2>3 DEF Passed
  <2>10. AnsweredPart'
    <3> SUFFICES ASSUME NEW d \in Connections, NEW i \in DOMAIN answered[d]
                 PROVE  /\ Passed(answered[d][i])'
                        /\ Holding' => Before(answered[d][i], current.req)
                        /\ \A k \in DOMAIN pending' : Before(answered[d][i], pending'[k].req)
      BY <1>1 DEF AnsweredPart, Before
    <3>1. PICK s \in Message : s = answered[d][i] /\ Passed(s)
      BY PipelineTypes DEF Pipeline, AnsweredPart
    <3>2. Before(s, r) /\ Passed(s)'
      BY <2>8, <3>1
    <3>3. Passed(answered[d][i])'
      BY <1>1, <3>1, <3>2 DEF Passed
    <3>4. ASSUME NEW k \in DOMAIN pending' PROVE Before(s, pending'[k].req)
      BY <2>4, <2>7, <3>1, <3>2, <3>4 DEF Pipeline, AnsweredPart
    <3> QED BY <1>3, <3>1, <3>3, <3>4 DEF Pipeline, AnsweredPart
  <2>11. CurrentPart'
    <3> SUFFICES ASSUME Holding
                 PROVE  Passed(current.req)' /\ \A k \in DOMAIN pending' : Before(current.req, pending'[k].req)
      BY <1>1, <1>3 DEF CurrentPart, Before
    <3>1. PICK s \in Message : s = current.req /\ Passed(s)
      BY PipelineTypes DEF Pipeline, CurrentPart, Holding
    <3>2. Before(s, r) /\ Passed(s)'
      BY <2>8, <3>1
    <3>3. Passed(current.req)'
      BY <1>1, <3>1, <3>2 DEF Passed
    <3>4. ASSUME NEW k \in DOMAIN pending' PROVE Before(s, pending'[k].req)
      BY <2>4, <2>7, <3>1, <3>2, <3>4 DEF Pipeline, CurrentPart
    <3> QED BY <3>1, <3>3, <3>4
  <2>12. PendingPart'
    <3>1. ASSUME NEW k \in 1 .. n
          PROVE  Before(pending[k].req, r) /\ Passed(pending[k].req) /\ (Passed(pending[k].req))'
      <4>1. PICK s \in Message : s = pending[k].req /\ Passed(s)
        BY <2>7, PipelineTypes DEF Pipeline, PendingPart
      <4>2. Before(s, r) /\ Passed(s)'
        BY <2>8, <4>1
      <4> QED BY <2>7, <4>1, <4>2 DEF Passed
    <3>2. ASSUME NEW k \in DOMAIN pending' PROVE Passed(pending[k].req)'
      <4>1. CASE k \in 1 .. n
        BY <3>1, <4>1
      <4>2. CASE k = n + 1
        BY <2>4, <2>7, <2>9, <4>2 DEF Passed
      <4> QED BY <2>7, <4>1, <4>2
    <3>3. ASSUME NEW k \in DOMAIN pending', NEW m \in DOMAIN pending', k < m
          PROVE  Before(pending'[k].req, pending'[m].req)
      <4>1. k \in 1 .. n /\ (m \in 1 .. n \/ m = n + 1)
        BY <2>7, <3>3
      <4>2. CASE m \in 1 .. n
        BY <2>7, <3>3, <4>1, <4>2 DEF Pipeline, PendingPart
      <4>3. CASE m = n + 1
        BY <2>4, <2>7, <3>1, <4>1, <4>3
      <4> QED BY <4>1, <4>2, <4>3
    <3> QED BY <3>2, <3>3 DEF PendingPart, Before
  <2>13. AnsweredInOrder'
    BY <1>1 DEF Pipeline, AnsweredInOrder
  <2> QED BY <1>2, <2>10, <2>11, <2>12, <2>13 DEF Pipeline
<1> QED
  BY <1>1, <1>4, <1>5

\* Steps that neither read nor answer nor lose a request.
LEMMA OrderElsewhere ==
    ASSUME TypeInv, TypeInv', OrderInv, UNCHANGED <<inbox, messages, answered, pending, current>>, Holding' => Holding
    PROVE  OrderInv'
<1>1. \A d \in Connections : Read(d) <= Read(d)'
  BY ReadTyped DEF Read
<1>2. NumberedInv'
  BY DEF OrderInv, NumberedInv, Read
<1>3. Pipeline'
  BY <1>1, PipelineKept DEF OrderInv, Pipeline
<1> QED
  BY <1>2, <1>3 DEF OrderInv, Pipeline

LEMMA OrderStep ==
    ASSUME TypeInv, TypeInv', RoutedInv, OrderInv, [Next]_vars
    PROVE  OrderInv'
<1> USE DEF listenerVars, readVars, serverVars, writeVars, blockVars, flags, history
<1>1. NumberedInv /\ Pipeline /\ InboxInv
  BY DEF OrderInv, Pipeline, RoutedInv
<1>2. ASSUME NEW c \in Connections, NEW kind \in Kinds[c], ClientSends(c, kind) PROVE OrderInv'
  <2>1. UNCHANGED <<answered, pending, current, pc>>
    BY <1>2 DEF ClientSends
  <2>2. NumberedInv' /\ \A d \in Connections : Read(d) <= Read(d)'
    BY <1>1, <1>2, NumberedSend
  <2>3. Pipeline'
    BY <1>1, <2>1, <2>2, PipelineKept DEF Holding
  <2> QED BY <2>2, <2>3 DEF OrderInv, Pipeline
<1>3. ASSUME NEW c \in Connections, OnReadEmpty(c) \/ OnReadEof(c) \/ OnReadClose(c) PROVE OrderInv'
  <2>1. /\ UNCHANGED <<answered, pending, current, pc, messages>> /\ inbox[c] # <<>>
        /\ inbox' = [inbox EXCEPT ![c] = Tail(@)]
    BY <1>3 DEF OnReadEmpty, OnReadEof, OnReadClose, HasRead
  <2>2. NumberedInv' /\ \A d \in Connections : Read(d) <= Read(d)'
    BY <1>1, <2>1, NumberedRead
  <2>3. Pipeline'
    BY <1>1, <2>1, <2>2, PipelineKept DEF Holding
  <2> QED BY <2>2, <2>3 DEF OrderInv, Pipeline
<1>4. ASSUME NEW c \in Connections, OnReadRequest(c) PROVE OrderInv'
  BY <1>1, <1>4, PipelineRequest DEF OrderInv, Pipeline
<1>5. ASSUME Answer \/ Drop \/ Copy PROVE OrderInv'
  <2>1. Pipeline'
    BY <1>1, <1>5, PipelineAnswer, PipelineDrop, PipelineCopy
  <2>2. UNCHANGED <<inbox, messages>>
    BY <1>5 DEF Answer, Drop, Copy
  <2>3. NumberedInv'
    BY <1>1, <2>2 DEF NumberedInv, Read
  <2> QED BY <2>1, <2>3 DEF OrderInv, Pipeline
<1>6. CASE ClientConnects \/ OnAccept \/ OnAcceptError \/ Abort \/ UNCHANGED vars
  <2>1. UNCHANGED <<inbox, messages, answered, pending, current, pc>>
    BY <1>6 DEF ClientConnects, OnAccept, OnAcceptError, Abort, vars
  <2> QED BY <2>1, OrderElsewhere DEF Holding
<1>7. ASSUME NEW c \in Connections,
             HandshakeArrives(c) \/ MessageArrives(c) \/ Transmit(c) \/ WriteBreaks(c) \/ CloseSent(c)
      PROVE  OrderInv'
  <2>1. UNCHANGED <<inbox, messages, answered, pending, current, pc>>
    BY <1>7 DEF HandshakeArrives, MessageArrives, Transmit, WriteBreaks, CloseSent
  <2> QED BY <2>1, OrderElsewhere DEF Holding
<1>8. ASSUME NEW c \in Connections,
             \/ SessionOnAccept(c) \/ OnReadError(c) \/ DoRead(c) \/ OnReadThrows(c) \/ OnReadResume(c)
             \/ OnReadClosed(c) \/ WriteCompletes(c) \/ WriteFails(c) \/ OnWrite(c)
      PROVE  OrderInv'
  <2>1. UNCHANGED <<inbox, messages, answered, pending, current, pc>>
    BY <1>8 DEF SessionOnAccept, OnReadError, DoRead, OnReadThrows, OnReadResume, OnReadClosed, WriteCompletes,
                WriteFails, OnWrite
  <2> QED BY <2>1, OrderElsewhere DEF Holding
<1>9. CASE Lookup \/ AsyncWrite \/ PostCompletion \/ AsyncWriteFails \/ AsyncWriteParks
  <2>1. UNCHANGED <<inbox, messages, answered, pending, current>> /\ (Holding' => Holding)
    BY <1>9 DEF Lookup, AsyncWrite, PostCompletion, AsyncWriteFails, AsyncWriteParks, Holding
  <2> QED BY <2>1, OrderElsewhere
<1> QED
  BY <1>2, <1>3, <1>4, <1>5, <1>6, <1>7, <1>8, <1>9 DEF Next, Reactor, IoStep, IoHandler, ServerStep

\* The answers to a client's requests are given to Session::Send at most once each and in the
\* order in which the client sent them (Session::OnRead, Listener::Send), for any number of
\* clients and although the dispatcher refuses and loses requests.
THEOREM AnsweredInOrderCorrect == Spec => []AnsweredInOrder
<1>1. OrderInv => AnsweredInOrder
  BY DEF OrderInv
<1>2. TypeInv /\ RoutedInv /\ (TypeInv /\ RoutedInv)' /\ OrderInv /\ [Next]_vars => OrderInv'
  BY OrderStep
<1> QED
  BY <1>1, <1>2, OrderInit, RoutedInvariant, PTL DEF Spec

-----------------------------------------------------------------------------
(* The completion handlers of writes. *)

InSeq(s, x) == \E i \in DOMAIN s : s[i] = x

LEMMA InAppend ==
    ASSUME NEW S, NEW s \in Seq(S), NEW e \in S, NEW x
    PROVE  InSeq(Append(s, e), x) <=> InSeq(s, x) \/ e = x
<1>1. PICK n \in Nat : n = Len(s)
  OBVIOUS
<1> DEFINE u == Append(s, e)
<1>2. DOMAIN s = 1 .. n /\ DOMAIN u = 1 .. n + 1 /\ u[n + 1] = e /\ \A i \in 1 .. n : u[i] = s[i]
  BY <1>1
<1> HIDE DEF u
<1>3. ASSUME NEW i \in DOMAIN u, u[i] = x PROVE InSeq(s, x) \/ e = x
  <2>1. i \in 1 .. n \/ i = n + 1
    BY <1>2
  <2> QED BY <1>2, <1>3, <2>1 DEF InSeq
<1>4. ASSUME NEW i \in DOMAIN s, s[i] = x PROVE InSeq(u, x)
  <2>1. i \in DOMAIN u /\ u[i] = x
    BY <1>2, <1>4
  <2> QED BY <2>1 DEF InSeq
<1>5. e = x => InSeq(u, x)
  <2>1. n + 1 \in DOMAIN u /\ u[n + 1] = e
    BY <1>2
  <2> QED BY <2>1 DEF InSeq
<1>6. InSeq(u, x) <=> InSeq(s, x) \/ e = x
  BY <1>3, <1>4, <1>5 DEF InSeq
<1> QED
  BY <1>6 DEF u

LEMMA InTail ==
    ASSUME NEW S, NEW s \in Seq(S), s # <<>>, NEW x
    PROVE  InSeq(s, x) <=> Head(s) = x \/ InSeq(Tail(s), x)
<1>1. PICK n \in Nat : n = Len(s) /\ n > 0
  OBVIOUS
<1> DEFINE u == Tail(s)
<1>2. DOMAIN s = 1 .. n /\ DOMAIN u = 1 .. n - 1 /\ Head(s) = s[1] /\ \A i \in 1 .. n - 1 : u[i] = s[i + 1]
  BY <1>1
<1> HIDE DEF u
<1>3. ASSUME NEW i \in DOMAIN s, s[i] = x PROVE Head(s) = x \/ InSeq(u, x)
  <2>1. CASE i = 1
    BY <1>2, <1>3, <2>1
  <2>2. CASE i # 1
    <3>1. i - 1 \in DOMAIN u /\ (i - 1) + 1 = i
      BY <1>2, <2>2
    <3>2. u[i - 1] = x
      BY <1>2, <1>3, <3>1
    <3> QED BY <3>1, <3>2 DEF InSeq
  <2> QED BY <2>1, <2>2
<1>4. ASSUME NEW i \in DOMAIN u, u[i] = x PROVE InSeq(s, x)
  <2>1. i + 1 \in DOMAIN s /\ s[i + 1] = x
    BY <1>2, <1>4
  <2> QED BY <2>1 DEF InSeq
<1>5. Head(s) = x => InSeq(s, x)
  <2>1. 1 \in DOMAIN s /\ s[1] = Head(s)
    BY <1>1, <1>2
  <2> QED BY <2>1 DEF InSeq
<1>6. InSeq(s, x) <=> Head(s) = x \/ InSeq(u, x)
  BY <1>3, <1>4, <1>5 DEF InSeq
<1> QED
  BY <1>6 DEF u

LEMMA InCons ==
    ASSUME NEW S, NEW s \in Seq(S), NEW e \in S, NEW x
    PROVE  InSeq(<<e>> \o s, x) <=> e = x \/ InSeq(s, x)
<1> DEFINE u == <<e>> \o s
<1>1. u \in Seq(S) /\ u # <<>> /\ Head(u) = e /\ Tail(u) = s
  OBVIOUS
<1> HIDE DEF u
<1>2. InSeq(u, x) <=> Head(u) = x \/ InSeq(Tail(u), x)
  BY <1>1, InTail
<1> QED
  BY <1>1, <1>2 DEF u

Holds(q, u, c) == InSeq(q, Event(u, c))

LEMMA QueuedIn ==
    \A t, c : (Queued(t, c) <=> Holds(ready, t, c)) /\ (Queued(t, c)' <=> Holds(ready', t, c))
BY DEF Queued, InSeq, Holds

LEMMA EventFacts ==
    /\ \A t \in EventTypes, c \in Connections \cup {0} : Event(t, c) \in Events
    /\ \A t, u, c, d : Event(t, c) = Event(u, d) <=> t = u /\ c = d
BY DEF Event, Events

\* A handler is added at the end of a queue or at its front.
LEMMA HoldsAdded ==
    ASSUME NEW q \in Seq(Events), NEW t \in EventTypes, NEW d \in Connections \cup {0}, NEW u, NEW c
    PROVE  /\ Append(q, Event(t, d)) \in Seq(Events)
           /\ Holds(Append(q, Event(t, d)), u, c) <=> Holds(q, u, c) \/ (t = u /\ d = c)
           /\ <<Event(t, d)>> \o q \in Seq(Events)
           /\ Holds(<<Event(t, d)>> \o q, u, c) <=> Holds(q, u, c) \/ (t = u /\ d = c)
<1>1. PICK e \in Events : e = Event(t, d)
  BY EventFacts
<1>2. e = Event(u, c) <=> t = u /\ d = c
  BY <1>1, EventFacts
<1>3. InSeq(Append(q, e), Event(u, c)) <=> InSeq(q, Event(u, c)) \/ e = Event(u, c)
  BY InAppend
<1>4. InSeq(<<e>> \o q, Event(u, c)) <=> e = Event(u, c) \/ InSeq(q, Event(u, c))
  BY InCons
<1> QED
  BY <1>1, <1>2, <1>3, <1>4, EventSequences DEF Holds

\* The io thread takes the first handler off its queue.
LEMMA HoldsTaken ==
    ASSUME TypeInv, NEW t, NEW d, Runs(t, d), NEW u, NEW c
    PROVE  /\ ready \in Seq(Events) /\ Tail(ready) \in Seq(Events)
           /\ Queued(t, d)
           /\ ~(t = u /\ d = c) => (Holds(Tail(ready), u, c) <=> Queued(u, c))
<1>1. ready \in Seq(Events) /\ ready # <<>> /\ Head(ready) = Event(t, d)
  BY DEF TypeInv, TypeOK, Events, Runs
<1>2. InSeq(ready, Event(u, c)) <=> Head(ready) = Event(u, c) \/ InSeq(Tail(ready), Event(u, c))
  BY <1>1, InTail
<1>3. Event(t, d) = Event(u, c) <=> t = u /\ d = c
  BY EventFacts
<1>4. InSeq(ready, Event(t, d))
  BY <1>1, InTail
<1> QED
  BY <1>1, <1>2, <1>3, <1>4, QueuedIn DEF Holds

\* The handlers of writes, and steps that leave them alone.
WriteTypes == {"sent", "broken", "written"}
SameWrites == \A c \in Connections, u \in WriteTypes : Queued(u, c)' <=> Queued(u, c)

LEMMA SameWhenAdded ==
    ASSUME TypeInv, NEW v \in EventTypes \ WriteTypes, NEW b \in Connections \cup {0},
           ready' = ready \/ ready' = Append(ready, Event(v, b))
    PROVE  SameWrites
<1>1. ready \in Seq(Events)
  BY DEF TypeInv, TypeOK, Events
<1>2. ASSUME NEW c \in Connections, NEW u \in WriteTypes PROVE Queued(u, c)' <=> Queued(u, c)
  <2>1. v \in EventTypes /\ v # u
    OBVIOUS
  <2>2. Holds(Append(ready, Event(v, b)), u, c) <=> Holds(ready, u, c)
    BY <1>1, <2>1, HoldsAdded
  <2> QED BY <2>2, QueuedIn
<1> QED
  BY <1>2 DEF SameWrites

LEMMA SameWhenTaken ==
    ASSUME TypeInv, NEW t, t \notin WriteTypes, NEW d, Runs(t, d),
           NEW v \in EventTypes \ WriteTypes, NEW b \in Connections \cup {0},
           ready' = Tail(ready) \/ ready' = Append(Tail(ready), Event(v, b))
    PROVE  SameWrites
<1>1. ASSUME NEW c \in Connections, NEW u \in WriteTypes PROVE Queued(u, c)' <=> Queued(u, c)
  <2>1. Tail(ready) \in Seq(Events) /\ (Holds(Tail(ready), u, c) <=> Queued(u, c))
    BY HoldsTaken
  <2>2. v \in EventTypes /\ v # u
    OBVIOUS
  <2>3. Holds(Append(Tail(ready), Event(v, b)), u, c) <=> Holds(Tail(ready), u, c)
    BY <2>1, <2>2, HoldsAdded
  <2> QED BY <2>1, <2>3, QueuedIn
<1> QED
  BY <1>1 DEF SameWrites

\* Connecting, accepting and reading neither start a write nor complete one.
LEMMA WritesElsewhere ==
    ASSUME TypeInv,
           \/ ClientConnects \/ OnAccept \/ OnAcceptError
           \/ \E c \in Connections :
                \/ HandshakeArrives(c) \/ MessageArrives(c) \/ CloseSent(c) \/ SessionOnAccept(c) \/ OnReadError(c)
                \/ OnReadEmpty(c) \/ OnReadEof(c) \/ OnReadClose(c) \/ OnReadRequest(c) \/ DoRead(c)
    PROVE  SameWrites
<1>1. /\ {"accept", "handshake", "read", "closed"} \subseteq EventTypes \ WriteTypes
      /\ "handshake" \notin WriteTypes /\ "read" \notin WriteTypes /\ "accept" \notin WriteTypes
  BY DEF EventTypes, WriteTypes
<1>2. CASE ClientConnects
  BY <1>1, <1>2, SameWhenAdded DEF ClientConnects
<1>3. CASE OnAccept \/ OnAcceptError
  <2>1. Runs("accept", 0) /\ (ready' = Tail(ready) \/ ready' = Append(Tail(ready), Event("accept", 0)))
    BY <1>3 DEF OnAccept, OnAcceptError
  <2> QED BY <1>1, <2>1, SameWhenTaken
<1>4. ASSUME NEW c \in Connections, HandshakeArrives(c) \/ MessageArrives(c) \/ CloseSent(c) PROVE SameWrites
  BY <1>1, <1>4, SameWhenAdded DEF HandshakeArrives, MessageArrives, CloseSent
<1>5. ASSUME NEW c \in Connections, DoRead(c) PROVE SameWrites
  <2>1. ready' = ready \/ ready' = Append(ready, Event("read", c))
    BY <1>5 DEF DoRead, DoReadQueue
  <2> QED BY <1>1, <2>1, SameWhenAdded
<1>6. ASSUME NEW c \in Connections,
             SessionOnAccept(c) \/ OnReadError(c) \/ OnReadEmpty(c) \/ OnReadEof(c) \/ OnReadClose(c) \/ OnReadRequest(c)
      PROVE  SameWrites
  <2>1. /\ Runs("handshake", c) \/ Runs("read", c)
        /\ ready' = Tail(ready) \/ ready' = Append(Tail(ready), Event("read", c))
    BY <1>6 DEF SessionOnAccept, OnReadError, OnReadEmpty, OnReadEof, OnReadClose, OnReadRequest, HasRead, DoReadQueue
  <2> QED BY <1>1, <2>1, SameWhenTaken
<1> QED
  BY <1>2, <1>3, <1>4, <1>5, <1>6

\* A write that is over leaves its OnWrite behind, and the other handlers of writes as they
\* were.
LEMMA WriteReleasesQueue ==
    ASSUME TypeInv, NEW d \in Connections, NEW t \in {"sent", "broken"}, Runs(t, d), WriteReleases(d)
    PROVE  /\ Queued(t, d) /\ Queued("written", d)'
           /\ \A c \in Connections, u \in WriteTypes :
                 ~(u = t /\ d = c) /\ ~(u = "written" /\ d = c) => (Queued(u, c)' <=> Queued(u, c))
<1>1. {"written", "resume"} \subseteq EventTypes /\ "resume" \notin WriteTypes /\ "written" \in WriteTypes
  BY DEF EventTypes, WriteTypes
<1>2. PICK q \in Seq(Events) :
          /\ q = Tail(ready) \/ q = Append(Tail(ready), Event("resume", d))
          /\ ready' = <<Event("written", d)>> \o q
  <2>1. Tail(ready) \in Seq(Events)
    BY HoldsTaken
  <2>2. Append(Tail(ready), Event("resume", d)) \in Seq(Events)
    BY <1>1, <2>1, HoldsAdded
  <2> QED BY <2>1, <2>2 DEF WriteReleases
<1>3. Queued("written", d)'
  BY <1>1, <1>2, HoldsAdded, QueuedIn
<1>4. ASSUME NEW c \in Connections, NEW u \in WriteTypes, ~(u = t /\ d = c), ~(u = "written" /\ d = c)
      PROVE  Queued(u, c)' <=> Queued(u, c)
  <2>1. Tail(ready) \in Seq(Events) /\ (Holds(Tail(ready), u, c) <=> Queued(u, c))
    BY <1>4, HoldsTaken
  <2>2. Holds(Append(Tail(ready), Event("resume", d)), u, c) <=> Holds(Tail(ready), u, c)
    BY <1>1, <2>1, HoldsAdded
  <2>3. Holds(q, u, c) <=> Queued(u, c)
    BY <1>2, <2>1, <2>2
  <2>4. Holds(ready', u, c) <=> Holds(q, u, c)
    BY <1>1, <1>2, <1>4, HoldsAdded
  <2> QED BY <2>3, <2>4, QueuedIn
<1> QED
  BY <1>3, <1>4, HoldsTaken

\* A read that is over gives the write block to a parked write at most.
LEMMA ReadReleasesQueue ==
    ASSUME TypeInv, NEW d \in Connections, NEW t \in {"resume", "closed"}, Runs(t, d), ReadReleases(d)
    PROVE  /\ wr_block[d] = "read" /\ d \in paused_wr => Queued("sent", d)'
           /\ \A c \in Connections, u \in WriteTypes :
                 ~(u = "sent" /\ d = c /\ d \in paused_wr /\ wr_block[d] = "read") => (Queued(u, c)' <=> Queued(u, c))
<1>1. {"sent", "read"} \subseteq EventTypes /\ "read" \notin WriteTypes /\ "resume" \notin WriteTypes /\ "closed" \notin WriteTypes
  BY DEF EventTypes, WriteTypes
<1>2. Tail(ready) \in Seq(Events)
  BY HoldsTaken
<1>3. Append(Tail(ready), Event("sent", d)) \in Seq(Events)
  BY <1>1, <1>2, HoldsAdded
<1>4. CASE wr_block[d] = "read" /\ d \in paused_wr
  <2>1. ready' = Append(Append(Tail(ready), Event("sent", d)), Event("read", d))
    BY <1>4 DEF ReadReleases
  <2>2. ASSUME NEW c \in Connections, NEW u \in WriteTypes
        PROVE  Queued(u, c)' <=> Queued(u, c) \/ ("sent" = u /\ d = c)
    <3>1. Holds(Tail(ready), u, c) <=> Queued(u, c)
      BY <1>1, HoldsTaken
    <3>2. Holds(Append(Tail(ready), Event("sent", d)), u, c) <=> Holds(Tail(ready), u, c) \/ ("sent" = u /\ d = c)
      BY <1>1, <1>2, HoldsAdded
    <3>3. Holds(ready', u, c) <=> Holds(Append(Tail(ready), Event("sent", d)), u, c)
      BY <1>1, <1>3, <2>1, HoldsAdded
    <3> QED BY <3>1, <3>2, <3>3, QueuedIn
  <2>3. "sent" \in WriteTypes
    BY DEF WriteTypes
  <2> QED BY <1>4, <2>2, <2>3
<1>5. CASE ~(wr_block[d] = "read" /\ d \in paused_wr)
  <2>1. ready' = Append(Tail(ready), Event("read", d))
    BY <1>5 DEF ReadReleases
  <2>2. SameWrites
    BY <1>1, <2>1, SameWhenTaken
  <2> QED BY <1>5, <2>2 DEF SameWrites
<1> QED
  BY <1>4, <1>5

-----------------------------------------------------------------------------
(* What the steps do to the writes of a session. *)

\* Send has filled the buffer and not written it yet.
Filled(c) == pc = "write" /\ target = c
\* The socket took the data of its write at once.
Posting(c) == pc = "post" /\ target = c

\* A read that is over may give the write block to the parked write of session c.
Hands(c) == c \in paused_wr /\ (OnReadResume(c) \/ OnReadClosed(c))

\* The steps that touch the writes of session c, and what the others leave alone.
Touches(c) ==
    \/ Transmit(c) \/ WriteBreaks(c) \/ WriteCompletes(c) \/ WriteFails(c) \/ OnWrite(c) \/ Hands(c)
    \/ target = c /\ (Copy \/ AsyncWrite \/ PostCompletion \/ AsyncWriteFails \/ AsyncWriteParks)

Kept(c) ==
    /\ outbox'[c] = outbox[c] /\ answered'[c] = answered[c]
    /\ write_buffer'[c] = write_buffer[c] /\ data'[c] = data[c]
    /\ wr_block'[c] = "write" <=> wr_block[c] = "write"
    /\ c \in paused_wr' <=> c \in paused_wr
    /\ \A u \in WriteTypes : Queued(u, c)' <=> Queued(u, c)
    /\ Filled(c)' <=> Filled(c)
    /\ Posting(c)' <=> Posting(c)
    /\ pc' = "copy" /\ target' = c => (pc = "copy" /\ target = c) \/ Lookup

LEMMA KeptOutside ==
    ASSUME NEW c \in Connections, \A u \in WriteTypes : Queued(u, c)' <=> Queued(u, c),
           UNCHANGED <<pc, target, write_buffer, data, outbox, answered>>,
           wr_block'[c] = "write" <=> wr_block[c] = "write", c \in paused_wr' <=> c \in paused_wr
    PROVE  Kept(c)
BY DEF Kept, Filled, Posting

\* The types of what concerns one session.
LEMMA SessionTypes ==
    ASSUME TypeInv, NEW c \in Connections
    PROVE  /\ outbox \in [Connections -> Seq(Seq(Message))] /\ outbox[c] \in Seq(Seq(Message))
           /\ answered \in [Connections -> Seq(Message)] /\ answered[c] \in Seq(Message)
           /\ write_buffer \in [Connections -> Seq(Message)] /\ write_buffer[c] \in Seq(Message)
           /\ data \in [Connections -> Seq(Message)] /\ data[c] \in Seq(Message)
           /\ wr_block \in [Connections -> {"none", "write", "read"}]
           /\ stream \in [Connections -> Statuses]
           /\ ready \in Seq(Events) /\ WriteTypes \subseteq EventTypes
BY DEF TypeInv, TypeOK, Events, EventTypes, WriteTypes

LEMMA KeptBy ==
    ASSUME TypeInv, [Next]_vars, NEW c \in Connections, ~Touches(c)
    PROVE  Kept(c)
<1> USE DEF listenerVars, readVars, serverVars, flags, history
<1>1. CASE \/ ClientConnects \/ OnAccept \/ OnAcceptError
           \/ \E d \in Connections :
                \/ HandshakeArrives(d) \/ MessageArrives(d) \/ CloseSent(d) \/ SessionOnAccept(d) \/ OnReadError(d)
                \/ OnReadEmpty(d) \/ OnReadEof(d) \/ OnReadClose(d) \/ OnReadRequest(d) \/ DoRead(d)
  <2>1. UNCHANGED <<pc, target, write_buffer, data, outbox, answered, paused_wr>>
    BY <1>1 DEF ClientConnects, OnAccept, OnAcceptError, HandshakeArrives, MessageArrives, CloseSent, SessionOnAccept,
                OnReadError, OnReadEmpty, OnReadEof, OnReadClose, OnReadRequest, DoRead, writeVars, blockVars
  <2>2. wr_block'[c] = "write" <=> wr_block[c] = "write"
    <3>1. CASE \E d \in Connections : OnReadClose(d)
      BY <3>1, SessionTypes DEF OnReadClose
    <3>2. CASE UNCHANGED wr_block
      BY <3>2
    <3> QED
      BY <1>1, <3>1, <3>2 DEF ClientConnects, OnAccept, OnAcceptError, HandshakeArrives, MessageArrives, CloseSent,
                SessionOnAccept, OnReadError, OnReadEmpty, OnReadEof, OnReadRequest, DoRead, writeVars, blockVars
  <2>3. SameWrites
    BY <1>1, WritesElsewhere
  <2> QED BY <2>1, <2>2, <2>3, KeptOutside DEF SameWrites
<1>2. CASE \/ Drop \/ Abort \/ UNCHANGED vars
           \/ \E d \in Connections : OnReadThrows(d) \/ \E kind \in Kinds[d] : ClientSends(d, kind)
  <2>1. UNCHANGED <<pc, target, writeVars, answered, ready>>
    BY <1>2 DEF Drop, Abort, vars, OnReadThrows, ClientSends
  <2>2. \A u \in WriteTypes : Queued(u, c)' <=> Queued(u, c)
    BY <2>1 DEF Queued
  <2> QED BY <2>1, <2>2, KeptOutside DEF writeVars, blockVars
<1>3. CASE Answer \/ Lookup
  <2>1. /\ UNCHANGED <<writeVars, answered, ready>>
        /\ pc \in {"idle", "lookup"} /\ pc' \in {"idle", "lookup", "copy"} /\ (pc' = "copy" => Lookup)
    BY <1>3 DEF Answer, Lookup
  <2>2. \A u \in WriteTypes : Queued(u, c)' <=> Queued(u, c)
    BY <2>1 DEF Queued
  <2> QED BY <2>1, <2>2 DEF Kept, writeVars, blockVars, Filled, Posting
<1>4. CASE Copy \/ AsyncWrite \/ PostCompletion \/ AsyncWriteFails \/ AsyncWriteParks
  <2>1. /\ target' = target /\ target # c /\ target \in Connections
        /\ pc \in {"copy", "write", "post"} /\ pc' \in {"idle", "write", "post"}
    BY <1>4 DEF Copy, AsyncWrite, PostCompletion, AsyncWriteFails, AsyncWriteParks, Touches, TypeInv, SendTyped
  <2>2. /\ outbox'[c] = outbox[c] /\ answered'[c] = answered[c]
        /\ write_buffer'[c] = write_buffer[c] /\ data'[c] = data[c] /\ wr_block'[c] = wr_block[c]
        /\ c \in paused_wr' <=> c \in paused_wr
    BY <1>4, <2>1, SessionTypes
    DEF Copy, AsyncWrite, PostCompletion, AsyncWriteFails, AsyncWriteParks, writeVars, blockVars
  <2>3. \A u \in WriteTypes : Queued(u, c)' <=> Queued(u, c)
    <3>1. CASE UNCHANGED ready
      BY <3>1 DEF Queued
    <3>2. CASE PostCompletion \/ AsyncWriteFails
      <4>1. PICK t \in WriteTypes : ready' = Append(ready, Event(t, target))
        BY <3>2 DEF PostCompletion, AsyncWriteFails, WriteTypes
      <4> QED BY <2>1, <4>1, SessionTypes, HoldsAdded, QueuedIn
    <3> QED BY <1>4, <3>1, <3>2 DEF Copy, AsyncWrite, AsyncWriteParks
  <2> QED BY <2>1, <2>2, <2>3 DEF Kept, Filled, Posting
<1>5. ASSUME NEW d \in Connections, Transmit(d) \/ WriteBreaks(d) PROVE Kept(c)
  <2>1. d # c /\ UNCHANGED <<pc, target, write_buffer, data, answered, blockVars>>
    BY <1>5 DEF Touches, Transmit, WriteBreaks, writeVars
  <2>2. outbox'[c] = outbox[c]
    BY <1>5, <2>1, SessionTypes DEF Transmit, WriteBreaks, writeVars
  <2>3. PICK t \in WriteTypes : ready' = Append(ready, Event(t, d))
    BY <1>5 DEF Transmit, WriteBreaks, WriteTypes
  <2>4. \A u \in WriteTypes : Queued(u, c)' <=> Queued(u, c)
    BY <2>1, <2>3, SessionTypes, HoldsAdded, QueuedIn
  <2> QED BY <2>1, <2>2, <2>4 DEF Kept, Filled, Posting, blockVars
<1>6. ASSUME NEW d \in Connections, WriteCompletes(d) \/ WriteFails(d) PROVE Kept(c)
  <2>1. /\ d # c /\ UNCHANGED <<pc, target, write_buffer, data, outbox, answered, paused_wr>>
        /\ WriteReleases(d) /\ (Runs("sent", d) \/ Runs("broken", d))
    BY <1>6 DEF Touches, WriteCompletes, WriteFails
  <2>2. wr_block'[c] = wr_block[c]
    BY <2>1, SessionTypes DEF WriteReleases
  <2>3. \A u \in WriteTypes : Queued(u, c)' <=> Queued(u, c)
    BY <2>1, WriteReleasesQueue
  <2> QED BY <2>1, <2>2, <2>3, KeptOutside
<1>7. ASSUME NEW d \in Connections, OnWrite(d) PROVE Kept(c)
  <2>1. d # c /\ UNCHANGED <<pc, target, data, outbox, answered, blockVars>> /\ Runs("written", d) /\ ready' = Tail(ready)
    BY <1>7 DEF Touches, OnWrite
  <2>2. write_buffer'[c] = write_buffer[c]
    BY <1>7, <2>1, SessionTypes DEF OnWrite
  <2>3. \A u \in WriteTypes : Queued(u, c)' <=> Queued(u, c)
    BY <2>1, HoldsTaken, QueuedIn
  <2> QED BY <2>1, <2>2, <2>3 DEF Kept, Filled, Posting, blockVars
<1>8. ASSUME NEW d \in Connections, OnReadResume(d) \/ OnReadClosed(d) PROVE Kept(c)
  <2>1. /\ UNCHANGED <<pc, target, write_buffer, data, outbox, answered>> /\ (Runs("resume", d) \/ Runs("closed", d))
        /\ d = c => c \notin paused_wr
    BY <1>8 DEF Touches, Hands, OnReadResume, OnReadClosed
  <2>2. CASE ReadReleases(d)
    <3>1. (wr_block'[c] = "write" <=> wr_block[c] = "write") /\ (c \in paused_wr' <=> c \in paused_wr)
      BY <2>1, <2>2, SessionTypes DEF ReadReleases
    <3>2. \A u \in WriteTypes : Queued(u, c)' <=> Queued(u, c)
      BY <2>1, <2>2, ReadReleasesQueue
    <3> QED BY <2>1, <3>1, <3>2, KeptOutside
  <2>3. CASE UNCHANGED <<wr_block, paused_wr>> /\ ready' = Tail(ready)
    <3>1. {"resume", "closed"} \cap WriteTypes = {}
      BY DEF WriteTypes
    <3>2. \A u \in WriteTypes : Queued(u, c)' <=> Queued(u, c)
      BY <2>1, <2>3, <3>1, HoldsTaken, QueuedIn
    <3> QED BY <2>1, <2>3, <3>2, KeptOutside
  <2> QED BY <1>8, <2>2, <2>3 DEF OnReadResume, OnReadClosed
<1> QED
  BY <1>1, <1>2, <1>3, <1>4, <1>5, <1>6, <1>7, <1>8 DEF Next, Reactor, IoStep, IoHandler, ServerStep

-----------------------------------------------------------------------------
(* The causes of undefined behaviour. *)

\* Where no Send has crossed an OnWrite, nothing of the last write is left when the next one
\* starts, and the write that it starts or parks is the only one.
Calm(c) ==
    /\ pc \in {"copy", "write"} /\ target = c => Settled(c)
    /\ wr_block[c] = "write" \/ c \in paused_wr => ~Queued("written", c)
    /\ c \in paused_wr => wr_block[c] # "write" /\ ~Queued("sent", c) /\ ~Queued("broken", c)
    /\ Posting(c) => wr_block[c] = "write" /\ ~Queued("sent", c) /\ ~Queued("broken", c)

CalmInv == \A c \in Connections \ crossed : Calm(c)

LEMMA CrossedStays ==
    ASSUME [Next]_vars
    PROVE  crossed \subseteq crossed'
<1> USE DEF history
<1>1. CASE ClientConnects \/ OnAcceptError \/ OnAccept \/ Answer \/ Drop \/ Abort \/ UNCHANGED vars
  BY <1>1 DEF ClientConnects, OnAcceptError, OnAccept, Answer, Drop, Abort, vars
<1>2. CASE Lookup \/ Copy \/ AsyncWrite \/ PostCompletion \/ AsyncWriteFails \/ AsyncWriteParks
  BY <1>2 DEF Lookup, Copy, AsyncWrite, PostCompletion, AsyncWriteFails, AsyncWriteParks
<1>3. ASSUME NEW d \in Connections, Reactor(d) \/ IoHandler(d) \/ \E kind \in Kinds[d] : ClientSends(d, kind)
      PROVE  crossed' = crossed
  <2>1. CASE Reactor(d) \/ \E kind \in Kinds[d] : ClientSends(d, kind)
    BY <2>1 DEF Reactor, HandshakeArrives, MessageArrives, Transmit, WriteBreaks, CloseSent, ClientSends
  <2>2. CASE IoHandler(d)
    BY <2>2 DEF IoHandler, SessionOnAccept, OnReadError, OnReadEmpty, OnReadRequest, DoRead, OnReadThrows, OnReadEof,
                OnReadClose, OnReadResume, OnReadClosed, WriteCompletes, WriteFails, OnWrite
  <2> QED BY <1>3, <2>1, <2>2
<1> QED
  BY <1>1, <1>2, <1>3 DEF Next, IoStep, ServerStep

\* A step that touches the writes of session c keeps it calm.
LEMMA CalmTouched ==
    ASSUME TypeInv, NEW c \in Connections, Calm(c), Touches(c)
    PROVE  Calm(c)'
<1> USE DEF listenerVars, readVars, serverVars, flags, history, WriteTypes
<1>0. ready \in Seq(Events) /\ WriteTypes \subseteq EventTypes /\ wr_block \in [Connections -> {"none", "write", "read"}]
  BY SessionTypes
<1>1. CASE target = c /\ Copy
  <2>1. UNCHANGED <<ready, target, wr_block, paused_wr>> /\ pc = "copy" /\ pc' = "write"
    BY <1>1 DEF Copy, blockVars
  <2>2. (Settled(c)' <=> Settled(c)) /\ \A u : Queued(u, c)' <=> Queued(u, c)
    BY <2>1 DEF Settled, Queued
  <2> QED BY <1>1, <2>1, <2>2 DEF Calm, Posting
<1>2. CASE target = c /\ AsyncWrite
  <2>1. /\ UNCHANGED <<ready, target, paused_wr>> /\ pc = "write" /\ pc' \in {"idle", "post"}
        /\ wr_block'[c] = "write"
    BY <1>0, <1>2 DEF AsyncWrite
  <2>2. Settled(c) /\ \A u : Queued(u, c)' <=> Queued(u, c)
    BY <1>2, <2>1 DEF Calm, Queued
  <2> QED BY <2>1, <2>2 DEF Calm, Posting, Settled
<1>3. CASE target = c /\ PostCompletion
  <2>1. UNCHANGED <<target, wr_block, paused_wr>> /\ Posting(c) /\ pc' = "idle" /\ ready' = Append(ready, Event("sent", c))
    BY <1>3 DEF PostCompletion, writeVars, blockVars, Posting
  <2>2. Queued("written", c)' <=> Queued("written", c)
    BY <1>0, <2>1, HoldsAdded, QueuedIn
  <2> QED BY <2>1, <2>2 DEF Calm, Posting
<1>4. CASE target = c /\ AsyncWriteFails
  <2>1. /\ UNCHANGED <<target, wr_block, paused_wr>> /\ pc = "write" /\ pc' = "idle" /\ wr_block[c] = "none"
    BY <1>4 DEF AsyncWriteFails, writeVars, blockVars
  <2>2. Settled(c)
    BY <1>4, <2>1 DEF Calm
  <2> QED BY <2>1, <2>2 DEF Calm, Posting, Settled
<1>5. CASE target = c /\ AsyncWriteParks
  <2>1. UNCHANGED <<target, wr_block, ready>> /\ pc = "write" /\ pc' = "idle"
    BY <1>5 DEF AsyncWriteParks
  <2>2. Settled(c) /\ \A u : Queued(u, c)' <=> Queued(u, c)
    BY <1>5, <2>1 DEF Calm, Queued
  <2> QED BY <2>1, <2>2 DEF Calm, Posting, Settled
<1>6. CASE Transmit(c) \/ WriteBreaks(c)
  <2>1. UNCHANGED <<pc, target, wr_block, paused_wr>> /\ wr_block[c] = "write" /\ ~Posting(c)
    BY <1>6 DEF Transmit, WriteBreaks, Waiting, writeVars, blockVars, Posting
  <2>2. PICK t \in {"sent", "broken"} : ready' = Append(ready, Event(t, c))
    BY <1>6 DEF Transmit, WriteBreaks
  <2>3. Queued("written", c)' <=> Queued("written", c)
    <3>1. t \in EventTypes /\ t # "written"
      BY <1>0, <2>2
    <3>2. Holds(Append(ready, Event(t, c)), "written", c) <=> Holds(ready, "written", c)
      BY <1>0, <3>1, HoldsAdded
    <3> QED BY <2>2, <3>2, QueuedIn
  <2>4. ~(pc \in {"copy", "write"} /\ target = c) /\ c \notin paused_wr /\ ~Queued("written", c)
    BY <2>1 DEF Calm, Settled
  <2>5. /\ ~(pc' \in {"copy", "write"} /\ target' = c) /\ c \notin paused_wr' /\ ~Queued("written", c)'
        /\ ~Posting(c)'
    BY <2>1, <2>3, <2>4 DEF Posting
  <2> QED BY <2>5 DEF Calm
<1>7. CASE WriteCompletes(c) \/ WriteFails(c)
  <2>1. UNCHANGED <<pc, target, paused_wr>> /\ WriteReleases(c) /\ (Runs("sent", c) \/ Runs("broken", c))
    BY <1>7 DEF WriteCompletes, WriteFails
  <2>2. Queued("sent", c) \/ Queued("broken", c)
    BY <2>1, WriteReleasesQueue
  <2>3. wr_block'[c] # "write"
    BY <1>0, <2>1 DEF WriteReleases
  <2> QED BY <2>1, <2>2, <2>3 DEF Calm, Posting, Settled
<1>8. CASE OnWrite(c)
  <2>1. UNCHANGED <<pc, target, wr_block, paused_wr>> /\ Runs("written", c) /\ ready' = Tail(ready)
    BY <1>8 DEF OnWrite, blockVars
  <2>2. /\ Queued("written", c)
        /\ \A u \in {"sent", "broken"} : Queued(u, c)' <=> Queued(u, c)
    BY <2>1, HoldsTaken, QueuedIn
  <2> QED BY <2>1, <2>2 DEF Calm, Posting, Settled
<1>9. CASE Hands(c)
  <2>1. /\ UNCHANGED <<pc, target>> /\ (Runs("resume", c) \/ Runs("closed", c)) /\ c \in paused_wr
        /\ ReadReleases(c) \/ (UNCHANGED <<wr_block, paused_wr>> /\ ready' = Tail(ready))
    BY <1>9 DEF Hands, OnReadResume, OnReadClosed
  <2>2. CASE ReadReleases(c)
    <3>1. (Queued("written", c)' <=> Queued("written", c)) /\ (Queued("broken", c)' <=> Queued("broken", c))
      BY <2>1, <2>2, ReadReleasesQueue
    <3>2. CASE wr_block[c] = "read"
      <4>1. wr_block'[c] = "write" /\ c \notin paused_wr'
        BY <1>0, <2>1, <2>2, <3>2 DEF ReadReleases
      <4> QED BY <2>1, <3>1, <4>1 DEF Calm, Posting, Settled
    <3>3. CASE wr_block[c] # "read"
      <4>1. wr_block'[c] = wr_block[c] /\ paused_wr' = paused_wr
        BY <1>0, <2>1, <2>2, <3>3 DEF ReadReleases
      <4>2. Queued("sent", c)' <=> Queued("sent", c)
        BY <2>1, <2>2, <3>3, ReadReleasesQueue
      <4> QED BY <2>1, <3>1, <4>1, <4>2 DEF Calm, Posting, Settled
    <3> QED BY <3>2, <3>3
  <2>3. CASE UNCHANGED <<wr_block, paused_wr>> /\ ready' = Tail(ready)
    <3>1. \A u \in WriteTypes : Queued(u, c)' <=> Queued(u, c)
      BY <2>1, <2>3, HoldsTaken, QueuedIn
    <3> QED BY <2>1, <2>3, <3>1 DEF Calm, Posting, Settled
  <2> QED BY <2>1, <2>2, <2>3
<1> QED
  BY <1>1, <1>2, <1>3, <1>4, <1>5, <1>6, <1>7, <1>8, <1>9 DEF Touches

LEMMA CalmStep ==
    ASSUME TypeInv, CalmInv, [Next]_vars
    PROVE  CalmInv'
<1> SUFFICES ASSUME NEW c \in Connections \ crossed' PROVE Calm(c)'
  BY DEF CalmInv
<1>1. Calm(c)
  BY CrossedStays DEF CalmInv
<1>2. CASE Touches(c)
  BY <1>1, <1>2, CalmTouched
<1>3. CASE ~Touches(c)
  <2>1. Kept(c)
    BY <1>3, KeptBy
  <2>2. (Settled(c)' <=> Settled(c)) /\ \A u \in WriteTypes : Queued(u, c)' <=> Queued(u, c)
    BY <2>1 DEF Kept, Settled, WriteTypes
  <2>3. pc' = "copy" /\ target' = c => Settled(c)
    <3>1. CASE Lookup
      <4>1. c = target' /\ target' # NoSession => Settled(c) \/ c \in crossed'
        BY <3>1 DEF Lookup
      <4> QED BY <4>1, RpcServerAssumption
    <3>2. CASE ~Lookup
      BY <1>1, <2>1, <3>2 DEF Kept, Calm
    <3> QED BY <3>1, <3>2
  <2> QED BY <1>1, <2>1, <2>2, <2>3 DEF Calm, Kept, Filled, WriteTypes
<1> QED
  BY <1>2, <1>3

\* The parts of UndefinedHasCause.
OverlapCaused == overlap \subseteq crossed
BufferCaused == \A c \in Connections : <<"write_buffer", c>> \in race => c \in crossed
MapCaused == <<"sessions", NoSession>> \in race => accepted > 1
EndCaused == terminated => race # {} \/ overlap # {} \/ \E c \in Connections : Rejected(c)

LEMMA OverlapStep ==
    ASSUME TypeInv, CalmInv, OverlapCaused, [Next]_vars
    PROVE  OverlapCaused'
<1> USE DEF flags
<1>1. ASSUME UNCHANGED overlap PROVE OverlapCaused'
  BY <1>1, CrossedStays DEF OverlapCaused
<1>2. CASE AsyncWriteParks
  <2>1. target \in Connections /\ pc = "write"
    BY <1>2 DEF AsyncWriteParks, TypeInv, SendTyped
  <2>2. target \in crossed \/ overlap' = overlap
    BY <1>2, <2>1 DEF AsyncWriteParks, CalmInv, Calm, Settled
  <2>3. overlap' \subseteq overlap \cup {target}
    BY <1>2 DEF AsyncWriteParks
  <2> QED BY <2>2, <2>3, CrossedStays DEF OverlapCaused
<1>3. CASE ClientConnects \/ OnAcceptError \/ OnAccept \/ Answer \/ Drop \/ Abort \/ UNCHANGED vars
  BY <1>1, <1>3 DEF ClientConnects, OnAcceptError, OnAccept, Answer, Drop, Abort, vars
<1>4. CASE Lookup \/ Copy \/ AsyncWrite \/ PostCompletion \/ AsyncWriteFails
  BY <1>1, <1>4 DEF Lookup, Copy, AsyncWrite, PostCompletion, AsyncWriteFails
<1>5. ASSUME NEW d \in Connections, Reactor(d) \/ \E kind \in Kinds[d] : ClientSends(d, kind) PROVE OverlapCaused'
  BY <1>1, <1>5 DEF Reactor, HandshakeArrives, MessageArrives, Transmit, WriteBreaks, CloseSent, ClientSends
<1>6. ASSUME NEW d \in Connections, IoHandler(d) PROVE OverlapCaused'
  BY <1>1, <1>6 DEF IoHandler, SessionOnAccept, OnReadError, OnReadEmpty, OnReadRequest, DoRead, OnReadThrows, OnReadEof,
                OnReadClose, OnReadResume, OnReadClosed, WriteCompletes, WriteFails, OnWrite
<1> QED
  BY <1>2, <1>3, <1>4, <1>5, <1>6 DEF Next, IoStep, ServerStep

LEMMA ObjectsDiffer ==
    /\ \A c, n : <<"write_buffer", c>> # <<"stream", n>> /\ <<"write_buffer", c>> # <<"sessions", n>>
    /\ \A n, m : <<"sessions", n>> # <<"stream", m>>
    /\ \A c, d : <<"write_buffer", c>> = <<"write_buffer", d>> => c = d
OBVIOUS

LEMMA AcceptedGrows ==
    ASSUME TypeInv, [Next]_vars
    PROVE  accepted <= accepted' /\ accepted \in Nat /\ accepted' \in Nat
<1> USE DEF listenerVars
<1>1. accepted \in Nat
  BY RpcServerAssumption DEF TypeInv, TypeOK
<1>2. accepted' = accepted \/ accepted' = accepted + 1
  <2>1. CASE ClientConnects \/ OnAcceptError \/ OnAccept \/ Answer \/ Drop \/ Abort \/ UNCHANGED vars
    BY <2>1 DEF ClientConnects, OnAcceptError, OnAccept, Answer, Drop, Abort, vars
  <2>2. CASE ServerStep
    BY <2>2 DEF ServerStep, Lookup, Copy, AsyncWrite, PostCompletion, AsyncWriteFails, AsyncWriteParks
  <2>3. ASSUME NEW d \in Connections, Reactor(d) \/ \E kind \in Kinds[d] : ClientSends(d, kind)
        PROVE  accepted' = accepted
    BY <2>3 DEF Reactor, HandshakeArrives, MessageArrives, Transmit, WriteBreaks, CloseSent, ClientSends
  <2>4. ASSUME NEW d \in Connections, IoHandler(d) PROVE accepted' = accepted
    BY <2>4 DEF IoHandler, SessionOnAccept, OnReadError, OnReadEmpty, OnReadRequest, DoRead, OnReadThrows, OnReadEof,
                OnReadClose, OnReadResume, OnReadClosed, WriteCompletes, WriteFails, OnWrite
  <2> QED BY <2>1, <2>2, <2>3, <2>4 DEF Next, IoStep
<1> QED
  BY <1>1, <1>2

LEMMA RaceStep ==
    ASSUME TypeInv, RoutedInv, CalmInv, BufferCaused, MapCaused, [Next]_vars
    PROVE  (BufferCaused /\ MapCaused)'
<1> USE DEF flags
<1>1. PICK a \in Nat, b \in Nat : a = accepted /\ b = accepted' /\ a <= b
  BY AcceptedGrows
<1>2. ASSUME race' \subseteq race \cup {<<"stream", NoSession>>} PROVE (BufferCaused /\ MapCaused)'
  <2>1. BufferCaused'
    <3> SUFFICES ASSUME NEW c \in Connections, <<"write_buffer", c>> \in race' PROVE c \in crossed'
      BY DEF BufferCaused
    <3>1. <<"write_buffer", c>> \in race
      BY <1>2, ObjectsDiffer
    <3> QED BY <3>1, CrossedStays DEF BufferCaused
  <2>2. MapCaused'
    <3>1. <<"sessions", NoSession>> \in race' => <<"sessions", NoSession>> \in race
      BY <1>2, ObjectsDiffer
    <3> QED BY <1>1, <3>1 DEF MapCaused
  <2> QED BY <2>1, <2>2
<1>3. CASE OnAccept
  <2>1. race' \subseteq race \cup {<<"sessions", NoSession>>} /\ b = a + 1
    BY <1>1, <1>3 DEF OnAccept
  <2>2. CASE pc = "lookup"
    <3>1. PICK c \in Connections : c < a
      BY <1>1, <2>2, PipelineTypes, MessageFacts DEF RoutedInv, SendInv, Known
    <3>2. b > 1
      BY <1>1, <2>1, <3>1 DEF Connections
    <3>3. BufferCaused'
      <4> SUFFICES ASSUME NEW d \in Connections, <<"write_buffer", d>> \in race' PROVE d \in crossed'
        BY DEF BufferCaused
      <4>1. <<"write_buffer", d>> \in race
        BY <2>1, ObjectsDiffer
      <4> QED BY <4>1, CrossedStays DEF BufferCaused
    <3> QED BY <1>1, <3>2, <3>3 DEF MapCaused
  <2>3. CASE pc # "lookup"
    BY <1>2, <1>3, <2>3 DEF OnAccept
  <2> QED BY <2>2, <2>3
<1>4. ASSUME NEW d \in Connections, OnWrite(d) PROVE (BufferCaused /\ MapCaused)'
  <2>1. Queued("written", d)
    BY <1>4, HoldsTaken DEF OnWrite
  <2>2. race' = race \/ (d \in crossed /\ race' = race \cup {<<"write_buffer", d>>})
    BY <1>4, <2>1 DEF OnWrite, CalmInv, Calm, Settled
  <2>3. BufferCaused'
    <3> SUFFICES ASSUME NEW c \in Connections, <<"write_buffer", c>> \in race' PROVE c \in crossed'
      BY DEF BufferCaused
    <3>1. <<"write_buffer", c>> \in race \/ (c = d /\ d \in crossed)
      BY <2>2, ObjectsDiffer
    <3> QED BY <3>1, CrossedStays DEF BufferCaused
  <2>4. MapCaused'
    <3>1. <<"sessions", NoSession>> \in race' => <<"sessions", NoSession>> \in race
      BY <2>2, ObjectsDiffer
    <3> QED BY <1>1, <3>1 DEF MapCaused
  <2> QED BY <2>3, <2>4
<1>5. CASE ClientConnects \/ OnAcceptError \/ Answer \/ Drop \/ Abort \/ UNCHANGED vars
  BY <1>2, <1>5 DEF ClientConnects, OnAcceptError, Answer, Drop, Abort, vars
<1>6. CASE ServerStep
  BY <1>2, <1>6 DEF ServerStep, Lookup, Copy, AsyncWrite, PostCompletion, AsyncWriteFails, AsyncWriteParks
<1>7. ASSUME NEW d \in Connections, Reactor(d) \/ \E kind \in Kinds[d] : ClientSends(d, kind)
      PROVE  (BufferCaused /\ MapCaused)'
  BY <1>2, <1>7 DEF Reactor, HandshakeArrives, MessageArrives, Transmit, WriteBreaks, CloseSent, ClientSends
<1>8. ASSUME NEW d \in Connections, IoHandler(d), ~OnWrite(d) PROVE (BufferCaused /\ MapCaused)'
  <2>1. UsesStream(d)
    BY <1>8 DEF IoHandler, SessionOnAccept, OnReadError, OnReadEmpty, OnReadRequest, DoRead, OnReadThrows, OnReadEof,
                OnReadClose, OnReadResume, OnReadClosed, WriteCompletes, WriteFails
  <2> QED BY <1>2, <2>1 DEF UsesStream
<1> QED
  BY <1>3, <1>4, <1>5, <1>6, <1>7, <1>8 DEF Next, IoStep

\* A process that has died does nothing more.
LEMMA EndStep ==
    ASSUME EndCaused, [Next]_vars
    PROVE  EndCaused'
<1> USE DEF flags
<1>1. CASE UNCHANGED vars
  BY <1>1 DEF vars, readVars, EndCaused, Rejected
<1>2. CASE Abort
  BY <1>2 DEF Abort, EndCaused
<1>3. ASSUME NEW c \in Connections, OnReadThrows(c) PROVE EndCaused'
  <2>1. Rejected(c)'
    BY <1>3 DEF OnReadThrows, Rejected, readVars
  <2> QED BY <2>1 DEF EndCaused
<1>4. ASSUME ~terminated, UNCHANGED terminated PROVE EndCaused'
  BY <1>4 DEF EndCaused
<1>5. CASE ClientConnects \/ OnAcceptError \/ OnAccept \/ Answer \/ Drop
  BY <1>4, <1>5 DEF ClientConnects, OnAcceptError, OnAccept, Answer, Drop, Runs
<1>6. CASE ServerStep
  BY <1>4, <1>6 DEF ServerStep, Lookup, Copy, AsyncWrite, PostCompletion, AsyncWriteFails, AsyncWriteParks
<1>7. ASSUME NEW d \in Connections, Reactor(d) \/ \E kind \in Kinds[d] : ClientSends(d, kind) PROVE EndCaused'
  BY <1>4, <1>7 DEF Reactor, HandshakeArrives, MessageArrives, Transmit, WriteBreaks, CloseSent, ClientSends
<1>8. ASSUME NEW d \in Connections, IoHandler(d), ~OnReadThrows(d) PROVE EndCaused'
  BY <1>4, <1>8 DEF IoHandler, SessionOnAccept, OnReadError, OnReadEmpty, OnReadRequest, DoRead, OnReadEof,
                OnReadClose, OnReadResume, OnReadClosed, WriteCompletes, WriteFails, OnWrite, HasRead, Runs
<1> QED
  BY <1>1, <1>2, <1>3, <1>5, <1>6, <1>7, <1>8 DEF Next, IoStep

CauseInv == CalmInv /\ OverlapCaused /\ BufferCaused /\ MapCaused /\ EndCaused

LEMMA CauseInit == Init => CauseInv
<1> SUFFICES ASSUME Init PROVE CauseInv
  OBVIOUS
<1>1. pc = "idle" /\ overlap = {} /\ race = {} /\ ~terminated /\ paused_wr = {}
  BY DEF Init
<1>2. \A c \in Connections : wr_block[c] = "none"
  BY DEF Init
<1>3. CalmInv
  BY <1>1, <1>2 DEF CalmInv, Calm, Posting
<1> QED
  BY <1>1, <1>3 DEF CauseInv, OverlapCaused, BufferCaused, MapCaused, EndCaused

LEMMA CauseInvariant == Spec => []CauseInv
<1>1. TypeInv /\ RoutedInv /\ CauseInv /\ [Next]_vars => CauseInv'
  BY CalmStep, OverlapStep, RaceStep, EndStep DEF CauseInv
<1> QED
  BY <1>1, CauseInit, RoutedInvariant, PTL DEF Spec

\* Two writes of a session at once, two threads in its write_buffer or in the map, and the end
\* of a process without undefined behaviour have the causes that Session::Send, OnWrite,
\* OnRead and Listener::OnAccept leave room for, and no others: a Send to this session before
\* its last OnWrite, a second client that connects, a text that is rejected; for any number
\* of clients and any traffic, writes that fail, writes that are parked and clients that
\* close or break their connections included.
THEOREM UndefinedHasCauseCorrect == Spec => []UndefinedHasCause
<1>1. CauseInv => UndefinedHasCause
  BY DEF CauseInv, OverlapCaused, BufferCaused, MapCaused, EndCaused, UndefinedHasCause
<1> QED
  BY <1>1, CauseInvariant, PTL

-----------------------------------------------------------------------------
(* What a client receives. *)

\* Messages o bring, one by one and in order, the first responses of a.
Brings(o, a) == Len(o) <= Len(a) /\ \A i \in DOMAIN o : o[i] = <<a[i]>>

\* All but the last one, and that is what s consists of.
LastIn(o, a, s) == Len(a) = Len(o) + 1 /\ s = <<a[Len(a)]>>

LEMMA BringsWhenAnswered ==
    ASSUME NEW o \in Seq(Seq(Message)), NEW a \in Seq(Message), NEW r \in Message, Brings(o, a)
    PROVE  /\ Brings(o, Append(a, r))
           /\ Len(o) = Len(a) => LastIn(o, Append(a, r), <<r>>)
<1>1. PICK m \in Nat, n \in Nat : m = Len(o) /\ n = Len(a) /\ m <= n
  BY DEF Brings
<1> DEFINE b == Append(a, r)
<1>2. Len(b) = n + 1 /\ b[n + 1] = r /\ \A i \in 1 .. n : b[i] = a[i]
  BY <1>1
<1> HIDE DEF b
<1>3. \A i \in DOMAIN o : o[i] = <<b[i]>>
  BY <1>1, <1>2 DEF Brings
<1>4. Brings(o, b)
  BY <1>1, <1>2, <1>3 DEF Brings
<1>5. m = n => LastIn(o, b, <<r>>)
  BY <1>1, <1>2 DEF LastIn
<1> QED
  BY <1>1, <1>4, <1>5 DEF b

LEMMA BringsWhenSent ==
    ASSUME NEW o \in Seq(Seq(Message)), NEW a \in Seq(Message), NEW s \in Seq(Message),
           Brings(o, a), LastIn(o, a, s)
    PROVE  Brings(Append(o, s), a) /\ Len(Append(o, s)) = Len(a)
<1>1. PICK m \in Nat : m = Len(o) /\ Len(a) = m + 1 /\ s = <<a[m + 1]>>
  BY DEF LastIn
<1> DEFINE u == Append(o, s)
<1>2. Len(u) = m + 1 /\ DOMAIN u = 1 .. m + 1 /\ u[m + 1] = s /\ \A i \in 1 .. m : u[i] = o[i]
  BY <1>1
<1> HIDE DEF u
<1>3. ASSUME NEW i \in 1 .. m + 1 PROVE u[i] = <<a[i]>>
  <2>1. CASE i \in 1 .. m
    <3>1. i \in DOMAIN o
      BY <1>1, <2>1
    <3> QED BY <1>2, <2>1, <3>1 DEF Brings
  <2>2. CASE i = m + 1
    BY <1>1, <1>2, <2>2
  <2> QED BY <1>1, <2>1, <2>2
<1>4. Brings(u, a) /\ Len(u) = Len(a)
  BY <1>1, <1>2, <1>3 DEF Brings
<1> QED
  BY <1>4 DEF u

\* The write in progress waits for the socket.
Flying(c) == wr_block[c] = "write" /\ ~Queued("sent", c) /\ ~Queued("broken", c) /\ ~Posting(c)

\* Nothing keeps the stream from sending what it is given.
Well(c) == stream[c] = "open" /\ c \notin paused_wr /\ ~Queued("broken", c)

\* The client has the first of the responses, a write that waits brings the next one, and
\* while all is well there is one response at most that it lacks, in the buffer or in the write.
InStep(c) ==
    /\ Brings(outbox[c], answered[c])
    /\ Flying(c) => LastIn(outbox[c], answered[c], data[c])
    /\ Well(c) =>
          /\ Filled(c) => LastIn(outbox[c], answered[c], write_buffer[c])
          /\ ~Filled(c) /\ ~Flying(c) => Len(outbox[c]) = Len(answered[c])
          /\ ~Filled(c) /\ Settled(c) => write_buffer[c] = <<>>

IntactInv == accepted <= IdModulus => \A c \in Connections \ crossed : InStep(c)

\* The handshake of a session is over, whatever came of it: only such a session reads, has
\* requests in the dispatcher and is answered.
Live(c) == c < accepted /\ stream[c] # "handshake"
LiveRead == \A c \in Connections : reading[c] => Live(c)
LivePending == \A k \in DOMAIN pending : Live(pending[k].req.conn)
LiveSend == pc # "idle" => Live(current.req.conn)
LiveInv == LiveRead /\ LivePending /\ LiveSend

\* Before the client ids come round, nothing is sent to the others.
Untouched(c) ==
    /\ answered[c] = <<>> /\ outbox[c] = <<>> /\ write_buffer[c] = <<>>
    /\ Settled(c)
    /\ ~(pc \in {"copy", "write", "post"} /\ target = c)
FreshInv == accepted <= IdModulus => \A c \in Connections : Live(c) \/ Untouched(c)

\* A stream is open only if it was or its handshake is over, and a handshake starts once.
LEMMA StreamSteps ==
    ASSUME TypeInv, [Next]_vars, NEW c \in Connections
    PROVE  /\ stream'[c] = "open" => stream[c] = "open" \/ stream[c] = "handshake"
           /\ stream'[c] = "handshake" => stream[c] = "handshake" \/ (OnAccept /\ c = accepted)
<1> USE DEF listenerVars, readVars, serverVars, writeVars, flags, history
<1>1. stream \in [Connections -> Statuses]
  BY SessionTypes
<1>2. CASE OnAccept
  BY <1>1, <1>2 DEF OnAccept
<1>3. ASSUME NEW d \in Connections,
             \/ SessionOnAccept(d) \/ OnReadEof(d) \/ OnReadClose(d) \/ OnReadResume(d) \/ OnReadClosed(d)
             \/ OnReadRequest(d) \/ WriteFails(d)
      PROVE  /\ stream'[c] = "open" => stream[c] = "open" \/ stream[c] = "handshake"
             /\ stream'[c] = "handshake" => stream[c] = "handshake"
  <2>1. \/ UNCHANGED stream
        \/ stream[d] = "handshake" /\ \E u \in {"open", "failed"} : stream' = [stream EXCEPT ![d] = u]
        \/ \E u \in {"failed", "closing", "closed"} : stream' = [stream EXCEPT ![d] = u]
    <3>1. CASE OnReadRequest(d)
      <4>1. stream' = [stream EXCEPT ![d] = IF Head(inbox[d]).kind = "partial" THEN "failed" ELSE @]
        BY <3>1 DEF OnReadRequest
      <4> QED BY <1>1, <4>1
    <3>2. CASE WriteFails(d)
      <4>1. stream' = [stream EXCEPT ![d] = IF @ = "closed" THEN @ ELSE "failed"]
        BY <3>2 DEF WriteFails
      <4> QED BY <1>1, <4>1
    <3>3. CASE SessionOnAccept(d)
      BY <3>3 DEF SessionOnAccept
    <3> QED
      BY <1>3, <3>1, <3>2, <3>3 DEF OnReadEof, OnReadClose, OnReadResume, OnReadClosed
  <2> QED BY <1>1, <2>1
<1>4. CASE ClientConnects \/ OnAcceptError \/ Answer \/ Drop \/ Abort \/ UNCHANGED vars
  BY <1>4 DEF ClientConnects, OnAcceptError, Answer, Drop, Abort, vars
<1>5. CASE ServerStep
  BY <1>5 DEF ServerStep, Lookup, Copy, AsyncWrite, PostCompletion, AsyncWriteFails, AsyncWriteParks
<1>6. ASSUME NEW d \in Connections,
             \/ Reactor(d) \/ OnReadError(d) \/ OnReadEmpty(d) \/ DoRead(d) \/ OnReadThrows(d)
             \/ WriteCompletes(d) \/ OnWrite(d) \/ \E kind \in Kinds[d] : ClientSends(d, kind)
      PROVE  UNCHANGED stream
  BY <1>6 DEF Reactor, HandshakeArrives, MessageArrives, Transmit, WriteBreaks, CloseSent, OnReadError, OnReadEmpty,
              DoRead, OnReadThrows, WriteCompletes, OnWrite, ClientSends
<1> QED
  BY <1>2, <1>3, <1>4, <1>5, <1>6 DEF Next, IoStep, IoHandler

LEMMA LiveKept ==
    ASSUME TypeInv, [Next]_vars, NEW c \in Connections, Live(c)
    PROVE  Live(c)'
<1>1. PICK a \in Nat, b \in Nat : a = accepted /\ b = accepted' /\ a <= b
  BY AcceptedGrows
<1>2. c \in Nat /\ c < a /\ stream[c] # "handshake"
  BY <1>1, RpcServerAssumption DEF Connections, Live
<1>3. stream'[c] # "handshake"
  BY <1>1, <1>2, StreamSteps
<1> QED
  BY <1>1, <1>2, <1>3 DEF Live

\* A read starts on an open stream.
LEMMA ReadStarts ==
    ASSUME TypeInv, InboxInv, [Next]_vars, NEW c \in Connections, reading'[c]
    PROVE  reading[c] \/ Live(c)'
<1> USE DEF listenerVars, readVars, serverVars, writeVars, flags, history
<1>1. stream \in [Connections -> Statuses] /\ reading \in [Connections -> BOOLEAN]
  BY DEF TypeInv, TypeOK
<1>2. ASSUME NEW d \in Connections, OnReadError(d) \/ OnReadEmpty(d) \/ DoRead(d) PROVE reading[c] \/ Live(c)'
  <2>1. UNCHANGED <<stream, accepted>> /\ reading' = [reading EXCEPT ![d] = stream[d] = "open"]
    BY <1>2 DEF OnReadError, OnReadEmpty, DoRead
  <2>2. reading[c] \/ stream[c] = "open"
    BY <1>1, <2>1
  <2> QED BY <2>1, <2>2 DEF InboxInv, Live
<1>3. ASSUME NEW d \in Connections, SessionOnAccept(d) PROVE reading[c] \/ Live(c)'
  <2>1. PICK u \in {"open", "failed"} :
            stream' = [stream EXCEPT ![d] = u] /\ reading' = [reading EXCEPT ![d] = u = "open"]
    BY <1>3 DEF SessionOnAccept
  <2>2. stream[d] = "handshake" /\ accepted' = accepted
    BY <1>3 DEF SessionOnAccept
  <2>3. reading[c] \/ (c = d /\ stream'[c] = "open")
    BY <1>1, <2>1
  <2> QED BY <2>2, <2>3 DEF InboxInv, Live
<1>4. ASSUME NEW d \in Connections, OnReadEof(d) \/ OnReadClose(d) \/ OnReadRequest(d) PROVE reading[c]
  <2>1. reading' = [reading EXCEPT ![d] = FALSE]
    BY <1>4 DEF OnReadEof, OnReadClose, OnReadRequest
  <2> QED BY <1>1, <2>1
<1>5. CASE ClientConnects \/ OnAccept \/ OnAcceptError \/ Answer \/ Drop \/ Abort \/ UNCHANGED vars
  BY <1>5 DEF ClientConnects, OnAccept, OnAcceptError, Answer, Drop, Abort, vars
<1>6. CASE ServerStep
  BY <1>6 DEF ServerStep, Lookup, Copy, AsyncWrite, PostCompletion, AsyncWriteFails, AsyncWriteParks
<1>7. ASSUME NEW d \in Connections,
             \/ Reactor(d) \/ OnReadResume(d) \/ OnReadClosed(d) \/ OnReadThrows(d)
             \/ WriteCompletes(d) \/ WriteFails(d) \/ OnWrite(d) \/ \E kind \in Kinds[d] : ClientSends(d, kind)
      PROVE  reading[c]
  BY <1>7 DEF Reactor, HandshakeArrives, MessageArrives, Transmit, WriteBreaks, CloseSent, OnReadResume, OnReadClosed,
              OnReadThrows, WriteCompletes, WriteFails, OnWrite, ClientSends
<1> QED
  BY <1>2, <1>3, <1>4, <1>5, <1>6, <1>7 DEF Next, IoStep, IoHandler

LEMMA LiveStep ==
    ASSUME TypeInv, TypeInv', RoutedInv, LiveInv, [Next]_vars
    PROVE  LiveInv'
<1> USE DEF listenerVars, readVars, serverVars, writeVars, flags, history
<1>1. \A c \in Connections : Live(c) => Live(c)'
  BY LiveKept
<1>2. pending \in Seq(Tagged) /\ \A k \in DOMAIN pending : pending[k].req.conn \in Connections
  BY PipelineTypes, MessageFacts
<1>3. pc # "idle" => current.req.conn \in Connections
  BY PipelineTypes, MessageFacts
<1>4. LiveRead'
  <2> SUFFICES ASSUME NEW c \in Connections, reading'[c] PROVE Live(c)'
    BY DEF LiveRead
  <2> QED BY <1>1, ReadStarts DEF RoutedInv, LiveInv, LiveRead
<1>5. ASSUME UNCHANGED current, pc' # "idle" => pc # "idle" PROVE LiveSend'
  <2> SUFFICES ASSUME pc' # "idle" PROVE Live(current.req.conn)'
    BY DEF LiveSend
  <2>1. PICK c \in Connections : c = current.req.conn /\ Live(c)
    BY <1>3, <1>5 DEF LiveInv, LiveSend
  <2>2. Live(c)'
    BY <1>1, <2>1
  <2> QED BY <1>5, <2>1, <2>2 DEF Live
<1>6. ASSUME \A k \in DOMAIN pending' : \E m \in DOMAIN pending : pending'[k] = pending[m] PROVE LivePending'
  <2> SUFFICES ASSUME NEW k \in DOMAIN pending' PROVE Live(pending[k].req.conn)'
    BY DEF LivePending
  <2>1. PICK c \in Connections : c = pending'[k].req.conn /\ Live(c)
    BY <1>2, <1>6 DEF LiveInv, LivePending
  <2>2. Live(c)'
    BY <1>1, <2>1
  <2> QED BY <2>1, <2>2 DEF Live
<1>7. CASE Answer
  <2>1. pending # <<>> /\ current' = Head(pending) /\ pending' = Tail(pending)
    BY <1>7 DEF Answer, Dispatch!Deliver
  <2>2. 1 \in DOMAIN pending /\ current' = pending[1]
    BY <1>2, <2>1
  <2>3. \A k \in DOMAIN pending' : \E m \in DOMAIN pending : pending'[k] = pending[m]
    BY <1>2, <2>1, TailElements
  <2>4. PICK c \in Connections : c = current'.req.conn /\ Live(c)
    BY <1>2, <2>2 DEF LiveInv, LivePending
  <2>5. LiveSend'
    BY <1>1, <2>4 DEF LiveSend, Live
  <2> QED BY <1>4, <1>6, <2>3, <2>5 DEF LiveInv
<1>8. CASE Drop
  <2>1. UNCHANGED <<pc, current>> /\ \E i \in 1 .. Len(pending) : pending' = Dispatch!Without(pending, i)
    BY <1>8 DEF Drop, Dispatch!Lose
  <2>2. \A k \in DOMAIN pending' : \E m \in DOMAIN pending : pending'[k] = pending[m]
    BY <1>2, <2>1, WithoutElements
  <2> QED BY <1>4, <1>5, <1>6, <2>1, <2>2 DEF LiveInv
<1>9. ASSUME NEW c \in Connections, OnReadRequest(c) PROVE LiveInv'
  <2>1. UNCHANGED <<pc, current>>
    BY <1>9 DEF OnReadRequest, Dispatch!Accept, Dispatch!Refuse
  <2>2. CASE UNCHANGED pending
    BY <1>4, <1>5, <1>6, <2>1, <2>2 DEF LiveInv
  <2>3. CASE pending' # pending
    <3>1. pending' = Append(pending, [client |-> id[c], req |-> Head(inbox[c])]) /\ inbox[c] # <<>> /\ reading[c]
      BY <1>9, <2>3 DEF OnReadRequest, HasRead, Dispatch!Accept, Dispatch!Refuse, Dispatch!Appended
    <3>2. inbox[c] \in Seq(Message) /\ id[c] \in ClientIds
      BY DEF TypeInv, TypeOK
    <3>3. Head(inbox[c]) \in Message /\ Head(inbox[c]).conn = c
      BY <3>1, <3>2 DEF RoutedInv, InboxInv
    <3>4. PICK x \in Tagged : pending' = Append(pending, x) /\ x.req.conn = c
      <4>1. [client |-> id[c], req |-> Head(inbox[c])] \in Tagged
        BY <3>2, <3>3 DEF Tagged
      <4> QED BY <3>1, <3>3, <4>1
    <3>5. Live(c)'
      BY <1>1, <3>1 DEF LiveInv, LiveRead
    <3>6. ASSUME NEW k \in DOMAIN pending' PROVE Live(pending[k].req.conn)'
      <4>1. (k \in DOMAIN pending /\ pending'[k] = pending[k]) \/ pending'[k] = x
        BY <1>2, <3>4, AppendElements
      <4>2. PICK d \in Connections : d = pending'[k].req.conn /\ Live(d)'
        BY <1>1, <1>2, <3>4, <3>5, <4>1 DEF LiveInv, LivePending
      <4> QED BY <4>2 DEF Live
    <3>7. LivePending'
      BY <3>6 DEF LivePending
    <3> QED BY <1>4, <1>5, <2>1, <3>7 DEF LiveInv
  <2> QED BY <2>2, <2>3
<1>10. ASSUME UNCHANGED <<pending, current>>, pc' # "idle" => pc # "idle" PROVE LiveInv'
  BY <1>4, <1>5, <1>6, <1>10 DEF LiveInv
<1>11. CASE ClientConnects \/ OnAcceptError \/ OnAccept \/ Abort \/ UNCHANGED vars
  BY <1>10, <1>11 DEF ClientConnects, OnAcceptError, OnAccept, Abort, vars
<1>12. CASE ServerStep
  BY <1>10, <1>12 DEF ServerStep, Lookup, Copy, AsyncWrite, PostCompletion, AsyncWriteFails, AsyncWriteParks
<1>13. ASSUME NEW d \in Connections, Reactor(d) \/ \E kind \in Kinds[d] : ClientSends(d, kind) PROVE LiveInv'
  BY <1>10, <1>13 DEF Reactor, HandshakeArrives, MessageArrives, Transmit, WriteBreaks, CloseSent, ClientSends
<1>14. ASSUME NEW d \in Connections, IoHandler(d), ~OnReadRequest(d) PROVE LiveInv'
  BY <1>10, <1>14 DEF IoHandler, SessionOnAccept, OnReadError, OnReadEmpty, DoRead, OnReadThrows, OnReadEof,
                      OnReadClose, OnReadResume, OnReadClosed, WriteCompletes, WriteFails, OnWrite
<1> QED
  BY <1>7, <1>8, <1>9, <1>11, <1>12, <1>13, <1>14 DEF Next, IoStep

\* Before ids come round, Listener::Send finds the session that asked.
LEMMA SendsToAsker ==
    ASSUME TypeInv, RoutedInv, accepted <= IdModulus, Lookup, pc' = "copy"
    PROVE  target' = current.req.conn
<1>1. PICK k \in ClientIds, r \in Connections, t \in Connections :
          k = current.client /\ r = current.req.conn /\ t = sessions[k] /\ t = target' /\ t # NoSession
  BY RpcServerAssumption DEF Lookup, TypeInv, SendTyped, TypeOK, Tagged, Message
<1>2. r < accepted /\ id[r] = k /\ t < accepted /\ id[t] = k
  BY <1>1 DEF Lookup, RoutedInv, SendInv, Known, MapInv
<1> QED
  BY <1>1, <1>2 DEF RoutedInv, IdsInv

LEMMA FreshStep ==
    ASSUME TypeInv, RoutedInv, LiveInv, FreshInv, [Next]_vars
    PROVE  FreshInv'
<1>1. PICK a \in Nat, b \in Nat : a = accepted /\ b = accepted' /\ a <= b
  BY AcceptedGrows
<1> SUFFICES ASSUME b <= IdModulus, NEW c \in Connections, ~Live(c)' PROVE Untouched(c)'
  BY <1>1 DEF FreshInv
<1>2. accepted <= IdModulus
  BY <1>1, RpcServerAssumption
<1>3. ~Live(c)
  BY LiveKept
<1>4. Untouched(c)
  BY <1>2, <1>3 DEF FreshInv
<1>5. ~Touches(c)
  <2>1. ~(target = c /\ (Copy \/ AsyncWrite \/ PostCompletion \/ AsyncWriteFails \/ AsyncWriteParks))
    BY <1>4 DEF Untouched, Copy, AsyncWrite, PostCompletion, AsyncWriteFails, AsyncWriteParks
  <2>2. ~Transmit(c) /\ ~WriteBreaks(c) /\ ~Hands(c)
    BY <1>4 DEF Untouched, Settled, Transmit, WriteBreaks, Waiting, Hands
  <2>3. ASSUME NEW t, Runs(t, c) PROVE Queued(t, c)
    BY <2>3, HoldsTaken
  <2>4. ~WriteCompletes(c) /\ ~WriteFails(c) /\ ~OnWrite(c)
    BY <1>4, <2>3 DEF Untouched, Settled, WriteCompletes, WriteFails, OnWrite
  <2> QED BY <2>1, <2>2, <2>4 DEF Touches
<1>6. Kept(c)
  BY <1>5, KeptBy
<1>7. ~(pc' = "copy" /\ target' = c)
  <2>1. CASE Lookup
    <3>1. pc # "idle" => Live(current.req.conn)
      BY DEF LiveInv, LiveSend
    <3> QED BY <1>2, <1>3, <2>1, <3>1, SendsToAsker DEF Lookup
  <2> QED BY <1>4, <1>6, <2>1 DEF Kept, Untouched
<1>8. Settled(c)'
  BY <1>4, <1>6 DEF Kept, Untouched, Settled, WriteTypes
<1>9. ~(pc' \in {"copy", "write", "post"} /\ target' = c)
  BY <1>4, <1>6, <1>7 DEF Kept, Untouched, Filled, Posting
<1> QED
  BY <1>4, <1>6, <1>8, <1>9 DEF Kept, Untouched

LEMMA InStepKept ==
    ASSUME TypeInv, FreshInv, accepted <= IdModulus, [Next]_vars, NEW c \in Connections, InStep(c), Kept(c)
    PROVE  InStep(c)'
<1>1. (Flying(c)' <=> Flying(c)) /\ (Settled(c)' <=> Settled(c)) /\ (Queued("broken", c)' <=> Queued("broken", c))
  BY DEF Kept, Flying, Settled, WriteTypes
<1>2. ASSUME stream'[c] = "open", stream[c] = "handshake" PROVE InStep(c)'
  <2>1. Untouched(c)
    BY <1>2 DEF FreshInv, Live
  <2>2. ~Filled(c) /\ Len(outbox[c]) = Len(answered[c]) /\ write_buffer[c] = <<>>
    BY <2>1 DEF Untouched, Filled
  <2> QED BY <1>1, <2>2 DEF InStep, Kept
<1>3. ASSUME stream'[c] = "open" => stream[c] = "open" PROVE InStep(c)'
  <2>1. Well(c)' => Well(c)
    BY <1>1, <1>3 DEF Well, Kept
  <2> QED BY <1>1, <2>1 DEF InStep, Kept
<1> QED
  BY <1>2, <1>3, StreamSteps

\* Session::Send fills the buffer of a session without a write.
LEMMA InStepCopy ==
    ASSUME TypeInv, NEW c \in Connections, InStep(c), Calm(c), Copy, target = c
    PROVE  InStep(c)'
<1> USE DEF listenerVars, readVars, serverVars, flags, history, blockVars
<1>1. PICK r \in Message : r = current.req
  BY DEF Copy, TypeInv, SendTyped, Tagged
<1>2. /\ write_buffer' = [write_buffer EXCEPT ![c] = Append(@, r)] /\ answered' = [answered EXCEPT ![c] = Append(@, r)]
      /\ UNCHANGED <<ready, wr_block, paused_wr, data, outbox, stream, target>> /\ pc = "copy" /\ pc' = "write"
  BY <1>1 DEF Copy
<1>3. Settled(c) /\ ~Filled(c) /\ ~Flying(c) /\ Filled(c)' /\ ~Flying(c)'
  BY <1>2 DEF Calm, Settled, Filled, Flying
<1>4. answered'[c] = Append(answered[c], r) /\ write_buffer'[c] = Append(write_buffer[c], r)
  BY <1>2, SessionTypes
<1>5. Well(c)' => Well(c)
  BY <1>2 DEF Well, Queued
<1> DEFINE o == outbox[c]
           a == answered[c]
<1>6. o \in Seq(Seq(Message)) /\ a \in Seq(Message) /\ Brings(o, a)
  BY SessionTypes DEF InStep
<1>7. Well(c) => Len(o) = Len(a) /\ write_buffer[c] = <<>>
  BY <1>3 DEF InStep
<1> HIDE DEF o, a
<1>8. Brings(o, Append(a, r)) /\ (Len(o) = Len(a) => LastIn(o, Append(a, r), <<r>>))
  BY <1>6, BringsWhenAnswered
<1>9. Brings(outbox[c], answered[c])' /\ (Well(c) => LastIn(outbox[c], answered[c], <<r>>)')
  BY <1>2, <1>4, <1>7, <1>8 DEF o, a
<1>10. Well(c) => write_buffer'[c] = <<r>>
  <2>1. Append(<<>>, r) = <<r>>
    OBVIOUS
  <2> QED BY <1>4, <1>7, <2>1
<1>11. Well(c) => LastIn(outbox[c], answered[c], write_buffer[c])'
  BY <1>9, <1>10
<1> QED
  BY <1>2, <1>3, <1>5, <1>9, <1>11 DEF InStep

\* It hands the buffer to the stream, which sends it at once or later.
LEMMA InStepAsyncWrite ==
    ASSUME TypeInv, NEW c \in Connections, InStep(c), Calm(c), AsyncWrite, target = c
    PROVE  InStep(c)'
<1> USE DEF listenerVars, readVars, serverVars, flags, history
<1>1. /\ UNCHANGED <<ready, target, stream, answered, write_buffer, paused_wr>> /\ pc = "write" /\ stream[c] = "open"
      /\ wr_block' = [wr_block EXCEPT ![c] = "write"] /\ data' = [data EXCEPT ![c] = write_buffer[c]]
  BY DEF AsyncWrite
<1>2. wr_block'[c] = "write" /\ data'[c] = write_buffer[c] /\ ~Settled(c)'
  BY <1>1, SessionTypes DEF Settled
<1>3. Settled(c) /\ Filled(c) /\ Well(c)
  BY <1>1 DEF Calm, Settled, Filled, Well
<1>4. ~Queued("sent", c)' /\ ~Queued("broken", c)'
  BY <1>1, <1>3 DEF Settled, Queued
<1> DEFINE o == outbox[c]
           a == answered[c]
           w == write_buffer[c]
<1>5. o \in Seq(Seq(Message)) /\ a \in Seq(Message) /\ w \in Seq(Message) /\ Brings(o, a) /\ LastIn(o, a, w)
  BY <1>3, SessionTypes DEF InStep
<1> HIDE DEF o, a, w
<1>6. Brings(Append(o, w), a) /\ Len(Append(o, w)) = Len(a)
  BY <1>5, BringsWhenSent
<1>7. CASE outbox' = [outbox EXCEPT ![c] = Append(@, write_buffer[c])] /\ pc' = "post"
  <2>1. outbox'[c] = Append(o, w) /\ answered'[c] = a
    BY <1>1, <1>7, SessionTypes DEF o, a, w
  <2>2. ~Flying(c)' /\ ~Filled(c)'
    BY <1>1, <1>7 DEF Flying, Filled, Posting
  <2> QED BY <1>2, <1>6, <2>1, <2>2 DEF InStep
<1>8. CASE outbox' = outbox /\ pc' = "idle"
  <2>1. outbox'[c] = o /\ answered'[c] = a /\ data'[c] = w
    BY <1>1, <1>2, <1>8 DEF o, a, w
  <2>2. Flying(c)' /\ ~Filled(c)'
    BY <1>2, <1>4, <1>8 DEF Flying, Filled, Posting
  <2> QED BY <1>2, <1>5, <2>1, <2>2 DEF InStep
<1> QED
  BY <1>7, <1>8 DEF AsyncWrite

\* The socket takes the data of a write that had to wait.
LEMMA InStepTransmit ==
    ASSUME TypeInv, NEW c \in Connections, InStep(c), Calm(c), Transmit(c)
    PROVE  InStep(c)'
<1> USE DEF listenerVars, readVars, serverVars, flags, history, blockVars
<1>1. /\ UNCHANGED <<pc, target, answered, wr_block>> /\ wr_block[c] = "write"
      /\ outbox' = [outbox EXCEPT ![c] = Append(@, data[c])] /\ ready' = Append(ready, Event("sent", c))
  BY DEF Transmit, Waiting
<1>2. Flying(c) /\ ~Filled(c)
  BY <1>1 DEF Transmit, Waiting, Flying, Posting, Calm, Settled, Filled
<1>3. Queued("sent", c)'
  <2>1. "sent" \in EventTypes
    BY DEF EventTypes
  <2> QED BY <1>1, <2>1, SessionTypes, HoldsAdded, QueuedIn
<1>4. ~Flying(c)' /\ ~Filled(c)' /\ ~Settled(c)'
  BY <1>1, <1>2, <1>3 DEF Flying, Filled, Settled
<1> DEFINE o == outbox[c]
           a == answered[c]
           s == data[c]
<1>5. o \in Seq(Seq(Message)) /\ a \in Seq(Message) /\ s \in Seq(Message) /\ Brings(o, a) /\ LastIn(o, a, s)
  BY <1>2, SessionTypes DEF InStep
<1>6. outbox'[c] = Append(o, s) /\ answered'[c] = a
  BY <1>1, SessionTypes
<1> HIDE DEF o, a, s
<1>7. Brings(Append(o, s), a) /\ Len(Append(o, s)) = Len(a)
  BY <1>5, BringsWhenSent
<1> QED
  BY <1>4, <1>6, <1>7 DEF InStep

\* The write completes, and OnWrite empties the buffer.
LEMMA InStepAfterwards ==
    ASSUME TypeInv, NEW c \in Connections, InStep(c), Calm(c),
           WriteCompletes(c) \/ OnWrite(c) \/ (target = c /\ PostCompletion)
    PROVE  InStep(c)'
<1> USE DEF listenerVars, readVars, serverVars, flags, history, writeVars, blockVars, WriteTypes
<1>0. ready \in Seq(Events) /\ WriteTypes \subseteq EventTypes /\ wr_block \in [Connections -> {"none", "write", "read"}]
  BY SessionTypes
<1>1. UNCHANGED <<target, stream, paused_wr, answered, outbox, data>> /\ Brings(outbox[c], answered[c])
  BY DEF WriteCompletes, OnWrite, PostCompletion, InStep
<1>2. CASE WriteCompletes(c)
  <2>1. Runs("sent", c) /\ UNCHANGED <<pc, write_buffer>> /\ WriteReleases(c)
    BY <1>2 DEF WriteCompletes
  <2>2. Queued("sent", c) /\ Queued("written", c)' /\ (Queued("broken", c)' <=> Queued("broken", c))
    BY <2>1, WriteReleasesQueue
  <2>3. wr_block'[c] # "write"
    BY <1>0, <2>1 DEF WriteReleases
  <2>4. ~Flying(c) /\ ~Filled(c) /\ ~Flying(c)' /\ ~Filled(c)' /\ ~Settled(c)'
    BY <1>1, <2>1, <2>2, <2>3 DEF Flying, Filled, Settled, Calm
  <2>5. Well(c)' => Well(c)
    BY <1>1, <2>2 DEF Well
  <2> QED BY <1>1, <2>4, <2>5 DEF InStep
<1>3. CASE OnWrite(c)
  <2>1. /\ Runs("written", c) /\ UNCHANGED <<pc, wr_block>> /\ ready' = Tail(ready)
        /\ write_buffer' = [write_buffer EXCEPT ![c] = <<>>]
    BY <1>3 DEF OnWrite, Consumed
  <2>2. Queued("written", c) /\ (Queued("broken", c)' <=> Queued("broken", c))
    BY <2>1, HoldsTaken, QueuedIn
  <2>3. write_buffer'[c] = <<>>
    BY <2>1, SessionTypes
  <2>4. ~Flying(c) /\ ~Filled(c) /\ ~Flying(c)' /\ ~Filled(c)'
    BY <1>1, <2>1, <2>2 DEF Flying, Filled, Settled, Calm
  <2>5. Well(c)' => Well(c)
    BY <1>1, <2>2 DEF Well
  <2> QED BY <1>1, <2>3, <2>4, <2>5 DEF InStep
<1>4. CASE target = c /\ PostCompletion
  <2>1. /\ pc = "post" /\ pc' = "idle" /\ ready' = Append(ready, Event("sent", c))
    BY <1>4 DEF PostCompletion
  <2>2. Queued("sent", c)' /\ (Queued("broken", c)' <=> Queued("broken", c))
    <3>1. "sent" \in EventTypes /\ "sent" # "broken"
      BY <1>0
    <3> QED BY <1>0, <2>1, <3>1, HoldsAdded, QueuedIn
  <2>3. ~Flying(c) /\ ~Filled(c) /\ ~Flying(c)' /\ ~Filled(c)' /\ ~Settled(c)'
    BY <1>4, <2>1, <2>2 DEF Flying, Filled, Posting, Settled
  <2>4. Well(c)' => Well(c)
    BY <1>1, <2>2 DEF Well
  <2> QED BY <1>1, <2>3, <2>4 DEF InStep
<1> QED
  BY <1>2, <1>3, <1>4

\* A write breaks, fails or is parked, or gets the block too late: nothing more will be sent.
LEMMA InStepOver ==
    ASSUME TypeInv, NEW c \in Connections, InStep(c), Calm(c),
           \/ WriteBreaks(c) \/ WriteFails(c) \/ Hands(c)
           \/ target = c /\ (AsyncWriteFails \/ AsyncWriteParks)
    PROVE  InStep(c)'
<1> USE DEF listenerVars, readVars, serverVars, flags, history, writeVars, blockVars, WriteTypes
<1>0. /\ ready \in Seq(Events) /\ WriteTypes \subseteq EventTypes /\ wr_block \in [Connections -> {"none", "write", "read"}]
      /\ stream \in [Connections -> Statuses]
  BY SessionTypes
<1>1. UNCHANGED <<answered, outbox>> /\ Brings(outbox[c], answered[c])
  BY DEF WriteBreaks, WriteFails, Hands, OnReadResume, OnReadClosed, AsyncWriteFails, AsyncWriteParks, InStep
<1> SUFFICES ~Flying(c)' /\ ~Well(c)'
  BY <1>1 DEF InStep
<1>2. CASE WriteBreaks(c)
  <2>1. ready' = Append(ready, Event("broken", c))
    BY <1>2 DEF WriteBreaks
  <2>2. Queued("broken", c)'
    <3>1. "broken" \in EventTypes
      BY <1>0
    <3> QED BY <1>0, <2>1, <3>1, HoldsAdded, QueuedIn
  <2> QED BY <2>2 DEF Flying, Well
<1>3. CASE WriteFails(c)
  <2>1. wr_block'[c] # "write"
    BY <1>0, <1>3 DEF WriteFails, WriteReleases
  <2>2. stream'[c] # "open"
    BY <1>0, <1>3 DEF WriteFails
  <2> QED BY <2>1, <2>2 DEF Flying, Well
<1>4. CASE Hands(c)
  <2>1. c \in paused_wr /\ wr_block[c] # "write" /\ (Runs("resume", c) \/ Runs("closed", c))
    BY <1>4 DEF Hands, OnReadResume, OnReadClosed, Calm
  <2>2. stream'[c] # "open"
    BY <1>0, <1>4 DEF Hands, OnReadResume, OnReadClosed
  <2>3. wr_block'[c] = "write" => Queued("sent", c)'
    <3>1. CASE ReadReleases(c)
      <4>1. wr_block'[c] = "write" => wr_block[c] = "read"
        BY <1>0, <2>1, <3>1 DEF ReadReleases
      <4> QED BY <2>1, <3>1, <4>1, ReadReleasesQueue
    <3>2. CASE UNCHANGED wr_block
      BY <2>1, <3>2
    <3> QED BY <1>4, <3>1, <3>2 DEF Hands, OnReadResume, OnReadClosed
  <2> QED BY <2>2, <2>3 DEF Flying, Well
<1>5. CASE target = c /\ AsyncWriteFails
  BY <1>5 DEF AsyncWriteFails, Flying, Well
<1>6. CASE target = c /\ AsyncWriteParks
  <2>1. c \in paused_wr' /\ wr_block' = wr_block /\ pc = "write"
    BY <1>6 DEF AsyncWriteParks
  <2>2. wr_block[c] # "write"
    BY <1>6, <2>1 DEF Calm, Settled
  <2> QED BY <2>1, <2>2 DEF Flying, Well
<1> QED
  BY <1>2, <1>3, <1>4, <1>5, <1>6

LEMMA IntactStep ==
    ASSUME TypeInv, CalmInv, FreshInv, IntactInv, [Next]_vars
    PROVE  IntactInv'
<1>1. PICK a \in Nat, b \in Nat : a = accepted /\ b = accepted' /\ a <= b
  BY AcceptedGrows
<1> SUFFICES ASSUME b <= IdModulus, NEW c \in Connections \ crossed' PROVE InStep(c)'
  BY <1>1 DEF IntactInv
<1>2. accepted <= IdModulus
  BY <1>1, RpcServerAssumption
<1>3. c \in Connections \ crossed /\ InStep(c) /\ Calm(c)
  BY <1>2, CrossedStays DEF IntactInv, CalmInv
<1>4. CASE ~Touches(c)
  BY <1>2, <1>3, <1>4, KeptBy, InStepKept
<1>5. CASE Touches(c)
  BY <1>3, <1>5, InStepCopy, InStepAsyncWrite, InStepTransmit, InStepAfterwards, InStepOver DEF Touches
<1> QED
  BY <1>4, <1>5

LEMMA IntactInit == Init => LiveInv /\ FreshInv /\ IntactInv
<1> SUFFICES ASSUME Init PROVE LiveInv /\ FreshInv /\ IntactInv
  OBVIOUS
<1>1. pc = "idle" /\ pending = <<>> /\ ready = <<>> /\ paused_wr = {} /\ \A c \in Connections : reading[c] = FALSE
  BY DEF Init, Dispatch!Init
<1>2. LiveInv
  BY <1>1 DEF LiveInv, LiveRead, LivePending, LiveSend
<1>3. ASSUME NEW c \in Connections PROVE Untouched(c) /\ InStep(c)
  <2>1. /\ wr_block[c] = "none" /\ stream[c] = "none"
        /\ answered[c] = <<>> /\ outbox[c] = <<>> /\ write_buffer[c] = <<>>
    BY <1>3 DEF Init
  <2>2. Settled(c) /\ ~Flying(c)
    BY <1>1, <2>1 DEF Settled, Flying, Queued
  <2>3. Brings(outbox[c], answered[c])
    BY <2>1 DEF Brings
  <2> QED BY <1>1, <2>1, <2>2, <2>3 DEF Untouched, InStep, Well
<1> QED
  BY <1>2, <1>3 DEF FreshInv, IntactInv

\* What Session::Send and OnWrite do to write_buffer and the stream gives a client each
\* response once, in the order of Send and one to a message, for any number of clients and any
\* traffic, writes that fail or wait for a close frame to be answered included, as long as no
\* Send to it crossed an OnWrite and the client ids have not come round.
THEOREM IntactCorrect == Spec => []Intact
<1>1. /\ LiveInv /\ FreshInv /\ IntactInv /\ TypeInv /\ TypeInv' /\ RoutedInv /\ CauseInv /\ [Next]_vars
      => (LiveInv /\ FreshInv /\ IntactInv)'
  BY LiveStep, FreshStep, IntactStep DEF CauseInv
<1>2. IntactInv => Intact
  BY DEF IntactInv, InStep, Brings, Intact
<1> QED
  BY <1>1, <1>2, IntactInit, RoutedInvariant, CauseInvariant, PTL DEF Spec

=============================================================================
