----------------------------- MODULE Dispatcher -----------------------------
(***************************************************************************)
(* What RPCServer may rely on from EmuRPC::Impl while one thread pops       *)
(* client_emu: a request that push() accepts is answered at most once, and  *)
(* answers leave in the order of acceptance.  The dispatcher may lose a     *)
(* request anywhere on its way: HandleTiming discards what is still in      *)
(* client_emu while older requests are being answered, and emu_client.push  *)
(* discards the newest answer while older ones wait.                        *)
(*                                                                          *)
(* EmuRPC implements this specification; RpcServer is composed with it.     *)
(***************************************************************************)
EXTENDS Naturals, Sequences

CONSTANTS
    Requests,  \* what can be accepted
    Slots,     \* requests inside at once: both queues full and one being handled
    None       \* nothing was delivered yet

VARIABLES
    pending,   \* accepted requests that were neither answered nor lost, oldest first
    current    \* the request whose answer was given to SendResponse last

vars == <<pending, current>>

Init == pending = <<>> /\ current = None

\* The sequence s without its i-th element.
Without(s, i) == [k \in 1 .. Len(s) - 1 |-> IF k < i THEN s[k] ELSE s[k + 1]]

\* Mutant: the queues take more than they have cells for.
RoomAlways == TRUE

Room == Len(pending) < Slots

\* Mutant: the newest request overtakes the others.
AppendedInFront(s, r) == <<r>> \o s

Appended(s, r) == Append(s, r)

\* client_emu.push() returns true.
Accept(r) ==
    /\ Room
    /\ pending' = Appended(pending, r)
    /\ UNCHANGED current

\* client_emu.push() finds no free cell; its result is ignored.
Refuse == UNCHANGED <<pending, current>>

\* A request or its response is lost.
Lose ==
    /\ \E i \in 1 .. Len(pending) : pending' = Without(pending, i)
    /\ UNCHANGED current

\* SendResponse with the answer to the oldest request.
Deliver ==
    /\ pending # <<>>
    /\ current' = Head(pending)
    /\ pending' = Tail(pending)

Next ==
    \/ \E r \in Requests : Accept(r)
    \/ Refuse
    \/ Lose
    \/ Deliver

Spec == Init /\ [][Next]_vars
=============================================================================
