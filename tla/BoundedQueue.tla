---------------------------- MODULE BoundedQueue ----------------------------
(***************************************************************************)
(* What a user of boost::lockfree::spsc_queue may rely on when one thread  *)
(* pushes and one thread pops: a FIFO of at most Capacity elements that    *)
(* hands out every accepted element exactly once, in order, and refuses a  *)
(* push only while all of its cells are taken.  A cell stays taken after   *)
(* its element has been handed out until the popping call returns: those   *)
(* cells are counted by held.                                              *)
(***************************************************************************)
EXTENDS Naturals, Sequences

CONSTANTS
    Capacity,
    Values,
    KeepHistory  \* FALSE drops the three histories

VARIABLES items,     \* accepted and not yet handed out, oldest first
          held,      \* cells handed out by a popping call that has not returned
          pushed,    \* every value accepted so far, in order
          popped,    \* every value handed out so far, in order
          refused    \* every value a push refused, in order

vars == <<items, held, pushed, popped, refused>>

Log(history, v) == IF KeepHistory THEN Append(history, v) ELSE history

Init ==
    /\ items = <<>>
    /\ held = 0
    /\ pushed = <<>>
    /\ popped = <<>>
    /\ refused = <<>>

\* push() returns true.
Push(v) ==
    /\ Len(items) + held < Capacity
    /\ items' = Append(items, v)
    /\ pushed' = Log(pushed, v)
    /\ UNCHANGED <<held, popped, refused>>

\* push() returns false.
Refuse(v) ==
    /\ Len(items) + held = Capacity
    /\ refused' = Log(refused, v)
    /\ UNCHANGED <<items, held, pushed, popped>>

\* pop(), consume_one() or consume_all() hands out the oldest element.
Pop ==
    /\ items # <<>>
    /\ popped' = Log(popped, Head(items))
    /\ items' = Tail(items)
    /\ held' = held + 1
    /\ UNCHANGED <<pushed, refused>>

\* The popping call returns and its cells can be filled again.
Release ==
    /\ held # 0
    /\ held' = 0
    /\ UNCHANGED <<items, pushed, popped, refused>>

Next ==
    \/ \E v \in Values : Push(v) \/ Refuse(v)
    \/ Pop
    \/ Release

Spec == Init /\ [][Next]_vars
=============================================================================
