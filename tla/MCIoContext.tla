---------------------------- MODULE MCIoContext ----------------------------
(***************************************************************************)
(* The instance of IoContext for TLC: one session beside the acceptor.      *)
(***************************************************************************)
EXTENDS IoContext

\* A session has up to two pieces of a message to read, so that one can be left when a
\* read completes; one connection waits for the acceptor, and one write fills a buffer.
Units ==
    [d \in Descriptors |->
        [t \in OpTypes |->
            IF d = Acceptor /\ t = "write" THEN 0 ELSE IF d # Acceptor /\ t = "read" THEN 2 ELSE 1]]
=============================================================================
