------------------------------ MODULE MCEmuRPC ------------------------------
(* Instances of EmuRPC for TLC. *)
EXTENDS EmuRPC

Read(client, id) == [client |-> client, id |-> id, method |-> "MemoryRead", fits |-> TRUE]

Write(client, id) == [Read(client, id) EXCEPT !.method = "MemoryWrite"]

\* A read of more bytes than std::vector can hold.
HugeRead(client, id) == [Read(client, id) EXCEPT !.fits = FALSE]

\* Two clients that use the same request id.
TwoClients == {Read(0, 1), Write(1, 1)}
OneClient == {Write(0, 1)}
SomeTooLong == OneClient \cup {HugeRead(0, 2)}
=============================================================================
