---------------------------- MODULE MCRpcServer -----------------------------
(* Instances of RpcServer for TLC. *)
EXTENDS RpcServer

\* The first client sends most; the last one, which takes over the id of the first when
\* there are more clients than ids, sends nothing.
Fewer == [c \in Connections |-> MaxConnections - 1 - c]

\* The first client sends anything, the others send requests.
FirstAnything == [c \in Connections |-> IF c = 0 THEN AllKinds ELSE {"request"}]
OnlyRequests == [c \in Connections |-> {"request"}]

\* Every client sends two messages.
TwoEach == [c \in Connections |-> 2]
=============================================================================
