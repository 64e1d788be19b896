------------------------------- MODULE MCLinks -------------------------------
\* Instance of Rpc and Sockets for TLC. The two parts share no state: a
\* behaviour is one of the clients of Rpc or one of the adapters of Sockets, and
\* the other part stays as it is before anything has started.
EXTENDS Rpc, Sockets

VARIABLE part

Init ==
  /\ part \in {"rpc", "sockets"}
  /\ RpcInit /\ SocketsInit
  /\ part = "rpc" => adapter = "whatsapp"
  /\ part = "sockets" => client = "core"

Next ==
  /\ UNCHANGED part
  /\ \/ part = "rpc" /\ RpcNext /\ UNCHANGED sockVars
     \/ part = "sockets" /\ SocketsNext /\ UNCHANGED rpcVars

Spec == Init /\ [][Next]_<<part, rpcVars, sockVars>>
FairSpec == Spec /\ RpcFairness /\ SocketsFairness

\* The calls of an MCP client are initialize, tools/list and then tools.
LimitOf == [onebot |-> 2, core |-> 2, mcp |-> 4]

\* Both parts keep their types.
TypeOK == RpcTypeOK /\ SocketsTypeOK
==============================================================================
