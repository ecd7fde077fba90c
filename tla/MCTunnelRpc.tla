----------------------------- MODULE MCTunnelRpc -----------------------------
EXTENDS TunnelRpc

Results == [type : {"res"}, id : 1..2, call : Call, from : Conn]
=============================================================================
