--------------------------- MODULE MCTunnelMirror ---------------------------
EXTENDS TunnelMirror

\* A reply to a call nobody waits for any more.
Replies == {[type |-> "res"]}
=============================================================================
