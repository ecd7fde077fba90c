---------------------------- MODULE MCTunnelTaps ----------------------------
EXTENDS TunnelTaps

TapFrames ==
  [type : {"res"}, id : Ids, ok : BOOLEAN]
    \cup [type : {"event"}, kind : {"herdr_event"}, id : Ids, group : Group]
    \cup [type : {"event"}, kind : {"sub_closed"}, id : Ids]
=============================================================================
