--------------------------- MODULE MCPeerConnection ---------------------------
(* One connection; what may happen to it is bounded by numbers alone.      *)
EXTENDS PeerConnection, TLC
=============================================================================
