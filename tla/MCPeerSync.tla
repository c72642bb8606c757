----------------------------- MODULE MCPeerSync -----------------------------
(* Instance of PeerSync for TLC: one peer that answers, and one whose syncs  *)
(* fail and whose connection drops.                                          *)
EXTENDS PeerSync
=============================================================================
