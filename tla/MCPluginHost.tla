---------------------------- MODULE MCPluginHost ----------------------------
EXTENDS PluginHost

CONSTANTS p1, p2

MCPeers == {p1, p2}
=============================================================================
