----------------------------- MODULE MCMcpProxy -----------------------------
(* Model values for McpProxy: two server processes share the proxy.        *)
EXTENDS McpProxy, TLC

CONSTANTS s1, s2, c1, c2, c3

MCStreams == {s1, s2}
MCOneStream == {s2}
MCTwoCalls == {c1, c2}
MCThreeCalls == {c1, c2, c3}
MCHandshakes == {c1}
MCMayStall == {s2}
MCNoStall == {}
=============================================================================
