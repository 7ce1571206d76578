---------------------------- MODULE MCPeerSession ----------------------------
\* Instances of PeerSession for TLC: who recognises whom.
EXTENDS PeerSession

OnlyDialer == {Initiator}
Both       == Peers
=============================================================================
