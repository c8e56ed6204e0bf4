------------------------------- MODULE EPPServer -------------------------------
(***************************************************************************)
(* The EPP server of EPPPeer with clients that may do anything: the        *)
(* abstract server that cmd/mock-epp-server implements under every fault   *)
(* profile, and that EPPSession composes with the adapter.                 *)
(***************************************************************************)
EXTENDS EPPPeer

VARIABLE asked    \* calls whose request a client has sent

serverVars == <<wireVars, peerVars, asked>>

ServerTypeOK == WireTypeOK /\ PeerTypeOK /\ asked \subseteq Calls

ServerInit == WireInit /\ PeerInit /\ asked = {}

ClientDial(c) == Connect(c) /\ UNCHANGED <<peerVars, asked>>

ClientSend(c) ==
  /\ link[c] = "up"
  /\ \E k \in Calls \ asked, kind \in RequestKinds :
       /\ WriteRequest(c, [kind |-> kind, call |-> k, cl |-> 0, ext |-> {}])
       /\ asked' = asked \cup {k}
  /\ UNCHANGED <<link, sess, s2c, peerVars>>

ClientRead(c) ==
  /\ Readable(c)
  /\ ReadAnswer(c)
  /\ UNCHANGED <<sess, c2s, peerVars, asked>>

ClientShut(c) ==
  /\ link[c] \in {"up", "broken"}
  /\ ShutLinks({c})
  /\ UNCHANGED <<sess, c2s, peerVars, asked>>

Reset(c) == BreakLink(c) /\ UNCHANGED <<peerVars, asked>>

ClientStep(c) ==
  ClientDial(c) \/ ClientSend(c) \/ ClientRead(c) \/ ClientShut(c) \/ Reset(c)

ServerNext == \E c \in Conns : ClientStep(c) \/ (PeerStep(c) /\ UNCHANGED asked)

ServerSpec == ServerInit /\ [][ServerNext]_serverVars
=============================================================================
