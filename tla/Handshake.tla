------------------------------ MODULE Handshake ------------------------------
(***************************************************************************)
(* What BraveProxyingWebSocket promises to the two sides of an opening     *)
(* handshake: the network hears of it only once the rules have allowed it, *)
(* and the client is told one outcome, connected only if the network is.   *)
(***************************************************************************)

VARIABLES
  verdict,  \* of the rules
  wire,     \* the handshake at the network
  client    \* what the client has been told

vars == <<verdict, wire, client>>

TypeOK ==
  /\ verdict \in {"asking", "allowed", "refused"}
  /\ wire \in {"idle", "connecting", "over"}
  /\ client \in {"waiting", "connected", "failed"}

Init == verdict = "asking" /\ wire = "idle" /\ client = "waiting"

\* The rules let the handshake go on, to the network.
Connect ==
  /\ verdict = "asking" /\ wire = "idle" /\ client = "waiting"
  /\ verdict' = "allowed" /\ wire' = "connecting"
  /\ UNCHANGED client

\* The network may be over before the client is told.
NetworkEnds ==
  /\ wire = "connecting" /\ wire' = "over"
  /\ UNCHANGED <<verdict, client>>

Established ==
  /\ wire = "connecting" /\ client = "waiting"
  /\ wire' = "over" /\ client' = "connected"
  /\ UNCHANGED verdict

\* Anyone may end the handshake, the rules by refusing it: then the network
\* never hears of it.
Fail ==
  /\ client = "waiting" /\ client' = "failed" /\ wire' = "over"
  /\ verdict' = verdict \/ (verdict = "asking" /\ verdict' = "refused")

Next == Connect \/ NetworkEnds \/ Established \/ Fail

Spec == Init /\ [][Next]_vars
=============================================================================
