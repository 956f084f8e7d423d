----------------------------- MODULE LoaderClient -----------------------------
(***************************************************************************)
(* What a request promises its client (network.mojom.URLLoaderClient): it  *)
(* is redirected only while it waits, each time until it follows; it gets  *)
(* at most one response and at most one end, and nothing after the end.    *)
(***************************************************************************)

VARIABLE client   \* what the client of the request has seen last

Ends == {"complete", "failed", "collapsed", "gone"}
View == {"idle", "waiting", "redirected", "response", "stub"} \cup Ends

Init == client = "idle"

Create == client = "idle" /\ client' = "waiting"
Redirect == client = "waiting" /\ client' = "redirected"
Follow == client = "redirected" /\ client' = "waiting"
\* The response of the network, or a stub in its place.
Respond == client = "waiting" /\ client' \in {"response", "stub"}
\* Only a response completes without an error.
Complete == client \in {"response", "stub"} /\ client' = "complete"
\* An error, with the element that caused the request collapsed or not; the
\* response of the network is never followed by a collapse.
Fail == client \in {"waiting", "response", "stub"} /\ client' = "failed"
Collapse == client \in {"waiting", "stub"} /\ client' = "collapsed"
\* The client lets go, or is told nothing but the end of its pipes.
Leave == client \notin {"idle"} \cup Ends /\ client' = "gone"

Next ==
  \/ Create \/ Redirect \/ Follow \/ Respond
  \/ Complete \/ Fail \/ Collapse \/ Leave

Spec == Init /\ [][Next]_client
=============================================================================
