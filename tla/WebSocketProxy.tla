--------------------------- MODULE WebSocketProxy ---------------------------
(***************************************************************************)
(* One BraveProxyingWebSocket: an opening handshake between its client and *)
(* the network, with the stages that BraveRequestHandler runs for it.      *)
(*                                                                         *)
(* A proxy is started for a renderer (Start) or by another proxy in front  *)
(* of it (CreateWebSocketFactory), which may bring a header client of its  *)
(* own: then the network's two questions about headers pass the proxy, are *)
(* asked again of the one in front, and each must be answered once.        *)
(*                                                                         *)
(* The handler always answers later, by a posted continuation (see         *)
(* RequestPipeline, which models what it does meanwhile), except that      *)
(* OnBeforeStartTransaction has nothing to ask.  Messages are taken by the  *)
(* handler's step; a paused receiver takes none, not even its disconnect.  *)
(* The network, the proxy in front and the client are external.            *)
(***************************************************************************)
EXTENDS Naturals

CONSTANT MaxChallenges  \* bound: authentication challenges of a handshake

ASSUME ConstantsAssumption == MaxChallenges \in Nat

VARIABLES
  front,         \* who started it: "none", another proxy, or one with headers
  ruling,        \* what the rules say of the URL
  alive,         \* websocket_proxies_ holds the proxy
  started,       \* forwarding_handshake_client_ is bound
  callback,      \* the entry of callbacks_ for the request
  posted,        \* the continuation that the handler has posted
  other,         \* what the proxy in front has been asked
  sendCallback,  \* on_before_send_headers_callback_
  recvCallback,  \* on_headers_received_callback_
  paused,        \* the receivers are paused
  net,           \* the network's side of the handshake
  challenges,    \* counter of the bound
  client,        \* what the client has been told
  answered       \* history: the URL check has been answered

proxyVars == <<alive, started, sendCallback, recvCallback, paused>>
handlerVars == <<callback, posted>>
fixed == <<front, ruling>>
vars == <<fixed, proxyVars, handlerVars, other, net, challenges, client, answered>>

Stage == {"url", "headers"}

TypeOK ==
  /\ front \in {"none", "proxy", "headers"} /\ ruling \in {"pass", "block", "mock"}
  /\ alive \in BOOLEAN /\ started \in BOOLEAN /\ answered \in BOOLEAN
  /\ sendCallback \in BOOLEAN /\ recvCallback \in BOOLEAN /\ paused \in BOOLEAN
  /\ callback \in Stage \cup {"absent", "moved"}
  /\ posted \in Stage \cup {"none"}
  /\ other \in {"none", "beforeSendHeaders", "headersReceived"}
  /\ net \in {"unasked", "opened", "asksToSend", "requested", "asksHeaders",
              "responded", "challenged", "closed"}
  /\ challenges \in 0..MaxChallenges
  /\ client \in {"waiting", "connected", "failed"}

Init ==
  /\ front \in {"none", "proxy", "headers"} /\ ruling \in {"pass", "block", "mock"}
  /\ alive = TRUE /\ started = FALSE /\ answered = FALSE
  /\ sendCallback = FALSE /\ recvCallback = FALSE /\ paused = FALSE
  /\ callback = "absent" /\ posted = "none" /\ other = "none"
  /\ net = "unasked" /\ challenges = 0 /\ client = "waiting"

\* proxy_has_extra_headers.
ExtraHeaders == front = "headers"
-----------------------------------------------------------------------------
(* The end of the proxy.                                                   *)

RemoveProxyWebSocket == alive' = FALSE

\* A mutant of Destroy: the destructor leaves the network's question open.
DestroySilently ==
  /\ RemoveProxyWebSocket
  /\ callback' = "absent"
  /\ paused' = FALSE
  /\ net' = "closed" /\ other' = "none"
  /\ UNCHANGED <<fixed, started, sendCallback, recvCallback, challenges>>

\* The destructor: the entry of callbacks_ is erased, the network's questions
\* are answered by ERR_ABORTED, all pipes are closed.
Destroy ==
  /\ RemoveProxyWebSocket
  /\ callback' = "absent"
  /\ sendCallback' = FALSE /\ recvCallback' = FALSE
  /\ paused' = FALSE
  /\ net' = "closed" /\ other' = "none"
  /\ UNCHANGED <<fixed, started, challenges>>

OnError == client' = "failed" /\ Destroy
-----------------------------------------------------------------------------
(* The handler and what continues when it has answered.                    *)

\* Start, of a renderer or by WebSocketFactoryRun.
Start ==
  /\ alive /\ ~started
  /\ started' = TRUE
  /\ callback' = "url"
  /\ UNCHANGED <<fixed, alive, sendCallback, recvCallback, paused, posted, other,
                 net, challenges, client, answered>>

\* A mutant of HandlerAnswers: nobody checks that the entry is still there.
HandlerAnswersUnchecked ==
  /\ callback # "moved" /\ started
  /\ posted' = callback
  /\ callback' = "moved"
  /\ UNCHANGED <<fixed, proxyVars, other, net, challenges, client, answered>>

\* The handler has its answer: RunCallbackForRequestIdentifier.
HandlerAnswers ==
  /\ callback \in Stage
  /\ posted' = callback
  /\ callback' = "moved"
  /\ UNCHANGED <<fixed, proxyVars, other, net, challenges, client, answered>>

\* Only a blocked URL without a stub is an error; a rewritten one is not used.
Error == ruling = "block"

\* A mutant of ContinueToStartRequest: it does not look at the error.
ContinueToStartRequestAnyway(error) ==
  /\ net' = "opened"
  /\ UNCHANGED <<fixed, proxyVars, callback, other, challenges, client>>

\* ContinueToStartRequest; without a header client OnBeforeRequestComplete and
\* the methods it calls come here too, with all headers in hand.
ContinueToStartRequest(error) ==
  IF error
  THEN OnError
  ELSE /\ net' = "opened"
       /\ UNCHANGED <<fixed, proxyVars, callback, other, challenges, client>>

\* A mutant of OnHeadersReceivedCompleteFromProxy: the receivers stay paused.
OnHeadersReceivedCompleteFromProxyPaused ==
  /\ recvCallback' = FALSE
  /\ net' = IF recvCallback /\ net = "asksHeaders" THEN "responded" ELSE net
  /\ UNCHANGED <<fixed, alive, started, sendCallback, paused, callback, challenges,
                 client>>

\* OnHeadersReceivedCompleteFromProxy, which does not look at its error code.
OnHeadersReceivedCompleteFromProxy ==
  /\ recvCallback' = FALSE
  /\ net' = IF recvCallback /\ net = "asksHeaders" THEN "responded" ELSE net
  /\ paused' = FALSE
  /\ UNCHANGED <<fixed, alive, started, sendCallback, callback, challenges, client>>

\* OnHeadersReceivedComplete: the stage has no errors, and the proxy in front is
\* asked, as only its header client makes the network ask.
OnHeadersReceivedComplete ==
  /\ other' = "headersReceived"
  /\ UNCHANGED <<fixed, proxyVars, callback, net, challenges, client>>

\* A posted continuation, bound to a weak pointer to the proxy.
RunContinuation ==
  /\ posted # "none"
  /\ posted' = "none"
  /\ answered' = (answered \/ (posted = "url" /\ alive))
  /\ \/ /\ ~alive
        /\ UNCHANGED <<fixed, proxyVars, callback, other, net, challenges, client>>
     \/ alive /\ posted = "url" /\ ContinueToStartRequest(Error)
     \/ alive /\ posted = "headers" /\ OnHeadersReceivedComplete
-----------------------------------------------------------------------------
(* The network, whose messages a paused receiver does not take.            *)

FromNetwork(states) == alive /\ ~paused /\ net \in states

\* Without a header client the network goes on by itself.
NetworkProceeds ==
  /\ ~ExtraHeaders
  /\ \/ net = "opened" /\ net' = "requested"
     \/ net = "requested" /\ net' = "responded"
  /\ UNCHANGED <<fixed, proxyVars, handlerVars, other, challenges, client, answered>>

\* OnBeforeRequestComplete, with a header client, which is asked first.
OnBeforeRequestComplete == other' = "beforeSendHeaders"

OnBeforeSendHeaders ==
  /\ ExtraHeaders /\ FromNetwork({"opened"})
  /\ net' = "asksToSend"
  /\ sendCallback' = TRUE
  /\ OnBeforeRequestComplete
  /\ UNCHANGED <<fixed, alive, started, recvCallback, paused, handlerVars, challenges,
                 client, answered>>

\* A mutant of OnBeforeSendHeadersComplete: it forgets the network's callback.
OnBeforeSendHeadersCompleteSilently ==
  /\ sendCallback' = FALSE
  /\ net' = net
  /\ UNCHANGED <<fixed, alive, started, recvCallback, paused, callback, challenges,
                 client>>

OnBeforeSendHeadersComplete ==
  /\ sendCallback' = FALSE
  /\ net' = IF sendCallback /\ net = "asksToSend" THEN "requested" ELSE net
  /\ UNCHANGED <<fixed, alive, started, recvCallback, paused, callback, challenges,
                 client>>

\* OnBeforeSendHeadersCompleteFromProxy: the answer of the proxy in front.
OnBeforeSendHeadersCompleteFromProxy ==
  /\ alive /\ other = "beforeSendHeaders"
  /\ \/ OnError
     \/ OnBeforeSendHeadersComplete /\ other' = "none"
  /\ UNCHANGED <<posted, answered>>

\* ContinueToHeadersReceived: the handler is asked first, and then the pipes of
\* the network are paused.
ContinueToHeadersReceived == callback' = "headers" /\ paused' = TRUE

OnHeadersReceived ==
  /\ ExtraHeaders /\ FromNetwork({"requested"})
  /\ net' = "asksHeaders"
  /\ recvCallback' = TRUE
  /\ ContinueToHeadersReceived
  /\ UNCHANGED <<fixed, alive, started, sendCallback, posted, other, challenges,
                 client, answered>>

HeadersAnswer ==
  /\ alive /\ other = "headersReceived"
  /\ other' = "none"
  /\ OnHeadersReceivedCompleteFromProxy
  /\ UNCHANGED <<posted, answered>>

\* OnAuthRequired.  The handler of a proxy in front answers the network itself,
\* by credentials, which start again, or none.  Nobody has bound the handler of
\* a proxy that a renderer started: the call ends the browser.
OnAuthRequired ==
  /\ alive /\ net = "responded" /\ challenges < MaxChallenges
  /\ IF front = "none"
     THEN OnError
     ELSE /\ net' = "challenged"
          /\ challenges' = challenges + 1
          /\ UNCHANGED <<fixed, proxyVars, callback, other, client>>
  /\ UNCHANGED <<posted, answered>>

AuthAnswer ==
  /\ net = "challenged"
  /\ net' \in {"opened", "responded"}
  /\ UNCHANGED <<fixed, proxyVars, handlerVars, other, challenges, client, answered>>

\* OnConnectionEstablished: the client is told, and the proxy done.
OnConnectionEstablished ==
  /\ FromNetwork({"responded"})
  /\ client' = "connected"
  /\ Destroy
  /\ UNCHANGED <<posted, answered>>

\* The handshake fails at the network, which closes its pipes: OnFailure does
\* nothing, the reason comes with the disconnect.
NetworkFails ==
  /\ alive /\ net \notin {"unasked", "closed"}
  /\ net' = "closed"
  /\ UNCHANGED <<fixed, proxyVars, handlerVars, other, challenges, client, answered>>

\* OnMojoConnectionError of the network's pipe.
NetworkDisconnects ==
  /\ FromNetwork({"closed"})
  /\ OnError
  /\ UNCHANGED <<posted, answered>>

\* OnMojoConnectionError of the client's, whatever the proxy waits for.
ClientDisconnects ==
  /\ alive /\ started
  /\ OnError
  /\ UNCHANGED <<posted, answered>>
-----------------------------------------------------------------------------
Handler == HandlerAnswers \/ RunContinuation
Front == OnBeforeSendHeadersCompleteFromProxy \/ HeadersAnswer \/ AuthAnswer
Network ==
  \/ NetworkProceeds \/ OnBeforeSendHeaders \/ OnHeadersReceived
  \/ OnConnectionEstablished \/ NetworkDisconnects

Next ==
  \/ Start \/ Handler \/ Front \/ Network
  \/ OnAuthRequired \/ NetworkFails \/ ClientDisconnects

Spec == Init /\ [][Next]_vars

\* Tasks run, the proxy in front answers, and so does the network.
FairSpec == Spec /\ WF_vars(Handler) /\ WF_vars(Front) /\ WF_vars(Network)
-----------------------------------------------------------------------------
(* Properties.                                                             *)

Verdict ==
  IF ~answered THEN "asking" ELSE IF Error THEN "refused" ELSE "allowed"

Wire ==
  IF net = "unasked" THEN "idle" ELSE IF net = "closed" THEN "over" ELSE "connecting"

\* Whoever comes first, the proxy behaves as a Handshake: the network never
\* hears of one the rules refuse, and its client gets one outcome, the real one.
H == INSTANCE Handshake WITH verdict <- Verdict, wire <- Wire, client <- client
ImplementsHandshake == H!Spec

\* The network waits for an answer exactly while the proxy holds its callback,
\* over challenges that repeat both questions; a proxy that is gone has
\* answered what it was asked.
CallbacksAnswered ==
  /\ sendCallback => alive /\ net \in {"asksToSend", "closed"}
  /\ recvCallback => alive /\ net \in {"asksHeaders", "closed"}
  /\ net = "asksToSend" => sendCallback /\ other = "beforeSendHeaders"
  /\ net = "asksHeaders" => recvCallback

\* The receivers are paused from the network's headers to the answer of the
\* proxy in front, and at no other time: nothing of the network overtakes the
\* check, and every way out resumes them or ends the proxy.
PausedWhileChecked ==
  paused <=> alive /\ ("headers" \in {callback, posted} \/ other = "headersReceived")

\* A handshake that was started ends for its client, whoever fails or closes a
\* pipe at whatever point, paused receivers included.
HandshakeEnds == started ~> client # "waiting"
=============================================================================
