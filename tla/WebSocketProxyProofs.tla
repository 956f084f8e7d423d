------------------------- MODULE WebSocketProxyProofs -------------------------
(***************************************************************************)
(* WebSocketProxy, for every number of challenges: an inductive invariant, *)
(* the safety properties that follow, and the proof that the proxy         *)
(* implements a Handshake.                                                 *)
(***************************************************************************)
EXTENDS WebSocketProxy, TLAPS

\* The proxy lives as long as its client waits, and leaves nothing behind but a
\* continuation that was posted.
EndInv ==
  /\ alive <=> client = "waiting"
  /\ ~alive => net = "closed" /\ callback = "absent" /\ other = "none"
                 /\ ~sendCallback /\ ~recvCallback /\ ~paused

\* One question at a time: the handler's, its posted answer, or the one passed to
\* the proxy in front.
StageInv ==
  /\ posted # "none" => callback \in {"moved", "absent"}
  /\ alive /\ posted # "none" => callback = "moved"
  /\ other # "none" => callback \notin Stage /\ posted = "none"
  /\ other # "none" => net # "unasked"
  /\ ~started => callback = "absent" /\ posted = "none" /\ ~answered

\* The network is asked when the URL has been allowed, and then the only stage left
\* is that of its headers, which it is waiting for unless it has failed.
NetInv ==
  /\ ~answered /\ alive => net = "unasked"
  /\ alive /\ answered => net # "unasked" /\ ~Error
  /\ alive /\ ~answered => "headers" \notin {callback, posted}
  /\ alive /\ answered => "url" \notin {callback, posted}
  /\ alive /\ "headers" \in {callback, posted} => net \in {"asksHeaders", "closed"}
  /\ other = "headersReceived" => net \in {"asksHeaders", "closed"}
  /\ other = "beforeSendHeaders" => net \in {"asksToSend", "closed"}

IInv ==
  /\ TypeOK /\ CallbacksAnswered /\ PausedWhileChecked
  /\ EndInv /\ StageInv /\ NetInv
-----------------------------------------------------------------------------
\* Whoever ends the proxy, and whatever it was waiting for.
LEMMA DestroyKeeps ==
  ASSUME IInv, started, Destroy, client' \in {"connected", "failed"},
         posted' \in {posted, "none"}, answered' \in BOOLEAN
  PROVE  IInv'
<1> USE DEF IInv, Destroy, RemoveProxyWebSocket, fixed
<1>1. ~alive' /\ client' # "waiting" /\ callback' = "absent" /\ net' = "closed"
      /\ other' = "none" /\ ~sendCallback' /\ ~recvCallback' /\ ~paused' /\ started'
  OBVIOUS
<1>2. TypeOK'
  BY ConstantsAssumption DEF TypeOK, Stage
<1>3. CallbacksAnswered' /\ PausedWhileChecked'
  BY <1>1 DEF CallbacksAnswered, PausedWhileChecked
<1>4. EndInv' /\ StageInv' /\ NetInv'
  BY <1>1 DEF EndInv, StageInv, NetInv, Stage
<1> QED
  BY <1>2, <1>3, <1>4

\* Every action keeps the invariant.
LEMMA Step ==
  ASSUME IInv, [Next]_vars
  PROVE  IInv'
<1> USE ConstantsAssumption
        DEF IInv, TypeOK, CallbacksAnswered, PausedWhileChecked, EndInv, StageInv,
            NetInv, Stage, Error, fixed, proxyVars, handlerVars
<1>1. CASE Start
  BY <1>1 DEF Start
<1>2. CASE HandlerAnswers
  BY <1>2 DEF HandlerAnswers
<1>3. CASE RunContinuation
  <2>1. CASE ~alive
    BY <1>3, <2>1 DEF RunContinuation
  <2>2. CASE alive /\ posted = "url" /\ Error
    <3>1. OnError /\ started /\ posted' = "none" /\ answered' = TRUE
      BY <1>3, <2>2 DEF RunContinuation, ContinueToStartRequest
    <3> QED
      BY <3>1, DestroyKeeps DEF OnError
  <2>3. CASE alive /\ posted = "url" /\ ~Error
    BY <1>3, <2>3 DEF RunContinuation, ContinueToStartRequest
  <2>4. CASE alive /\ posted = "headers"
    BY <1>3, <2>4 DEF RunContinuation, OnHeadersReceivedComplete
  <2> QED
    BY <1>3, <2>1, <2>2, <2>3, <2>4 DEF RunContinuation
<1>4. CASE OnBeforeSendHeadersCompleteFromProxy
  <2>1. CASE OnError
    <3>1. started /\ UNCHANGED <<posted, answered>>
      BY <1>4 DEF OnBeforeSendHeadersCompleteFromProxy
    <3> QED
      BY <2>1, <3>1, DestroyKeeps DEF OnError
  <2>2. CASE OnBeforeSendHeadersComplete /\ other' = "none"
    BY <1>4, <2>2 DEF OnBeforeSendHeadersCompleteFromProxy, OnBeforeSendHeadersComplete
  <2> QED
    BY <1>4, <2>1, <2>2 DEF OnBeforeSendHeadersCompleteFromProxy
<1>5. CASE HeadersAnswer
  BY <1>5 DEF HeadersAnswer, OnHeadersReceivedCompleteFromProxy
<1>6. CASE AuthAnswer
  BY <1>6 DEF AuthAnswer
<1>7. CASE NetworkProceeds
  BY <1>7 DEF NetworkProceeds, ExtraHeaders
<1>8. CASE OnBeforeSendHeaders
  BY <1>8 DEF OnBeforeSendHeaders, OnBeforeRequestComplete, FromNetwork, ExtraHeaders
<1>9. CASE OnHeadersReceived
  BY <1>9 DEF OnHeadersReceived, ContinueToHeadersReceived, FromNetwork, ExtraHeaders
<1>10. CASE OnConnectionEstablished
  <2>1. Destroy /\ started /\ client' = "connected" /\ UNCHANGED <<posted, answered>>
    BY <1>10 DEF OnConnectionEstablished, FromNetwork
  <2> QED
    BY <2>1, DestroyKeeps
<1>11. CASE NetworkDisconnects
  <2>1. OnError /\ started /\ UNCHANGED <<posted, answered>>
    BY <1>11 DEF NetworkDisconnects, FromNetwork
  <2> QED
    BY <2>1, DestroyKeeps DEF OnError
<1>12. CASE OnAuthRequired
  <2>1. CASE front = "none"
    <3>1. OnError /\ started /\ UNCHANGED <<posted, answered>>
      BY <1>12, <2>1 DEF OnAuthRequired
    <3> QED
      BY <3>1, DestroyKeeps DEF OnError
  <2>2. CASE front # "none"
    BY <1>12, <2>2 DEF OnAuthRequired
  <2> QED
    BY <2>1, <2>2
<1>13. CASE NetworkFails
  BY <1>13 DEF NetworkFails
<1>14. CASE ClientDisconnects
  <2>1. OnError /\ started /\ UNCHANGED <<posted, answered>>
    BY <1>14 DEF ClientDisconnects
  <2> QED
    BY <2>1, DestroyKeeps DEF OnError
<1>15. CASE UNCHANGED vars
  BY <1>15 DEF vars
<1> QED
  BY <1>1, <1>2, <1>3, <1>4, <1>5, <1>6, <1>7, <1>8, <1>9, <1>10, <1>11, <1>12, <1>13, <1>14, <1>15 DEF Next, Handler, Front, Network

LEMMA Inductive == Spec => []IInv
<1>1. Init => IInv
  <2> SUFFICES ASSUME Init PROVE IInv
    OBVIOUS
  <2> USE DEF Init
  <2>1. TypeOK
    <3>1. challenges \in 0..MaxChallenges
      BY ConstantsAssumption
    <3> QED
      BY <3>1 DEF TypeOK, Stage
  <2>2. CallbacksAnswered /\ PausedWhileChecked
    BY DEF CallbacksAnswered, PausedWhileChecked
  <2>3. EndInv /\ StageInv /\ NetInv
    BY DEF EndInv, StageInv, NetInv, Stage
  <2> QED
    BY <2>1, <2>2, <2>3 DEF IInv
<1>2. IInv /\ [Next]_vars => IInv'
  BY Step
<1> QED
  BY <1>1, <1>2, PTL DEF Spec

\* The network's questions are answered, over any number of challenges.
THEOREM QuestionsAnswered == Spec => []CallbacksAnswered
BY Inductive, PTL DEF IInv

\* The receivers are paused exactly while the network's headers are checked.
THEOREM PausedOnlyWhileChecked == Spec => []PausedWhileChecked
BY Inductive, PTL DEF IInv

\* Every variable keeps to its values, and the challenges to their bound.
THEOREM TypeCorrect == Spec => []TypeOK
BY Inductive, PTL DEF IInv
-----------------------------------------------------------------------------
(* The refinement.                                                         *)

\* A step that ends the proxy with an error is the end of the handshake, and not
\* the rules' verdict unless that is what came in.
LEMMA OnErrorFails ==
  ASSUME IInv, alive, OnError, UNCHANGED <<ruling, answered>>
  PROVE  H!Fail
BY DEF H!Fail, OnError, Destroy, RemoveProxyWebSocket, Verdict, Wire, Error, IInv, EndInv

\* Every step of the proxy is one of a Handshake, or none.
LEMMA StepRefines ==
  ASSUME IInv, [Next]_vars
  PROVE  [H!Next]_H!vars
<1> USE DEF IInv, Verdict, Wire, Error, fixed, proxyVars, handlerVars
<1>1. CASE Start \/ HandlerAnswers
  BY <1>1 DEF Start, HandlerAnswers, H!vars
<1>2. CASE RunContinuation
  <2>1. CASE ~alive \/ posted = "headers"
    BY <1>2, <2>1 DEF RunContinuation, OnHeadersReceivedComplete, H!vars
  <2>2. CASE alive /\ posted = "url"
    <3>1. answered' /\ ~answered /\ net = "unasked" /\ client = "waiting" /\ ruling' = ruling
      BY <1>2, <2>2 DEF RunContinuation, ContinueToStartRequest, OnError, Destroy, NetInv, EndInv
    <3>2. CASE Error
      <4>1. client' = "failed" /\ net' = "closed"
        BY <1>2, <2>2, <3>2 DEF RunContinuation, ContinueToStartRequest, OnError, Destroy
      <4> QED
        BY <3>1, <3>2, <4>1 DEF H!Next, H!Fail
    <3>3. CASE ~Error
      <4>1. UNCHANGED client /\ net' = "opened"
        BY <1>2, <2>2, <3>3 DEF RunContinuation, ContinueToStartRequest
      <4> QED
        BY <3>1, <3>3, <4>1 DEF H!Next, H!Connect
    <3> QED
      BY <3>2, <3>3
  <2> QED
    BY <1>2, <2>1, <2>2 DEF RunContinuation, TypeOK, Stage
<1>3. CASE OnBeforeSendHeadersCompleteFromProxy
  <2>1. CASE OnError
    BY <1>3, <2>1, OnErrorFails DEF OnBeforeSendHeadersCompleteFromProxy, OnError, Destroy, H!Next
  <2>2. CASE OnBeforeSendHeadersComplete
    BY <1>3, <2>2 DEF OnBeforeSendHeadersCompleteFromProxy, OnBeforeSendHeadersComplete, H!vars
  <2> QED
    BY <1>3, <2>1, <2>2 DEF OnBeforeSendHeadersCompleteFromProxy
<1>4. CASE HeadersAnswer
  BY <1>4 DEF HeadersAnswer, OnHeadersReceivedCompleteFromProxy, H!vars
<1>5. CASE AuthAnswer \/ NetworkProceeds \/ OnBeforeSendHeaders \/ OnHeadersReceived
  BY <1>5 DEF AuthAnswer, NetworkProceeds, OnBeforeSendHeaders, OnHeadersReceived,
              FromNetwork, H!vars
<1>6. CASE OnConnectionEstablished
  <2>1. /\ Wire = "connecting" /\ client = "waiting"
        /\ Wire' = "over" /\ client' = "connected" /\ Verdict' = Verdict
    BY <1>6 DEF OnConnectionEstablished, FromNetwork, Destroy, EndInv
  <2> QED
    BY <2>1 DEF H!Next, H!Established
<1>7. CASE NetworkDisconnects \/ ClientDisconnects
  <2>1. OnError /\ alive /\ UNCHANGED <<ruling, answered>>
    BY <1>7 DEF NetworkDisconnects, ClientDisconnects, FromNetwork, OnError, Destroy
  <2> QED
    BY <2>1, OnErrorFails DEF H!Next
<1>8. CASE OnAuthRequired
  <2>1. CASE front = "none"
    BY <1>8, <2>1, OnErrorFails DEF OnAuthRequired, OnError, Destroy, H!Next
  <2>2. CASE front # "none"
    BY <1>8, <2>2 DEF OnAuthRequired, H!vars
  <2> QED
    BY <2>1, <2>2
<1>9. CASE NetworkFails
  <2>1. Wire = "connecting" /\ Wire' = "over" /\ UNCHANGED <<Verdict, client>>
    BY <1>9 DEF NetworkFails
  <2> QED
    BY <2>1 DEF H!Next, H!NetworkEnds
<1>10. CASE UNCHANGED vars
  BY <1>10 DEF vars, H!vars
<1> QED
  BY <1>1, <1>2, <1>3, <1>4, <1>5, <1>6, <1>7, <1>8, <1>9, <1>10
     DEF Next, Handler, Front, Network

\* The proxy implements the promise of Handshake, whoever started it and however
\* often the network challenges it.
THEOREM Implementation == Spec => ImplementsHandshake
<1>1. Init => H!Init
  BY DEF Init, H!Init, Verdict, Wire
<1>2. IInv /\ [Next]_vars => [H!Next]_H!vars
  BY StepRefines
<1> QED
  BY <1>1, <1>2, Inductive, PTL DEF Spec, ImplementsHandshake, H!Spec
=============================================================================
