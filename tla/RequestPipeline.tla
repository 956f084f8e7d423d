--------------------------- MODULE RequestPipeline ---------------------------
(***************************************************************************)
(* One proxied request: BraveProxyingURLLoaderFactory::InProgressRequest,  *)
(* the stages that BraveRequestHandler runs for it, the ad-block helpers    *)
(* those stages ask, and the factory that owns it.  Requests share nothing *)
(* but the factory (the handler keys its map by their unique identifiers), *)
(* so the other requests of the factory are one flag, others.              *)
(*                                                                         *)
(* Handlers run on the UI sequence.  What they leave behind is in tasks:   *)
(* queries at the engine's runner, a DNS query, posted continuations, the  *)
(* write of a stub.  None but the last knows whether its request is there. *)
(* The network and the client are external.                                *)
(*                                                                         *)
(* URLs are http(s).  No handler changes referrers, headers to send, or a  *)
(* response into a redirect, and before_start_transaction_callbacks_ is    *)
(* empty, so OnBeforeStartTransaction answers at once.  Matching is        *)
(* external: see EngineWrapper.                                            *)
(***************************************************************************)
EXTENDS EngineWrapper, FiniteSets, Naturals

CONSTANTS
  Default,     \* what the rules of the default engine have to say of a URL
  Additional,  \* and those of the additional filters engine
  Alias,       \* the canonical name of a URL, as a URL: none or one
  MaxFollows   \* bound: redirects that the client follows

ASSUME ConstantsAssumption ==
  /\ Default \in [Url -> Match] /\ Additional \in [Url -> Match]
  /\ Alias \in [Url -> SUBSET Url] /\ \A u \in Url : \A v, w \in Alias[u] : v = w
  /\ MaxFollows \in Nat

\* blink::mojom::ResourceType, as far as the helpers tell requests apart; exempt
\* are those without an initiator or shields, which the helpers leave alone.
Kind == {"mainFrame", "subFrame", "other", "exempt"}
Checked == {"subFrame", "other"}

VARIABLES
  live,         \* requests_ holds the request
  kind, url,    \* request_
  follows,      \* counter of the bound
  ctx,          \* ctx_
  redirectUrl,  \* redirect_url_, none or one
  completed,    \* request_completed_
  wire,         \* target_loader_: not bound, or what the network does for it
  paused,       \* proxied_client_receiver_ is paused
  params,       \* pending_follow_redirect_params_ is there
  callback,     \* the entry of callbacks_ for the request
  tasks,        \* what is posted, asked or written on its behalf
  target,       \* target_factory_ is bound
  receivers,    \* proxy_receivers_ is not empty
  others,       \* requests_ holds other requests
  factory,      \* the factory exists
  headers,      \* policies in the response's headers, overridden or not
  client,       \* what the client has seen last
  uncloaked,    \* history: the canonical name that was checked for this URL
  sent          \* history: the policies of the response, and of the rules for it

requestVars == <<live, kind, url, follows, ctx, redirectUrl, completed>>
wireVars == <<wire, paused, params>>
handlerVars == <<callback, tasks>>
factoryVars == <<target, receivers, others, factory>>
history == <<uncloaked, sent>>
vars ==
  <<requestVars, wireVars, handlerVars, factoryVars, headers, client, history>>

\* A BraveRequestInfo; its leg and event tell the contexts of a request apart.
Context ==
  [leg : Nat, event : {"beforeRequest", "none", "headersReceived"}, url : Url,
   blocked : BOOLEAN, mock : BOOLEAN, newUrl : SUBSET Url]

Continuation ==
  [run : {"ContinueToBeforeSendHeaders", "ContinueToResponseStarted"}, to : {{}}]
    \cup [run : {"ContinueToBeforeRedirect"}, to : {{u} : u \in Url}]
\* Content security policies: the page's own, and those of each engine's rules.
Policy == {"page", "default", "additional"}

Absent == [run |-> "absent", to |-> {}]
Moved == [run |-> "moved", to |-> {}]   \* run: moved from, but still in the map

Task ==
  [at : {"engine"}, ctx : Context, flags : SUBSET Flag, check : Url,
   canonical : BOOLEAN, uncloak : BOOLEAN]
    \cup [at : {"dns"}, ctx : Context, flags : SUBSET Flag]
    \cup [at : {"csp"}, ctx : Context, original : SUBSET Policy]
    \cup [at : {"posted"}, go : Continuation, error : BOOLEAN]
    \cup [at : {"write"}]

TypeOK ==
  /\ live \in BOOLEAN /\ completed \in BOOLEAN /\ paused \in BOOLEAN
  /\ params \in BOOLEAN /\ target \in BOOLEAN /\ receivers \in BOOLEAN
  /\ others \in BOOLEAN /\ factory \in BOOLEAN
  /\ kind \in Kind /\ url \in Url /\ follows \in 0..MaxFollows
  /\ ctx \in Context
  /\ redirectUrl \in SUBSET Url
  /\ wire \in {"unbound", "loading", "redirecting", "responding", "lost"}
  /\ callback \in Continuation \cup {Absent, Moved}
  /\ tasks \subseteq Task
  /\ uncloaked \in SUBSET Url
  /\ headers \in SUBSET Policy /\ sent \in SUBSET Policy
  /\ client \in {"idle", "waiting", "redirected", "response", "stub",
                 "complete", "failed", "collapsed", "gone"}

NewContext(leg, event, u) ==
  [leg |-> leg, event |-> event, url |-> u,
   blocked |-> FALSE, mock |-> FALSE, newUrl |-> {}]

\* InProgressRequest, as it is made.
InitRequest ==
  /\ live = FALSE /\ kind \in Kind /\ url \in Url /\ follows = 0
  /\ ctx = NewContext(0, "none", url)
  /\ redirectUrl = {} /\ completed = FALSE
  /\ wire = "unbound" /\ paused = FALSE /\ params = FALSE

\* BraveProxyingURLLoaderFactory, with both ends of the pipe it was put into.
InitFactory ==
  /\ target = TRUE /\ receivers = TRUE /\ factory = TRUE
  /\ others \in BOOLEAN

Init ==
  /\ InitRequest /\ InitFactory
  /\ callback = Absent /\ tasks = {}
  /\ headers = {} /\ client = "idle" /\ uncloaked = {} /\ sent = {}
-----------------------------------------------------------------------------
(* BraveRequestHandler.  rest: the tasks other than the one that runs.     *)

\* RunCallbackForRequestIdentifier: the entry stays, moved from.
Complete(k, error, rest) ==
  /\ callback' = Moved
  /\ tasks' = rest \cup {[at |-> "posted", go |-> k, error |-> error]}

\* A stage that its helper answers at once, or makes wait for a query.
Pass(c, k, rest) == ctx' = c /\ Complete(k, FALSE, rest)
Wait(c, k, query, rest) ==
  ctx' = c /\ callback' = k /\ tasks' = rest \cup {query}

\* RunNextCallback when a helper answers later; new_url points into the request.
RunNextCallback(c, rest) ==
  IF callback = Absent
  THEN tasks' = rest /\ UNCHANGED <<callback, redirectUrl>>
  ELSE /\ redirectUrl' = IF c.event = "beforeRequest" /\ c.newUrl \ {c.url} # {}
                         THEN c.newUrl ELSE redirectUrl
       /\ Complete(callback, c.event = "beforeRequest" /\ c.blocked /\ ~c.mock, rest)

\* A proxy configuration, as far as it matters: the type of its rules, whether
\* there are proxies for https or for the rest, and a PAC script.
ProxyConfig ==
  [valid : BOOLEAN, type : {"none", "list", "perScheme"},
   https : BOOLEAN, fallback : BOOLEAN, pac : BOOLEAN]

\* ProxySettingsAllowUncloaking: DNS queries must not bypass a proxy.
ProxySettingsAllowUncloaking(config) ==
  config.valid =>
    /\ config.type # "list"
    /\ config.type = "perScheme" => ~config.https /\ ~config.fallback
    /\ ~config.pac

\* OnBeforeURLRequestAdBlockTP: the engines are asked for the URL itself.
\* Whether its canonical name is next depends on the settings of now.
OnBeforeURLRequestAdBlockTP(c, k, rest) ==
  \E uncloak \in {ProxySettingsAllowUncloaking(config) : config \in ProxyConfig} :
    Wait(c, k, [at |-> "engine", ctx |-> c, flags |-> {}, check |-> c.url,
                canonical |-> FALSE, uncloak |-> uncloak], rest)

\* OnBeforeURLRequest, which runs OnBeforeURLRequest_AdBlockTPPreWork.  Documents
\* of main frames are left to the navigation throttle.
OnBeforeURLRequest(c, rest) ==
  LET k == [run |-> "ContinueToBeforeSendHeaders", to |-> {}]
  IN IF kind \in Checked
     THEN OnBeforeURLRequestAdBlockTP(c, k, rest)
     ELSE Pass(c, k, rest)

\* OnHeadersReceived_AdBlockCspWork of a document: its policies are taken out of
\* the headers, to be put back by the answer.
OnHeadersReceivedAdBlockCsp(c, k, policies) ==
  /\ Wait(c, k, [at |-> "csp", ctx |-> c, original |-> policies], tasks)
  /\ headers' = {}

\* OnHeadersReceived of the handler.
OnHeadersReceived(c, k, policies) ==
  IF kind \in {"mainFrame", "subFrame"}
  THEN OnHeadersReceivedAdBlockCsp(c, k, policies)
  ELSE Pass(c, k, tasks) /\ headers' = policies

\* OnURLRequestDestroyed: an answer that is still to come finds no callback.
OnURLRequestDestroyed == callback' = Absent
-----------------------------------------------------------------------------
(* The request.                                                            *)

\* A mutant of RemoveRequest: the destructor leaves the entry in callbacks_.
RemoveRequestOnly ==
  /\ live' = FALSE
  /\ wire' = "unbound" /\ paused' = FALSE
  /\ factory' = (target \/ others)
  /\ UNCHANGED <<kind, url, follows, ctx, redirectUrl, completed, params, callback,
                 target, receivers, others, headers, history>>

\* RemoveRequest, the destructor, and MaybeRemoveProxy.
RemoveRequest ==
  /\ live' = FALSE
  /\ OnURLRequestDestroyed
  /\ wire' = "unbound" /\ paused' = FALSE
  /\ factory' = (target \/ others)
  /\ UNCHANGED <<kind, url, follows, ctx, redirectUrl, completed, params,
                 target, receivers, others, headers, history>>

\* A mutant of OnRequestError: it does not look at request_completed_.
OnRequestErrorAlways ==
  /\ client' = IF ctx.blocked THEN "collapsed" ELSE "failed"
  /\ RemoveRequest

OnRequestError ==
  /\ client' = IF completed THEN "gone"
               ELSE IF ctx.blocked THEN "collapsed" ELSE "failed"
  /\ RemoveRequest

\* A mutant of RestartInternal: the context is made before request_ has changed.
RestartInternalEarly(u, leg) ==
  /\ completed' = FALSE
  /\ uncloaked' = {}
  /\ redirectUrl' = {}
  /\ OnBeforeURLRequest(NewContext(leg, "beforeRequest", url), tasks)
  /\ paused' = (wire # "unbound")

\* RestartInternal, for the URL u.
RestartInternal(u, leg) ==
  /\ completed' = FALSE
  /\ uncloaked' = {}
  /\ redirectUrl' = {}
  /\ OnBeforeURLRequest(NewContext(leg, "beforeRequest", u), tasks)
  /\ paused' = (wire # "unbound")

\* CreateLoaderAndStart of the factory.
CreateLoaderAndStart ==
  /\ client = "idle" /\ receivers
  /\ live' = TRUE
  /\ client' = "waiting"
  /\ RestartInternal(url, 0)
  /\ UNCHANGED <<kind, url, follows, wire, params, factoryVars, headers, sent>>

\* The client follows to where it was redirected, or to another URL.
FollowRedirect(u) ==
  /\ live /\ client = "redirected" /\ follows < MaxFollows
  /\ client' = "waiting"
  /\ url' = u
  /\ follows' = follows + 1
  /\ params' = (params \/ wire # "unbound")
  /\ RestartInternal(u, follows + 1)
  /\ UNCHANGED <<live, kind, wire, factoryVars, headers, sent>>

\* ContinueToBeforeRedirect: what the client and request_ learn of a redirect.
ContinueToBeforeRedirect(u) ==
  /\ client' = "redirected"
  /\ url' = u
  /\ completed' = TRUE
  /\ paused' = FALSE

\* HandleBeforeRequestRedirect, with the URL that the rules rewrote.
HandleBeforeRequestRedirect ==
  /\ wire' = "unbound"
  /\ \E u \in redirectUrl : ContinueToBeforeRedirect(u)
  /\ UNCHANGED <<live, kind, follows, ctx, redirectUrl, params, callback,
                 factoryVars, headers, history>>

\* A stub in place of the response.
RespondWithStub(rest) ==
  /\ client' = "stub"
  /\ paused' = FALSE
  /\ tasks' = rest \cup {[at |-> "write"]}
  /\ UNCHANGED <<requestVars, wire, params, callback, factoryVars, headers, history>>

\* ContinueToSendHeaders and ContinueToStartRequest.
ContinueToSendHeaders ==
  /\ params' = FALSE
  /\ paused' = FALSE
  /\ wire' = IF params /\ wire = "redirecting" THEN "loading"
             ELSE IF wire = "unbound" /\ target THEN "loading"
             ELSE wire
  /\ UNCHANGED <<live, kind, url, follows, redirectUrl, completed, callback,
                 factoryVars, client, headers, history>>

\* ContinueToBeforeSendHeaders.  A blocked request fails even where it has a
\* stub if no data pipe can be had for it.
ContinueToBeforeSendHeaders(error, rest) ==
  \/ /\ error \/ (redirectUrl = {} /\ ctx.blocked)
     /\ OnRequestError /\ tasks' = rest
  \/ /\ ~error /\ redirectUrl # {}
     /\ HandleBeforeRequestRedirect /\ tasks' = rest
  \/ /\ ~error /\ redirectUrl = {} /\ ctx.blocked /\ ctx.mock
     /\ RespondWithStub(rest)
  \/ /\ ~error /\ redirectUrl = {} /\ ~ctx.blocked
     /\ ctx' = NewContext(ctx.leg, "none", url)
     /\ ContinueToSendHeaders /\ tasks' = rest

\* A mutant of HandleResponseOrRedirectHeaders: the receiver is not paused.
HandleResponseOrRedirectHeadersUnpaused(k, policies) ==
  /\ redirectUrl' = {}
  /\ OnHeadersReceived(NewContext(ctx.leg, "headersReceived", url), k, policies)
  /\ sent' = policies
  /\ UNCHANGED <<live, kind, url, follows, completed, paused, params, factoryVars,
                 client, uncloaked>>

\* HandleResponseOrRedirectHeaders.
HandleResponseOrRedirectHeaders(k, policies) ==
  /\ redirectUrl' = {}
  /\ OnHeadersReceived(NewContext(ctx.leg, "headersReceived", url), k, policies)
  /\ sent' = policies
  /\ paused' = TRUE
  /\ UNCHANGED <<live, kind, url, follows, completed, params, factoryVars,
                 client, uncloaked>>

\* ContinueToResponseStarted.
ContinueToResponseStarted ==
  /\ client' = "response"
  /\ paused' = FALSE
  /\ UNCHANGED <<requestVars, wire, params, callback, factoryVars, headers, history>>
-----------------------------------------------------------------------------
(* What runs later.                                                        *)

\* A shared_ptr keeps the context of a query; it may still be that of the request.
Store(c) ==
  ctx' = IF ctx.leg = c.leg /\ ctx.event = c.event THEN c ELSE ctx

\* A mutant of ShouldBlockRequestOnTaskRunner: it forgets the flags so far.
ShouldBlockRequestOnTaskRunnerAnew(t) ==
  LET answer == ShouldStartRequest(Default[t.check], Additional[t.check], {})
      flags == FlagsOf(answer)
  IN {[flags |-> flags, blocked |-> Blocks(flags), mock |-> answer.redirect,
       newUrl |-> new] :
        new \in {{}} \cup (IF t.canonical THEN {} ELSE {answer.rewritten})}

\* ShouldBlockRequestOnTaskRunner, the results it may have.  Only some methods
\* let a URL be rewritten, and only that of the request itself.
ShouldBlockRequestOnTaskRunner(t) ==
  LET answer == ShouldStartRequest(Default[t.check], Additional[t.check], t.flags)
      flags == t.flags \cup FlagsOf(answer)
  IN {[flags |-> flags, blocked |-> Blocks(flags), mock |-> answer.redirect,
       newUrl |-> new] :
        new \in {{}} \cup (IF t.canonical THEN {} ELSE {answer.rewritten})}

\* AdblockCnameResolveHostClient: a DNS query for the canonical name.  It fails
\* at once if the tab is gone.
AdblockCnameResolveHostClient(c, flags, rest) ==
  \/ /\ tasks' = rest \cup {[at |-> "dns", ctx |-> c, flags |-> flags]}
     /\ UNCHANGED <<callback, redirectUrl>>
  \/ RunNextCallback(c, rest)

\* A mutant of OnShouldBlockRequestResult: no return after the DNS query.
OnShouldBlockRequestResultBoth(t) ==
  /\ t.at = "engine"
  /\ \E result \in ShouldBlockRequestOnTaskRunner(t) :
       LET c == [t.ctx EXCEPT !.blocked = result.blocked, !.mock = result.mock,
                              !.newUrl = IF result.newUrl = {} THEN @ ELSE result.newUrl]
           rest == tasks \ {t}
       IN /\ Store(c)
          /\ RunNextCallback(c, rest \cup
               (IF ~c.blocked /\ t.uncloak
                THEN {[at |-> "dns", ctx |-> c, flags |-> result.flags]} ELSE {}))
  /\ UNCHANGED <<live, kind, url, follows, completed, wireVars, factoryVars,
                 client, headers, history>>

OnShouldBlockRequestResult(t) ==
  /\ t.at = "engine"
  /\ \E result \in ShouldBlockRequestOnTaskRunner(t) :
       LET c == [t.ctx EXCEPT !.blocked = result.blocked, !.mock = result.mock,
                              !.newUrl = IF result.newUrl = {} THEN @ ELSE result.newUrl]
           rest == tasks \ {t}
       IN /\ Store(c)
          /\ IF ~c.blocked /\ t.uncloak
             THEN AdblockCnameResolveHostClient(c, result.flags, rest)
             ELSE RunNextCallback(c, rest)
  /\ UNCHANGED <<live, kind, url, follows, completed, wireVars, factoryVars,
                 client, headers, history>>

\* A mutant of UseCnameResult: it continues only with a name.
UseCnameResultNamed(t) ==
  /\ t.at = "dns"
  /\ \E name \in {{}, Alias[t.ctx.url] \ {t.ctx.url}} :
       /\ tasks' = (tasks \ {t}) \cup
            {[at |-> "engine", ctx |-> t.ctx, flags |-> t.flags, check |-> u,
              canonical |-> TRUE, uncloak |-> FALSE] : u \in name}
       /\ uncloaked' = IF live THEN name ELSE uncloaked
  /\ UNCHANGED <<live, kind, url, follows, ctx, redirectUrl, completed, callback,
                 wireVars, factoryVars, headers, client, sent>>

\* OnComplete of the DNS client, with a name or without, and UseCnameResult.
UseCnameResult(t) ==
  /\ t.at = "dns"
  /\ \E name \in {{}, Alias[t.ctx.url] \ {t.ctx.url}} :
       IF name = {}
       THEN RunNextCallback(t.ctx, tasks \ {t}) /\ UNCHANGED uncloaked
       ELSE /\ \E u \in name :
                 tasks' = (tasks \ {t}) \cup
                   {[at |-> "engine", ctx |-> t.ctx, flags |-> t.flags, check |-> u,
                     canonical |-> TRUE, uncloak |-> FALSE]}
            /\ uncloaked' = IF live THEN name ELSE uncloaked
            /\ UNCHANGED <<callback, redirectUrl>>
  /\ UNCHANGED <<live, kind, url, follows, ctx, completed, wireVars,
                 factoryVars, headers, client, sent>>

\* A mutant of GetCspDirectivesOnTaskRunner: the policies of the rules replace
\* those of the page.
GetCspDirectivesOnTaskRunnerAlone(original) ==
  {[rules |-> d, csp |-> IF d = {} THEN original ELSE d] :
     d \in GetCspDirectives("default", "additional")}

\* GetCspDirectivesOnTaskRunner: the policies of the rules, and all together.
GetCspDirectivesOnTaskRunner(original) ==
  {[rules |-> d, csp |-> MergeCspDirectiveInto(original, d)] :
     d \in GetCspDirectives("default", "additional")}

OnReceiveCspDirectives(t) ==
  /\ t.at = "csp"
  /\ RunNextCallback(t.ctx, tasks \ {t})
  /\ \E directives \in GetCspDirectivesOnTaskRunner(t.original) :
       /\ headers' = IF live THEN directives.csp ELSE headers
       /\ sent' = IF live THEN sent \cup directives.rules ELSE sent
  /\ UNCHANGED <<live, kind, url, follows, ctx, completed, wireVars,
                 factoryVars, client, uncloaked>>

\* A posted continuation, bound to a weak pointer.
RunContinuation(t) ==
  /\ t.at = "posted"
  /\ LET rest == tasks \ {t}
     IN IF ~live
        THEN tasks' = rest
             /\ UNCHANGED <<requestVars, wireVars, callback, factoryVars, client,
                            headers, history>>
        ELSE \/ /\ t.go.run = "ContinueToBeforeSendHeaders"
                /\ ContinueToBeforeSendHeaders(t.error, rest)
             \/ /\ t.go.run = "ContinueToResponseStarted"
                /\ ContinueToResponseStarted /\ tasks' = rest
             \/ /\ t.go.run = "ContinueToBeforeRedirect"
                /\ \E u \in t.go.to : ContinueToBeforeRedirect(u)
                /\ tasks' = rest
                /\ UNCHANGED <<live, kind, follows, ctx, redirectUrl, wire, params,
                               callback, factoryVars, headers, history>>

\* The end of the request without an error.
Finish == client' = "complete" /\ RemoveRequest

\* OnWrite.  It fails when the client has closed the stub's body: then the
\* request stays until the client lets go of its pipes.
OnWrite(t) ==
  /\ t.at = "write"
  /\ tasks' = tasks \ {t}
  /\ \/ live /\ Finish
     \/ UNCHANGED <<requestVars, wireVars, callback, factoryVars, client, headers, history>>
-----------------------------------------------------------------------------
(* The network and the client, external, and the factory.                  *)

\* Its messages, which a paused receiver does not take.
FromNetwork(states) == live /\ wire \in states /\ ~paused

OnReceiveRedirect(u) ==
  /\ FromNetwork({"loading"})
  /\ wire' = "redirecting"
  /\ HandleResponseOrRedirectHeaders([run |-> "ContinueToBeforeRedirect", to |-> {u}], {})

OnReceiveResponse ==
  /\ FromNetwork({"loading"})
  /\ wire' = "responding"
  /\ \E policies \in SUBSET {"page"} :
       HandleResponseOrRedirectHeaders(
         [run |-> "ContinueToResponseStarted", to |-> {}], policies)

OnComplete ==
  /\ \/ FromNetwork({"responding"}) /\ Finish
     \/ FromNetwork({"loading", "redirecting", "responding"}) /\ OnRequestError
  /\ UNCHANGED tasks

\* The client's pipe is gone: OnRequestError, with nobody to tell.
ClientDisconnects ==
  /\ live
  /\ client' = "gone"
  /\ RemoveRequest
  /\ UNCHANGED tasks

\* OnLoaderDisconnected: the client restarts a redirect with a loader of its
\* own, or has only let go of the loader.
OnLoaderDisconnected ==
  /\ live
  /\ OnRequestError \/ (client = "redirected" /\ client' = "gone" /\ RemoveRequest)
  /\ UNCHANGED tasks

\* A mutant of MaybeRemoveProxy: active requests do not keep the factory.
MaybeRemoveProxyNow == factory' = target'

MaybeRemoveProxy == factory' = (target' \/ live' \/ others')

\* The network service may have gone with the factory's pipe, or not.
OnTargetFactoryError ==
  /\ factory /\ target
  /\ target' = FALSE /\ receivers' = FALSE
  /\ wire' \in {wire} \cup (IF wire = "unbound" THEN {} ELSE {"lost"})
  /\ UNCHANGED <<requestVars, paused, params, handlerVars, others, client, headers, history>>
  /\ MaybeRemoveProxy

\* OnProxyBindingError, for the last of the receivers.
OnProxyBindingError ==
  /\ factory /\ receivers
  /\ receivers' = FALSE /\ target' = FALSE
  /\ UNCHANGED <<requestVars, wireVars, handlerVars, others, client, headers, history>>
  /\ MaybeRemoveProxy

OtherRequests ==
  /\ UNCHANGED <<requestVars, wireVars, handlerVars, target, receivers, client,
                 headers, history>>
  /\ \/ receivers /\ ~others /\ others' = TRUE /\ UNCHANGED factory
     \/ others /\ others' = FALSE /\ MaybeRemoveProxy
-----------------------------------------------------------------------------
RunTask ==
  \E t \in tasks :
    \/ OnShouldBlockRequestResult(t) \/ UseCnameResult(t)
    \/ OnReceiveCspDirectives(t) \/ RunContinuation(t) \/ OnWrite(t)

Network == (\E u \in Url : OnReceiveRedirect(u)) \/ OnReceiveResponse \/ OnComplete

Next ==
  \/ CreateLoaderAndStart \/ (\E u \in Url : FollowRedirect(u))
  \/ RunTask \/ Network
  \/ ClientDisconnects \/ OnLoaderDisconnected
  \/ OnTargetFactoryError \/ OnProxyBindingError \/ OtherRequests

Spec == Init /\ [][Next]_vars

\* Tasks run, the resolver answers or disconnects, the network answers.
FairSpec == Spec /\ WF_vars(RunTask) /\ WF_vars(Network)
-----------------------------------------------------------------------------
(* Properties.                                                             *)

\* What the client sees is a behaviour of LoaderClient: no stage is continued
\* twice or for a request that has ended, whatever overtakes whatever.
ClientProtocol == INSTANCE LoaderClient
FollowsProtocol == ClientProtocol!Spec

\* All rules for the URL of the request and the name it was checked under.
Names == {url} \cup uncloaked
RulesFound == UNION {Default[u].rules \cup Additional[u].rules : u \in Names}

\* The network is never given a URL that the rules block, by its own name or
\* by the canonical name it was checked under, on any leg of the request
\* (documents of main frames are checked elsewhere, exempt requests not at all).
NothingBlockedIsSent ==
  live /\ wire \in {"loading", "responding"} /\ kind \in Checked
    => ~BlocksByRules(RulesFound)

\* Conversely, a request is collapsed or gets a stub only if the rules block
\* its URL, and a stub only if they name one.
BlockedByRule ==
  /\ client \in {"collapsed", "stub"} => kind \in Checked /\ BlocksByRules(RulesFound)
  /\ client = "stub" => \E u \in Names : Default[u].redirect \/ Additional[u].redirect

\* The policies that a page sent along reach the client, although they are
\* taken out of the headers while the engines are asked for theirs, and so do
\* those of the rules of both engines.
PolicyKept == client = "response" => sent \subseteq headers

Asked == {t \in tasks : t.at \in {"engine", "dns", "csp"}}
Posted == {t \in tasks : t.at = "posted"}

\* Of a live request, a stage that waits has exactly one answer on its way, and
\* one that was answered one continuation, its own; an entry of callbacks_
\* outlives no request, so no late answer writes through its context.
ContinuesOnce ==
  /\ ~live => callback = Absent
  /\ live => /\ Cardinality(Asked \cup Posted) <= 1
             /\ Asked # {} <=> callback \in Continuation
             /\ \A t \in Asked : t.ctx.leg = ctx.leg /\ t.ctx.event = ctx.event
             /\ Posted # {} => callback = Moved

\* The network's messages wait while a stage waits, and no longer.
PausedWhileWaiting ==
  live => (paused <=> wire # "unbound" /\ Asked \cup Posted # {})

\* The factory stays while a request needs it, or new ones may come, and goes
\* with the last of them.
FactoryStaysAsNeeded == factory <=> target \/ live \/ others

\* A request that its client waits for is answered, unless the factory lost the
\* network before the request got there, or the network is gone.
EveryRequestAnswered ==
  client = "waiting" ~> client # "waiting" \/ wire = "lost" \/ (wire = "unbound" /\ ~target)
=============================================================================
