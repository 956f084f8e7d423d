----------------------------- MODULE DomainBlock -----------------------------
(***************************************************************************)
(* The documents of one tab: DomainBlockNavigationThrottle asks the engines *)
(* about the navigations of the tab's main frame, DomainBlockPage and      *)
(* DomainBlockControllerClient are the interstitial in place of a blocked  *)
(* one, DomainBlockTabStorage is the flag that lets a navigation pass after *)
(* its user has chosen to proceed.                                         *)
(*                                                                         *)
(* A tab has one navigation at a time, a new one takes the place of the    *)
(* old.  The throttle defers it, a query is run by the engines' runner, and *)
(* its reply is dropped if the throttle is gone.  "Don't warn again" adds a *)
(* rule to the custom filters, which reach the engine later (FilterLoading).*)
(* In private tabs the page does not offer that; they add no behaviour.    *)
(* Matching is external (EngineWrapper), and so are navigations, the       *)
(* network and the user.                                                   *)
(***************************************************************************)
EXTENDS EngineWrapper, Naturals, Sequences

CONSTANTS
  Host,            \* the host of a URL
  Default,         \* what the rules of the default engine have to say of a URL
  Additional,      \* and those of the additional one, without site exemptions
  MaxNavigations,  \* bound: navigations that the user starts
  MaxRedirects     \* bound: redirects by the network

\* Rewriting a URL leaves nothing to rewrite.
ASSUME ConstantsAssumption ==
  /\ Default \in [Url -> Match] /\ Additional \in [Url -> Match]
  /\ DOMAIN Host = Url
  /\ MaxNavigations \in Nat /\ MaxRedirects \in Nat
  /\ \A u \in Url : \A v \in Additional[u].rewritten : Additional[v].rewritten = {}

VARIABLES
  proceeding,   \* is_proceeding_
  nav,          \* the navigation under way, and whether Proceed asked for it
  queries,      \* at the engines' runner, or answered and posted back
  opening,      \* posted OpenURL tasks
  page,         \* what the tab shows; dont_warn_again_ of an interstitial
  exempt,       \* hosts exempted by the custom filters
  applied,      \* hosts exempted in the engine
  navigations, redirects,  \* counters of the bounds
  consented     \* history: the user has proceeded since the last response

bounds == <<navigations, redirects>>
vars == <<proceeding, nav, queries, opening, page, exempt, applied, bounds, consented>>

Hosts == {Host[u] : u \in Url}

\* BlockResult; known is a history of what was exempted when it was made.
BlockResult == [blocked : BOOLEAN, newUrl : SUBSET Url, known : SUBSET Hosts]

Query == [nav : Nat, url : Url, answer : SUBSET BlockResult]
Navigation ==
  [id : Nat, url : Url, phase : {"none", "checking", "loading"}, reload : BOOLEAN]

TypeOK ==
  /\ proceeding \in BOOLEAN /\ consented \in BOOLEAN
  /\ nav \in Navigation
  /\ queries \subseteq Query
  /\ opening \in Seq(Url)
  /\ page \in [kind : {"document", "interstitial"}, url : Url, dontWarn : BOOLEAN,
               known : SUBSET Hosts]
  /\ exempt \subseteq Hosts /\ applied \subseteq Hosts
  /\ navigations \in 0..MaxNavigations /\ redirects \in 0..MaxRedirects
  /\ \A q \in queries : q.nav = nav.id /\ nav.phase = "checking" => q.url = nav.url

Document(u) == [kind |-> "document", url |-> u, dontWarn |-> FALSE, known |-> {}]
Interstitial(u, known) ==
  [kind |-> "interstitial", url |-> u, dontWarn |-> FALSE, known |-> known]

Init ==
  /\ proceeding = FALSE /\ consented = FALSE
  /\ \E u \in Url :
       /\ nav = [id |-> 0, url |-> u, phase |-> "none", reload |-> FALSE]
       /\ page = Document(u)
  /\ queries = {} /\ opening = <<>>
  /\ exempt = {} /\ applied = {}
  /\ navigations = 0 /\ redirects = 0

Ended == [nav EXCEPT !.phase = "none"]
-----------------------------------------------------------------------------
(* The throttle.                                                           *)

MayProceed(n, flag) ==
  IF flag
  THEN nav' = [n EXCEPT !.phase = "loading"] /\ UNCHANGED queries
  ELSE /\ nav' = [n EXCEPT !.phase = "checking"]
       /\ queries' = queries \cup {[nav |-> n.id, url |-> n.url, answer |-> {}]}

\* A mutant of WillStartRequest: the flag is good for one request.
WillStartRequestOnce(n, flag) == proceeding' = FALSE /\ MayProceed(n, flag)

\* WillStartRequest of the navigation n, which it lets pass or defers.
WillStartRequest(n, flag) == proceeding' = flag /\ MayProceed(n, flag)

\* MaybeCreateAndAdd: a navigation of the main frame with a throttle of its own.
NewNavigation(u, reload, flag) ==
  WillStartRequest([id |-> nav.id + 1, url |-> u, phase |-> "none", reload |-> reload], flag)

StartNavigation(u) ==
  /\ navigations < MaxNavigations
  /\ navigations' = navigations + 1
  /\ NewNavigation(u, FALSE, proceeding)
  /\ UNCHANGED <<opening, page, exempt, applied, consented, redirects>>

WillRedirectRequest(u) ==
  /\ nav.phase = "loading" /\ redirects < MaxRedirects
  /\ redirects' = redirects + 1
  /\ WillStartRequest([nav EXCEPT !.url = u], proceeding)
  /\ UNCHANGED <<opening, page, exempt, applied, navigations, consented>>

\* What the engines answer; an exemption is an exception in the additional one,
\* for the first party, which the document of a tab is.
ShouldStart(u, exempted) ==
  ShouldStartRequest(Default[u],
    [Additional[u] EXCEPT !.rules = @ \cup (IF exempted THEN {"exception"} ELSE {})],
    {})

\* A mutant of ShouldBlock: exceptions count for nothing.
ShouldBlockRegardless(result) == result.important \/ result.matched \/ result.exception

ShouldBlock(result) == Blocks(FlagsOf(result))

ShouldBlockDomainOnTaskRunner(q) ==
  /\ q.answer = {}
  /\ \E result \in {ShouldStart(q.url, Host[q.url] \in applied)} :
       queries' = (queries \ {q}) \cup
         {[q EXCEPT !.answer = {[blocked |-> ShouldBlock(result), known |-> applied,
                                 newUrl |-> result.rewritten]}]}
  /\ UNCHANGED <<proceeding, nav, opening, page, exempt, applied, bounds, consented>>

\* ShowInterstitial: a controller client and a page, and the navigation is
\* cancelled.
ShowInterstitial(known) ==
  /\ page' = Interstitial(nav.url, known)
  /\ nav' = Ended
  /\ UNCHANGED opening

\* RestartNavigation: the navigation is cancelled and another one posted.
RestartNavigation(u) ==
  /\ nav' = Ended
  /\ opening' = Append(opening, u)
  /\ UNCHANGED page

Resume ==
  /\ nav' = [nav EXCEPT !.phase = "loading"]
  /\ UNCHANGED <<opening, page>>

\* A mutant of OnShouldBlockDomain: the reply does not know its throttle.
OnShouldBlockDomainUnbound(q) ==
  /\ nav.phase = "checking"
  /\ \E r \in q.answer :
       \/ ~r.blocked /\ r.newUrl = {} /\ Resume
       \/ \E u \in r.newUrl : RestartNavigation(u)
       \/ r.blocked /\ r.newUrl = {} /\ ShowInterstitial(r.known)
  /\ queries' = queries \ {q}
  /\ UNCHANGED <<proceeding, exempt, applied, bounds, consented>>

\* A mutant of OnShouldBlockDomain: only what is not blocked is rewritten.
OnShouldBlockDomainForgetful(q) ==
  /\ \E r \in q.answer :
       IF q.nav # nav.id \/ nav.phase = "none" \/ (r.blocked /\ r.newUrl # {})
       THEN UNCHANGED <<nav, opening, page>>
       ELSE \/ ~r.blocked /\ r.newUrl = {} /\ Resume
            \/ \E u \in r.newUrl : RestartNavigation(u)
            \/ r.blocked /\ r.newUrl = {} /\ ShowInterstitial(r.known)
  /\ queries' = queries \ {q}
  /\ UNCHANGED <<proceeding, exempt, applied, bounds, consented>>

\* OnShouldBlockDomain, bound to a weak pointer.  A URL that is rewritten is
\* not warned about, though it may be blocked.
OnShouldBlockDomain(q) ==
  /\ \E r \in q.answer :
       IF q.nav # nav.id \/ nav.phase = "none"
       THEN UNCHANGED <<nav, opening, page>>
       ELSE \/ ~r.blocked /\ r.newUrl = {} /\ Resume
            \/ \E u \in r.newUrl : RestartNavigation(u)
            \/ r.blocked /\ r.newUrl = {} /\ ShowInterstitial(r.known)
  /\ queries' = queries \ {q}
  /\ UNCHANGED <<proceeding, exempt, applied, bounds, consented>>

\* The posted task, which takes the place of what has been started since.
OpenURL ==
  /\ opening # <<>>
  /\ opening' = Tail(opening)
  /\ NewNavigation(Head(opening), FALSE, proceeding)
  /\ UNCHANGED <<page, exempt, applied, bounds, consented>>

\* A mutant of WillProcessResponse: the flag is not cleared.
WillProcessResponseKeepsFlag ==
  /\ nav.phase = "loading"
  /\ consented' = FALSE
  /\ nav' = Ended
  /\ page' \in {page, Document(nav.url)}
  /\ UNCHANGED <<proceeding, queries, opening, exempt, applied, bounds>>

\* WillProcessResponse; the response may be a document or a download.
WillProcessResponse ==
  /\ nav.phase = "loading"
  /\ proceeding' = FALSE
  /\ consented' = FALSE
  /\ nav' = Ended
  /\ page' \in {page, Document(nav.url)}
  /\ UNCHANGED <<queries, opening, exempt, applied, bounds>>

\* The network has no response: there is no WillFailRequest, an error page comes.
NetworkFails ==
  /\ nav.phase = "loading"
  /\ nav' = Ended
  /\ page' = Document(nav.url)
  /\ UNCHANGED <<proceeding, queries, opening, exempt, applied, bounds, consented>>

\* The user stops the navigation, or it is abandoned.
Stop ==
  /\ nav.phase # "none"
  /\ nav' = Ended
  /\ UNCHANGED <<proceeding, queries, opening, page, exempt, applied, bounds,
                 consented>>
-----------------------------------------------------------------------------
(* The interstitial and its commands.                                      *)

CreateSiteExemption(host) == exempt' = exempt \cup {host}

\* Proceed and ReloadPage, with CreateSiteExemption if it is asked for.
Proceed ==
  /\ page.kind = "interstitial" /\ navigations < MaxNavigations
  /\ navigations' = navigations + 1
  /\ consented' = TRUE
  /\ IF page.dontWarn THEN CreateSiteExemption(Host[page.url]) ELSE UNCHANGED exempt
  /\ NewNavigation(page.url, TRUE, TRUE)
  /\ UNCHANGED <<opening, page, applied, redirects>>

SetDontWarnAgain(value) ==
  /\ page.kind = "interstitial"
  /\ page' = [page EXCEPT !.dontWarn = value]
  /\ UNCHANGED <<proceeding, nav, queries, opening, exempt, applied, bounds,
                 consented>>

\* GoBack: to a page that is still kept, or by a navigation.
GoBack ==
  /\ page.kind = "interstitial" /\ navigations < MaxNavigations
  /\ navigations' = navigations + 1
  /\ \E u \in Url :
       \/ /\ page' = Document(u) /\ nav' = Ended
          /\ UNCHANGED <<proceeding, queries>>
       \/ NewNavigation(u, FALSE, proceeding) /\ UNCHANGED page
  /\ UNCHANGED <<opening, exempt, applied, consented, redirects>>

\* The custom filters reach the engine.
EngineReloads ==
  /\ applied # exempt
  /\ applied' = exempt
  /\ UNCHANGED <<proceeding, nav, queries, opening, page, exempt, bounds, consented>>
-----------------------------------------------------------------------------
Answer == \E q \in queries : ShouldBlockDomainOnTaskRunner(q) \/ OnShouldBlockDomain(q)
Network == WillProcessResponse \/ NetworkFails
CommandReceived ==
  Proceed \/ GoBack \/ \E value \in BOOLEAN : SetDontWarnAgain(value)
User == (\E u \in Url : StartNavigation(u)) \/ Stop \/ CommandReceived

Next ==
  \/ User \/ Answer \/ OpenURL \/ Network
  \/ \E u \in Url : WillRedirectRequest(u)
  \/ EngineReloads

Spec == Init /\ [][Next]_vars

\* Tasks run, and the network answers or fails.
FairSpec == Spec /\ WF_vars(Answer) /\ WF_vars(OpenURL) /\ WF_vars(Network)
-----------------------------------------------------------------------------
(* Properties.                                                             *)

RulesFound(u) ==
  Default[u].rules \cup Additional[u].rules
    \cup {r \in {"exception"} : Host[u] \in applied}

\* A document that the rules of both engines block is requested, by the first
\* request or after a redirect, only if the user has chosen to proceed and no
\* response has come to the tab since; no late reply and no navigation that
\* takes the place of another lets one slip through.
NothingBlockedLoads ==
  nav.phase = "loading" /\ BlocksByRules(RulesFound(nav.url)) => consented

\* The reload the user has asked for is not warned about again, wherever it is
\* redirected to, although the exemption has not reached the engine yet.
ProceedSucceeds == nav.reload => nav.phase # "checking"

\* A host the user does not want to be warned about is warned about again only
\* for an important rule, whichever engine blocks it, once the engine has taken
\* the exemption.
ExemptWarnsOnlyIfImportant ==
  page.kind = "interstitial" /\ Host[page.url] \in page.known
    => "important" \in RulesFound(page.url)

\* No navigation stays deferred, and one that was restarted is opened.
Settles ==
  /\ nav.phase = "checking" ~> nav.phase # "checking"
  /\ opening # <<>> ~> opening = <<>>

\* "Flag stores whether we are in the middle of a proceed action."
\* (domain_block_tab_storage.h): the reload that Proceed asks for.
FlagMeansProceeding == proceeding => nav.reload /\ nav.phase # "none"
=============================================================================
