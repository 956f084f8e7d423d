--------------------------- MODULE DomainBlockProofs ---------------------------
(***************************************************************************)
(* DomainBlock, for every set of URLs and hosts, whatever the rules of both *)
(* engines say, and any number of navigations and redirects: an inductive   *)
(* invariant, and the safety properties of the tab that follow.            *)
(***************************************************************************)
EXTENDS DomainBlock, EngineWrapperProofs, SequenceTheorems

\* Queries belong to navigations that have been; the one under way has at most
\* one, and none once it loads.
QueriesInv ==
  /\ \A q \in queries : q.nav <= nav.id
  /\ nav.phase # "none" =>
       \A q, r \in queries : q.nav = nav.id /\ r.nav = nav.id => q = r
  /\ nav.phase = "loading" => \A q \in queries : q.nav # nav.id

RulesAt(u, known) ==
  Default[u].rules \cup Additional[u].rules
    \cup {r \in {"exception"} : Host[u] \in known}

\* An answer is what the rules said with the exemptions of then, which are still
\* exempted.
AnswersInv ==
  \A q \in queries : \A r \in q.answer :
    r.known \subseteq applied /\ (r.blocked <=> BlocksByRules(RulesAt(q.url, r.known)))

\* The flag of the tab says what its user wants; a reload that loads has it.
FlagInv ==
  /\ proceeding <=> consented
  /\ nav.reload /\ nav.phase = "loading" => proceeding

IInv ==
  /\ TypeOK /\ QueriesInv /\ AnswersInv /\ FlagInv /\ applied \subseteq exempt
  /\ NothingBlockedLoads /\ ProceedSucceeds /\ ExemptWarnsOnlyIfImportant
-----------------------------------------------------------------------------
(* Facts about the rules and the records.                                  *)

LEMMA NowKnown == \A u \in Url : RulesFound(u) = RulesAt(u, applied)
BY DEF RulesFound, RulesAt

LEMMA QueryFields ==
  ASSUME NEW q \in Query
  PROVE  q.nav \in Nat /\ q.url \in Url /\ q.answer \in SUBSET BlockResult
BY DEF Query

LEMMA NavigationFields ==
  ASSUME NEW n \in Navigation
  PROVE  /\ n.id \in Nat /\ n.url \in Url /\ n.reload \in BOOLEAN
         /\ n.phase \in {"none", "checking", "loading"}
BY DEF Navigation

\* The engines block what their rules, and the exemptions, block.
LEMMA AskedRulesDecide ==
  ASSUME NEW u \in Url, NEW known
  PROVE  ShouldBlock(ShouldStart(u, Host[u] \in known)) <=> BlocksByRules(RulesAt(u, known))
<1> DEFINE d == Default[u]
           a == [Additional[u] EXCEPT
                   !.rules = @ \cup (IF Host[u] \in known THEN {"exception"} ELSE {})]
<1>1. d \in Match /\ Additional[u] \in Match
  BY ConstantsAssumption
<1>2. /\ a \in Match
      /\ a.rules = Additional[u].rules \cup (IF Host[u] \in known THEN {"exception"} ELSE {})
  BY <1>1 DEF Match, Rule
<1>3. {} \cup d.rules \cup a.rules = RulesAt(u, known)
  BY <1>2 DEF RulesAt
<1>4. ShouldStart(u, Host[u] \in known) = ShouldStartRequest(d, a, {})
  BY DEF ShouldStart
<1>5. Agrees({}, {})
  BY DEF Agrees
<1> HIDE DEF d, a
<1>6. Agrees({} \cup FlagsOf(ShouldStartRequest(d, a, {})), {} \cup d.rules \cup a.rules)
  BY <1>1, <1>2, <1>5, QueryAgrees DEF d
<1>7. Agrees(FlagsOf(ShouldStartRequest(d, a, {})), RulesAt(u, known))
  BY <1>3, <1>6
<1> QED
  BY <1>4, <1>7, AgreeingFlagsDecide DEF ShouldBlock

\* To exempt more blocks less.
LEMMA MoreExemptions ==
  ASSUME NEW u, NEW known, NEW more, known \subseteq more, BlocksByRules(RulesAt(u, more))
  PROVE  BlocksByRules(RulesAt(u, known))
BY DEF BlocksByRules, RulesAt

\* What an exempted host is warned about all the same is important.
LEMMA ExemptBlockedIsImportant ==
  ASSUME NEW u, NEW known, Host[u] \in known, BlocksByRules(RulesAt(u, known))
  PROVE  "important" \in RulesAt(u, {})
BY DEF BlocksByRules, RulesAt
-----------------------------------------------------------------------------
(* The throttle.                                                           *)

\* WillStartRequest, of a navigation without a query.
LEMMA StartKeeps ==
  ASSUME IInv, NEW n \in Navigation, NEW flag \in BOOLEAN, WillStartRequest(n, flag),
         n.id >= nav.id, \A q \in queries : q.nav # n.id,
         n.reload => flag, consented' = flag,
         opening' \in Seq(Url), UNCHANGED <<page, applied>>,
         exempt' \in SUBSET Hosts, exempt \subseteq exempt',
         navigations' \in 0..MaxNavigations, redirects' \in 0..MaxRedirects
  PROVE  IInv'
<1> DEFINE phase == IF flag THEN "loading" ELSE "checking"
           query == [nav |-> n.id, url |-> n.url, answer |-> {}]
<1>1. n.id \in Nat /\ n.url \in Url /\ nav.id \in Nat
  BY NavigationFields DEF IInv, TypeOK
<1>2. /\ proceeding' = flag /\ nav' = [n EXCEPT !.phase = phase]
      /\ queries' = IF flag THEN queries ELSE queries \cup {query}
  BY DEF WillStartRequest, MayProceed
<1>3. /\ query \in Query /\ query.nav = n.id /\ query.url = n.url /\ query.answer = {}
  BY <1>1 DEF Query
<1>4. /\ nav' \in Navigation /\ nav'.id = n.id /\ nav'.url = n.url /\ nav'.reload = n.reload
      /\ nav'.phase = phase
  BY <1>2 DEF Navigation
<1> HIDE DEF query
<1>5. \A q \in queries' : q \in Query /\ (q \in queries \/ (~flag /\ q = query))
  BY <1>2, <1>3 DEF IInv, TypeOK
<1>6. TypeOK'
  <2>1. \A q \in queries' : q.nav = nav'.id /\ nav'.phase = "checking" => q.url = nav'.url
    BY <1>3, <1>4, <1>5
  <2>2. queries' \subseteq Query
    BY <1>5
  <2> QED
    BY <1>2, <1>4, <2>1, <2>2 DEF IInv, TypeOK
<1>7. QueriesInv'
  <2>1. ASSUME NEW q \in queries' PROVE q.nav <= nav'.id
    <3>1. CASE q \in queries
      <4>1. q.nav <= nav.id /\ q.nav \in Nat
        BY <1>5, <3>1, QueryFields DEF IInv, QueriesInv
      <4> QED
        BY <1>1, <1>4, <4>1
    <3>2. CASE q = query
      BY <1>1, <1>3, <1>4, <3>2
    <3> QED
      BY <1>5, <3>1, <3>2
  <2>2. \A q, r \in queries' : q.nav = nav'.id /\ r.nav = nav'.id => q = r
    BY <1>4, <1>5
  <2>3. nav'.phase = "loading" => \A q \in queries' : q.nav # nav'.id
    BY <1>4, <1>5
  <2> QED
    BY <2>1, <2>2, <2>3 DEF QueriesInv
<1>8. AnswersInv'
  BY <1>3, <1>5 DEF IInv, AnswersInv
<1>9. FlagInv' /\ (applied \subseteq exempt)'
  BY <1>2, <1>4 DEF IInv, FlagInv
<1>10. NothingBlockedLoads' /\ ProceedSucceeds' /\ ExemptWarnsOnlyIfImportant'
  BY <1>4 DEF IInv, NothingBlockedLoads, ProceedSucceeds, ExemptWarnsOnlyIfImportant, RulesFound
<1> QED
  BY <1>6, <1>7, <1>8, <1>9, <1>10 DEF IInv

\* A navigation of its own: no query is for it yet.
LEMMA NewKeeps ==
  ASSUME IInv, NEW u \in Url, NEW reload \in BOOLEAN, NEW flag \in BOOLEAN,
         NewNavigation(u, reload, flag), reload => flag, consented' = flag,
         opening' \in Seq(Url), UNCHANGED <<page, applied>>,
         exempt' \in SUBSET Hosts, exempt \subseteq exempt',
         navigations' \in 0..MaxNavigations, redirects' \in 0..MaxRedirects
  PROVE  IInv'
<1>1. nav.id \in Nat
  BY NavigationFields DEF IInv, TypeOK
<1>2. PICK n \in Navigation :
        n = [id |-> nav.id + 1, url |-> u, phase |-> "none", reload |-> reload]
  <2>1. PICK id \in Nat : id = nav.id + 1
    BY <1>1
  <2>2. [id |-> id, url |-> u, phase |-> "none", reload |-> reload] \in Navigation
    BY DEF Navigation
  <2> QED
    BY <2>1, <2>2
<1>3. n.id = nav.id + 1 /\ n.reload = reload
  BY <1>2
<1>4. \A q \in queries : q.nav # n.id
  BY <1>1, <1>3, QueryFields DEF IInv, QueriesInv, TypeOK
<1>5. WillStartRequest(n, flag)
  BY <1>2 DEF NewNavigation
<1> QED
  BY <1>1, <1>3, <1>4, <1>5, StartKeeps

\* The navigation is over, or goes on: what was asked for it may have been
\* answered, and another page may be shown.
LEMMA EndKeeps ==
  ASSUME IInv, nav' = Ended, queries' \in SUBSET queries,
         proceeding' \in BOOLEAN, proceeding' = consented',
         opening' \in Seq(Url), UNCHANGED <<exempt, applied>>,
         page' \in [kind : {"document", "interstitial"}, url : Url, dontWarn : BOOLEAN,
                    known : SUBSET Hosts],
         ExemptWarnsOnlyIfImportant',
         navigations' \in 0..MaxNavigations, redirects' \in 0..MaxRedirects
  PROVE  IInv'
<1>1. nav' \in Navigation /\ nav'.id = nav.id /\ nav'.phase = "none"
  BY DEF Ended, IInv, TypeOK, Navigation
<1>2. TypeOK'
  BY <1>1 DEF IInv, TypeOK
<1>3. QueriesInv' /\ AnswersInv' /\ FlagInv'
  BY <1>1 DEF IInv, QueriesInv, AnswersInv, FlagInv
<1>4. NothingBlockedLoads' /\ ProceedSucceeds'
  BY <1>1 DEF NothingBlockedLoads, ProceedSucceeds
<1> QED
  BY <1>2, <1>3, <1>4 DEF IInv

\* A document is not an interstitial, and one that stays was right before.
LEMMA PageKeeps ==
  ASSUME IInv, UNCHANGED applied,
         page' = page \/ \E u \in Url : page' = Document(u)
  PROVE  /\ ExemptWarnsOnlyIfImportant'
         /\ page' \in [kind : {"document", "interstitial"}, url : Url, dontWarn : BOOLEAN,
                       known : SUBSET Hosts]
<1>1. CASE page' = page
  BY <1>1 DEF IInv, TypeOK, ExemptWarnsOnlyIfImportant, RulesFound
<1>2. CASE \E u \in Url : page' = Document(u)
  BY <1>2 DEF Document, ExemptWarnsOnlyIfImportant
<1> QED
  BY <1>1, <1>2

\* ShouldBlockDomainOnTaskRunner.
LEMMA AnswerKeeps ==
  ASSUME IInv, NEW q \in queries, ShouldBlockDomainOnTaskRunner(q)
  PROVE  IInv'
<1>1. q \in Query /\ q.nav \in Nat /\ q.url \in Url
  BY QueryFields DEF IInv, TypeOK
<1> DEFINE result == ShouldStart(q.url, Host[q.url] \in applied)
           answer == [blocked |-> ShouldBlock(result), known |-> applied,
                      newUrl |-> result.rewritten]
           asked == [q EXCEPT !.answer = {answer}]
<1>2. queries' = (queries \ {q}) \cup {asked}
  BY DEF ShouldBlockDomainOnTaskRunner
<1>3. UNCHANGED <<proceeding, nav, opening, page, exempt, applied, bounds, consented>>
  BY DEF ShouldBlockDomainOnTaskRunner
<1>4. /\ answer \in BlockResult /\ answer.known = applied
      /\ answer.blocked <=> BlocksByRules(RulesAt(q.url, applied))
  <2>1. result.rewritten \in SUBSET Url
    <3> DEFINE a == [Additional[q.url] EXCEPT
                       !.rules = @ \cup (IF Host[q.url] \in applied THEN {"exception"} ELSE {})]
    <3>1. Default[q.url] \in Match /\ Additional[q.url] \in Match
      BY <1>1, ConstantsAssumption
    <3>2. a \in Match /\ a.rewritten \in SUBSET Url
      BY <3>1 DEF Match, Rule
    <3>3. result = ShouldStartRequest(Default[q.url], a, {})
      BY DEF ShouldStart
    <3> HIDE DEF a, result
    <3> QED
      BY <3>1, <3>2, <3>3, AnswerOfEngines
  <2>2. ShouldBlock(result) \in BOOLEAN
    BY DEF ShouldBlock, Blocks
  <2>3. ShouldBlock(result) <=> BlocksByRules(RulesAt(q.url, applied))
    BY <1>1, AskedRulesDecide
  <2> HIDE DEF result
  <2>4. /\ answer.known = applied /\ answer.newUrl = result.rewritten
        /\ answer.blocked = ShouldBlock(result)
    OBVIOUS
  <2>5. answer \in BlockResult
    BY <2>1, <2>2 DEF BlockResult, IInv, TypeOK
  <2> QED
    BY <2>3, <2>4, <2>5
<1> HIDE DEF answer
<1>5. /\ asked \in Query /\ asked.nav = q.nav /\ asked.url = q.url
      /\ asked.answer = {answer}
  BY <1>1, <1>4 DEF Query
<1> HIDE DEF asked
<1>6. \A r \in queries' : r \in Query /\ (r = asked \/ (r \in queries /\ r # q))
  BY <1>2, <1>5 DEF IInv, TypeOK
<1>7. \A r \in queries' : \E s \in queries :
        /\ r.nav = s.nav /\ r.url = s.url
        /\ r = asked => s = q
        /\ r # asked => s = r /\ s # q
  BY <1>5, <1>6
<1>8. TypeOK'
  <2>1. queries' \subseteq Query
    BY <1>6
  <2>2. \A r \in queries' : r.nav = nav'.id /\ nav'.phase = "checking" => r.url = nav'.url
    BY <1>3, <1>7 DEF IInv, TypeOK
  <2> QED
    BY <1>3, <2>1, <2>2 DEF IInv, TypeOK, bounds
<1>9. QueriesInv'
  <2>1. \A r \in queries' : r.nav <= nav'.id
    BY <1>3, <1>7 DEF IInv, QueriesInv
  <2>2. ASSUME nav.phase # "none", NEW r \in queries', NEW s \in queries',
               r.nav = nav.id, s.nav = nav.id
        PROVE  r = s
    <3>1. PICK rr \in queries : r.nav = rr.nav /\ (r = asked => rr = q) /\ (r # asked => rr = r /\ rr # q)
      BY <1>7
    <3>2. PICK ss \in queries : s.nav = ss.nav /\ (s = asked => ss = q) /\ (s # asked => ss = s /\ ss # q)
      BY <1>7
    <3>3. rr = ss
      BY <2>2, <3>1, <3>2 DEF IInv, QueriesInv
    <3> QED
      BY <3>1, <3>2, <3>3
  <2>3. nav.phase = "loading" => \A r \in queries' : r.nav # nav.id
    BY <1>7 DEF IInv, QueriesInv
  <2> QED
    BY <1>3, <2>1, <2>2, <2>3 DEF QueriesInv
<1>10. AnswersInv'
  BY <1>3, <1>4, <1>5, <1>6 DEF IInv, AnswersInv
<1>11. FlagInv' /\ (applied \subseteq exempt)'
  BY <1>3 DEF IInv, FlagInv
<1>12. NothingBlockedLoads' /\ ProceedSucceeds' /\ ExemptWarnsOnlyIfImportant'
  BY <1>3 DEF IInv, NothingBlockedLoads, ProceedSucceeds, ExemptWarnsOnlyIfImportant, RulesFound
<1> QED
  BY <1>8, <1>9, <1>10, <1>11, <1>12 DEF IInv

\* OnShouldBlockDomain.
LEMMA ReplyKeeps ==
  ASSUME IInv, NEW q \in queries, OnShouldBlockDomain(q)
  PROVE  IInv'
<1>1. PICK r \in q.answer :
        IF q.nav # nav.id \/ nav.phase = "none"
        THEN UNCHANGED <<nav, opening, page>>
        ELSE \/ ~r.blocked /\ r.newUrl = {} /\ Resume
             \/ \E u \in r.newUrl : RestartNavigation(u)
             \/ r.blocked /\ r.newUrl = {} /\ ShowInterstitial(r.known)
  BY DEF OnShouldBlockDomain
<1>2. /\ queries' = queries \ {q}
      /\ UNCHANGED <<proceeding, exempt, applied, bounds, consented>>
  BY DEF OnShouldBlockDomain
<1>3. /\ q \in Query /\ q.url \in Url /\ r \in BlockResult
      /\ r.known \in SUBSET Hosts /\ r.newUrl \in SUBSET Url
  BY QueryFields DEF IInv, TypeOK, BlockResult
<1>4. r.known \subseteq applied /\ (r.blocked <=> BlocksByRules(RulesAt(q.url, r.known)))
  BY DEF IInv, AnswersInv
<1>5. nav \in Navigation /\ nav.url \in Url /\ nav.phase \in {"none", "checking", "loading"}
  BY NavigationFields DEF IInv, TypeOK
<1>6. CASE UNCHANGED <<nav, opening, page>>
  <2>1. TypeOK' /\ QueriesInv' /\ AnswersInv' /\ FlagInv' /\ (applied \subseteq exempt)'
    BY <1>2, <1>6 DEF IInv, TypeOK, QueriesInv, AnswersInv, FlagInv, bounds
  <2>2. NothingBlockedLoads' /\ ProceedSucceeds' /\ ExemptWarnsOnlyIfImportant'
    BY <1>2, <1>6
       DEF IInv, NothingBlockedLoads, ProceedSucceeds, ExemptWarnsOnlyIfImportant, RulesFound
  <2> QED
    BY <2>1, <2>2 DEF IInv
<1>7. CASE /\ q.nav = nav.id /\ nav.phase # "none"
           /\ \/ ~r.blocked /\ r.newUrl = {} /\ Resume
              \/ \E u \in r.newUrl : RestartNavigation(u)
              \/ r.blocked /\ r.newUrl = {} /\ ShowInterstitial(r.known)
  <2>1. nav.phase = "checking" /\ q.url = nav.url
    BY <1>5, <1>7 DEF IInv, QueriesInv, TypeOK
  <2>2. CASE ~r.blocked /\ Resume
    <3>1. /\ nav' = [nav EXCEPT !.phase = "loading"]
          /\ UNCHANGED <<opening, page>>
      BY <2>2 DEF Resume
    <3>2. /\ nav' \in Navigation /\ nav'.id = nav.id /\ nav'.url = nav.url
          /\ nav'.reload = nav.reload /\ nav'.phase = "loading"
      BY <1>5, <3>1 DEF Navigation
    <3>3. TypeOK'
      BY <1>2, <3>1, <3>2 DEF IInv, TypeOK, bounds
    <3>4. QueriesInv'
      BY <1>2, <1>7, <2>1, <3>2 DEF IInv, QueriesInv
    <3>5. AnswersInv' /\ (applied \subseteq exempt)'
      BY <1>2 DEF IInv, AnswersInv
    <3>6. ~nav.reload
      BY <2>1 DEF IInv, ProceedSucceeds
    <3>7. FlagInv'
      BY <1>2, <3>2, <3>6 DEF IInv, FlagInv
    <3>8. NothingBlockedLoads'
      <4>1. ~BlocksByRules(RulesAt(nav.url, applied))
        BY <1>4, <2>1, <2>2, MoreExemptions
      <4> QED
        BY <1>2, <1>5, <3>2, <4>1, NowKnown DEF NothingBlockedLoads, RulesFound
    <3>9. ProceedSucceeds' /\ ExemptWarnsOnlyIfImportant'
      BY <1>2, <3>1, <3>2 DEF IInv, ProceedSucceeds, ExemptWarnsOnlyIfImportant, RulesFound
    <3> QED
      BY <3>3, <3>4, <3>5, <3>7, <3>8, <3>9 DEF IInv
  <2>3. CASE \E u \in r.newUrl : RestartNavigation(u)
    <3>1. PICK u \in r.newUrl : RestartNavigation(u)
      BY <2>3
    <3>2. nav' = Ended /\ UNCHANGED page /\ opening' = Append(opening, u)
      BY <3>1 DEF RestartNavigation
    <3>3. opening' \in Seq(Url)
      BY <1>3, <3>2, AppendProperties DEF IInv, TypeOK
    <3> QED
      BY <1>2, <3>2, <3>3, PageKeeps, EndKeeps DEF IInv, TypeOK, FlagInv, bounds
  <2>4. CASE r.blocked /\ ShowInterstitial(r.known)
    <3>1. /\ page' = Interstitial(nav.url, r.known) /\ nav' = Ended
          /\ UNCHANGED opening
      BY <2>4 DEF ShowInterstitial
    <3>2. page' \in [kind : {"document", "interstitial"}, url : Url, dontWarn : BOOLEAN,
                     known : SUBSET Hosts]
      BY <1>3, <1>5, <3>1 DEF Interstitial
    <3>3. page'.url = nav.url /\ page'.known = r.known
      BY <3>1 DEF Interstitial
    <3>4. Host[nav.url] \in r.known => "important" \in RulesAt(nav.url, {})
      BY <1>4, <2>1, <2>4, ExemptBlockedIsImportant
    <3>5. ExemptWarnsOnlyIfImportant'
      BY <3>3, <3>4 DEF ExemptWarnsOnlyIfImportant, RulesFound, RulesAt
    <3> QED
      BY <1>2, <3>1, <3>2, <3>5, EndKeeps DEF IInv, TypeOK, FlagInv, bounds
  <2> QED
    BY <1>7, <2>2, <2>3, <2>4
<1> QED
  BY <1>1, <1>6, <1>7
-----------------------------------------------------------------------------
(* The invariant.                                                          *)

LEMMA Initially == Init => IInv
<1> SUFFICES ASSUME Init PROVE IInv
  OBVIOUS
<1>1. PICK u \in Url :
        /\ nav = [id |-> 0, url |-> u, phase |-> "none", reload |-> FALSE]
        /\ page = Document(u)
  BY DEF Init
<1>2. /\ proceeding = FALSE /\ consented = FALSE /\ queries = {} /\ opening = <<>>
      /\ exempt = {} /\ applied = {} /\ navigations = 0 /\ redirects = 0
  BY DEF Init
<1>3. nav \in Navigation /\ nav.phase = "none"
  BY <1>1 DEF Navigation
<1>4. /\ page \in [kind : {"document", "interstitial"}, url : Url, dontWarn : BOOLEAN,
                   known : SUBSET Hosts]
      /\ page.kind = "document"
  BY <1>1 DEF Document
<1>5. TypeOK
  <2>1. navigations \in 0..MaxNavigations /\ redirects \in 0..MaxRedirects
    BY <1>2, ConstantsAssumption
  <2>2. opening \in Seq(Url)
    BY <1>2, EmptySeq
  <2> QED
    BY <1>2, <1>3, <1>4, <2>1, <2>2 DEF TypeOK
<1>6. QueriesInv /\ AnswersInv /\ FlagInv /\ applied \subseteq exempt
  BY <1>2, <1>3 DEF QueriesInv, AnswersInv, FlagInv
<1>7. NothingBlockedLoads /\ ProceedSucceeds /\ ExemptWarnsOnlyIfImportant
  BY <1>3, <1>4 DEF NothingBlockedLoads, ProceedSucceeds, ExemptWarnsOnlyIfImportant
<1> QED
  BY <1>5, <1>6, <1>7 DEF IInv

LEMMA Inductive == IInv /\ [Next]_vars => IInv'
<1> SUFFICES ASSUME IInv, [Next]_vars PROVE IInv'
  OBVIOUS
<1> USE DEF bounds
<1>1. /\ nav \in Navigation /\ nav.url \in Url /\ nav.id \in Nat
      /\ nav.phase \in {"none", "checking", "loading"} /\ nav.reload \in BOOLEAN
  BY NavigationFields DEF IInv, TypeOK
<1>2. /\ proceeding \in BOOLEAN /\ consented \in BOOLEAN /\ proceeding = consented
      /\ opening \in Seq(Url) /\ exempt \in SUBSET Hosts
  BY DEF IInv, TypeOK, FlagInv
<1>3. navigations \in 0..MaxNavigations /\ redirects \in 0..MaxRedirects
  BY DEF IInv, TypeOK
<1>4. ASSUME navigations < MaxNavigations
      PROVE  navigations + 1 \in 0..MaxNavigations
  BY <1>3, <1>4, ConstantsAssumption
<1>5. ASSUME NEW u \in Url, StartNavigation(u)
      PROVE  IInv'
  BY <1>2, <1>3, <1>4, <1>5, NewKeeps DEF StartNavigation
<1>6. ASSUME NEW u \in Url, WillRedirectRequest(u)
      PROVE  IInv'
  <2>1. PICK n \in Navigation : n = [nav EXCEPT !.url = u]
    BY <1>1 DEF Navigation
  <2>2. n.id = nav.id /\ n.reload = nav.reload
    BY <1>1, <2>1 DEF Navigation
  <2>3. /\ nav.phase = "loading" /\ redirects' = redirects + 1 /\ redirects < MaxRedirects
        /\ WillStartRequest(n, proceeding)
        /\ UNCHANGED <<opening, page, exempt, applied, navigations, consented>>
    BY <1>6, <2>1 DEF WillRedirectRequest
  <2>4. redirects' \in 0..MaxRedirects
    BY <1>3, <2>3, ConstantsAssumption
  <2>5. (\A q \in queries : q.nav # n.id) /\ (n.reload => proceeding)
    BY <2>2, <2>3 DEF IInv, QueriesInv, FlagInv
  <2>6. n.id >= nav.id
    BY <1>1, <2>2
  <2> QED
    BY <1>2, <1>3, <2>3, <2>4, <2>5, <2>6, StartKeeps
<1>7. CASE Answer
  BY <1>7, AnswerKeeps, ReplyKeeps DEF Answer
<1>8. CASE OpenURL
  <2>1. Head(opening) \in Url /\ Tail(opening) \in Seq(Url)
    BY <1>2, <1>8, HeadTailProperties DEF OpenURL
  <2> QED
    BY <1>2, <1>3, <1>8, <2>1, NewKeeps DEF OpenURL
<1>9. CASE WillProcessResponse
  <2>1. ExemptWarnsOnlyIfImportant' /\
        page' \in [kind : {"document", "interstitial"}, url : Url, dontWarn : BOOLEAN,
                   known : SUBSET Hosts]
    BY <1>1, <1>9, PageKeeps DEF WillProcessResponse
  <2> QED
    BY <1>2, <1>3, <1>9, <2>1, EndKeeps DEF WillProcessResponse
<1>10. CASE NetworkFails
  <2>1. ExemptWarnsOnlyIfImportant' /\
        page' \in [kind : {"document", "interstitial"}, url : Url, dontWarn : BOOLEAN,
                   known : SUBSET Hosts]
    BY <1>1, <1>10, PageKeeps DEF NetworkFails
  <2> QED
    BY <1>2, <1>3, <1>10, <2>1, EndKeeps DEF NetworkFails
<1>11. CASE Stop
  <2>1. ExemptWarnsOnlyIfImportant' /\
        page' \in [kind : {"document", "interstitial"}, url : Url, dontWarn : BOOLEAN,
                   known : SUBSET Hosts]
    BY <1>11, PageKeeps DEF Stop
  <2> QED
    BY <1>2, <1>3, <1>11, <2>1, EndKeeps DEF Stop
<1>12. CASE Proceed
  <2>1. page.url \in Url
    BY DEF IInv, TypeOK
  <2>2. exempt' \in SUBSET Hosts /\ exempt \subseteq exempt'
    BY <1>2, <1>12, <2>1 DEF Proceed, CreateSiteExemption, Hosts
  <2>3. /\ consented' = TRUE /\ navigations < MaxNavigations /\ navigations' = navigations + 1
        /\ NewNavigation(page.url, TRUE, TRUE)
        /\ UNCHANGED <<opening, page, applied, redirects>>
    BY <1>12 DEF Proceed
  <2>4. PICK u \in Url : u = page.url
    BY <2>1
  <2> QED
    BY <1>2, <1>3, <1>4, <2>2, <2>3, <2>4, NewKeeps
<1>13. ASSUME NEW value \in BOOLEAN, SetDontWarnAgain(value)
       PROVE  IInv'
  <2>1. /\ page' = [page EXCEPT !.dontWarn = value]
        /\ UNCHANGED <<proceeding, nav, queries, opening, exempt, applied, bounds, consented>>
    BY <1>13 DEF SetDontWarnAgain
  <2>2. /\ page' \in [kind : {"document", "interstitial"}, url : Url, dontWarn : BOOLEAN,
                      known : SUBSET Hosts]
        /\ page'.kind = page.kind /\ page'.url = page.url /\ page'.known = page.known
    BY <2>1 DEF IInv, TypeOK
  <2>3. TypeOK' /\ QueriesInv' /\ AnswersInv' /\ FlagInv' /\ (applied \subseteq exempt)'
    BY <2>1, <2>2 DEF IInv, TypeOK, QueriesInv, AnswersInv, FlagInv
  <2>4. NothingBlockedLoads' /\ ProceedSucceeds' /\ ExemptWarnsOnlyIfImportant'
    BY <2>1, <2>2
       DEF IInv, NothingBlockedLoads, ProceedSucceeds, ExemptWarnsOnlyIfImportant, RulesFound
  <2> QED
    BY <2>3, <2>4 DEF IInv
<1>14. CASE GoBack
  <2>1. /\ navigations' \in 0..MaxNavigations
        /\ UNCHANGED <<opening, exempt, applied, consented, redirects>>
    BY <1>4, <1>14 DEF GoBack
  <2>2. ASSUME NEW u \in Url, page' = Document(u), nav' = Ended,
               UNCHANGED <<proceeding, queries>>
        PROVE  IInv'
    BY <1>2, <1>3, <2>1, <2>2, PageKeeps, EndKeeps
  <2>3. ASSUME NEW u \in Url, NewNavigation(u, FALSE, proceeding), UNCHANGED page
        PROVE  IInv'
    BY <1>2, <1>3, <2>1, <2>3, NewKeeps
  <2> QED
    BY <1>14, <2>2, <2>3 DEF GoBack
<1>15. CASE EngineReloads
  <2>1. /\ applied' = exempt
        /\ UNCHANGED <<proceeding, nav, queries, opening, page, exempt, bounds, consented>>
    BY <1>15 DEF EngineReloads
  <2>2. applied \subseteq applied'
    BY <2>1 DEF IInv
  <2>3. TypeOK' /\ QueriesInv' /\ FlagInv' /\ (applied \subseteq exempt)'
    BY <1>2, <2>1 DEF IInv, TypeOK, QueriesInv, FlagInv
  <2>4. AnswersInv'
    BY <2>1, <2>2 DEF IInv, AnswersInv
  <2>5. NothingBlockedLoads'
    <3>1. BlocksByRules(RulesFound(nav.url)') => BlocksByRules(RulesFound(nav.url))
      BY <2>1, <2>2 DEF RulesFound, BlocksByRules
    <3> QED
      BY <2>1, <3>1 DEF IInv, NothingBlockedLoads
  <2>6. ProceedSucceeds' /\ ExemptWarnsOnlyIfImportant'
    BY <2>1 DEF IInv, ProceedSucceeds, ExemptWarnsOnlyIfImportant, RulesFound
  <2> QED
    BY <2>3, <2>4, <2>5, <2>6 DEF IInv
<1>16. CASE UNCHANGED vars
  <2> USE <1>16 DEF vars
  <2>1. TypeOK' /\ QueriesInv' /\ AnswersInv' /\ FlagInv' /\ (applied \subseteq exempt)'
    BY DEF IInv, TypeOK, QueriesInv, AnswersInv, FlagInv
  <2>2. NothingBlockedLoads' /\ ProceedSucceeds' /\ ExemptWarnsOnlyIfImportant'
    BY DEF IInv, NothingBlockedLoads, ProceedSucceeds, ExemptWarnsOnlyIfImportant, RulesFound
  <2> QED
    BY <2>1, <2>2 DEF IInv
<1> QED
  BY <1>5, <1>6, <1>7, <1>8, <1>9, <1>10, <1>11, <1>12, <1>13, <1>14, <1>15, <1>16
     DEF Next, User, Network, CommandReceived

LEMMA Invariance == Spec => []IInv
<1> QED BY Initially, Inductive, PTL DEF Spec
-----------------------------------------------------------------------------
(* What follows.                                                           *)

\* The tab's state is always of its types, and the query of a navigation that is
\* deferred is about the URL the navigation is at, after any redirects.
THEOREM TypeCorrect == Spec => []TypeOK
<1>1. IInv => TypeOK
  BY DEF IInv
<1> QED
  BY <1>1, Invariance, PTL

\* A document that the rules of both engines block is requested only with the
\* consent of the user, whatever navigations replace each other and whatever
\* replies come late (WillStartRequest, OnShouldBlockDomain, WillProcessResponse).
THEOREM BlockedNeedsConsent == Spec => []NothingBlockedLoads
<1>1. IInv => NothingBlockedLoads
  BY DEF IInv
<1> QED
  BY <1>1, Invariance, PTL

\* The reload the user has asked for is never checked again, on any redirect
\* (DomainBlockControllerClient::Proceed, DomainBlockTabStorage).
THEOREM ProceedPasses == Spec => []ProceedSucceeds
<1>1. IInv => ProceedSucceeds
  BY DEF IInv
<1> QED
  BY <1>1, Invariance, PTL

\* With an exemption the engine knows, only an important rule makes the tab warn
\* (CreateSiteExemption, ShouldBlockDomainOnTaskRunner).
THEOREM ExemptionsCount == Spec => []ExemptWarnsOnlyIfImportant
<1>1. IInv => ExemptWarnsOnlyIfImportant
  BY DEF IInv
<1> QED
  BY <1>1, Invariance, PTL
=============================================================================
