------------------------ MODULE RequestPipelineProofs ------------------------
(***************************************************************************)
(* RequestPipeline, for every set of URLs, whatever the rules of both      *)
(* engines and the resolver say of them, and every number of redirects: an *)
(* inductive invariant, the safety properties that follow, and the proof   *)
(* that a request follows its client's protocol.                           *)
(***************************************************************************)
EXTENDS RequestPipeline, EngineWrapperProofs, FiniteSetTheorems

\* What the request waits for: an answer, or the continuation of a stage.
Pending == Asked \cup Posted

\* There is at most one task; while the request lives it is of the stage that
\* waits, if one does.
StageInv ==
  /\ \A t, v \in tasks : t = v
  /\ live <=> callback # Absent
  /\ live /\ Asked # {} => callback \in Continuation
  /\ live /\ callback \in Continuation => Asked # {}
  /\ live => \A t \in Asked : t.ctx = ctx

\* A request lives from its start to an end that its client is told; a stage is
\* passed only while the client waits.
ClientInv ==
  /\ live <=> client \in {"waiting", "redirected", "response", "stub"}
  /\ live /\ Pending # {} => client = "waiting"
  /\ live => (completed <=> client = "redirected")
  /\ client = "idle" => tasks = {} /\ wire = "unbound"
  /\ live /\ (\E t \in tasks : t.at = "write") => client = "stub"
  /\ client = "response" => ~ctx.blocked

\* Where the loader is when the stage k is to be continued.
StageOf(k) ==
  /\ k.run = "ContinueToBeforeSendHeaders" =>
       /\ wire \in {"unbound", "redirecting", "lost"}
       /\ ctx.event = "beforeRequest" /\ ctx.url = url
  /\ k.run = "ContinueToBeforeRedirect" =>
       wire \in {"redirecting", "lost"} /\ ctx.event = "headersReceived" /\ ~ctx.blocked
  /\ k.run = "ContinueToResponseStarted" =>
       wire \in {"responding", "lost"} /\ ctx.event = "headersReceived" /\ ~ctx.blocked

WireInv ==
  /\ ~live => wire = "unbound"
  /\ live /\ wire = "loading" => client = "waiting" /\ ~ctx.blocked
  /\ live /\ wire = "responding" =>
       client = "response" \/ (client = "waiting" /\ Pending # {})
  /\ live /\ callback \in Continuation => StageOf(callback)
  /\ live => \A t \in Posted : StageOf(t.go)

OwnRules == Default[url].rules \cup Additional[url].rules

\* What is known of the rules when the answer t is on its way: nothing at first,
\* then those for the URL of the request.
AskedInv(t) ==
  /\ ~ctx.blocked
  /\ t.at \in {"engine", "dns"} =>
       kind \in Checked /\ ctx.event = "beforeRequest" /\ ctx.url = url
  /\ t.at = "csp" => ctx.event = "headersReceived"
  /\ t.at = "engine" /\ ~t.canonical => t.check = url /\ t.flags = {} /\ uncloaked = {}
  /\ t.at = "engine" /\ t.canonical =>
       uncloaked = {t.check} /\ Agrees(t.flags, OwnRules) /\ ~t.uncloak
  /\ t.at = "dns" =>
       uncloaked = {} /\ Agrees(t.flags, OwnRules) /\ ~Blocks(t.flags)

\* The context is marked as blocked by the rules found, and all the time between
\* the answer and the network by nothing less.
RulesInv ==
  /\ live => \A t \in Asked : AskedInv(t)
  /\ live /\ kind \in Checked =>
       \A t \in Posted :
         t.go.run = "ContinueToBeforeSendHeaders" /\ BlocksByRules(RulesFound) => ctx.blocked
  /\ live /\ ctx.blocked /\ client # "redirected" =>
       /\ kind \in Checked /\ BlocksByRules(RulesFound)
       /\ ctx.mock => \E u \in Names : Default[u].redirect \/ Additional[u].redirect

\* The policies are in the headers, or kept by the query that took them out.
PolicyInv ==
  live =>
    /\ \A t \in tasks : t.at = "csp" => sent \subseteq t.original
    /\ \A t \in Posted : t.go.run = "ContinueToResponseStarted" => sent \subseteq headers

FactoryInv == FactoryStaysAsNeeded /\ (receivers => target)

IInv ==
  /\ TypeOK /\ StageInv /\ ClientInv /\ WireInv /\ RulesInv
  /\ PausedWhileWaiting /\ NothingBlockedIsSent /\ BlockedByRule
  /\ PolicyInv /\ PolicyKept /\ FactoryInv
-----------------------------------------------------------------------------
(* Facts about the tasks and the rules.                                    *)

LEMMA TaskKinds ==
  ASSUME TypeOK, NEW t \in tasks
  PROVE  /\ t \in Task
         /\ t \in Pending <=> t.at # "write"
         /\ t \in Asked <=> t.at \in {"engine", "dns", "csp"}
         /\ t \in Posted <=> t.at = "posted"
BY DEF TypeOK, Pending, Asked, Posted, Task

\* While the client waits the task is of a stage; else it is a stub's, or none.
LEMMA Waiting ==
  ASSUME IInv, live
  PROVE  /\ client # "waiting" => Pending = {}
         /\ client = "waiting" => tasks = Pending
         /\ client \in {"redirected", "response"} => tasks = {}
  BY TaskKinds DEF IInv, ClientInv, Pending, Asked, Posted

LEMMA OneTask ==
  ASSUME IInv, NEW t \in tasks
  PROVE  tasks = {t} /\ tasks \ {t} = {}
BY DEF IInv, StageInv

\* A posted continuation has an error or none; other tasks carry their context.
LEMMA TaskTypes ==
  ASSUME NEW t \in Task
  PROVE  /\ t.at \in {"engine", "dns", "csp", "posted", "write"}
         /\ t.at \in {"engine", "dns", "csp"} => t.ctx \in Context
         /\ t.at \in {"engine", "dns"} => t.flags \in SUBSET Flag
         /\ t.at = "engine" => t.check \in Url /\ t.canonical \in BOOLEAN /\ t.uncloak \in BOOLEAN
         /\ t.at = "csp" => t.original \in SUBSET Policy
         /\ t.at = "posted" => t.go \in Continuation /\ t.error \in BOOLEAN
BY DEF Task

\* The rules found depend on the URL and the name it was checked under.
LEMMA SameRules ==
  ASSUME url' = url, uncloaked' = uncloaked
  PROVE  RulesFound' = RulesFound /\ Names' = Names /\ OwnRules' = OwnRules
BY DEF RulesFound, Names, OwnRules

LEMMA OwnRulesFound ==
  ASSUME uncloaked = {}
  PROVE  RulesFound = OwnRules
BY DEF RulesFound, Names, OwnRules

LEMMA BothRulesFound ==
  ASSUME NEW v, uncloaked = {v}
  PROVE  RulesFound = OwnRules \cup Default[v].rules \cup Additional[v].rules
BY DEF RulesFound, Names, OwnRules

LEMMA ContinuationRuns ==
  /\ Absent \notin Continuation /\ Moved \notin Continuation /\ Absent # Moved
  /\ \A k \in Continuation :
       k.run \in {"ContinueToBeforeSendHeaders", "ContinueToResponseStarted",
                 "ContinueToBeforeRedirect"}
BY DEF Absent, Moved, Continuation
-----------------------------------------------------------------------------
(* The end of a request.                                                   *)

\* Whoever removes it, and whatever was on its way.
LEMMA RemoveKeeps ==
  ASSUME IInv, live, RemoveRequest, tasks' \subseteq tasks,
         client' \in {"complete", "failed", "collapsed", "gone"},
         client' = "collapsed" => kind \in Checked /\ BlocksByRules(RulesFound)
  PROVE  IInv'
<1> USE DEF RemoveRequest, OnURLRequestDestroyed, history
<1>1. TypeOK'
  BY DEF IInv, TypeOK
<1>2. ~live' /\ callback' = Absent /\ wire' = "unbound"
  OBVIOUS
<1>3. StageInv'
  BY <1>2 DEF IInv, StageInv
<1>4. ClientInv' /\ WireInv' /\ RulesInv' /\ PolicyInv'
  BY <1>2 DEF ClientInv, WireInv, RulesInv, PolicyInv
<1>5. PausedWhileWaiting' /\ NothingBlockedIsSent' /\ PolicyKept'
  BY <1>2 DEF PausedWhileWaiting, NothingBlockedIsSent, PolicyKept
<1>6. BlockedByRule'
  BY SameRules DEF BlockedByRule
<1>7. FactoryInv'
  BY <1>2 DEF IInv, FactoryInv, FactoryStaysAsNeeded
<1> QED
  BY <1>1, <1>3, <1>4, <1>5, <1>6, <1>7 DEF IInv

LEMMA ErrorKeeps ==
  ASSUME IInv, live, OnRequestError, tasks' \subseteq tasks
  PROVE  IInv'
<1>1. /\ RemoveRequest
      /\ client' \in {"failed", "collapsed", "gone"}
      /\ client' = "collapsed" => ctx.blocked /\ ~completed
  BY DEF OnRequestError
<1>2. client' = "collapsed" => kind \in Checked /\ BlocksByRules(RulesFound)
  BY <1>1 DEF IInv, ClientInv, RulesInv
<1> QED
  BY <1>1, <1>2, RemoveKeeps

-----------------------------------------------------------------------------
(* Steps of the engines, the resolver and the handler.                     *)

\* The answer of a helper, when the stage continues: the context is that of the
\* request, and no rule that blocks it has been found without marking it.
LEMMA NextCallbackKeeps ==
  ASSUME IInv, live, NEW t \in Asked, NEW c \in Context,
         RunNextCallback(c, {}), ctx' = c,
         c.leg = ctx.leg, c.event = ctx.event, c.url = ctx.url,
         UNCHANGED <<live, kind, url, follows, completed, wireVars, factoryVars, client,
                     uncloaked>>,
         c.event = "headersReceived" => c = ctx,
         t.at = "csp" => sent' \subseteq headers',
         headers' \in SUBSET Policy, sent' \in SUBSET Policy,
         c.blocked => /\ kind \in Checked /\ BlocksByRules(RulesFound)
                      /\ c.mock => \E u \in Names : Default[u].redirect \/ Additional[u].redirect,
         kind \in Checked /\ c.event = "beforeRequest" /\ BlocksByRules(RulesFound) => c.blocked
  PROVE  IInv'
<1>1. /\ callback \in Continuation /\ callback' = Moved
      /\ \E error \in BOOLEAN :
           tasks' = {[at |-> "posted", go |-> callback, error |-> error]}
  BY ContinuationRuns DEF IInv, StageInv, RunNextCallback, Complete, Asked
<1> DEFINE p(error) == [at |-> "posted", go |-> callback, error |-> error]
<1>2. PICK error \in BOOLEAN : tasks' = {p(error)}
  BY <1>1
<1>3. /\ p(error) \in Task /\ p(error).at = "posted" /\ p(error).go = callback
      /\ Asked' = {} /\ Posted' = {p(error)} /\ Pending' = {p(error)}
  BY <1>1, <1>2 DEF Task, Asked, Posted, Pending
<1>4. /\ client = "waiting" /\ StageOf(callback) /\ t \in tasks /\ AskedInv(t)
      /\ t.at \in {"engine", "dns", "csp"}
  BY <1>1 DEF IInv, ClientInv, WireInv, RulesInv, Pending, Asked
<1>5. RulesFound' = RulesFound /\ Names' = Names
  BY SameRules
<1> HIDE DEF p
<1>6. TypeOK'
  BY <1>1, <1>2, <1>3 DEF IInv, TypeOK, wireVars, factoryVars, RunNextCallback, Context
<1>7. StageInv'
  BY <1>1, <1>2, <1>3, ContinuationRuns DEF IInv, StageInv
<1>8. ClientInv'
  BY <1>2, <1>3, <1>4 DEF IInv, ClientInv, wireVars
<1>9. \A k \in Continuation : StageOf(k) => StageOf(k)'
  BY DEF StageOf, wireVars
<1>10. WireInv'
  <2>1. callback' \notin Continuation
    BY <1>1, ContinuationRuns
  <2>2. \A v \in Posted' : StageOf(v.go)'
    BY <1>1, <1>3, <1>4, <1>9
  <2>3. wire' = wire /\ live' = live /\ client' = client
    BY DEF wireVars
  <2>4. wire \notin {"loading"} /\ live'
    BY <1>4, <1>1, ContinuationRuns DEF StageOf
  <2> QED
    BY <1>3, <1>4, <2>1, <2>2, <2>3, <2>4 DEF WireInv
<1>11. RulesInv'
  <2>1. \A v \in Posted' :
          kind' \in Checked /\ v.go.run = "ContinueToBeforeSendHeaders" /\ BlocksByRules(RulesFound')
            => ctx'.blocked
    BY <1>3, <1>4, <1>5 DEF StageOf
  <2>2. ctx'.blocked => /\ kind' \in Checked /\ BlocksByRules(RulesFound')
                        /\ ctx'.mock => \E u \in Names' : Default[u].redirect \/ Additional[u].redirect
    BY <1>5
  <2> QED
    BY <1>3, <2>1, <2>2 DEF RulesInv
<1>12. PausedWhileWaiting'
  BY <1>3 DEF IInv, PausedWhileWaiting, wireVars, Pending, Asked
<1>13. NothingBlockedIsSent' /\ BlockedByRule'
  BY <1>4, <1>5 DEF IInv, NothingBlockedIsSent, BlockedByRule, wireVars
<1>14. PolicyInv' /\ PolicyKept'
  <2>1. callback.run = "ContinueToResponseStarted" => t.at = "csp"
    BY <1>4 DEF StageOf, AskedInv
  <2>2. \A v \in tasks' : v.at # "csp"
    BY <1>2, <1>3
  <2> QED
    BY <1>3, <1>4, <2>1, <2>2 DEF PolicyInv, PolicyKept
<1>15. FactoryInv'
  BY DEF IInv, FactoryInv, FactoryStaysAsNeeded, factoryVars
<1> QED
  BY <1>6, <1>7, <1>8, <1>10, <1>11, <1>12, <1>13, <1>14, <1>15 DEF IInv

\* One question after another, in the same stage.
LEMMA AskedKeeps ==
  ASSUME IInv, live, NEW t \in Asked, t.at \in {"engine", "dns"},
         NEW q \in Task, q.at \in {"engine", "dns"}, tasks' = {q}, q.ctx = ctx',
         ctx' \in Context, ctx'.event = ctx.event, ctx'.url = ctx.url,
         AskedInv(q)', uncloaked' \in SUBSET Url,
         UNCHANGED <<live, kind, url, follows, redirectUrl, completed, wireVars, callback,
                     factoryVars, client, headers, sent>>
  PROVE  IInv'
<1>1. callback \in Continuation
  BY DEF IInv, StageInv
<1>2. /\ client = "waiting" /\ StageOf(callback) /\ AskedInv(t) /\ t \in tasks
  BY <1>1 DEF IInv, ClientInv, WireInv, RulesInv, Pending, Asked
<1>3. /\ callback.run = "ContinueToBeforeSendHeaders"
      /\ wire \in {"unbound", "redirecting", "lost"}
      /\ ctx.event = "beforeRequest" /\ ctx.url = url /\ kind \in Checked
  BY <1>1, <1>2, ContinuationRuns DEF StageOf, AskedInv
<1>4. Asked' = {q} /\ Posted' = {} /\ Pending' = {q} /\ q.at # "posted"
  BY DEF Asked, Posted, Pending
<1>5. TypeOK'
  BY DEF IInv, TypeOK, wireVars, factoryVars
<1>6. StageInv' /\ ClientInv'
  BY <1>1, <1>2, <1>4, ContinuationRuns DEF IInv, StageInv, ClientInv, wireVars
<1>7. StageOf(callback)'
  BY <1>3 DEF StageOf, wireVars
<1>8. WireInv'
  BY <1>3, <1>4, <1>7 DEF IInv, WireInv, wireVars, ClientInv
<1>9. ~ctx'.blocked
  BY DEF AskedInv
<1>10. RulesInv' /\ PolicyInv'
  BY <1>4, <1>9 DEF RulesInv, PolicyInv
<1>11. PausedWhileWaiting' /\ NothingBlockedIsSent' /\ BlockedByRule' /\ PolicyKept'
  BY <1>2, <1>3, <1>4 DEF IInv, PausedWhileWaiting, NothingBlockedIsSent, BlockedByRule, PolicyKept, wireVars
<1>12. FactoryInv'
  BY DEF IInv, FactoryInv, FactoryStaysAsNeeded, factoryVars
<1> QED
  BY <1>5, <1>6, <1>8, <1>10, <1>11, <1>12 DEF IInv

\* What is left of a request that has ended runs, and changes nothing that shows.
LEMMA DeadKeeps ==
  ASSUME IInv, ~live, tasks # {}, ctx' \in Context, tasks' \in SUBSET Task,
         \A t, v \in tasks' : t = v,
         UNCHANGED <<live, kind, url, follows, redirectUrl, completed, wireVars, callback,
                     factoryVars, headers, client, history>>
  PROVE  IInv'
<1> USE DEF wireVars, factoryVars, history
<1>1. TypeOK' /\ StageInv'
  BY DEF IInv, TypeOK, StageInv
<1>2. ClientInv' /\ WireInv' /\ RulesInv' /\ PolicyInv'
  BY DEF IInv, ClientInv, WireInv, RulesInv, PolicyInv
<1>3. PausedWhileWaiting' /\ NothingBlockedIsSent' /\ PolicyKept'
  BY DEF IInv, PausedWhileWaiting, NothingBlockedIsSent, PolicyKept
<1>4. BlockedByRule'
  BY SameRules DEF IInv, BlockedByRule
<1>5. FactoryInv'
  BY DEF IInv, FactoryInv, FactoryStaysAsNeeded
<1> QED
  BY <1>1, <1>2, <1>3, <1>4, <1>5 DEF IInv

\* The engines' answer to a query.
LEMMA AnswerFacts ==
  ASSUME NEW t \in Task, t.at = "engine",
         NEW result \in ShouldBlockRequestOnTaskRunner(t)
  PROVE  /\ result.flags = t.flags \cup
              FlagsOf(ShouldStartRequest(Default[t.check], Additional[t.check], t.flags))
         /\ result.flags \in SUBSET Flag
         /\ result.blocked = Blocks(result.flags) /\ result.blocked \in BOOLEAN
         /\ result.mock \in BOOLEAN
         /\ result.mock => Default[t.check].redirect \/ Additional[t.check].redirect
         /\ result.newUrl \in SUBSET Url
<1> DEFINE d == Default[t.check]
           a == Additional[t.check]
           answer == ShouldStartRequest(d, a, t.flags)
<1>1. d \in Match /\ a \in Match /\ t.flags \in SUBSET Flag
  BY TaskTypes, ConstantsAssumption
<1>2. /\ answer.redirect \in BOOLEAN
      /\ answer.redirect => d.redirect \/ a.redirect
      /\ answer.rewritten \in SUBSET Url
  <2> HIDE DEF d, a
  <2>1. a.rewritten \in SUBSET Url
    BY <1>1 DEF Match
  <2> QED
    BY <1>1, <2>1, AnswerOfEngines
<1>3. /\ result.flags = t.flags \cup FlagsOf(answer)
      /\ result.blocked = Blocks(result.flags)
      /\ result.mock = answer.redirect
      /\ result.newUrl \in {{}, answer.rewritten}
  <2> HIDE DEF answer
  <2> QED
    BY DEF ShouldBlockRequestOnTaskRunner, answer
<1> HIDE DEF answer
<1>4. FlagsOf(answer) \in SUBSET Flag
  BY DEF FlagsOf
<1>5. result.flags = t.flags \cup FlagsOf(answer) /\ result.flags \in SUBSET Flag
  BY <1>1, <1>3, <1>4
<1>6. result.blocked = Blocks(result.flags) /\ result.blocked \in BOOLEAN
  BY <1>3 DEF Blocks
<1>7. result.mock \in BOOLEAN /\ (result.mock => d.redirect \/ a.redirect)
  <2> HIDE DEF d, a
  <2> QED
    BY <1>2, <1>3
<1>8. result.newUrl \in SUBSET Url
  BY <1>2, <1>3
<1> QED
  BY <1>5, <1>6, <1>7, <1>8 DEF answer

\* OnShouldBlockRequestResult.
LEMMA ResultKeeps ==
  ASSUME IInv, NEW t \in tasks, OnShouldBlockRequestResult(t)
  PROVE  IInv'
<1>1. t \in Task /\ t.at = "engine" /\ t \in Asked
  BY TaskKinds DEF IInv, OnShouldBlockRequestResult
<1>2. PICK result \in ShouldBlockRequestOnTaskRunner(t) :
        LET c == [t.ctx EXCEPT !.blocked = result.blocked, !.mock = result.mock,
                               !.newUrl = IF result.newUrl = {} THEN @ ELSE result.newUrl]
        IN /\ Store(c)
           /\ IF ~c.blocked /\ t.uncloak
              THEN AdblockCnameResolveHostClient(c, result.flags, tasks \ {t})
              ELSE RunNextCallback(c, tasks \ {t})
  BY DEF OnShouldBlockRequestResult
<1>3. UNCHANGED <<live, kind, url, follows, completed, wireVars, factoryVars, client,
                  headers, history>>
  BY DEF OnShouldBlockRequestResult
<1>4. /\ result.flags = t.flags \cup
           FlagsOf(ShouldStartRequest(Default[t.check], Additional[t.check], t.flags))
      /\ result.flags \in SUBSET Flag
      /\ result.blocked = Blocks(result.flags) /\ result.blocked \in BOOLEAN
      /\ result.mock \in BOOLEAN
      /\ result.mock => Default[t.check].redirect \/ Additional[t.check].redirect
      /\ result.newUrl \in SUBSET Url
  BY <1>1, AnswerFacts
<1> DEFINE c == [t.ctx EXCEPT !.blocked = result.blocked, !.mock = result.mock,
                              !.newUrl = IF result.newUrl = {} THEN @ ELSE result.newUrl]
<1>5. /\ c \in Context /\ c.blocked = result.blocked /\ c.mock = result.mock
      /\ c.leg = t.ctx.leg /\ c.event = t.ctx.event /\ c.url = t.ctx.url
  BY <1>1, <1>4, TaskTypes DEF Context
<1>6. /\ Store(c)
      /\ IF ~c.blocked /\ t.uncloak
         THEN AdblockCnameResolveHostClient(c, result.flags, {})
         ELSE RunNextCallback(c, {})
  BY <1>2, OneTask
<1> HIDE DEF c
<1>7. CASE ~live
  <2>1. callback = Absent /\ ctx' \in Context
    BY <1>5, <1>6, <1>7 DEF IInv, StageInv, TypeOK, Store
  <2>2. /\ UNCHANGED <<callback, redirectUrl>>
        /\ tasks' \in {{}, {[at |-> "dns", ctx |-> c, flags |-> result.flags]}}
    BY <1>6, <2>1 DEF AdblockCnameResolveHostClient, RunNextCallback
  <2>3. [at |-> "dns", ctx |-> c, flags |-> result.flags] \in Task
    BY <1>4, <1>5 DEF Task
  <2> QED
    BY <1>3, <1>7, <2>1, <2>2, <2>3, DeadKeeps
<1>8. CASE live
  <2>1. t.ctx = ctx /\ AskedInv(t)
    BY <1>1, <1>8 DEF IInv, StageInv, RulesInv
  <2>2. /\ kind \in Checked /\ ctx.event = "beforeRequest" /\ ctx.url = url
        /\ t.check \in Names /\ t.flags \in SUBSET Flag
    BY <1>1, <2>1, TaskTypes DEF AskedInv, Names
  <2>3. ctx' = c
    BY <1>5, <1>6, <2>1 DEF Store
  <2>4. Agrees(result.flags, RulesFound)
    <3>1. Default[t.check] \in Match /\ Additional[t.check] \in Match
      BY <1>1, TaskTypes, ConstantsAssumption
    <3>2. CASE t.canonical
      <4>1. Agrees(t.flags, OwnRules) /\ uncloaked = {t.check}
        BY <1>1, <2>1, <3>2 DEF AskedInv
      <4> QED
        BY <1>4, <3>1, <4>1, BothRulesFound, QueryAgrees
    <3>3. CASE ~t.canonical
      <4>1. t.flags = {} /\ uncloaked = {} /\ t.check = url
        BY <1>1, <2>1, <3>3 DEF AskedInv
      <4>2. Agrees({}, {})
        BY DEF Agrees
      <4>3. Agrees(result.flags, {} \cup Default[t.check].rules \cup Additional[t.check].rules)
        BY <1>4, <3>1, <4>1, <4>2, QueryAgrees
      <4> QED
        BY <4>1, <4>3, OwnRulesFound DEF OwnRules
    <3> QED
      BY <3>2, <3>3
  <2>5. c.blocked <=> BlocksByRules(RulesFound)
    BY <1>4, <1>5, <2>4, AgreeingFlagsDecide
  <2>6. CASE RunNextCallback(c, {})
    <3>1. c.mock => \E u \in Names : Default[u].redirect \/ Additional[u].redirect
      BY <1>4, <1>5, <2>2
    <3>2. headers' \in SUBSET Policy /\ sent' \in SUBSET Policy
      BY <1>3 DEF IInv, TypeOK, history
    <3> QED
      BY <1>1, <1>3, <1>5, <1>8, <2>1, <2>2, <2>3, <2>5, <2>6, <3>1, <3>2, NextCallbackKeeps
         DEF history
  <2>7. CASE ~c.blocked /\ t.uncloak /\ ~RunNextCallback(c, {})
    <3> DEFINE q == [at |-> "dns", ctx |-> c, flags |-> result.flags]
    <3>1. tasks' = {q} /\ UNCHANGED <<callback, redirectUrl>>
      BY <1>6, <2>7 DEF AdblockCnameResolveHostClient
    <3>2. q \in Task /\ q.at = "dns" /\ q.ctx = c /\ q.flags = result.flags
      BY <1>4, <1>5 DEF Task
    <3>3. uncloaked = {} /\ ~t.canonical
      BY <1>1, <2>1, <2>7, TaskTypes DEF AskedInv
    <3>4. UNCHANGED <<live, kind, url, follows, completed, wireVars, factoryVars, client,
                      headers, sent, uncloaked>>
      BY <1>3 DEF history
    <3>5. RulesFound = OwnRules /\ OwnRules' = OwnRules
      BY <3>3, <3>4, OwnRulesFound, SameRules
    <3> HIDE DEF q
    <3>6. AskedInv(q)'
      BY <1>4, <1>5, <2>1, <2>2, <2>3, <2>4, <2>7, <3>2, <3>3, <3>4, <3>5 DEF AskedInv
    <3>7. uncloaked' \in SUBSET Url
      BY <3>4 DEF IInv, TypeOK
    <3> QED
      BY <1>1, <1>5, <1>8, <2>1, <2>3, <3>1, <3>2, <3>4, <3>6, <3>7, AskedKeeps
  <2> QED
    BY <1>6, <2>6, <2>7
<1> QED
  BY <1>7, <1>8 DEF IInv, TypeOK

\* UseCnameResult.
LEMMA NameKeeps ==
  ASSUME IInv, NEW t \in tasks, UseCnameResult(t)
  PROVE  IInv'
<1>1. t \in Task /\ t.at = "dns" /\ t \in Asked /\ tasks \ {t} = {}
  BY TaskKinds, OneTask DEF IInv, UseCnameResult
<1>2. t.ctx \in Context /\ t.ctx.url \in Url /\ t.flags \in SUBSET Flag
  BY <1>1, TaskTypes DEF Context
<1>3. UNCHANGED <<live, kind, url, follows, ctx, completed, wireVars, factoryVars, headers,
                  client, sent>>
  BY DEF UseCnameResult
<1> DEFINE q(u) == [at |-> "engine", ctx |-> t.ctx, flags |-> t.flags, check |-> u,
                    canonical |-> TRUE, uncloak |-> FALSE]
<1>4. ASSUME RunNextCallback(t.ctx, {}), UNCHANGED uncloaked
      PROVE  IInv'
  <2>1. CASE ~live
    <3>1. callback = Absent
      BY <2>1 DEF IInv, StageInv
    <3>2. tasks' = {} /\ UNCHANGED <<callback, redirectUrl>>
      BY <1>4, <3>1 DEF RunNextCallback
    <3>3. ctx' \in Context
      BY <1>3 DEF IInv, TypeOK
    <3> QED
      BY <1>3, <1>4, <2>1, <3>2, <3>3, DeadKeeps DEF history
  <2>2. CASE live
    <3>1. t.ctx = ctx /\ AskedInv(t)
      BY <1>1, <2>2 DEF IInv, StageInv, RulesInv
    <3>2. /\ ~ctx.blocked /\ ctx.event = "beforeRequest" /\ uncloaked = {}
          /\ Agrees(t.flags, OwnRules) /\ ~Blocks(t.flags)
      BY <1>1, <3>1 DEF AskedInv
    <3>3. ~BlocksByRules(RulesFound)
      BY <1>2, <3>2, OwnRulesFound, AgreeingFlagsDecide
    <3>4. headers' \in SUBSET Policy /\ sent' \in SUBSET Policy
      BY <1>3 DEF IInv, TypeOK
    <3> QED
      BY <1>1, <1>2, <1>3, <1>4, <2>2, <3>1, <3>2, <3>3, <3>4, NextCallbackKeeps
  <2> QED
    BY <2>1, <2>2 DEF IInv, TypeOK
<1>5. ASSUME NEW u \in Url, tasks' = {q(u)}, uncloaked' = IF live THEN {u} ELSE uncloaked,
             UNCHANGED <<callback, redirectUrl>>
      PROVE  IInv'
  <2>1. /\ q(u) \in Task /\ q(u).at = "engine" /\ q(u).ctx = t.ctx /\ q(u).flags = t.flags
        /\ q(u).check = u /\ q(u).canonical = TRUE /\ q(u).uncloak = FALSE
    BY <1>2 DEF Task
  <2> HIDE DEF q
  <2>2. ctx' \in Context
    BY <1>3 DEF IInv, TypeOK
  <2>3. CASE ~live
    BY <1>3, <1>5, <2>1, <2>2, <2>3, DeadKeeps DEF history
  <2>4. CASE live
    <3>1. t.ctx = ctx /\ AskedInv(t)
      BY <1>1, <2>4 DEF IInv, StageInv, RulesInv
    <3>2. OwnRules' = OwnRules
      BY <1>3 DEF OwnRules
    <3>3. AskedInv(q(u))'
      BY <1>1, <1>3, <1>5, <2>1, <2>4, <3>1, <3>2 DEF AskedInv
    <3>4. uncloaked' \in SUBSET Url
      BY <1>5, <2>4
    <3> QED
      BY <1>1, <1>3, <1>5, <2>1, <2>2, <2>4, <3>1, <3>3, <3>4, AskedKeeps
  <2> QED
    BY <2>3, <2>4 DEF IInv, TypeOK
<1>6. PICK name \in {{}, Alias[t.ctx.url] \ {t.ctx.url}} :
        IF name = {}
        THEN RunNextCallback(t.ctx, {}) /\ UNCHANGED uncloaked
        ELSE /\ \E u \in name : tasks' = {q(u)}
             /\ uncloaked' = IF live THEN name ELSE uncloaked
             /\ UNCHANGED <<callback, redirectUrl>>
  BY <1>1 DEF UseCnameResult
<1>7. CASE name = {}
  BY <1>4, <1>6, <1>7
<1>8. CASE name # {}
  <2>1. PICK u \in name : tasks' = {q(u)}
    BY <1>6, <1>8
  <2>2. /\ Alias[t.ctx.url] \in SUBSET Url
        /\ \A v, w \in Alias[t.ctx.url] : v = w
    BY <1>2, ConstantsAssumption
  <2>3. u \in Url /\ name = {u}
    BY <1>6, <2>1, <1>8, <2>2
  <2> QED
    BY <1>5, <1>6, <1>8, <2>1, <2>3
<1> QED
  BY <1>7, <1>8

\* The policies of the rules are policies, and those of the page stay with them.
LEMMA DirectiveFacts ==
  ASSUME NEW original \in SUBSET Policy,
         NEW directives \in GetCspDirectivesOnTaskRunner(original)
  PROVE  /\ directives.rules \in SUBSET Policy
         /\ directives.csp = original \cup directives.rules
BY DEF GetCspDirectivesOnTaskRunner, GetCspDirectives, EngineDirectives, MergeCspDirectiveInto,
       Policy

\* OnReceiveCspDirectives.
LEMMA DirectivesKeep ==
  ASSUME IInv, NEW t \in tasks, OnReceiveCspDirectives(t)
  PROVE  IInv'
<1>1. t \in Task /\ t.at = "csp" /\ t \in Asked
  BY TaskKinds DEF IInv, OnReceiveCspDirectives
<1>2. t.ctx \in Context /\ t.original \in SUBSET Policy
  BY <1>1, TaskTypes
<1>3. RunNextCallback(t.ctx, {})
  BY OneTask DEF OnReceiveCspDirectives
<1>4. UNCHANGED <<live, kind, url, follows, ctx, completed, wireVars, factoryVars, client,
                  uncloaked>>
  BY DEF OnReceiveCspDirectives
<1>5. PICK directives \in GetCspDirectivesOnTaskRunner(t.original) :
        /\ headers' = IF live THEN directives.csp ELSE headers
        /\ sent' = IF live THEN sent \cup directives.rules ELSE sent
  BY DEF OnReceiveCspDirectives
<1>6. /\ directives.rules \in SUBSET Policy
      /\ directives.csp = t.original \cup directives.rules
  BY <1>2, DirectiveFacts
<1>7. CASE ~live
  <2>1. callback = Absent
    BY <1>7 DEF IInv, StageInv
  <2>2. tasks' = {} /\ UNCHANGED <<callback, redirectUrl>>
    BY <1>3, <2>1 DEF RunNextCallback
  <2>3. ctx' \in Context
    BY <1>4 DEF IInv, TypeOK
  <2> QED
    BY <1>4, <1>5, <1>7, <2>2, <2>3, DeadKeeps DEF history
<1>8. CASE live
  <2>1. t.ctx = ctx /\ AskedInv(t) /\ sent \subseteq t.original
    BY <1>1, <1>8 DEF IInv, StageInv, RulesInv, PolicyInv
  <2>2. ~ctx.blocked /\ ctx.event = "headersReceived"
    BY <1>1, <2>1 DEF AskedInv
  <2>3. sent' \subseteq headers' /\ headers' \in SUBSET Policy /\ sent' \in SUBSET Policy
    BY <1>2, <1>5, <1>6, <1>8, <2>1 DEF IInv, TypeOK
  <2> QED
    BY <1>1, <1>2, <1>3, <1>4, <1>8, <2>1, <2>2, <2>3, NextCallbackKeeps
<1> QED
  BY <1>7, <1>8 DEF IInv, TypeOK
-----------------------------------------------------------------------------
(* Stages that are continued.                                              *)

\* A continuation of a live request: nothing is left to do for the stage, and
\* the client waits.
LEMMA PostedFacts ==
  ASSUME IInv, live, NEW t \in tasks, t.at = "posted"
  PROVE  /\ tasks \ {t} = {} /\ t \in Posted /\ Asked = {}
         /\ t.go \in Continuation /\ client = "waiting" /\ ~completed
         /\ callback = Moved /\ StageOf(t.go)
         /\ paused <=> wire # "unbound"
<1>1. /\ t \in Task /\ tasks \ {t} = {} /\ t \in Posted /\ tasks = {t}
  BY TaskKinds, OneTask DEF IInv
<1>2. Asked = {} /\ t \in Pending
  BY <1>1 DEF Asked, Pending
<1>3. t.go \in Continuation
  BY <1>1, TaskTypes
<1>4. client = "waiting" /\ ~completed
  BY <1>2 DEF IInv, ClientInv
<1>5. callback = Moved
  BY <1>2 DEF IInv, StageInv, TypeOK
<1>6. StageOf(t.go)
  BY <1>1 DEF IInv, WireInv
<1>7. paused <=> wire # "unbound"
  BY <1>2 DEF IInv, PausedWhileWaiting, Pending
<1> QED
  BY <1>1, <1>2, <1>3, <1>4, <1>5, <1>6, <1>7

\* The client is given a stub, a response or a redirect: nothing waits any more.
LEMMA ToldKeeps ==
  ASSUME IInv, live, NEW t \in tasks, t.at = "posted",
         client' \in {"redirected", "response", "stub"},
         tasks' = {} \/ (client' = "stub" /\ tasks' = {[at |-> "write"]}),
         url' \in Url, completed' = (client' = "redirected"),
         paused' = FALSE,
         wire' \in {"unbound", "redirecting", "responding", "lost"},
         client' # "response" => wire' # "responding",
         client' = "response" => ~ctx.blocked /\ sent' \subseteq headers',
         client' # "redirected" => url' = url,
         client' = "stub" => ctx.blocked /\ ctx.mock,
         wire' = "responding" => ~(kind \in Checked /\ BlocksByRules(RulesFound)),
         UNCHANGED <<live, kind, follows, ctx, redirectUrl, params, callback, factoryVars,
                     headers, history>>
  PROVE  IInv'
<1>1. /\ callback = Moved /\ client = "waiting" /\ callback' = Moved /\ live'
  BY PostedFacts
<1>2. /\ Asked' = {} /\ Posted' = {} /\ Pending' = {}
      /\ \A v \in tasks' : v.at = "write"
      /\ \A v, w \in tasks' : v = w
      /\ tasks' \in SUBSET Task
  BY DEF Asked, Posted, Pending, Task
<1>3. TypeOK'
  BY <1>2 DEF IInv, TypeOK, factoryVars, history
<1>4. StageInv'
  BY <1>1, <1>2, ContinuationRuns DEF StageInv
<1>5. ClientInv'
  BY <1>1, <1>2 DEF ClientInv
<1>6. WireInv'
  BY <1>1, <1>2, ContinuationRuns DEF WireInv
<1>7. RulesInv' /\ BlockedByRule'
  <2>1. CASE client' = "redirected"
    BY <1>2, <2>1 DEF RulesInv, BlockedByRule
  <2>2. CASE client' # "redirected"
    <3>1. RulesFound' = RulesFound /\ Names' = Names
      BY <2>2, SameRules DEF history
    <3> QED
      BY <1>1, <1>2, <2>2, <3>1 DEF IInv, RulesInv, BlockedByRule
  <2> QED
    BY <2>1, <2>2
<1>8. PausedWhileWaiting'
  BY <1>2 DEF PausedWhileWaiting, Pending
<1>9. NothingBlockedIsSent'
  <2>1. client' = "response" => RulesFound' = RulesFound
    BY SameRules DEF history
  <2> QED
    BY <2>1 DEF NothingBlockedIsSent
<1>10. PolicyInv' /\ PolicyKept'
  BY <1>2 DEF PolicyInv, PolicyKept
<1>11. FactoryInv'
  BY DEF IInv, FactoryInv, FactoryStaysAsNeeded, factoryVars
<1> QED
  BY <1>3, <1>4, <1>5, <1>6, <1>7, <1>8, <1>9, <1>10, <1>11 DEF IInv

\* ContinueToSendHeaders: the request goes to the network, if there is one.
LEMMA SendKeeps ==
  ASSUME IInv, live, NEW t \in tasks, t.at = "posted",
         t.go.run = "ContinueToBeforeSendHeaders", tasks' = {},
         ~ctx.blocked, ctx' = NewContext(ctx.leg, "none", url), ContinueToSendHeaders
  PROVE  IInv'
<1> USE DEF ContinueToSendHeaders, factoryVars, history
<1>1. /\ callback = Moved /\ client = "waiting" /\ callback' = Moved /\ live' /\ ~completed
      /\ t \in Posted /\ wire \in {"unbound", "redirecting", "lost"}
  BY PostedFacts DEF StageOf
<1>2. Asked' = {} /\ Posted' = {} /\ Pending' = {}
  BY DEF Asked, Posted, Pending
<1>3. ctx' \in Context /\ ~ctx'.blocked /\ ~ctx'.mock
  BY DEF IInv, TypeOK, NewContext, Context
<1>4. wire' \in {"unbound", "loading", "redirecting", "lost"}
  BY <1>1
<1>5. TypeOK'
  BY <1>3, <1>4 DEF IInv, TypeOK
<1>6. StageInv' /\ ClientInv'
  BY <1>1, <1>2, ContinuationRuns DEF StageInv, ClientInv
<1>7. WireInv'
  BY <1>1, <1>2, <1>3, <1>4, ContinuationRuns DEF WireInv
<1>8. RulesInv' /\ PolicyInv' /\ PolicyKept' /\ BlockedByRule'
  BY <1>1, <1>2, <1>3 DEF RulesInv, PolicyInv, PolicyKept, BlockedByRule
<1>9. PausedWhileWaiting'
  BY <1>2 DEF PausedWhileWaiting, Pending
<1>10. NothingBlockedIsSent'
  <2>1. RulesFound' = RulesFound
    BY SameRules
  <2>2. kind \in Checked => ~BlocksByRules(RulesFound)
    BY <1>1 DEF IInv, RulesInv
  <2> QED
    BY <2>1, <2>2 DEF NothingBlockedIsSent
<1>11. FactoryInv'
  BY DEF IInv, FactoryInv, FactoryStaysAsNeeded
<1> QED
  BY <1>5, <1>6, <1>7, <1>8, <1>9, <1>10, <1>11 DEF IInv

\* RunContinuation.
LEMMA ContinuationKeeps ==
  ASSUME IInv, NEW t \in tasks, RunContinuation(t)
  PROVE  IInv'
<1>1. t.at = "posted" /\ tasks \ {t} = {}
  BY OneTask DEF RunContinuation
<1>2. CASE ~live
  <2>1. /\ tasks' = {}
        /\ UNCHANGED <<requestVars, wireVars, callback, factoryVars, client, headers, history>>
    BY <1>1, <1>2 DEF RunContinuation
  <2>2. ctx' \in Context
    BY <2>1 DEF IInv, TypeOK, requestVars
  <2> QED
    BY <1>2, <2>1, <2>2, DeadKeeps DEF requestVars, history
<1>3. CASE live
  <2>1. /\ client = "waiting" /\ ~completed /\ StageOf(t.go) /\ t.go \in Continuation
        /\ t \in Posted /\ callback = Moved
    BY <1>1, <1>3, PostedFacts
  <2>2. url \in Url /\ redirectUrl \in SUBSET Url /\ completed = FALSE
    BY <2>1 DEF IInv, TypeOK
  <2>3. CASE t.go.run = "ContinueToBeforeSendHeaders" /\ ContinueToBeforeSendHeaders(t.error, {})
    <3>0. wire \in {"unbound", "redirecting", "lost"}
      BY <2>1, <2>3 DEF StageOf
    <3>1. CASE OnRequestError /\ tasks' = {}
      BY <1>3, <3>1, ErrorKeeps
    <3>2. CASE HandleBeforeRequestRedirect /\ tasks' = {}
      BY <1>1, <1>3, <2>2, <3>2, ToldKeeps
         DEF HandleBeforeRequestRedirect, ContinueToBeforeRedirect
    <3>3. CASE ctx.blocked /\ ctx.mock /\ RespondWithStub({})
      BY <1>1, <1>3, <2>1, <2>2, <3>0, <3>3, ToldKeeps DEF RespondWithStub, requestVars
    <3>4. CASE ~ctx.blocked /\ ctx' = NewContext(ctx.leg, "none", url)
                 /\ ContinueToSendHeaders /\ tasks' = {}
      BY <1>1, <1>3, <2>3, <3>4, SendKeeps
    <3> QED
      BY <2>3, <3>1, <3>2, <3>3, <3>4 DEF ContinueToBeforeSendHeaders
  <2>4. CASE t.go.run = "ContinueToResponseStarted" /\ ContinueToResponseStarted /\ tasks' = {}
    <3>1. wire \in {"responding", "lost"} /\ ~ctx.blocked /\ sent \subseteq headers
      BY <1>3, <2>1, <2>4 DEF StageOf, IInv, PolicyInv
    <3>2. wire = "responding" => ~(kind \in Checked /\ BlocksByRules(RulesFound))
      BY <1>3 DEF IInv, NothingBlockedIsSent
    <3> QED
      BY <1>1, <1>3, <2>1, <2>2, <2>4, <3>1, <3>2, ToldKeeps
         DEF ContinueToResponseStarted, requestVars, history
  <2>5. CASE /\ t.go.run = "ContinueToBeforeRedirect"
             /\ \E u \in t.go.to : ContinueToBeforeRedirect(u)
             /\ tasks' = {}
             /\ UNCHANGED <<live, kind, follows, ctx, redirectUrl, wire, params,
                            callback, factoryVars, headers, history>>
    <3>1. wire \in {"redirecting", "lost"} /\ t.go.to \in SUBSET Url
      BY <2>1, <2>5 DEF StageOf, Continuation
    <3> QED
      BY <1>1, <1>3, <2>5, <3>1, ToldKeeps DEF ContinueToBeforeRedirect
  <2> QED
    BY <1>1, <1>3, <2>3, <2>4, <2>5 DEF RunContinuation
<1> QED
  BY <1>2, <1>3 DEF IInv, TypeOK

\* OnWrite.
LEMMA WriteKeeps ==
  ASSUME IInv, NEW t \in tasks, OnWrite(t)
  PROVE  IInv'
<1>1. tasks' = {} /\ t.at = "write" /\ tasks \subseteq {t}
  BY OneTask DEF OnWrite
<1>2. CASE live /\ Finish
  BY <1>1, <1>2, RemoveKeeps DEF Finish
<1>3. CASE UNCHANGED <<requestVars, wireVars, callback, factoryVars, client, headers, history>>
  <2> USE <1>3 DEF requestVars, wireVars, factoryVars, history
  <2>1. /\ Asked = {} /\ Posted = {} /\ Pending = {}
        /\ Asked' = {} /\ Posted' = {} /\ Pending' = {}
    BY <1>1 DEF Asked, Posted, Pending
  <2>2. TypeOK' /\ StageInv'
    BY <1>1, <2>1 DEF IInv, TypeOK, StageInv
  <2>3. ClientInv' /\ WireInv'
    <3>1. \A k : StageOf(k) => StageOf(k)'
      BY DEF StageOf
    <3> QED
      BY <1>1, <2>1, <3>1 DEF IInv, ClientInv, WireInv, StageInv
  <2>4. RulesInv' /\ BlockedByRule' /\ NothingBlockedIsSent'
    BY <1>1, <2>1, SameRules DEF IInv, RulesInv, BlockedByRule, NothingBlockedIsSent
  <2>5. PolicyInv' /\ PolicyKept' /\ PausedWhileWaiting'
    BY <1>1, <2>1 DEF IInv, PolicyInv, PolicyKept, PausedWhileWaiting, Pending
  <2>6. FactoryInv'
    BY DEF IInv, FactoryInv, FactoryStaysAsNeeded
  <2> QED
    BY <2>2, <2>3, <2>4, <2>5, <2>6 DEF IInv
<1> QED
  BY <1>2, <1>3 DEF OnWrite
-----------------------------------------------------------------------------
(* Stages that begin.                                                      *)

LEMMA NewContextFields ==
  ASSUME NEW leg \in Nat, NEW u \in Url, NEW event \in {"beforeRequest", "none", "headersReceived"}
  PROVE  /\ NewContext(leg, event, u) \in Context
         /\ NewContext(leg, event, u).leg = leg /\ NewContext(leg, event, u).event = event
         /\ NewContext(leg, event, u).url = u
         /\ ~NewContext(leg, event, u).blocked
BY DEF NewContext, Context

\* A stage is asked for, or passes at once, when nothing else is on its way: k is
\* to be continued, and c is the new context.
LEMMA BeginKeeps ==
  ASSUME IInv, live', client' = "waiting", completed' = FALSE,
         NEW c \in Context, ctx' = c, ~c.blocked, NEW k \in Continuation, StageOf(k)',
         wire' \in {"unbound", "redirecting", "responding", "lost"},
         paused' = (wire' # "unbound"),
         \/ \E q \in Task : /\ q.at \in {"engine", "dns", "csp"} /\ tasks' = {q}
                            /\ callback' = k /\ q.ctx = c /\ AskedInv(q)'
                            /\ q.at = "csp" => sent' \subseteq q.original
         \/ /\ callback' = Moved
            /\ tasks' = {[at |-> "posted", go |-> k, error |-> FALSE]}
            /\ k.run = "ContinueToBeforeSendHeaders" => kind \notin Checked
            /\ k.run = "ContinueToResponseStarted" => sent' \subseteq headers',
         wire' = "responding" => ~(kind \in Checked /\ BlocksByRules(RulesFound')),
         url' \in Url, follows' \in 0..MaxFollows, redirectUrl' \in SUBSET Url,
         params' \in BOOLEAN, uncloaked' \in SUBSET Url,
         headers' \in SUBSET Policy, sent' \in SUBSET Policy,
         factory, UNCHANGED <<kind, factoryVars>>
  PROVE  IInv'
<1>1. CASE \E q \in Task : /\ q.at \in {"engine", "dns", "csp"} /\ tasks' = {q}
                           /\ callback' = k /\ q.ctx = c /\ AskedInv(q)'
                           /\ q.at = "csp" => sent' \subseteq q.original
  <2>1. PICK q \in Task : /\ q.at \in {"engine", "dns", "csp"} /\ tasks' = {q}
                          /\ callback' = k /\ q.ctx = c /\ AskedInv(q)'
                          /\ q.at = "csp" => sent' \subseteq q.original
    BY <1>1
  <2>2. /\ Asked' = {q} /\ Posted' = {} /\ Pending' = {q} /\ callback' \in Continuation
        /\ q.at # "write"
    BY <2>1 DEF Asked, Posted, Pending
  <2>3. TypeOK'
    BY <2>1 DEF IInv, TypeOK, factoryVars
  <2>4. StageInv' /\ ClientInv'
    BY <2>1, <2>2, ContinuationRuns DEF StageInv, ClientInv
  <2>5. WireInv'
    BY <2>1, <2>2 DEF WireInv
  <2>6. RulesInv' /\ PolicyInv' /\ PolicyKept'
    BY <2>1, <2>2 DEF RulesInv, PolicyInv, PolicyKept
  <2>7. PausedWhileWaiting'
    BY <2>2 DEF PausedWhileWaiting, Pending
  <2>8. NothingBlockedIsSent' /\ BlockedByRule'
    BY DEF NothingBlockedIsSent, BlockedByRule
  <2>9. FactoryInv'
    BY DEF IInv, FactoryInv, FactoryStaysAsNeeded, factoryVars
  <2> QED
    BY <2>3, <2>4, <2>5, <2>6, <2>7, <2>8, <2>9 DEF IInv
<1>2. CASE /\ callback' = Moved
           /\ tasks' = {[at |-> "posted", go |-> k, error |-> FALSE]}
           /\ k.run = "ContinueToBeforeSendHeaders" => kind \notin Checked
           /\ k.run = "ContinueToResponseStarted" => sent' \subseteq headers'
  <2> DEFINE p == [at |-> "posted", go |-> k, error |-> FALSE]
  <2>1. p \in Task /\ p.at = "posted" /\ p.go = k /\ tasks' = {p}
    BY <1>2 DEF Task
  <2>2. Asked' = {} /\ Posted' = {p} /\ Pending' = {p}
    BY <2>1 DEF Asked, Posted, Pending
  <2> HIDE DEF p
  <2>3. TypeOK'
    BY <1>2, <2>1 DEF IInv, TypeOK, factoryVars
  <2>4. StageInv' /\ ClientInv'
    BY <1>2, <2>1, <2>2, ContinuationRuns DEF StageInv, ClientInv
  <2>5. \A v \in Posted' : StageOf(v.go)'
    BY <2>1, <2>2
  <2>6. WireInv'
    BY <1>2, <2>1, <2>2, <2>5, ContinuationRuns DEF WireInv
  <2>7. RulesInv' /\ PolicyInv' /\ PolicyKept'
    BY <1>2, <2>1, <2>2 DEF RulesInv, PolicyInv, PolicyKept
  <2>8. PausedWhileWaiting'
    BY <2>2 DEF PausedWhileWaiting, Pending
  <2>9. NothingBlockedIsSent' /\ BlockedByRule'
    BY DEF NothingBlockedIsSent, BlockedByRule
  <2>10. FactoryInv'
    BY DEF IInv, FactoryInv, FactoryStaysAsNeeded, factoryVars
  <2> QED
    BY <2>3, <2>4, <2>6, <2>7, <2>8, <2>9, <2>10 DEF IInv
<1> QED
  BY <1>1, <1>2

\* RestartInternal, for the first leg or another.
LEMMA RestartKeeps ==
  ASSUME IInv, tasks = {}, live', client' = "waiting",
         NEW u \in Url, url' = u, NEW leg \in Nat, RestartInternal(u, leg),
         wire \in {"unbound", "redirecting", "lost"},
         follows' \in 0..MaxFollows, params' \in BOOLEAN, factory,
         UNCHANGED <<kind, wire, factoryVars, headers, sent>>
  PROVE  IInv'
<1> DEFINE c == NewContext(leg, "beforeRequest", u)
           k == [run |-> "ContinueToBeforeSendHeaders", to |-> {}]
<1>1. c \in Context /\ c.event = "beforeRequest" /\ c.url = u /\ ~c.blocked
  BY NewContextFields
<1>2. k \in Continuation /\ k.run = "ContinueToBeforeSendHeaders"
  BY DEF Continuation
<1>3. OnBeforeURLRequest(c, {})
  BY DEF RestartInternal
<1>4. kind \in Checked => \E uncloak \in BOOLEAN :
        /\ ctx' = c /\ callback' = k
        /\ tasks' = {[at |-> "engine", ctx |-> c, flags |-> {}, check |-> c.url,
                      canonical |-> FALSE, uncloak |-> uncloak]}
  BY <1>3 DEF OnBeforeURLRequest, OnBeforeURLRequestAdBlockTP, Wait, ProxySettingsAllowUncloaking
<1>5. kind \notin Checked =>
        /\ ctx' = c /\ callback' = Moved
        /\ tasks' = {[at |-> "posted", go |-> k, error |-> FALSE]}
  BY <1>3 DEF OnBeforeURLRequest, Pass, Complete
<1> HIDE DEF c, k
<1>6. /\ uncloaked' = {} /\ redirectUrl' = {} /\ completed' = FALSE
      /\ paused' = (wire # "unbound")
  BY DEF RestartInternal
<1>7. ctx' = c /\ StageOf(k)'
  BY <1>1, <1>2, <1>4, <1>5 DEF StageOf
<1>8. headers' \in SUBSET Policy /\ sent' \in SUBSET Policy
  BY DEF IInv, TypeOK
<1>9. CASE kind \in Checked
  <2>1. PICK uncloak \in BOOLEAN :
          /\ callback' = k
          /\ tasks' = {[at |-> "engine", ctx |-> c, flags |-> {}, check |-> c.url,
                        canonical |-> FALSE, uncloak |-> uncloak]}
    BY <1>4, <1>9
  <2> DEFINE q == [at |-> "engine", ctx |-> c, flags |-> {}, check |-> c.url,
                   canonical |-> FALSE, uncloak |-> uncloak]
  <2>2. q \in Task /\ q.at = "engine" /\ q.ctx = c /\ tasks' = {q}
    BY <1>1, <2>1 DEF Task
  <2>3. AskedInv(q)'
    BY <1>1, <1>6, <1>7, <1>9 DEF AskedInv
  <2> HIDE DEF q
  <2> QED
    BY <1>1, <1>2, <1>6, <1>7, <1>8, <2>1, <2>2, <2>3, BeginKeeps
<1>10. CASE kind \notin Checked
  BY <1>1, <1>2, <1>5, <1>6, <1>7, <1>8, <1>10, BeginKeeps
<1> QED
  BY <1>9, <1>10

\* HandleResponseOrRedirectHeaders: the network's message waits for the policies.
LEMMA HeadersKeep ==
  ASSUME IInv, FromNetwork({"loading"}), NEW k \in Continuation, NEW policies \in SUBSET Policy,
         HandleResponseOrRedirectHeaders(k, policies),
         \/ wire' = "redirecting" /\ k.run = "ContinueToBeforeRedirect"
         \/ wire' = "responding" /\ k.run = "ContinueToResponseStarted"
  PROVE  IInv'
<1> DEFINE c == NewContext(ctx.leg, "headersReceived", url)
<1>1. live /\ wire = "loading" /\ ~paused
  BY DEF FromNetwork
<1>2. client = "waiting" /\ Pending = {} /\ tasks = {}
  <2>1. client = "waiting"
    BY <1>1 DEF IInv, WireInv
  <2>2. Pending = {}
    BY <1>1 DEF IInv, PausedWhileWaiting, Pending
  <2> QED
    BY <1>1, <2>1, <2>2, Waiting
<1>3. UNCHANGED <<live, kind, url, follows, completed, params, factoryVars, client, uncloaked>>
  BY DEF HandleResponseOrRedirectHeaders
<1>4. redirectUrl' = {} /\ sent' = policies /\ paused' = TRUE
  BY DEF HandleResponseOrRedirectHeaders
<1>5. c \in Context /\ c.event = "headersReceived" /\ ~c.blocked
  BY NewContextFields DEF IInv, TypeOK, Context
<1>6. kind \in {"mainFrame", "subFrame"} =>
        /\ ctx' = c /\ callback' = k /\ headers' = {}
        /\ tasks' = {[at |-> "csp", ctx |-> c, original |-> policies]}
  BY <1>2 DEF HandleResponseOrRedirectHeaders, OnHeadersReceived, OnHeadersReceivedAdBlockCsp, Wait
<1>7. kind \notin {"mainFrame", "subFrame"} =>
        /\ ctx' = c /\ callback' = Moved /\ headers' = policies
        /\ tasks' = {[at |-> "posted", go |-> k, error |-> FALSE]}
  BY <1>2 DEF HandleResponseOrRedirectHeaders, OnHeadersReceived, Pass, Complete
<1> HIDE DEF c
<1>8. ctx' = c /\ StageOf(k)'
  BY <1>5, <1>6, <1>7 DEF StageOf
<1>9. completed' = FALSE /\ live' /\ client' = "waiting"
  BY <1>1, <1>2, <1>3 DEF IInv, TypeOK, ClientInv
<1>10. wire' = "responding" => ~(kind \in Checked /\ BlocksByRules(RulesFound'))
  <2>1. RulesFound' = RulesFound
    BY <1>3, SameRules
  <2> QED
    BY <1>1, <2>1 DEF IInv, NothingBlockedIsSent
<1>11. factory
  BY <1>1 DEF IInv, FactoryInv, FactoryStaysAsNeeded
<1>12. /\ url' \in Url /\ follows' \in 0..MaxFollows /\ params' \in BOOLEAN
       /\ uncloaked' \in SUBSET Url /\ headers' \in SUBSET Policy
  BY <1>3, <1>6, <1>7 DEF IInv, TypeOK
<1>13. CASE kind \in {"mainFrame", "subFrame"}
  <2>1. PICK q \in Task :
          q.at = "csp" /\ q.ctx = c /\ q.original = policies /\ tasks' = {q}
    BY <1>5, <1>6, <1>13 DEF Task
  <2>2. AskedInv(q)'
    BY <1>5, <1>8, <2>1 DEF AskedInv
  <2> QED
    BY <1>3, <1>4, <1>5, <1>6, <1>8, <1>9, <1>10, <1>11, <1>12, <1>13, <2>1, <2>2, BeginKeeps
<1>14. CASE kind \notin {"mainFrame", "subFrame"}
  BY <1>3, <1>4, <1>5, <1>7, <1>8, <1>9, <1>10, <1>11, <1>12, <1>14, BeginKeeps
<1> QED
  BY <1>13, <1>14
-----------------------------------------------------------------------------
(* The invariant.                                                          *)

LEMMA Initially == Init => IInv
<1> SUFFICES ASSUME Init PROVE IInv
  OBVIOUS
<1> USE DEF Init, InitRequest, InitFactory
<1>1. /\ Asked = {} /\ Posted = {} /\ Pending = {}
  BY DEF Asked, Posted, Pending
<1>2. ctx \in Context
  BY NewContextFields
<1>3. TypeOK
  <2>1. follows \in 0..MaxFollows
    BY ConstantsAssumption
  <2> QED
    BY <1>2, <2>1 DEF TypeOK
<1>4. StageInv /\ ClientInv /\ WireInv
  BY <1>1 DEF StageInv, ClientInv, WireInv
<1>5. RulesInv /\ PausedWhileWaiting /\ NothingBlockedIsSent /\ BlockedByRule
  BY DEF RulesInv, PausedWhileWaiting, NothingBlockedIsSent, BlockedByRule
<1>6. PolicyInv /\ PolicyKept /\ FactoryInv
  BY DEF PolicyInv, PolicyKept, FactoryInv, FactoryStaysAsNeeded
<1> QED
  BY <1>3, <1>4, <1>5, <1>6 DEF IInv

\* A step of the factory that leaves the requests alone, but for what the network
\* does for this one.
LEMMA FactoryKeeps ==
  ASSUME IInv,
         UNCHANGED <<requestVars, paused, params, handlerVars, client, headers, history>>,
         wire' = wire \/ (wire # "unbound" /\ wire' = "lost"),
         target' \in BOOLEAN, receivers' \in BOOLEAN, others' \in BOOLEAN,
         receivers' => target', factory' = (target' \/ live' \/ others')
  PROVE  IInv'
<1> USE DEF requestVars, handlerVars, history
<1>1. Asked' = Asked /\ Posted' = Posted /\ Pending' = Pending
  BY DEF Asked, Posted, Pending
<1>2. TypeOK' /\ StageInv' /\ ClientInv'
  BY <1>1 DEF IInv, TypeOK, StageInv, ClientInv
<1>3. \A k : StageOf(k) => StageOf(k)'
  BY DEF StageOf
<1>4. WireInv'
  BY <1>1, <1>3 DEF IInv, WireInv
<1>5. RulesInv' /\ NothingBlockedIsSent' /\ BlockedByRule'
  <2>1. \A q : AskedInv(q) => AskedInv(q)'
    BY SameRules DEF AskedInv
  <2> QED
    BY <1>1, <2>1, SameRules DEF IInv, RulesInv, NothingBlockedIsSent, BlockedByRule
<1>6. PausedWhileWaiting' /\ PolicyInv' /\ PolicyKept'
  BY <1>1 DEF IInv, PausedWhileWaiting, PolicyInv, PolicyKept
<1>7. FactoryInv'
  BY DEF FactoryInv, FactoryStaysAsNeeded
<1> QED
  BY <1>2, <1>4, <1>5, <1>6, <1>7 DEF IInv

LEMMA Inductive == IInv /\ [Next]_vars => IInv'
<1> SUFFICES ASSUME IInv, [Next]_vars PROVE IInv'
  OBVIOUS
<1> USE DEF factoryVars
<1>1. CASE CreateLoaderAndStart
  <2>1. /\ tasks = {} /\ wire = "unbound" /\ factory
        /\ url \in Url /\ follows \in 0..MaxFollows /\ params \in BOOLEAN
    BY <1>1 DEF CreateLoaderAndStart, IInv, ClientInv, FactoryInv, FactoryStaysAsNeeded, TypeOK
  <2>2. /\ live' = TRUE /\ client' = "waiting" /\ url' = url /\ RestartInternal(url, 0)
        /\ UNCHANGED <<kind, follows, wire, params, factoryVars, headers, sent>>
    BY <1>1 DEF CreateLoaderAndStart
  <2>3. PICK u \in Url : u = url
    BY <2>1
  <2> QED
    BY <2>1, <2>2, <2>3, RestartKeeps
<1>2. CASE \E u \in Url : FollowRedirect(u)
  <2>1. PICK u \in Url : FollowRedirect(u)
    BY <1>2
  <2>2. /\ live /\ client = "redirected" /\ follows < MaxFollows
        /\ live' /\ client' = "waiting" /\ url' = u /\ RestartInternal(u, follows + 1)
        /\ follows' = follows + 1 /\ params' \in BOOLEAN
        /\ UNCHANGED <<kind, wire, factoryVars, headers, sent>>
    BY <2>1 DEF FollowRedirect
  <2>3. /\ follows \in 0..MaxFollows
        /\ wire \in {"unbound", "loading", "redirecting", "responding", "lost"}
    BY DEF IInv, TypeOK
  <2>4. tasks = {} /\ wire \in {"unbound", "redirecting", "lost"}
    BY <2>2, <2>3, Waiting DEF IInv, WireInv
  <2>5. factory
    BY <2>2 DEF IInv, FactoryInv, FactoryStaysAsNeeded
  <2>6. PICK leg \in Nat : leg = follows + 1
    BY <2>3
  <2>7. follows' \in 0..MaxFollows
    BY <2>2, <2>3, ConstantsAssumption
  <2> QED
    BY <2>2, <2>4, <2>5, <2>6, <2>7, RestartKeeps
<1>3. CASE RunTask
  BY <1>3, ResultKeeps, NameKeeps, DirectivesKeep, ContinuationKeeps, WriteKeeps DEF RunTask
<1>4. CASE \E u \in Url : OnReceiveRedirect(u)
  <2>1. PICK u \in Url : OnReceiveRedirect(u)
    BY <1>4
  <2>2. [run |-> "ContinueToBeforeRedirect", to |-> {u}] \in Continuation
    BY DEF Continuation
  <2>3. {} \in SUBSET Policy
    OBVIOUS
  <2> QED
    BY <2>1, <2>2, <2>3, HeadersKeep DEF OnReceiveRedirect
<1>5. CASE OnReceiveResponse
  <2>1. PICK policies \in SUBSET {"page"} :
          HandleResponseOrRedirectHeaders(
            [run |-> "ContinueToResponseStarted", to |-> {}], policies)
    BY <1>5 DEF OnReceiveResponse
  <2>2. [run |-> "ContinueToResponseStarted", to |-> {}] \in Continuation
    BY DEF Continuation
  <2>3. policies \in SUBSET Policy
    BY DEF Policy
  <2> QED
    BY <1>5, <2>1, <2>2, <2>3, HeadersKeep DEF OnReceiveResponse
<1>6. CASE OnComplete
  BY <1>6, RemoveKeeps, ErrorKeeps DEF OnComplete, FromNetwork, Finish
<1>7. CASE ClientDisconnects
  BY <1>7, RemoveKeeps DEF ClientDisconnects
<1>8. CASE OnLoaderDisconnected
  BY <1>8, RemoveKeeps, ErrorKeeps DEF OnLoaderDisconnected
<1>9. CASE OnTargetFactoryError
  BY <1>9, FactoryKeeps DEF OnTargetFactoryError, MaybeRemoveProxy, IInv, TypeOK
<1>10. CASE OnProxyBindingError
  BY <1>10, FactoryKeeps DEF OnProxyBindingError, MaybeRemoveProxy, IInv, TypeOK, wireVars
<1>11. CASE OtherRequests
  <2>1. factory' = (target' \/ live' \/ others')
    BY <1>11 DEF OtherRequests, MaybeRemoveProxy, IInv, FactoryInv, FactoryStaysAsNeeded, TypeOK
  <2> QED
    BY <1>11, <2>1, FactoryKeeps DEF OtherRequests, IInv, TypeOK, FactoryInv, wireVars
<1>12. CASE UNCHANGED vars
  <2>1. /\ UNCHANGED <<requestVars, paused, params, handlerVars, client, headers, history>>
        /\ UNCHANGED <<wire, factoryVars>>
    BY <1>12 DEF vars, wireVars
  <2>2. factory' = (target' \/ live' \/ others')
    BY <2>1 DEF IInv, FactoryInv, FactoryStaysAsNeeded, TypeOK, requestVars
  <2> QED
    BY <2>1, <2>2, FactoryKeeps DEF IInv, TypeOK, FactoryInv
<1> QED
  BY <1>1, <1>2, <1>3, <1>4, <1>5, <1>6, <1>7, <1>8, <1>9, <1>10, <1>11, <1>12
     DEF Next, Network

LEMMA Invariance == Spec => []IInv
<1> QED BY Initially, Inductive, PTL DEF Spec
-----------------------------------------------------------------------------
(* What follows.                                                           *)

\* The state of the request, of the stage and of what is on its way for it, is
\* always of the types the code gives it.
THEOREM TypeCorrect == Spec => []TypeOK
<1>1. IInv => TypeOK
  BY DEF IInv
<1> QED
  BY <1>1, Invariance, PTL

\* The network is given no URL that the rules of both engines, taken together,
\* block by its own name or by the canonical name it was checked under, on any
\* leg (OnShouldBlockRequestResult to ContinueToSendHeaders).
THEOREM BlockedStays == Spec => []NothingBlockedIsSent
<1>1. IInv => NothingBlockedIsSent
  BY DEF IInv
<1> QED
  BY <1>1, Invariance, PTL

\* Only what the rules block is collapsed or stubbed, and stubbed only if a rule
\* names a stub (ShouldBlockRequestOnTaskRunner, ContinueToBeforeSendHeaders).
THEOREM OnlyBlockedByRule == Spec => []BlockedByRule
<1>1. IInv => BlockedByRule
  BY DEF IInv
<1> QED
  BY <1>1, Invariance, PTL

\* A response reaches the client with the policies of the page and of the rules
\* (OnHeadersReceived_AdBlockCspWork takes them out, OnReceiveCspDirectives puts
\* them back).
THEOREM PoliciesArrive == Spec => []PolicyKept
<1>1. IInv => PolicyKept
  BY DEF IInv
<1> QED
  BY <1>1, Invariance, PTL

\* The messages of the network wait exactly while a stage waits (RestartInternal
\* and HandleResponseOrRedirectHeaders pause the receiver, the continuations
\* resume it).
THEOREM PausedExactly == Spec => []PausedWhileWaiting
<1>1. IInv => PausedWhileWaiting
  BY DEF IInv
<1> QED
  BY <1>1, Invariance, PTL

\* The factory lives as long as a request needs it (MaybeRemoveProxy).
THEOREM FactoryNeeded == Spec => []FactoryStaysAsNeeded
<1>1. IInv => FactoryStaysAsNeeded
  BY DEF IInv, FactoryInv
<1> QED
  BY <1>1, Invariance, PTL

\* A stage that waits has one answer on its way and one that was answered one
\* continuation, and no entry of callbacks_ outlives its request (RunNextCallback,
\* OnURLRequestDestroyed).
THEOREM StagesContinueOnce == Spec => []ContinuesOnce
<1>1. ASSUME IInv PROVE ContinuesOnce
  <2>1. ~live => callback = Absent
    BY <1>1 DEF IInv, StageInv
  <2>2. ASSUME live PROVE Cardinality(Asked \cup Posted) <= 1
    <3>1. Asked \cup Posted \subseteq tasks
      BY DEF Asked, Posted
    <3>2. Asked \cup Posted = {} \/ \E t : Asked \cup Posted = {t}
      BY <1>1, <3>1 DEF IInv, StageInv
    <3>3. Cardinality(Asked \cup Posted) = 0 \/ Cardinality(Asked \cup Posted) = 1
      BY <3>2, FS_EmptySet, FS_Singleton
    <3> QED
      BY <3>3
  <2>3. ASSUME live PROVE Asked # {} <=> callback \in Continuation
    BY <1>1, <2>3 DEF IInv, StageInv
  <2>4. ASSUME live, NEW t \in Asked
        PROVE  t.ctx.leg = ctx.leg /\ t.ctx.event = ctx.event
    BY <1>1, <2>4 DEF IInv, StageInv
  <2>5. ASSUME live, Posted # {} PROVE callback = Moved
    BY <1>1, <2>5, PostedFacts DEF Posted
  <2> QED
    BY <2>1, <2>2, <2>3, <2>4, <2>5 DEF ContinuesOnce
<1> QED
  BY <1>1, Invariance, PTL
-----------------------------------------------------------------------------
(* The request follows its client's protocol.                              *)

LEMMA RemoveLeaves ==
  ASSUME IInv, live, client' = "gone" \/ OnRequestError
  PROVE  ClientProtocol!Next
<1>1. client \in {"waiting", "redirected", "response", "stub"}
  BY DEF IInv, ClientInv
<1>2. CASE client' = "gone"
  BY <1>1, <1>2 DEF ClientProtocol!Next, ClientProtocol!Leave, ClientProtocol!Ends
<1>3. CASE client' # "gone" /\ OnRequestError
  <2>1. client \in {"waiting", "response", "stub"}
    BY <1>1, <1>3 DEF IInv, ClientInv, OnRequestError
  <2>2. client = "response" => ~ctx.blocked
    BY DEF IInv, ClientInv
  <2> QED
    BY <1>3, <2>1, <2>2
       DEF OnRequestError, ClientProtocol!Next, ClientProtocol!Fail, ClientProtocol!Collapse
<1> QED
  BY <1>2, <1>3

LEMMA StepRefines == IInv /\ [Next]_vars => [ClientProtocol!Next]_client
<1> SUFFICES ASSUME IInv, [Next]_vars, client' # client PROVE ClientProtocol!Next
  OBVIOUS
<1> USE DEF ClientProtocol!Next
<1>1. CASE CreateLoaderAndStart
  BY <1>1 DEF CreateLoaderAndStart, ClientProtocol!Create
<1>2. CASE \E u \in Url : FollowRedirect(u)
  BY <1>2 DEF FollowRedirect, ClientProtocol!Follow
<1>3. ASSUME NEW t \in tasks, RunContinuation(t)
      PROVE  ClientProtocol!Next
  <2>1. live /\ t.at = "posted"
    BY <1>3 DEF RunContinuation
  <2>2. client = "waiting"
    BY <2>1, PostedFacts
  <2>3. CASE ContinueToBeforeSendHeaders(t.error, tasks \ {t})
    <3>1. CASE OnRequestError
      BY <2>1, <3>1, RemoveLeaves
    <3>2. CASE HandleBeforeRequestRedirect
      BY <2>2, <3>2
         DEF HandleBeforeRequestRedirect, ContinueToBeforeRedirect, ClientProtocol!Redirect
    <3>3. CASE RespondWithStub(tasks \ {t})
      BY <2>2, <3>3 DEF RespondWithStub, ClientProtocol!Respond
    <3>4. CASE ContinueToSendHeaders
      BY <3>4 DEF ContinueToSendHeaders
    <3> QED
      BY <2>3, <3>1, <3>2, <3>3, <3>4 DEF ContinueToBeforeSendHeaders
  <2>4. CASE ContinueToResponseStarted
    BY <2>2, <2>4 DEF ContinueToResponseStarted, ClientProtocol!Respond
  <2>5. CASE \E u \in t.go.to : ContinueToBeforeRedirect(u)
    BY <2>2, <2>5 DEF ContinueToBeforeRedirect, ClientProtocol!Redirect
  <2> QED
    BY <1>3, <2>1, <2>3, <2>4, <2>5 DEF RunContinuation
<1>4. ASSUME NEW t \in tasks, OnWrite(t)
      PROVE  ClientProtocol!Next
  <2>1. live /\ client' = "complete"
    BY <1>4 DEF OnWrite, Finish
  <2>2. client = "stub"
    BY <1>4, <2>1 DEF OnWrite, IInv, ClientInv
  <2> QED
    BY <2>1, <2>2 DEF ClientProtocol!Complete
<1>5. CASE RunTask
  BY <1>3, <1>4, <1>5
     DEF RunTask, OnShouldBlockRequestResult, UseCnameResult, OnReceiveCspDirectives
<1>6. CASE OnComplete
  <2>1. CASE FromNetwork({"responding"}) /\ Finish
    <3>1. client = "response"
      BY <2>1 DEF IInv, WireInv, PausedWhileWaiting, FromNetwork, Pending
    <3> QED
      BY <2>1, <3>1 DEF Finish, ClientProtocol!Complete
  <2>2. CASE live /\ OnRequestError
    BY <2>2, RemoveLeaves
  <2> QED
    BY <1>6, <2>1, <2>2 DEF OnComplete, FromNetwork
<1>7. CASE Network
  BY <1>6, <1>7 DEF Network, OnReceiveRedirect, OnReceiveResponse, HandleResponseOrRedirectHeaders
<1>8. CASE ClientDisconnects \/ OnLoaderDisconnected
  BY <1>8, RemoveLeaves DEF ClientDisconnects, OnLoaderDisconnected
<1>9. CASE OnTargetFactoryError \/ OnProxyBindingError \/ OtherRequests
  BY <1>9 DEF OnTargetFactoryError, OnProxyBindingError, OtherRequests
<1>10. CASE UNCHANGED vars
  BY <1>10 DEF vars
<1> QED
  BY <1>1, <1>2, <1>5, <1>7, <1>8, <1>9, <1>10 DEF Next

\* What the client sees is a behaviour of LoaderClient: redirects only while it
\* waits, one response, one end, and nothing after it, whatever arrives late.
THEOREM Protocol == Spec => FollowsProtocol
<1>1. Init => ClientProtocol!Init
  BY DEF Init, ClientProtocol!Init
<1> QED
  BY <1>1, StepRefines, Invariance, PTL DEF Spec, FollowsProtocol, ClientProtocol!Spec
=============================================================================
