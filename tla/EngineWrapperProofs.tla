-------------------------- MODULE EngineWrapperProofs --------------------------
(***************************************************************************)
(* The flags a request collects decide as all the rules would that were     *)
(* asked for it: to leave out the rules that can no longer matter, and to   *)
(* ask engine after engine and name after name, changes nothing.            *)
(***************************************************************************)
EXTENDS EngineWrapper, TLAPS

\* What flags must tell of the rules that were asked so far.  An important rule
\* makes the rest irrelevant, and so does an exception for the normal rules.
Agrees(flags, rules) ==
  /\ "important" \in flags <=> "important" \in rules
  /\ "important" \notin rules =>
       /\ "exception" \in flags <=> "exception" \in rules
       /\ "exception" \notin rules => ("rule" \in flags <=> "normal" \in rules)

\* FlagsOf and CheckSubset, field by field.
LEMMA FlagsOfFields ==
  ASSUME NEW r
  PROVE  /\ "rule" \in FlagsOf(r) <=> r.matched
         /\ "exception" \in FlagsOf(r) <=> r.exception
         /\ "important" \in FlagsOf(r) <=> r.important
BY DEF FlagsOf, Flag

\* One engine, asked with the flags so far (AdBlockEngine::ShouldStartRequest).
LEMMA AskEngineAgrees ==
  ASSUME NEW m \in Match, NEW flags, NEW rules, Agrees(flags, rules)
  PROVE  Agrees(flags \cup FlagsOf(AskEngine(m, flags)), rules \cup m.rules)
<1> DEFINE r == AskEngine(m, flags)
           known == "rule" \in flags \/ "exception" \in flags
           important == "important" \in m.rules
           filter == important \/ ("normal" \in m.rules /\ ~known)
           exception == /\ "exception" \in m.rules /\ ~important
                        /\ filter \/ known \/ "exception" \notin flags
<1>1. /\ r.matched <=> (filter \/ known) /\ ~exception
      /\ r.exception <=> exception
      /\ r.important <=> important
  BY DEF AskEngine, CheckSubset
<1>2. /\ "rule" \in FlagsOf(r) <=> (filter \/ known) /\ ~exception
      /\ "exception" \in FlagsOf(r) <=> exception
      /\ "important" \in FlagsOf(r) <=> important
  BY <1>1, FlagsOfFields
<1> HIDE DEF r
<1>3. Agrees(flags \cup FlagsOf(r), rules \cup m.rules)
  BY <1>2 DEF Agrees
<1> QED BY <1>3 DEF r

\* One query: both engines, and the flags of the query added to those so far
\* (AdBlockEngineWrapper::ShouldStartRequest, ShouldBlockRequestOnTaskRunner).
THEOREM QueryAgrees ==
  ASSUME NEW default \in Match, NEW additional \in Match,
         NEW flags, NEW rules, Agrees(flags, rules)
  PROVE  Agrees(flags \cup FlagsOf(ShouldStartRequest(default, additional, flags)),
                rules \cup default.rules \cup additional.rules)
<1> DEFINE first == [AskEngine(default, flags) EXCEPT !.rewritten = {}]
           second == AskEngine(additional, flags \cup FlagsOf(first))
           both == ShouldStartRequest(default, additional, flags)
<1>1. FlagsOf(first) = FlagsOf(AskEngine(default, flags))
  BY DEF FlagsOf, AskEngine, CheckSubset
<1>2. Agrees(flags \cup FlagsOf(first), rules \cup default.rules)
  BY <1>1, AskEngineAgrees
<1>3. Agrees((flags \cup FlagsOf(first)) \cup FlagsOf(second),
             (rules \cup default.rules) \cup additional.rules)
  BY <1>2, AskEngineAgrees
<1>4. CASE first.important
  <2>1. both = first
    BY <1>4 DEF ShouldStartRequest
  <2>2. "important" \in FlagsOf(first)
    BY <1>4, FlagsOfFields
  <2>3. "important" \in rules \cup default.rules
    BY <1>2, <2>2 DEF Agrees
  <2> HIDE DEF first, both
  <2>4. Agrees(flags \cup FlagsOf(both), rules \cup default.rules \cup additional.rules)
    BY <2>1, <2>2, <2>3 DEF Agrees
  <2> QED BY <2>4 DEF both
<1>5. CASE ~first.important
  <2>1. /\ both.matched = (second.matched \/ first.matched)
        /\ both.exception = (second.exception \/ first.exception)
        /\ both.important = (second.important \/ first.important)
    BY <1>5 DEF ShouldStartRequest
  <2> HIDE DEF first, second, both
  <2>2. FlagsOf(both) = FlagsOf(first) \cup FlagsOf(second)
    BY <2>1 DEF FlagsOf
  <2> QED BY <1>3, <2>2 DEF both
<1> QED BY <1>4, <1>5

\* A stub is named by a rule of either engine, a rewritten URL only by one of the
\* additional engine (AdBlockEngineWrapper::ShouldStartRequest).
LEMMA AnswerOfEngines ==
  ASSUME NEW default \in Match, NEW additional \in Match, NEW previous
  PROVE  LET answer == ShouldStartRequest(default, additional, previous)
         IN /\ answer.redirect \in BOOLEAN
            /\ answer.redirect => default.redirect \/ additional.redirect
            /\ answer.rewritten \in {{}, additional.rewritten}
<1> DEFINE first == [AskEngine(default, previous) EXCEPT !.rewritten = {}]
           second == AskEngine(additional, previous \cup FlagsOf(first))
           answer == ShouldStartRequest(default, additional, previous)
<1>1. first.redirect = default.redirect /\ first.rewritten = {}
  BY DEF AskEngine, CheckSubset
<1>2. second.redirect = additional.redirect /\ second.rewritten = additional.rewritten
  BY DEF AskEngine, CheckSubset
<1>3. answer = first \/ (/\ answer.redirect = (second.redirect \/ first.redirect)
                        /\ answer.rewritten = second.rewritten)
  BY DEF ShouldStartRequest
<1>4. default.redirect \in BOOLEAN /\ additional.redirect \in BOOLEAN
  BY DEF Match
<1> HIDE DEF first, second, answer
<1>5. /\ answer.redirect \in BOOLEAN
      /\ answer.redirect => default.redirect \/ additional.redirect
      /\ answer.rewritten \in {{}, additional.rewritten}
  BY <1>1, <1>2, <1>3, <1>4
<1> QED BY <1>5 DEF answer

\* Flags that agree with the rules block what the rules block.
LEMMA AgreeingFlagsDecide ==
  ASSUME NEW flags, NEW rules, Agrees(flags, rules)
  PROVE  Blocks(flags) <=> BlocksByRules(rules)
BY DEF Agrees, Blocks, BlocksByRules

\* A request that is checked under its own name and, with the flags of that
\* query, under its canonical name, is blocked exactly if all rules of both
\* engines for both names, taken together, block it.
THEOREM BothNamesDecide ==
  ASSUME NEW D \in [Url -> Match], NEW A \in [Url -> Match],
         NEW u \in Url, NEW v \in Url
  PROVE  LET own == FlagsOf(ShouldStartRequest(D[u], A[u], {}))
             all == own \cup FlagsOf(ShouldStartRequest(D[v], A[v], own))
         IN /\ Blocks(own) <=> BlocksByRules(D[u].rules \cup A[u].rules)
            /\ Blocks(all) <=> BlocksByRules(D[u].rules \cup A[u].rules
                                               \cup D[v].rules \cup A[v].rules)
<1> DEFINE own == FlagsOf(ShouldStartRequest(D[u], A[u], {}))
           all == own \cup FlagsOf(ShouldStartRequest(D[v], A[v], own))
           ownRules == D[u].rules \cup A[u].rules
<1>1. Agrees({}, {})
  BY DEF Agrees
<1>2. Agrees({} \cup own, {} \cup D[u].rules \cup A[u].rules)
  BY <1>1, QueryAgrees
<1>3. Agrees(own, ownRules)
  BY <1>2
<1>4. Agrees(all, ownRules \cup D[v].rules \cup A[v].rules)
  <2> HIDE DEF own, ownRules
  <2> QED BY <1>3, QueryAgrees
<1> QED BY <1>3, <1>4, AgreeingFlagsDecide
================================================================================
