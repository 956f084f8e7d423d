---------------------------- MODULE EngineWrapper ----------------------------
(***************************************************************************)
(* How the answers of the two engines to a request are put together:       *)
(* AdBlockEngineWrapper::ShouldStartRequest, the engine's own method, and  *)
(* the flags a request collects over its queries.  Likewise the content    *)
(* security policies of a document.                                        *)
(*                                                                         *)
(* A Match is what the rules of one engine have to say of one URL.         *)
(***************************************************************************)

CONSTANT Url

Rule == {"normal", "exception", "important"}
Match == [rules : SUBSET Rule, redirect : BOOLEAN, rewritten : SUBSET Url]

\* BlockerResult: redirect and rewritten_url, as far as they are there.
Result ==
  [matched : BOOLEAN, exception : BOOLEAN, important : BOOLEAN,
   redirect : BOOLEAN, rewritten : SUBSET Url]

\* EngineFlags, the previous_* of a query.
Flag == {"rule", "exception", "important"}
FlagsOf(r) ==
  {f \in Flag : \/ f = "rule" /\ r.matched
                \/ f = "exception" /\ r.exception
                \/ f = "important" /\ r.important}

\* check_network_request_subset of adblock-rust: important rules are always
\* looked up and beat exceptions; normal rules only if none is known, exceptions
\* if there is something to except, or if forced.
CheckSubset(m, matchedRule, force) ==
  LET important == "important" \in m.rules
      filter == important \/ ("normal" \in m.rules /\ ~matchedRule)
      exception == /\ "exception" \in m.rules /\ ~important
                   /\ filter \/ matchedRule \/ force
  IN [matched |-> (filter \/ matchedRule) /\ ~exception,
      exception |-> exception, important |-> important,
      redirect |-> m.redirect, rewritten |-> m.rewritten]

\* AdBlockEngine::ShouldStartRequest.
AskEngine(m, previous) ==
  CheckSubset(m, "rule" \in previous \/ "exception" \in previous,
                 "exception" \notin previous)

\* AdBlockEngineWrapper::ShouldStartRequest.  The URL the default engine would
\* rewrite is ignored.
ShouldStartRequest(default, additional, previous) ==
  LET first == [AskEngine(default, previous) EXCEPT !.rewritten = {}]
      second == AskEngine(additional, previous \cup FlagsOf(first))
  IN IF first.important
     THEN first
     ELSE [matched |-> second.matched \/ first.matched,
           exception |-> second.exception \/ first.exception,
           important |-> second.important \/ first.important,
           redirect |-> second.redirect \/ first.redirect,
           rewritten |-> second.rewritten]

\* MergeCspDirectiveInto, for sets of policies: policies are joined by commas,
\* and no set of directives is the empty one.
MergeCspDirectiveInto(from, into) == into \cup from

\* AdBlockEngine::GetCspDirectives: no directives, or those of the engine's rules.
EngineDirectives(rules) == {{}, {rules}}

\* AdBlockEngineWrapper::GetCspDirectives, the answers it may give.
GetCspDirectives(default, additional) ==
  {MergeCspDirectiveInto(a, d) :
     a \in EngineDirectives(additional), d \in EngineDirectives(default)}

\* ShouldBlockRequestOnTaskRunner, of the flags that have been collected.
Blocks(flags) ==
  "important" \in flags \/ ("rule" \in flags /\ "exception" \notin flags)

\* The reference: all the rules of both lists, for all names of a request, in
\* one set.  Important rules beat exceptions, exceptions beat the others.
BlocksByRules(rules) ==
  "important" \in rules \/ ("normal" \in rules /\ "exception" \notin rules)
=============================================================================
