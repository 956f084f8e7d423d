-------------------------- MODULE MCRequestPipeline --------------------------
(***************************************************************************)
(* RequestPipeline for TLC: a URL for each answer the helpers tell apart.   *)
(***************************************************************************)
EXTENDS RequestPipeline, TLC

CONSTANTS plain, banned, stubbed, tracked, cloaked, spared

MCUrl == {plain, banned, stubbed, tracked, cloaked, spared}

Says(rules, redirect, rewritten) ==
  [rules |-> rules, redirect |-> redirect, rewritten |-> rewritten]

MCDefault ==
  plain :> Says({}, FALSE, {})
    @@ banned :> Says({"normal", "important"}, FALSE, {})
    @@ stubbed :> Says({"normal"}, TRUE, {})
    @@ tracked :> Says({}, FALSE, {plain})   \* ignored
    @@ cloaked :> Says({}, FALSE, {})
    @@ spared :> Says({"normal"}, TRUE, {})

MCAdditional ==
  plain :> Says({}, FALSE, {})
    @@ banned :> Says({"exception"}, FALSE, {})
    @@ stubbed :> Says({}, FALSE, {})
    @@ tracked :> Says({}, FALSE, {plain})
    @@ cloaked :> Says({}, FALSE, {})
    @@ spared :> Says({"exception"}, FALSE, {})

\* cloaked is another name of banned; spared, which has an exception, of stubbed.
MCAlias ==
  [u \in MCUrl |-> IF u = cloaked THEN {banned}
                   ELSE IF u = spared THEN {stubbed} ELSE {}]
=============================================================================
