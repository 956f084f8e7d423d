--------------------------- MODULE MCCosmeticFrame ---------------------------
(***************************************************************************)
(* CosmeticFrame for TLC: a page whose rules except a name, and two pages  *)
(* that one engine keeps from generic hiding, of which one has procedural  *)
(* actions, some from each engine.                                         *)
(***************************************************************************)
EXTENDS CosmeticFrame

CONSTANTS
  lenient, bare, quiet,  \* URLs
  ad, box                \* names

MCUrl == {lenient, bare, quiet}
MCName == {ad, box}
MCDefaultGeneric == {ad}
MCForcedGeneric == {ad, box}

Dict(except, actions, generic) ==
  [hide_selectors |-> {}, exceptions |-> except, procedural_actions |-> actions,
   injected_script |-> {}, generichide |-> generic]

MCDefault ==
  [u \in MCUrl |-> Dict({}, IF u = bare THEN {"style"} ELSE {}, FALSE)]

MCAdditional ==
  [u \in MCUrl |->
     Dict(IF u = lenient THEN {ad} ELSE {}, IF u = bare THEN {"procedural"} ELSE {}, u # lenient)]
=============================================================================
