---------------------------- MODULE CosmeticRules ----------------------------
(***************************************************************************)
(* The cosmetic rules of a page: what the two engines say, how             *)
(* AdBlockEngineWrapper merges it and what CosmeticFiltersResources hands  *)
(* to the renderer.                                                        *)
(*                                                                         *)
(* A dictionary is a function from the keys it has.  Its lists are sets    *)
(* (nothing here depends on their order, nor on repetitions) and the       *)
(* injected script is the set of its parts, each of which runs in a block  *)
(* of its own.                                                             *)
(***************************************************************************)

\* A Dict of adblock-rust has all of these keys.
EngineKey ==
  {"hide_selectors", "exceptions", "procedural_actions", "injected_script", "generichide"}

List(dict, key) == IF key \in DOMAIN dict THEN dict[key] ELSE {}
Flag(dict, key) == IF key \in DOMAIN dict THEN dict[key] ELSE FALSE

\* AdBlockEngine::UrlCosmeticResources: an answer that does not parse, which is
\* not a dictionary here, counts as an empty one.
EngineResources(answer) ==
  IF EngineKey \subseteq DOMAIN answer THEN answer ELSE [key \in {} |-> {}]

Appended == {"exceptions", "procedural_actions", "injected_script"}

\* A mutant of MergeResourcesInto: only the selectors and generichide are merged.
MergeResourcesIntoNoLists(from, into) ==
  [key \in DOMAIN into \cup {"force_hide_selectors"}
             \cup {k \in {"generichide"} : Flag(from, k)} |->
     CASE key = "force_hide_selectors" -> List(into, key) \cup List(from, "hide_selectors")
       [] key = "generichide" -> Flag(into, key) \/ Flag(from, key)
       [] OTHER -> into[key]]

\* MergeResourcesInto, with force_hide, as its only caller has it.  Whatever
\* is appended needs its key in both.
MergeResourcesInto(from, into) ==
  [key \in DOMAIN into \cup {"force_hide_selectors"}
             \cup {k \in {"generichide"} : Flag(from, k)} |->
     CASE key = "force_hide_selectors" -> List(into, key) \cup List(from, "hide_selectors")
       [] key = "generichide" -> Flag(into, key) \/ Flag(from, key)
       [] key \in Appended -> into[key] \cup List(from, key)
       [] OTHER -> into[key]]

\* AdBlockEngineWrapper::UrlCosmeticResources.
WrapperResources(default, additional) ==
  MergeResourcesInto(EngineResources(additional), EngineResources(default))

\* CosmeticFiltersResources::UrlCosmeticResources: the list of actions leaves as
\* a script.
UrlCosmeticResources(default, additional) ==
  LET merged == WrapperResources(default, additional)
      actions == List(merged, "procedural_actions")
  IN [key \in (DOMAIN merged \ {"procedural_actions"})
                \cup {k \in {"procedural_actions_script"} : actions # {}} |->
        IF key = "procedural_actions_script" THEN actions ELSE merged[key]]

\* kProceduralActionsScript: what is only a style becomes part of a stylesheet,
\* and the rest is for the page's script.
ProceduralFilters(actions) == actions \ {"style"}

\* AdBlockEngine::HiddenClassIdSelectors, of an engine with these generic rules.
\* A selector is named as the class or id it hides.
EngineSelectors(generic, names, exceptions) == (names \cap generic) \ exceptions

\* AdBlockEngineWrapper::HiddenClassIdSelectors.
WrapperSelectors(default, additional, names, exceptions) ==
  [hide_selectors |-> EngineSelectors(default, names, exceptions),
   force_hide_selectors |-> EngineSelectors(additional, names, exceptions)]
=============================================================================
