---------------------------- MODULE CosmeticFrame ----------------------------
(***************************************************************************)
(* The cosmetic filters of a frame: CosmeticFiltersJsRenderFrameObserver   *)
(* tells the handler of the documents the frame loads, the handler gets    *)
(* their rules from the browser and applies them, and so starts the script *)
(* of a document, whose questions go through the handler.                  *)
(*                                                                         *)
(* Documents, their elements and the browser process are external.         *)
(***************************************************************************)
EXTENDS CosmeticScript

vars == <<handlerVars, pipeVars, frameVars, history, scriptVars>>

TypeOK == HandlerTypeOK /\ ScriptTypeOK

Init == HandlerInit /\ ScriptInit

-----------------------------------------------------------------------------

\* A mutant of SchemeIsHTTPOrHTTPS: every URL is asked about.
AnyScheme(u) == TRUE

SchemeIsHTTPOrHTTPS(u) == u # None

\* DidStartNavigation and ReadyToCommitNavigation, with which the document
\* changes.  url_ is read nowhere else, and the navigation that commits is the
\* last that started.  about:blank takes the origin of the document it replaces;
\* other: neither that nor http(s).
ReadyToCommitNavigation ==
  \E u \in Url \cup {"about:blank", "other"} :
    /\ load < MaxLoads
    /\ load' = load + 1
    /\ url' = CASE u = "about:blank" -> url [] u = "other" -> None [] OTHER -> u
    /\ waiting' = 0
    /\ IF SchemeIsHTTPOrHTTPS(url')
       THEN ready' = sync /\ ProcessURL(url', load')
       ELSE ready' = FALSE /\ UNCHANGED <<resources, calls>>
    /\ world' = FALSE /\ applied' = {} /\ inserted' = {}
    /\ UNCHANGED <<generichide, exceptions, injected, sync, connected>>
    /\ NewDocument

\* A mutant of AddJavaScriptObjectToFrame: what has been injected once is kept.
AddJavaScriptObjectToFrameOnly == injected

\* DidCreateScriptContext and AddJavaScriptObjectToFrame, for the isolated world
\* of this document if it is not there: bundle_injected_ after that.
AddJavaScriptObjectToFrame == injected /\ world

\* ExecuteObservingBundleEntryPoint, when generic is CC.generichide.
ExecuteObservingBundleEntryPoint(generic) ==
  LET run == ~AddJavaScriptObjectToFrame
  IN /\ injected' = TRUE
     /\ loaded' = (loaded \/ run)
     /\ IF loaded \/ run
        THEN TryScheduleQueuePump(generic)
        ELSE UNCHANGED <<started, checking, occurred, pump, delayed>>

\* CSSRulesRoutine: the exceptions stay, for this document and the next ones.
CSSRulesRoutine(dict) ==
  /\ exceptions' = exceptions \cup List(dict, "exceptions")
  /\ applied' = applied \cup {resources}

\* ApplyRules.
ApplyRules ==
  IF resources = None
  THEN UNCHANGED <<handlerVars, applied, startVars>>
  ELSE LET dict == Resources[resources]
           generic == IF ccGeneric = {} THEN {Flag(dict, "generichide")} ELSE ccGeneric
           filters == ProceduralFilters(List(dict, "procedural_actions_script"))
       IN /\ generichide' = Flag(dict, "generichide")
          /\ world' = TRUE
          /\ ccGeneric' = generic
          /\ procedural' = IF "procedural_actions_script" \in DOMAIN dict
                           THEN filters # {} ELSE procedural
          /\ ExecuteObservingBundleEntryPoint(generic)
          /\ CSSRulesRoutine(dict)
          /\ UNCHANGED resources

\* What neither ApplyRules nor its callers change.
ApplyRulesKeeps ==
  UNCHANGED <<sync, load, url, ready, pipeVars, inserted,
              dom, records, queueVars, watchVars, timeout>>

\* RunScriptsAtDocumentStart, again if the document is opened again.
RunScriptsAtDocumentStart ==
  /\ load > 0
  /\ IF ready
     THEN ApplyRules /\ UNCHANGED waiting
     ELSE /\ waiting < MaxWaiting /\ waiting' = waiting + 1
          /\ UNCHANGED <<handlerVars, applied, startVars>>
  /\ ApplyRulesKeeps

\* ApplyRules, which ready_ posts when it is signalled.
RunApplyRules ==
  /\ ready /\ waiting > 0
  /\ waiting' = waiting - 1
  /\ ApplyRules
  /\ ApplyRulesKeeps

\* LaunchContentPicker: a script in the isolated world, which may be the first.
LaunchContentPicker ==
  /\ load > 0 /\ ~world
  /\ world' = TRUE /\ injected' = AddJavaScriptObjectToFrame
  /\ UNCHANGED <<resources, generichide, exceptions, frameVars, pipeVars, history, scriptVars>>

FromBrowser == OnUrlCosmeticResources \/ OnHiddenClassIdSelectors \/ OnRemoteDisconnect

Next ==
  \/ ReadyToCommitNavigation \/ RunScriptsAtDocumentStart \/ RunApplyRules
  \/ LaunchContentPicker
  \/ (FromBrowser \/ Disconnect) /\ UNCHANGED scriptVars
  \/ Appear \/ Disappear
  \/ OnMutations \/ OnThrottleTimeout \/ OnInterval
  \/ OnIdle \/ OnFirstSelectors

Spec == Init /\ [][Next]_vars

\* Tasks of the page's event loop run, and its timers.
FairSpec ==
  /\ Spec
  /\ WF_vars(OnMutations) /\ WF_vars(OnThrottleTimeout) /\ WF_vars(OnInterval)
  /\ WF_vars(OnIdle) /\ WF_vars(OnFirstSelectors)

-----------------------------------------------------------------------------
\* Properties.

\* The rules that a document is given are those of its own URL, also when the
\* replies for earlier documents of the frame come in after it has replaced them.
RulesOfTheirDocument == applied \subseteq {url}

\* The answers to a document's own questions hide nothing that the rules of either
\* engine except for its URL, though the script is started before the handler has
\* taken up those exceptions.
ExceptionsKept ==
  \A s \in inserted :
    s.load = load =>
      s.hides \notin List(Default[url], "exceptions") \cup List(Additional[url], "exceptions")

\* A document is watched once: by one observer or by one interval, never by both,
\* however often its rules are applied and its script is started.
WatchedOnce == observers + (IF interval THEN 1 ELSE 0) <= 1

\* A name that stays in a document whose rules have been applied, and are not
\* against it, is asked for, whatever the script was doing when it came.
EveryNameAsked ==
  \A k \in 1..MaxLoads, n \in Name :
    (load = k /\ n \in dom /\ applied # {} /\ ~generichide)
      ~> (load # k \/ n \notin dom \/ n \in queried \ (queue \cup elements))

\* The observer's comment on its weak pointers: nothing comes back from the load
\* of an earlier URL.  The answers to the questions of its script do.
NothingFromEarlierLoads == \A s \in inserted : s.load = load
=============================================================================
