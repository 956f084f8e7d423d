---------------------------- MODULE FilterLoading ----------------------------
(***************************************************************************)
(* How one ad-block engine gets its filter rules: the filters providers,   *)
(* AdBlockFiltersProviderManager, AdBlockService::SourceProviderObserver,  *)
(* the engine's task runner, and the DAT cache that carries a compiled     *)
(* engine over a restart.                                                  *)
(*                                                                         *)
(* The service keeps two such pipelines, one per engine, that differ only  *)
(* in their providers (SourceProviderObserver::OnChanged ignores the other *)
(* engine's notifications).  They meet in the resource provider, whose     *)
(* answers to the other pipeline are ResourcesRequestedElsewhere here.     *)
(*                                                                         *)
(* A rule list is abstracted to a version number, 0 being "no rules"; the  *)
(* content of an engine or of a DAT file is one version per provider.      *)
(***************************************************************************)
EXTENDS Naturals, Sequences

CONSTANTS
  Static,       \* providers made by the AdBlockService constructor
  Subs,         \* list subscriptions, whose providers come and go
  DATCache,     \* is the feature AdblockDATCache enabled?
  NoDAT,        \* there is no DAT file
  MaxLoads,     \* bound: filter list loads per session
  MaxEdits,     \* bound: changes of the lists
  MaxRequests,  \* bound: resource requests from outside this pipeline
  MaxRestarts   \* bound: restarts of the browser

Provider == Static \cup Subs
LoadId == 1 .. MaxLoads
Content == [Provider -> Nat]

ASSUME ConstantsAssumption ==
  /\ Static \cap Subs = {}
  /\ DATCache \in BOOLEAN
  /\ NoDAT \notin Content
  /\ MaxLoads \in Nat \ {0} /\ MaxEdits \in Nat
  /\ MaxRequests \in Nat /\ MaxRestarts \in Nat

NoRules == [p \in Provider |-> 0]

VARIABLES
  ver,         \* what each source holds now (pref or list file; on disk)
  edits,       \* the newest version handed out
  providers,   \* the manager's providers of this engine
  suppress,    \* suppress_*_engine_startup_change_notification_
  callbacks,   \* ReplaceFileCallbacks that have not run yet, per subscription
  deleting,    \* subscriptions whose directory is about to be deleted
  started,     \* the loads LoadFilterSetForEngine has started
  stage,       \* where each load is
  want,        \* the providers a load waits for (its barrier)
  read,        \* the providers whose list a load has read
  arrived,     \* the providers whose answer has reached the barrier
  got,         \* the versions a load has read
  engineQ,     \* tasks of the engine's sequenced runner
  keysQ,       \* GetKeys requests of the resource provider, in order
  postedQ,     \* answers from cached_storage_, posted in order
  cached,      \* the resource provider holds cached_storage_
  requests,    \* resource requests from outside so far
  engine,      \* the rules the engine applies
  engineLoad,  \* history: the load they come from, 0 if not from a load
  dat,         \* the DAT file on disk
  datWrites,   \* WriteDATFile tasks of the cache manager's runner
  writeFailed, \* history: the latest write left the old file in place
  datPending,  \* OnReadCachedDATFiles has not run yet
  datBuf,      \* the DAT file as the startup task read it
  unnotified,  \* history: sources changed since a load was last started
  restarts     \* restarts so far

disk == <<ver, edits, dat>>
loads == <<started, stage, want, read, arrived, got>>
sources == <<providers, suppress, callbacks, deleting>>
resources == <<keysQ, postedQ, cached, requests>>
cache == <<dat, datWrites, writeFailed>>
rules == <<engine, engineLoad>>
startup == <<datPending, datBuf>>

vars == <<ver, edits, sources, loads, engineQ, resources, rules, cache,
          startup, unnotified, restarts>>

Stages == {"idle", "collect", "build", "resources", "queued", "done", "dropped"}
Build(k) == [op |-> "build", id |-> k]
Load(k) == [op |-> "load", id |-> k]
LoadDATTask == [op |-> "dat", id |-> 0]
Task == [op : {"build", "load"}, id : LoadId] \cup {LoadDATTask}

TypeOK ==
  /\ ver \in Content /\ edits \in Nat
  /\ providers \subseteq Provider /\ suppress \in BOOLEAN
  /\ callbacks \in [Subs -> Nat] /\ deleting \subseteq Subs
  /\ started \in 0 .. MaxLoads
  /\ stage \in [LoadId -> Stages]
  /\ want \in [LoadId -> SUBSET Provider]
  /\ read \in [LoadId -> SUBSET Provider]
  /\ arrived \in [LoadId -> SUBSET Provider]
  /\ got \in [LoadId -> Content]
  /\ engineQ \in Seq(Task)
  /\ keysQ \in Seq(0 .. MaxLoads) /\ postedQ \in Seq(0 .. MaxLoads)
  /\ cached \in BOOLEAN /\ requests \in Nat
  /\ engine \in Content /\ engineLoad \in 0 .. MaxLoads
  /\ dat \in Content \cup {NoDAT} /\ datWrites \in Seq(Content)
  /\ writeFailed \in BOOLEAN
  /\ datPending \in BOOLEAN /\ datBuf \in Content \cup {NoDAT}
  /\ unnotified \subseteq Provider /\ restarts \in Nat

-----------------------------------------------------------------------------
(***************************************************************************)
(* The service's constructor.  Every static provider notifies the manager  *)
(* while it has no observer yet, which consumes the suppressed startup     *)
(* notification; the observer's own constructor then calls                 *)
(* MaybeNotifyObserver, which starts a load if there is a provider.        *)
(***************************************************************************)
FirstLoad == IF Static = {} THEN 0 ELSE 1

FirstStage == [k \in LoadId |-> IF k <= FirstLoad THEN "collect" ELSE "idle"]
FirstWant == [k \in LoadId |-> IF k <= FirstLoad THEN Static ELSE {}]
Nothing == [k \in LoadId |-> {}]

Init ==
  /\ ver = NoRules /\ edits = 0 /\ dat = NoDAT /\ restarts = 0
  /\ providers = Static /\ suppress = (DATCache /\ Static = {})
  /\ callbacks = [s \in Subs |-> 0] /\ deleting = {}
  /\ started = FirstLoad /\ stage = FirstStage /\ want = FirstWant
  /\ read = Nothing /\ arrived = Nothing /\ got = [k \in LoadId |-> NoRules]
  /\ engineQ = <<>> /\ keysQ = <<>> /\ postedQ = <<>>
  /\ cached = FALSE /\ requests = 0
  /\ engine = NoRules /\ engineLoad = 0
  /\ datWrites = <<>> /\ writeFailed = FALSE
  /\ datPending = DATCache /\ datBuf = NoDAT
  /\ unnotified = {}

\* The browser exits or crashes and comes back with the same profile.  Tasks
\* still posted are gone: the cache manager's runner skips them on shutdown.
Restart ==
  /\ restarts < MaxRestarts
  /\ restarts' = restarts + 1
  /\ providers' = Static /\ suppress' = (DATCache /\ Static = {})
  /\ callbacks' = [s \in Subs |-> 0] /\ deleting' = {}
  /\ started' = FirstLoad /\ stage' = FirstStage /\ want' = FirstWant
  /\ read' = Nothing /\ arrived' = Nothing /\ got' = [k \in LoadId |-> NoRules]
  /\ engineQ' = <<>> /\ keysQ' = <<>> /\ postedQ' = <<>>
  /\ cached' = FALSE /\ UNCHANGED requests
  /\ engine' = NoRules /\ engineLoad' = 0
  /\ datWrites' = <<>> /\ writeFailed' = FALSE
  /\ datPending' = DATCache /\ datBuf' = dat
  /\ unnotified' = {}
  /\ UNCHANGED disk

-----------------------------------------------------------------------------
(***************************************************************************)
(* Notifications and the loads they start.                                 *)
(***************************************************************************)

\* LoadFilterSetForEngine for the providers P.  st are the stages of the other
\* loads and q the engine's queue by then.  A barrier over no providers
\* completes at once.
StartLoad(P, st, q) ==
  LET k == started + 1 IN
  /\ started < MaxLoads
  /\ started' = k
  /\ want' = [want EXCEPT ![k] = P]
  /\ stage' = [st EXCEPT ![k] = IF P = {} THEN "build" ELSE "collect"]
  /\ engineQ' = IF P = {} THEN Append(q, Build(k)) ELSE q
  /\ unnotified' = {}
  /\ UNCHANGED <<read, arrived, got>>

\* AdBlockFiltersProviderManager::OnChanged once the sources D have changed and
\* the providers are P: every provider is initialized from its construction on.
OnChanged(P, D) ==
  \/ /\ suppress \/ P = {}
     /\ suppress' = (suppress /\ P = {})
     /\ unnotified' = unnotified \cup D
     /\ UNCHANGED <<loads, engineQ>>
  \/ /\ ~suppress /\ P # {}
     /\ StartLoad(P, stage, engineQ)
     /\ UNCHANGED suppress

\* ForceNotifyObserver: the list load in place of a DAT that did not load.
ForceNotifyObserver(q) ==
  \/ /\ suppress \/ providers = {}
     /\ suppress' = FALSE
     /\ engineQ' = q
     /\ UNCHANGED <<loads, unnotified>>
  \/ /\ ~suppress /\ providers # {}
     /\ StartLoad(providers, stage, q)
     /\ UNCHANGED suppress

-----------------------------------------------------------------------------
(***************************************************************************)
(* What changes the sources.                                               *)
(***************************************************************************)

\* A new version of the source p.
Write(p) ==
  /\ edits < MaxEdits
  /\ edits' = edits + 1
  /\ ver' = [ver EXCEPT ![p] = edits + 1]

UpdateCustomFilters(p) ==
  /\ p \in Static
  /\ Write(p)
  /\ OnChanged(providers, {p})
  /\ UNCHANGED <<providers, callbacks, deleting, resources, rules, cache,
                 startup, restarts>>

\* The download manager replaces a list file; its callback follows later.
ReplaceListFile(s) ==
  /\ Write(s)
  /\ callbacks' = [callbacks EXCEPT ![s] = @ + 1]
  /\ unnotified' = unnotified \cup ({s} \cap providers)
  /\ UNCHANGED <<providers, suppress, deleting, loads, engineQ, resources,
                 rules, cache, startup, restarts>>

\* OnSubscriptionDownloaded: the provider, if there is one, notifies.
OnSubscriptionDownloaded(s) ==
  /\ callbacks[s] > 0
  /\ callbacks' = [callbacks EXCEPT ![s] = @ - 1]
  /\ \/ /\ s \in providers
        /\ OnChanged(providers, {})
     \/ /\ s \notin providers
        /\ UNCHANGED <<suppress, loads, engineQ, unnotified>>
  /\ UNCHANGED <<ver, edits, providers, deleting, resources, rules, cache,
                 startup, restarts>>

\* CreateSubscription registers the provider and notifies nobody.
CreateSubscription(s) ==
  /\ s \notin providers
  /\ providers' = providers \cup {s}
  /\ unnotified' = unnotified \cup {s}
  /\ UNCHANGED <<ver, edits, suppress, callbacks, deleting, loads, engineQ,
                 resources, rules, cache, startup, restarts>>

\* EnableSubscription(s, true), and LoadSubscriptionServices for each enabled
\* subscription of the profile.
EnableSubscription(s) ==
  /\ s \notin providers
  /\ providers' = providers \cup {s}
  /\ OnChanged(providers', {s})
  /\ UNCHANGED <<ver, edits, callbacks, deleting, resources, rules, cache,
                 startup, restarts>>

\* Mutants of RemoveProvider, below: it notifies while the provider is still in
\* the set; it notifies nobody.
RemoveProviderLate(s) ==
  LET waits(k) == stage[k] = "collect" /\ s \in want[k] \ arrived[k] IN
  /\ s \in providers
  /\ providers' = providers \ {s}
  /\ started < MaxLoads
  /\ started' = started + 1
  /\ want' = [want EXCEPT ![started + 1] = providers]
  /\ stage' = [k \in LoadId |-> IF waits(k) \/ k = started + 1 THEN "dropped"
                                                          ELSE stage[k]]
  /\ unnotified' = {}
  /\ UNCHANGED <<read, arrived, got, engineQ, suppress>>

RemoveProviderSilently(s) ==
  LET waits(k) == stage[k] = "collect" /\ s \in want[k] \ arrived[k] IN
  /\ s \in providers
  /\ providers' = providers \ {s}
  /\ stage' = [k \in LoadId |-> IF waits(k) THEN "dropped" ELSE stage[k]]
  /\ unnotified' = unnotified \cup {s}
  /\ UNCHANGED <<started, want, read, arrived, got, engineQ, suppress>>

\* A provider's destructor: RemoveProvider erases it and notifies the
\* observers, suppressed or not.  A load that still waits for the provider
\* never completes, since its tasks hold weak pointers to it.
RemoveProvider(s) ==
  LET waits(k) == stage[k] = "collect" /\ s \in want[k] \ arrived[k] IN
  /\ s \in providers
  /\ providers' = providers \ {s}
  /\ StartLoad(providers \ {s},
               [k \in LoadId |-> IF waits(k) THEN "dropped" ELSE stage[k]],
               engineQ)
  /\ UNCHANGED suppress

DisableSubscription(s) ==
  /\ RemoveProvider(s)
  /\ UNCHANGED <<ver, edits, callbacks, deleting, resources, rules, cache,
                 startup, restarts>>

DeleteSubscription(s) ==
  /\ \/ RemoveProvider(s)
     \/ /\ s \notin providers
        /\ UNCHANGED <<providers, suppress, loads, engineQ, unnotified>>
  /\ deleting' = deleting \cup {s}
  /\ UNCHANGED <<ver, edits, callbacks, resources, rules, cache, startup,
                 restarts>>

\* DeletePathRecursively, posted by DeleteSubscription, runs.
DeleteListFile(s) ==
  /\ s \in deleting
  /\ deleting' = deleting \ {s}
  /\ ver' = [ver EXCEPT ![s] = 0]
  /\ unnotified' = unnotified \cup ({s} \cap providers)
  /\ UNCHANGED <<edits, providers, suppress, callbacks, loads, engineQ,
                 resources, rules, cache, startup, restarts>>

-----------------------------------------------------------------------------
(***************************************************************************)
(* The stages of a load.                                                   *)
(***************************************************************************)
unchangedByLoading ==
  <<ver, edits, sources, unnotified, started, want, startup, restarts>>

\* A mutant of Arrive: the barrier opens at the first answer.
ArriveEarly(k, p) ==
  /\ arrived' = [arrived EXCEPT ![k] = @ \cup {p}]
  /\ stage' = [stage EXCEPT ![k] = "build"]
  /\ engineQ' = Append(engineQ, Build(k))

\* The answer of provider p reaches the barrier of load k; the last one posts
\* the construction of the filter set (OnFilterSetLoaded).
Arrive(k, p) ==
  /\ arrived' = [arrived EXCEPT ![k] = @ \cup {p}]
  /\ IF arrived[k] \cup {p} = want[k]
       THEN /\ stage' = [stage EXCEPT ![k] = "build"]
            /\ engineQ' = Append(engineQ, Build(k))
       ELSE UNCHANGED <<stage, engineQ>>

Read(k, p) ==
  /\ stage[k] = "collect" /\ p \in want[k] \ read[k]
  /\ read' = [read EXCEPT ![k] = @ \cup {p}]
  /\ got' = [got EXCEPT ![k] = [@ EXCEPT ![p] = ver[p]]]

\* The UI sequence runs the posted LoadFilterSet tasks of a static provider, and
\* the answers these post, in the order in which the loads were started.
LoadStaticList(k, p) ==
  /\ p \in Static
  /\ \A j \in 1 .. k - 1 : stage[j] = "collect" /\ p \in want[j] => p \in read[j]
  /\ Read(k, p)
  /\ UNCHANGED <<stage, arrived, engineQ, unchangedByLoading, resources, rules,
                 cache>>

AnswerStaticList(k, p) ==
  /\ stage[k] = "collect"
  /\ p \in Static /\ p \in read[k] \ arrived[k]
  /\ \A j \in 1 .. k - 1 : stage[j] = "collect" /\ p \in read[j] => p \in arrived[j]
  /\ Arrive(k, p)
  /\ UNCHANGED <<read, got, unchangedByLoading, resources, rules, cache>>

\* ReadDATFileData on a pool thread: unordered, and a missing file is empty.
ReadListFile(k, s) ==
  /\ s \in Subs
  /\ Read(k, s)
  /\ UNCHANGED <<stage, arrived, engineQ, unchangedByLoading, resources, rules,
                 cache>>

\* AdBlockSubscriptionFiltersProvider::OnDATFileDataReady.
OnDATFileDataReady(k, s) ==
  /\ stage[k] = "collect"
  /\ s \in Subs /\ s \in read[k] \ arrived[k]
  /\ Arrive(k, s)
  /\ UNCHANGED <<read, got, unchangedByLoading, resources, rules, cache>>

\* AdBlockCustomResourceProvider::LoadResources for load k (0: no filter set).
\* The default provider answers at once, having no component path.
LoadResources(k) ==
  \/ /\ cached
     /\ postedQ' = Append(postedQ, k)
     /\ UNCHANGED <<keysQ, cached>>
  \/ /\ ~cached
     /\ keysQ' = Append(keysQ, k)
     /\ UNCHANGED <<postedQ, cached>>

\* The engine's runner has built the filter set; OnFilterSetCreated.
OnFilterSetCreated ==
  /\ engineQ # <<>> /\ Head(engineQ).op = "build"
  /\ LET k == Head(engineQ).id IN
     /\ stage' = [stage EXCEPT ![k] = "resources"]
     /\ LoadResources(k)
  /\ engineQ' = Tail(engineQ)
  /\ UNCHANGED <<read, arrived, got, unchangedByLoading, requests, rules, cache>>

\* OnAllLoaded and AdBlockService::OnResourcesLoaded.
OnAllLoaded(k) ==
  IF k = 0 THEN UNCHANGED <<stage, engineQ>>
  ELSE /\ stage' = [stage EXCEPT ![k] = "queued"]
       /\ engineQ' = Append(engineQ, Load(k))

\* OnCustomResourcesLoaded: the storage is cached and handed to its requester.
OnCustomResourcesLoaded ==
  /\ keysQ # <<>>
  /\ cached' = TRUE
  /\ OnAllLoaded(Head(keysQ))
  /\ keysQ' = Tail(keysQ)
  /\ UNCHANGED <<read, arrived, got, unchangedByLoading, postedQ, requests,
                 rules, cache>>

\* The answer LoadResources posted from the cached storage.
OnCachedResources ==
  /\ postedQ # <<>>
  /\ OnAllLoaded(Head(postedQ))
  /\ postedQ' = Tail(postedQ)
  /\ UNCHANGED <<read, arrived, got, unchangedByLoading, keysQ, cached, requests,
                 rules, cache>>

\* ReloadResourcesAndNotify after an edit of the custom resources, or a
\* request of the other engine's pipeline.
ResourcesRequestedElsewhere(edited) ==
  /\ requests < MaxRequests
  /\ edited \/ ~cached
  /\ requests' = requests + 1
  /\ cached' = FALSE
  /\ keysQ' = Append(keysQ, 0)
  /\ UNCHANGED <<stage, read, arrived, got, engineQ, unchangedByLoading, postedQ,
                 rules, cache>>

\* A mutant of LoadEngine: the engine is serialized before it loads the lists.
LoadEngineSerializedEarly ==
  /\ engineQ # <<>> /\ Head(engineQ).op = "load"
  /\ LET k == Head(engineQ).id IN
     /\ stage' = [stage EXCEPT ![k] = "done"]
     /\ engine' = got[k]
     /\ engineLoad' = k
     /\ datWrites' = IF DATCache THEN Append(datWrites, engine) ELSE datWrites
  /\ engineQ' = Tail(engineQ)
  /\ UNCHANGED <<read, arrived, got, unchangedByLoading, resources, dat,
                 writeFailed>>

\* AdBlockEngineWrapper::Load and, in the same task, Serialize; OnEngineLoaded
\* then posts the DAT to the cache manager's runner.
LoadEngine ==
  /\ engineQ # <<>> /\ Head(engineQ).op = "load"
  /\ LET k == Head(engineQ).id IN
     /\ stage' = [stage EXCEPT ![k] = "done"]
     /\ engine' = got[k]
     /\ engineLoad' = k
     /\ datWrites' = IF DATCache THEN Append(datWrites, got[k]) ELSE datWrites
  /\ engineQ' = Tail(engineQ)
  /\ UNCHANGED <<read, arrived, got, unchangedByLoading, resources, dat,
                 writeFailed>>

\* WriteFileAtomically: the file is replaced as a whole or not at all.
WriteDATFile(ok) ==
  /\ datWrites # <<>>
  /\ dat' = IF ok THEN Head(datWrites) ELSE dat
  /\ writeFailed' = ~ok
  /\ datWrites' = Tail(datWrites)
  /\ UNCHANGED <<stage, read, arrived, got, engineQ, unchangedByLoading,
                 resources, rules>>

-----------------------------------------------------------------------------
(***************************************************************************)
(* The cached DAT at startup.                                              *)
(***************************************************************************)

\* A mutant: a missing file is loaded like any other.
OnReadCachedDATFilesUnchecked ==
  /\ datPending
  /\ datPending' = FALSE
  /\ engineQ' = Append(engineQ, LoadDATTask)
  /\ LoadResources(0)
  /\ UNCHANGED <<suppress, loads, unnotified, ver, edits, providers, callbacks,
                 deleting, requests, rules, cache, datBuf, restarts>>

OnReadCachedDATFiles ==
  /\ datPending
  /\ datPending' = FALSE
  /\ \/ /\ datBuf # NoDAT
        /\ engineQ' = Append(engineQ, LoadDATTask)
        /\ LoadResources(0)
        /\ UNCHANGED <<suppress, loads, unnotified>>
     \/ /\ datBuf = NoDAT
        /\ ForceNotifyObserver(engineQ)
        /\ UNCHANGED <<keysQ, postedQ, cached>>
  /\ UNCHANGED <<ver, edits, providers, callbacks, deleting, requests, rules,
                 cache, datBuf, restarts>>

\* AdBlockEngineWrapper::LoadDAT, and OnDATLoaded.  A DAT written by another
\* version of the library does not deserialize: the old engine stays.
LoadDAT(ok) ==
  /\ engineQ # <<>> /\ Head(engineQ).op = "dat"
  /\ \/ /\ ok
        /\ engine' = datBuf /\ engineLoad' = 0
        /\ engineQ' = Tail(engineQ)
        /\ UNCHANGED <<suppress, loads, unnotified>>
     \/ /\ ~ok
        /\ ForceNotifyObserver(Tail(engineQ))
        /\ UNCHANGED rules
  /\ UNCHANGED <<ver, edits, providers, callbacks, deleting, resources, cache,
                 startup, restarts>>

-----------------------------------------------------------------------------
Environment ==
  \/ \E p \in Static : UpdateCustomFilters(p)
  \/ \E s \in Subs : \/ ReplaceListFile(s) \/ OnSubscriptionDownloaded(s)
                     \/ CreateSubscription(s) \/ EnableSubscription(s)
                     \/ DisableSubscription(s) \/ DeleteSubscription(s)
                     \/ DeleteListFile(s)
  \/ \E edited \in BOOLEAN : ResourcesRequestedElsewhere(edited)

\* The steps the task runners take by themselves.
LoadStep(k) ==
  \E p \in Provider :
    \/ LoadStaticList(k, p) \/ AnswerStaticList(k, p)
    \/ ReadListFile(k, p) \/ OnDATFileDataReady(k, p)

EngineStep ==
  \/ OnFilterSetCreated \/ LoadEngine
  \/ \E ok \in BOOLEAN : LoadDAT(ok)

Next ==
  \/ Environment
  \/ \E k \in LoadId : LoadStep(k)
  \/ EngineStep
  \/ OnCustomResourcesLoaded \/ OnCachedResources
  \/ OnReadCachedDATFiles
  \/ \E ok \in BOOLEAN : WriteDATFile(ok)
  \/ Restart

Spec == Init /\ [][Next]_vars

\* Task runners run what was posted to them; nobody has to edit anything.
Fairness ==
  /\ \A k \in LoadId : WF_vars(LoadStep(k))
  /\ WF_vars(EngineStep)
  /\ WF_vars(OnCustomResourcesLoaded) /\ WF_vars(OnCachedResources)
  /\ WF_vars(OnReadCachedDATFiles)

FairSpec == Spec /\ Fairness

-----------------------------------------------------------------------------
(***************************************************************************)
(* Safety.                                                                 *)
(***************************************************************************)

\* What the sources say the engine should apply: registered providers only.
Current == [p \in Provider |-> IF p \in providers THEN ver[p] ELSE 0]

\* Destroying a provider kills every load whose barrier still waits for it;
\* RemoveProvider makes up for that by starting another load after the provider
\* has left the set.  So the load started last is never a dead one.
LatestLoadAlive == started > 0 => stage[started] # "dropped"

\* No change is lost on the way to the load that follows it: an engine that
\* applies the load started last applies exactly what the registered sources
\* hold, but for sources that have changed without a notification since.
LatestLoadIsCurrent ==
  started > 0 /\ engineLoad = started =>
    \A p \in Provider \ unnotified : engine[p] = Current[p]

\* Serialize runs in the task that loads the lists and both runners keep their
\* order, so when no write is pending or failed the DAT file holds the rules of
\* the engine that was compiled last, although loads overtake one another.
DATMatchesEngine ==
  DATCache /\ engineLoad > 0 /\ datWrites = <<>> /\ ~writeFailed =>
    dat = engine

-----------------------------------------------------------------------------
(***************************************************************************)
(* The inductive invariant behind these, conjunct by conjunct.             *)
(***************************************************************************)

\* Load k has passed its barrier.
Ready(k) == k <= started /\ stage[k] \notin {"idle", "collect", "dropped"}

\* Only loads past their barrier are on their way to the engine, and a DAT
\* only if there was one.
TaskOK(t) == IF t.op = "dat" THEN datBuf # NoDAT ELSE Ready(t.id)
RequestOK(k) == k # 0 => Ready(k)

QueueInv ==
  /\ \A i \in 1 .. Len(engineQ) : TaskOK(engineQ[i])
  /\ \A i \in 1 .. Len(keysQ) : RequestOK(keysQ[i])
  /\ \A i \in 1 .. Len(postedQ) : RequestOK(postedQ[i])

\* A load holds rules of providers it asked for, and all of them once Ready.
LoadInv(k) ==
  /\ k > started => stage[k] = "idle" /\ read[k] = {}
  /\ arrived[k] \subseteq read[k] /\ read[k] \subseteq want[k]
  /\ Ready(k) => read[k] = want[k]
  /\ \A p \in Provider \ read[k] : got[k][p] = 0

\* The load started last has asked the providers there are now, and what it
\* has read is what they hold now, but for sources changed without notice.
LatestInv ==
  started > 0 =>
    /\ stage[started] \notin {"idle", "dropped"}
    /\ want[started] \ unnotified = providers \ unnotified
    /\ \A p \in read[started] \ unnotified : got[started][p] = ver[p]

EngineInv ==
  engineLoad > 0 => Ready(engineLoad) /\ engine = got[engineLoad]

DATInv ==
  DATCache /\ engineLoad > 0 =>
    IF datWrites = <<>> THEN writeFailed \/ dat = engine
                        ELSE datWrites[Len(datWrites)] = engine

Inv ==
  /\ QueueInv
  /\ \A k \in LoadId : LoadInv(k)
  /\ LatestInv /\ EngineInv /\ DATInv

IInv == TypeOK /\ Inv

-----------------------------------------------------------------------------
(***************************************************************************)
(* Liveness: every load that was started comes into force, or a later one  *)
(* does, unless the program ends meanwhile; the barrier of a destroyed     *)
(* provider strands nobody.                                                *)
(***************************************************************************)
EveryLoadServed ==
  \A k \in LoadId :
    started >= k ~> started < k \/ \E j \in k .. MaxLoads : stage[j] = "done"

-----------------------------------------------------------------------------
(***************************************************************************)
(* A statement of the sources' comments that the code does not keep.       *)
(***************************************************************************)

\* Nothing is on its way to the engine or to the notifications.
Quiescent ==
  /\ \A k \in LoadId : stage[k] \in {"idle", "done", "dropped"}
  /\ engineQ = <<>> /\ ~datPending /\ unnotified = {}

\* "Any enabled list will be queried during network requests and page loads,
\* otherwise it will be bypassed" (ad_block_subscription_service_manager.h).
EnabledListsQueried ==
  Quiescent => \A s \in Subs : (engine[s] # 0) <=> (Current[s] # 0)
=============================================================================
