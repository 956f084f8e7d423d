# A verification development for chromium-adblock

The repository adds an ad blocker to Chromium: C++ services in the browser
process around the Rust library adblock-rust, hooks in the network layer, and a
renderer agent with two scripts.  This directory holds TLA+ models of its
control flow, TLC configurations, and TLAPS proofs.  Paths below are relative to
`src/src/` unless they start with `core.patch`; `brave_shields/` stands for
`components/brave_shields/`.

## 1. Inventory

| Component | State it keeps | Operations | What makes it correct |
|---|---|---|---|
| Filter list pipeline (`brave_shields/core/browser/ad_block_filters_provider*`, `brave_shields/content/browser/ad_block_service.cc`, the three providers) | the providers of each engine, the suppressed startup notification, loads in flight behind a barrier, tasks of the engine's runner | register, destroy, notify, load a filter set, compile, load, serialize | no change is lost; a destroyed provider strands nobody; the engine ends up with what the sources hold |
| DAT cache (`ad_block_dat_cache_manager.cc`) | one file per engine | read at startup, write after a compilation | the file is the engine compiled last; a restart never mixes two engines |
| Subscriptions (`ad_block_subscription_service_manager.cc`, `ad_block_subscription_download_*`) | the subscription dictionary in Local State and its cached copy, providers, downloads in flight, files, two timers | create, enable, disable, delete, refresh, scheduled update, download result, metadata | providers follow the dictionary; nothing late brings a deleted entry back; recorded attempts are what a download did; expired lists are fetched again |
| Resource providers (`ad_block_default_resource_provider.cc`, `ad_block_custom_resource_provider.cc`) | a value store of resource lists per key, the cached storage | add, update, remove a resource or a key; load; reload and notify | edits are not lost; the storage handed out is never older than an edit answered before |
| Engine and wrapper (`ad_block_engine.cc`, `ad_block_engine_wrapper.cc`, `core/common/adblock/rs`) | two engines, resources, discard policy | match, CSP, cosmetic resources, class and id selectors, load, serialize | the two answers are merged so that exceptions, redirects and important rules win as documented |
| Request handling (`chrome/browser/net`: request handler, proxying loader factory, ad-block helper, CNAME query) | one context per request, callbacks by request id, the state machine of an in-flight request | start, redirect, headers, response, cancel, mock response | every stage continues exactly once; a destroyed request is never continued |
| WebSocket proxy (`brave_proxying_web_socket.cc`) | the handshake's state machine | start, redirect, headers, auth, error | one answer per handshake |
| Domain blocking (`domain_block_*`) | one flag per tab | throttle, interstitial, proceed | a page the user accepted is loaded once and the flag does not outlive it |
| Cosmetic filters (`components/cosmetic_filters/renderer`, `cosmetic_filters_resources.cc`, `content_cosmetic.ts`) | resources of the frame's URL, queried names, exceptions, observers | process a URL, run scripts, query classes and ids, hide, run procedural filters | the rules of one document are never applied to another |
| Element picker (`element_picker.ts`, tab helper) | the selected elements and rules | launch, target, create a rule, quit | the page is restored |
| Ad-block page (`brave_adblock_ui.cc`, `brave_adblock.js`) | none of its own: it observes the service | read and edit settings | what it shows follows the services |
| Helpers (`url_context.cc`, `brave_shields_utils.cc`, stub responses, devtools instrumentation, prefs) | none | conversions | |

How they interact.  All services live on the UI sequence.  `AdBlockService` owns
two `SourceProviderObserver`s, one per engine; each is notified through the
provider manager, collects the rule lists behind a barrier, has them compiled on
the engine's own sequenced runner, asks the resource provider for resources, and
posts the result to that runner again.  Subscriptions come and go as providers.
The network hooks and the cosmetic filters service post their queries to the same
runner and get their answers as replies on the UI sequence.  The DAT cache and
the value store each have a runner of their own; list files are read and deleted
on unsequenced pool threads.  The renderer agent talks to the browser over Mojo.

What is hard.  Every arrow above is a posted task, so a handler sees state that
has moved on since the task was posted: providers destroyed during a load, loads
that overtake one another, caches filled by an answer older than the edit that
reset them, list files replaced or deleted beneath a read, downloads that finish
after their subscription was deleted, requests destroyed while a DNS answer is
on its way, and navigations that pass a reply of the old document.
`PROJECT.json` lists these hazards at their lines.

## 2. Plan

1. `FilterLoading` (done): the pipeline and the DAT cache; proofs in `FilterLoadingProofs`.
2. `Subscriptions` (done): the service manager, the download manager, the files,
   shown to implement `DownloadRecord`; proofs in `SubscriptionsProofs`.
3. `CustomResources` (done): read-modify-write over the value store, the cached
   storage; proofs in `CustomResourcesProofs`.
4. `RequestPipeline` (done) over `EngineWrapper`, shown to implement `LoaderClient`;
   proofs in `EngineWrapperProofs` and `RequestPipelineProofs`.
5. `WebSocketProxy` (done), shown to implement `Handshake`; proofs in
   `WebSocketProxyProofs`.
6. `DomainBlock` (done), over `EngineWrapper` as well; proofs in `DomainBlockProofs`.
7. `CosmeticRules`, `CosmeticHandler`, `CosmeticScript` and `CosmeticFrame` (done),
   each extending the one before; proofs in `CosmeticFrameProofs`.
8. Every safety property and all three refinements that the runs check are proved.  Still
   to come: action properties that say more than the invariants do of one step, such
   as which edit may take a resource out of the store, and when the
   rules of a document may change; and lemmas on `Merged` and `ShouldStartRequest`
   that more than one module can use.
9. Composition of `FilterLoading` with `Subscriptions` and `CustomResources`.  Each
   of them alone is near what TLC can visit, so this waits for an abstraction of
   `FilterLoading`, proved first.

Runs stay within three minutes each, and a module has one run for all that should
hold of it.

## 3. FilterLoading

One engine's way to its rules.  The two pipelines of the service differ only in
their providers and ignore each other's notifications, so one is modelled, and
what the other does to the shared resource provider is `ResourcesRequestedElsewhere`.

| Code | Model |
|---|---|
| provider sets of `AdBlockFiltersProviderManager` | `providers`, `suppress` |
| `OnChanged`, `ForceNotifyObserver`, `RemoveProvider` | operators of these names, used by the actions whose handlers call them |
| `LoadFilterSetForEngine` and its barrier | `started`, `stage`, `want`, `read`, `arrived`, `got`; `StartLoad`, `Arrive` |
| the providers' `LoadFilterSet` | `LoadStaticList` and `AnswerStaticList` (a posted answer), `ReadListFile` and `OnDATFileDataReady` (a file read in the pool) |
| the engine's runner | `engineQ`: `OnFilterSetCreated`, `LoadEngine`, `LoadDAT` |
| `AdBlockCustomResourceProvider::LoadResources` | `keysQ` (through the value store), `postedQ` (from `cached_storage_`), `cached` |
| DAT cache | `dat`, `datBuf`, `datWrites`, `WriteDATFile`, `OnReadCachedDATFiles` |
| profile on disk | `ver`, `dat`, `edits`, which `Restart` keeps |

Atomicity.  A task of the engine's runner and its reply on the UI sequence are one
step (`OnFilterSetCreated`, `LoadEngine`, `LoadDAT`): the reply only posts further
work or starts a load, replies keep the order of their tasks, and nothing else
reads what the task changed before the reply runs.  A "pending write" of a DAT
therefore includes the reply that posts it.  `ReadListFile` is the read in the
pool together with the posting of its answer.  Loads that carry nothing but
resources change no rules and are left out here.

A list is a version number, so "the engine applies what the sources hold" is an
equality of functions from providers to versions.

Runs.
- `filter` (one subscription, 2 loads, 1 edit, 1 request from the other pipeline,
  1 restart): a load overtaken by another, a subscription that comes and goes while
  it is being read, the DAT read with its fallback and its write before and after a
  restart.  It shows that the newest load is never stranded, that when it is in force
  the engine applies what the registered sources hold (but for changes nobody was
  notified of yet), that the DAT file is the engine compiled last, and that every
  load that was started, or a later one, comes into force, although a destroyed
  provider never answers its barrier.  The three invariants and the invariant they
  follow from are proved for any number of loads, edits and subscriptions (section
  11); the small instance is for the liveness property, and to keep the invariant
  honest.
- `find_lists`: section 12.

## 4. Subscriptions

| Code | Model |
|---|---|
| the dictionary in Local State and on disk; `subscriptions_` | `prefs`, `saved`; `synced`, as the copy is either whole or empty |
| `download_manager_`, `is_available_for_downloads_` | `manager`; its four values are the late profile, the service's two answers, and the profile's end |
| `subscription_filters_providers_` | `providers` |
| downloads of the download service and of the manager | `job`, one stage per posted task; slots are not ordered, as nothing depends on the order of tasks of two downloads |
| directory and list file | `dir`, `list`; `deletions` counts `DeletePathRecursively` tasks, which are unsequenced |
| the page | `Page`; `rows` are the URLs some open page may list, deleted ones on a stale page too |

`last_update_attempt` and `last_successful_update_attempt` are abstracted to what
the code compares: whether both are null, differ or agree, and how many of the two
thresholds (one day, seven days) have passed.  `EnableSubscription` is modelled
under the preconditions its `DCHECK`s state; the page of this repository never
sends that message, the handler is there.  Chromium's download service is
external: it accepts or refuses a download, ends an accepted one one way or the
other, and after a restart reports downloads whose guid nobody knows.  A crash
loses what the preference service has not committed; an exit commits, and waits
for deletions, which block shutdown.

Outcomes are recorded by URL: `OnSubscriptionDownloaded` and
`OnSubscriptionDownloadFailure` look for the entry the URL has when they are called,
which may be that of a later subscription, and nothing tells them whose download it
was.  So a success of an outlived download is recorded for a subscription that has
not downloaded anything itself; what can be promised is that the record is true of
some download of that URL.  `DownloadRecord` is this promise, as a specification of
its own: a download that was accepted does not end unrecorded, the entry its URL has
then records a success exactly if this download has put the list in place, and nothing
else changes the record but subscribing, unsubscribing and a crash.  Once the profile
has ended, a file may still be put in place that nobody hears of.  `Subscriptions`
implements it under the mapping at its end (`Record`, `Progress`, `Download`).

A download the service refuses is not an attempt (`OnDownloadStarted` does nothing
then), however often that happens.  `DueIsAttempted` therefore has a premise: from some
point on the service refuses no download of the URL.  And it promises an attempt only
to a list that stays due: a metadata callback may say that it expires later.

Runs.
- `subs` (1 URL, 2 downloads at a time, 3 clicks or restarts in all; refusals, metadata
  callbacks, ticks and commits are unbounded): creating, deleting and creating again
  takes three clicks, and then downloads, deletions and callbacks of the first
  subscription meet the second; the second slot gives a download a rival, of its own
  subscription or of the earlier one.  A restart in the place of a click brings the
  dictionary back with the files changed.  It has about 676,000 states, and shows the
  refinement and the safety properties, with the invariant they are proved from for any
  number of URLs and clicks, and that a list that stays due gets an attempt
  recorded, whichever steps of an accepted download fail.
- `find_no_list`, `find_removed`: section 12.

## 5. CustomResources

| Code | Model |
|---|---|
| the value store and its runner; the UI sequence | `store`, `toStore`, `toUI`: first in, first out |
| the page's four messages | `HandleAddCustomResource` and the like; their bound is `MaxEdits` |
| `AddResource`, `UpdateResource`, `RemoveResource` over `GetCustomResources` | operators of these names; the reply with the list is `OnList`, which calls `AddResourceInternal`, `UpdateResourceInternal` or `RemoveResourceInternal` |
| `OnResourceUpdateStatus` | `Acknowledge` with `kOk`, `Refuse` with the other codes |
| `SaveResources` and `ReloadResourcesAndNotify` | `SaveAndReload` |
| `cached_storage_`, the observers | `cached` (no storage or one), `registered` |
| `LoadResources` of a `SourceProviderObserver` | `EngineLoadsResources`; its answers are `OnAnswer` and `OnCustomResourcesLoaded`, each of which ends in `UseResources` |
| `extend_resource_storage` over the keys | `Merged` |

Contents matter only as far as they deserialize.  `expected`, `open` and `clashed`
are history: the lists the edits answered `kOk` should make, and the keys of which
two edits overlapped; `outrun` marks engines that were answered from the cache
while a reload was under way.  `resources` (the only run) takes two keys, two names, a good
and a malformed content, one engine, three edits and two loads: one load to fill the
cache, one to be answered from it, an edit between any two steps.  It shows
 - that without overlap no acknowledged edit is lost, and that with overlap no
   list gets two resources of a name;
 - that the cache, although a load that read before an edit can fill it after
   the edit, ends up with what the store makes, and so do the engines, but for
   one that was handed that older storage behind the reload (a hazard listed in
   `PROJECT.json`: it keeps the older resources until the next edit or load).

The exception for overlapping edits is real: the page avoids it within one import
("Trying to do this in parallel breaks the import process", `brave_adblock.js`).

## 6. RequestPipeline and EngineWrapper

One request of a proxying loader factory and everything that acts for it.
Requests share only their factory, as the handler keys its map by identifiers that
are unique in the profile; `others` says whether the factory has other requests.

| Code | Model |
|---|---|
| `InProgressRequest` | `live`, `url`, `redirectUrl`, `completed`, `params`; `wire` and `paused` for the loader and the pipe it reports on |
| `ctx_`, a `shared_ptr` (`core.patch` instantiates the handler so) | `ctx`; queries carry the context they were asked for, `Store` writes through the pointer |
| `callbacks_` of `BraveRequestHandler` | `callback`: absent, a continuation, or moved from |
| engine queries, DNS query, posted continuations, the write of a stub | `tasks` |
| `BraveProxyingURLLoaderFactory` | `target`, `receivers`, `others`, `factory` |
| `RestartInternal`, the `Continue...` methods, `OnRequestError` | operators of these names |
| a document's policies, as the headers and the engines have them | `headers`; `GetCspDirectivesOnTaskRunner`, which asks both engines and merges |
| both engines, `ShouldBlockRequestOnTaskRunner` | `EngineWrapper` |

`kind` tells main frames, frames, other resources, and requests the helpers leave
alone apart.  A policy is "page", the document's own, or that of an engine's rules.
A URL stands for what the rules of either engine say of it
(`Default`, `Additional`: a `Match` each) and for the canonical name the resolver
gives it (`Alias`).  How adblock-rust skips rules in `check_network_request_subset`
is not in the repository; `CheckSubset` is its documented behaviour.

Atomicity.  A query at the engine's runner and its reply are one step: the
engines' rules are fixed here, so it does not matter when they are read.  Messages
of the network and of the client are taken from their pipes by the handler's step;
a paused receiver takes none, but the client's and the factory's disconnects are
seen at any time.  Nondeterminism stands for: the method of the request (no
rewriting unless GET, HEAD or OPTIONS), the feature that allows the DNS query,
whether the engines have policies, failures of DNS, of data pipes and of stub writes.
The proxy configuration that forbids the query is modelled
(`ProxySettingsAllowUncloaking`), as is a query without a tab, which fails at once.
`kBraveAdblockCollapseBlockedElements` has its default, on.

`LoaderClient` is what the client may see.  It allows one thing a reader might not
expect: a request with a stub can still end in an error that collapses the element
(the context is still marked as blocked), as when the client lets go of the loader.

`requests` (the only run): six URLs, one for each answer the helpers tell apart - no
rule, an important rule against an exception, a stub, a rewriting rule, a canonical
name that is blocked, and an exception to a rule with a canonical name that a rule
blocks - and two redirects, so that a stage can meet what two earlier ones left
behind.  It shows
 - `NothingBlockedIsSent` and `BlockedByRule`: over all redirects and both names,
   what reaches the network is what all rules together allow;
 - `ContinuesOnce`, `PausedWhileWaiting` and `FollowsProtocol`: whoever goes first,
   nothing is continued twice, out of turn, or after the end;
 - `PolicyKept`: the page's own policies survive the detour over the engines, and
   those of neither engine's rules are dropped for the other's;
 - `FactoryStaysAsNeeded`: the factory neither dangles nor leaks;
 - `EveryRequestAnswered`: a client that waits gets an answer, unless the network
   is gone.  The exception is real: a request whose checks end after
   the factory lost its target starts no loader and is left waiting.

## 7. WebSocketProxy and Handshake

One opening handshake.  `Handshake` is the promise to both sides: the network hears
of it only once the rules have allowed it, and the client is told one outcome, which
is "connected" only if the network is.  `WebSocketProxy` implements it under the
refinement mapping at its end (`Verdict`, `Wire`).

| Code | Model |
|---|---|
| who called: a renderer, another proxy, one with a header client (`proxy_has_extra_headers`) | `front` |
| `websocket_proxies_`, `RemoveProxyWebSocket`, the destructor | `alive`, `Destroy` |
| `callbacks_` and the continuation it posts | `callback`, `posted`: `HandlerAnswers`, `RunContinuation` |
| `on_before_send_headers_callback_`, `on_headers_received_callback_` | `sendCallback`, `recvCallback` |
| questions passed to the header client in front | `other`, answered by `OnBeforeSendHeadersCompleteFromProxy` and `HeadersAnswer` |
| `PauseIncomingMethodCallProcessing` and its undoing | `paused` |
| the methods of the two receivers | actions of their names |

What the handler does between a question and its answer is in `RequestPipeline`; here
it answers some time later, unless the entry is gone.  `OnAuthRequired` of a proxy
that a renderer started uses a pipe nobody bound, which ends the process; the model
lets it end the handshake.

`websocket` (the only run): every kind of caller and ruling, and up to two
challenges, as the second is where a callback of the first round could be left
behind.  The network's two callbacks and the pausing need a header client, which
nothing in the repository provides (section 12); they are checked as what the class
promises to whoever does.  Without the bound the rounds repeat.  It shows that every question of the
network is answered (`CallbacksAnswered`), that receivers are paused exactly while
the headers are being checked (`PausedWhileChecked`), that the proxy is a
`Handshake`, and that the handshake ends for the client (`HandshakeEnds`).

## 8. DomainBlock

One tab: the throttles of its navigations, the interstitial, the flag.

| Code | Model |
|---|---|
| `DomainBlockTabStorage::is_proceeding_` | `proceeding` |
| a navigation and its throttle, weak pointers to it | `nav`, its `id` |
| `ShouldBlockDomainOnTaskRunner` and its reply | `queries`, an answered one being the posted reply |
| `RestartNavigation`'s posted `OpenURL` | `opening` |
| `DomainBlockPage`, `DomainBlockControllerClient`, `dont_warn_again_` | `page`, `Proceed`, `GoBack`, `SetDontWarnAgain` |
| the rule of "don't warn again", and the engine that has it | `exempt`, `applied` |

`WillStartRequest` is the code of both `WillStartRequest` and `WillRedirectRequest`.
Queries and replies are two steps here, as the exemption may reach the engine, and
another navigation start, between them.  `consented` and `known` are history: the
user's choice since the last response, and the exemptions a query was answered with.

`domain_block`: three navigations (one to be blocked, one to proceed, one to take its
place at any point), one redirect, and five URLs, one for each answer the throttle
tells apart.  It shows that nothing the rules block is requested without consent
(`NothingBlockedLoads`), that the user is not asked twice for one reload
(`ProceedSucceeds`), that an exemption lasts but against important rules
(`ExemptWarnsOnlyIfImportant`), and that nothing stays deferred (`Settles`).
Deferred navigations that are replaced leave queries behind, which is why replies are
matched by `id`.  `find_proceeding`: section 12.

## 9. Cosmetic filters

Four modules, each extending the one before.

| Code | Model |
|---|---|
| `MergeResourcesInto`, both `UrlCosmeticResources` and `HiddenClassIdSelectors`, the split of procedural actions | `CosmeticRules`, over dictionaries as functions from the keys they have |
| `CosmeticFiltersJSHandler`: `resources_dict_`, `exceptions_`, `generichide_`, `bundle_injected_`, its remote | `CosmeticHandler`; `calls` are those of the pipe whose replies have not been seen |
| `content_cosmetic.ts`: queues, queried names, observer, interval, throttle, idle callbacks | `CosmeticScript` |
| `CosmeticFiltersJsRenderFrameObserver`: `url_`, `ready_`, weak pointers; `ApplyRules` and what it calls | `CosmeticFrame` |

The navigation that commits is the last one that started and `url_` is read at the
commit only, so `DidStartNavigation` and `ReadyToCommitNavigation` are one action.
Replies depend on their call alone and the pipe keeps their order, so one queue stands
for both directions.  `sync` chooses between the two ways to load the rules, once for
a frame.  The
browser's end of the pipe may go at any time, with whatever it had not answered.
Time is a choice: an observer may find that there are too many mutations, a fetch may
be throttled, an interval may have gone on for long enough.  Classes and ids are
alike; selectors are named for what they hide; styles, scriptlets and the operators
of procedural filters are data.

`cosmetic_frame`: two documents, as a reply can only be late for the second; two
starts of a document that wait for its rules (a document that is opened again starts
again); three URLs (one with an exception, one with generichide, one with
generichide and procedural actions, which starts the script all the same); two names,
of which each engine has its generic rules.  It has about 260,000 states.  It shows
that rules are applied to their own document (`RulesOfTheirDocument`), that selectors
respect the exceptions of both engines (`ExceptionsKept`), that a document is watched
once (`WatchedOnce`), and that no name that stays is forgotten (`EveryNameAsked`)
between scanning, observing, polling and throttling.  `find_earlier_load`: section 12.

## 10. Fairness

Weak fairness is assumed throughout, of what the scheduler runs; it is enough, as what
was posted stays enabled until it runs.

| Module | Assumed of | Not assumed of |
|---|---|---|
| `FilterLoading`, `Subscriptions` | the task runners, the repeating update timer, the download service ending what it accepted | pages, the clock, commits, deletions, restarts |
| `RequestPipeline` | the task runners together with the resolver, which answers or closes its pipe; the network while the receiver is not paused | the client, which may never follow a redirect; disconnects |
| `WebSocketProxy` | the handler's tasks, the proxy in front (which answers what it is asked), the network (which goes on or closes its pipes) | the client; that anybody starts the proxy |
| `DomainBlock` | the engine's runner and its replies, posted tasks, the network, which responds or fails | the user; that an exemption reaches the engine (`FilterLoading` has that) |
| `CosmeticFrame` | tasks and timers of the page's event loop | the page, navigations, the browser's answers |

The runs that stop for good once their bounds are used up set `CHECK_DEADLOCK FALSE`;
`Subscriptions` never stops (its timer repeats), so there deadlock is checked.

## 11. Proofs

All theorems hold for every value of the constants that satisfies
`ConstantsAssumption` of their module (`EngineWrapper` needs none), without bounds on
providers, URLs, keys, engines, documents or queues.  The assumptions are few: a name
has at most one alias (a CNAME query gives one), the waiter "everyone" is not an
engine, and an answer of an engine is either empty or has the keys that the
library writes.  One theorem, `ExceptionsHold`, has a hypothesis besides (below).

Each module has one inductive invariant, `IInv`: the type invariant, the safety
properties, and what they need in order to be preserved.  TLC checked each `IInv` on
the instance of its module's run before it was proved.  The proof that a step
preserves it has a lemma per action; a property is then a conjunct of `IInv` or
follows from it in a few lines.

`FilterLoadingProofs`: `IInv == TypeOK /\ Inv` is inductive.  What the three safety
properties say of the newest load depends on where its list has been, so `Inv`
follows a list through the pipeline: `LoadInv` (a load past its barrier has read
what it asked for), `LatestInv` (the newest load asked for the providers of now and
has read what they hold), `QueueInv` (only loads past their barrier are queued),
`EngineInv` (the engine is what its load read) and `DATInv` (the last pending write,
or the file if there is none, is the engine).  `LatestAlive`, `LatestCurrent` and
`DATIsEngine` follow.

`SubscriptionsProofs`: `IInv` adds to the type invariant that providers follow the
dictionary (`ProvidersInv`), and that downloads are under way only while the copy of the
dictionary is whole, of which nothing but file operations is left when the manager is
gone (`CopyInv`): an outcome then finds the entry of its URL if there is one.
`ProvidersFollow` follows.  `NothingResurrects` is an action property: from `IInv`, each
action that writes an entry either finds it there or writes a new one.
`OutcomesRecorded` maps each step to one of `DownloadRecord` or to a stutter: a step
that moves a download maps by `MoveMaps`, or by `SameProgress` when it is not seen, and
its outcome by `OutcomeRecorded`, which needs `CopyInv`.

`EngineWrapperProofs`: `Agrees` says what flags must tell of the rules asked so far;
each engine preserves it (`AskEngineAgrees`), so does each query (`QueryAgrees`), and
flags that agree decide as the rules do.  `BothNamesDecide` is the result for a
request and its canonical name, with any rules in either engine.

`RequestPipelineProofs`: that a stage continues once is not inductive as it stands,
for what a late task does depends on where the loader is.  `StageInv`: there is one
task at most, and while the request lives it belongs to the stage that waits.
`ClientInv` and `WireInv` tie the client's state, the loader and the continuation to
each other: a continuation says which of the network's messages it answers.  `RulesInv`
follows the flags of a check from the engine over the resolver to the engine again,
and there `QueryAgrees` does the work: when the check is over, the context is blocked
exactly if the rules found say so.  `PolicyInv` says the policies are in the headers
or with the query that took them out.  `NothingBlockedIsSent`, `BlockedByRule`,
`PolicyKept`, `ContinuesOnce`, `PausedWhileWaiting` and `FactoryStaysAsNeeded` follow,
and `Protocol` shows with their help that every step is one of `LoaderClient` or leaves
its client as it was.

`WebSocketProxyProofs`: `EndInv` (nothing but a posted continuation outlives the
proxy), `StageInv` (one question at a time: to the handler, posted by it, or to the
proxy in front) and `NetInv` (which stage there can be, given what the network has
been asked).  `CallbacksAnswered` and `PausedWhileChecked` need them because a posted
continuation may find the proxy gone.  `Implementation` maps each step to a step of
`Handshake` or to a stutter, for any number of challenges.

`DomainBlockProofs`: `QueriesInv` (answers of navigations that are over are told from
that of the one under way), `AnswersInv` (an answer is what the rules said with the
exemptions the engine knew then, and exemptions are never taken back) and `FlagInv`
(the flag of the tab says what its user wants).  `NothingBlockedLoads`,
`ProceedSucceeds` and `ExemptWarnsOnlyIfImportant` are conjuncts.

`CosmeticFrameProofs`: `CallsInv` (questions for rules come in the order of their
documents), `ReadyInv`, `StartInv` (a document has one watch, counting the callbacks
and the delayed start that will become one) and `AskedInv` (a question carries the
exceptions of its document, and so does its answer).  `RulesOfTheirDocument` and
`WatchedOnce` hold whatever the engines answer.  `ExceptionsKept` has the hypothesis
`DefaultParses`, that the default engine's answer has its keys: otherwise the
exceptions of the additional engine are lost (`ad_block_engine_wrapper.cc:291`), and
the property is false.  The run's instance satisfies it.

`CustomResourcesProofs`: `UniqueInv` says of lists that are read or about to be written
what `NamesUnique` says of the store.  `EditInv` counts: the open edits of a key are
the reads and replies under way; as long as no two clash there is at most one, its
read comes after every write of the key and gets what is expected, and the last write
has what is expected.  `SaveInv` (a write is followed by a read for everyone) and
`FollowInv` (either such a read is still to be done, or everything since the last reply
for everyone is as the store is now) carry `CacheFollowsStore` and `EnginesFollowStore`,
which speak of idle queues only and so say nothing of how they got empty.

Only model-checked, as they need fairness or `ENABLED`, which the provers cannot reason
about: the liveness properties `EveryLoadServed`, `DueIsAttempted`,
`EveryRequestAnswered`, `HandshakeEnds`, `Settles` and `EveryNameAsked`.  So is what the
runs with a finding show; there is nothing to prove of a property that does not hold.

## 12. Where the code and its comments disagree

- `find_lists`: an enabled list need not be queried.  Loads are not sequenced: an
  older one may wait for the value store while a newer one is answered from
  `cached_storage_`, and is then applied last.
- `find_no_list`: a deletion that runs late removes the list of a new subscription of
  the same URL, which then counts as downloaded.
- `find_removed`: a download requested before its subscription was deleted is made.
- `find_proceeding`: the flag that says "we are in the middle of a proceed action"
  outlives the reload that Proceed asked for if that one ends without a response, and
  the next navigation of the tab is not checked.
- `find_earlier_load`: the weak pointers of the observer keep the reply with the rules
  of an earlier document away, but not the answers to its script's questions: they
  become a stylesheet of the next document.

Met without a run, as they need no model to be seen:
- The traffic annotation says lists update "or daily otherwise"
  (`ad_block_subscription_download_manager.cc:34`); the default is seven days
  (`ad_block_subscription_service_manager.h:45`).  The comment at lines 56 to 58 of that
  header gives null times as `base::Time::Min()`; the code uses `base::Time()`.
- The suppressed startup notification does not spare the parse: the custom filters
  provider consumes it before the observer exists, and the observer's constructor
  starts a load.
- The throttle of `content_cosmetic.ts` allows two questions in a period (line 892),
  where the comment above it (873 to 876) says one: a postponed question does not
  move the time from which the next is allowed.
- `domain_block_tab_storage.h` speaks of "mixed form interstitials".

Behaviour no comment speaks of, which the models contain or leave to the code:
- `exceptions_` grows over the documents of a frame (`cosmetic_filters_js_handler.cc:624`);
  `notYetQueriedElements` grows in a document that is exempt from generic hiding but
  has procedural actions (`content_cosmetic.ts:1045`).
- An answer of the default engine that does not parse takes the exceptions of the
  additional engine with it (`ad_block_engine_wrapper.cc:291`).
- `OnHeadersReceivedCompleteFromProxy` ignores the error of the proxy in front; a
  rewritten URL is ignored for a websocket, and a blocking rule with a stub does not
  stop one; the pipe to the header client in front has no disconnect handler; a proxy
  that nobody starts is kept.
- `CreateWebSocket` in `core.patch` passes on a factory it has already moved from, so
  that the way over the header client is reached through the class's own interface only.
- A clock that is set back delays updates (`ad_block_subscription_service_manager.cc:198`).
- An import of resources that stops midway cannot be taken up again
  (`brave_adblock.js:124`).
- A server that redirects a rewritten URL back to the one with the parameters is asked
  again without limit (`domain_block_navigation_throttle.cc:277`).

## 13. What is not modelled

Every component is at least partly modelled.  What is left out, and why:
- Matching, compilation and serialization of rules, and what is in a resource: this is
  adblock-rust, a crate that is not part of the repository.  The models take its
  answers as constants or choices.
- Debug information, the discarding of compiled regular expressions, histograms,
  tracing and devtools messages: they do not change what a request or a document gets.
- What the pages draw and say (`brave_adblock_ui.cc` strings, the interstitial's, the
  element picker's overlay, colours and list of rules).  What they send is modelled.
- The bodies of stubs, the texts of stylesheets and scriptlets, and what procedural
  operators select: data that no property is about.
- `StripProceduralFilters` (`ad_block_engine_wrapper.cc:231`), which nothing calls.
- The localhost provider is a static list like the custom one and appears as a member
  of `Static`.  `OnComponentReady` of the default resource provider is never called here.
- Requests of other schemes, progress messages, `Clone`, and the map of factories per
  profile pass by or hold what `RequestPipeline` models.
