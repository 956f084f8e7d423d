---------------------------- MODULE Subscriptions ----------------------------
(***************************************************************************)
(* The filter list subscriptions: AdBlockSubscriptionServiceManager on the *)
(* UI sequence, AdBlockSubscriptionDownloadManager in front of Chromium's  *)
(* download service, the list directories on disk, and the subscription    *)
(* dictionary in the Local State preferences.                              *)
(*                                                                         *)
(* What FilterLoading takes from outside is decided here: which            *)
(* subscriptions have a provider, and when a list file is replaced or      *)
(* deleted.  Which rules the engine gets from it is decided there.         *)
(*                                                                         *)
(* Times are abstracted to what the code compares.  `attempt' says how     *)
(* last_update_attempt and last_successful_update_attempt relate (both     *)
(* null; different; equal), `age' counts the thresholds the last attempt   *)
(* has passed: 0 below a day, 1 from a day on, 2 from seven days on.       *)
(***************************************************************************)
EXTENDS Naturals

CONSTANTS
  Url,          \* subscription URLs
  Slot,         \* bound: downloads in flight of one URL
  NoInfo,       \* there is no subscription of this URL
  MaxEvents     \* bound: clicks on the ad-block page and restarts of the browser

Attempts == {"never", "failed", "succeeded"}
Day == 1        \* the list declares "Expires: 1 day"
Default == 2    \* it declares nothing: kSubscriptionDefaultExpiresHours, seven days

Info == [enabled : BOOLEAN, attempt : Attempts, age : 0 .. 2,
         expires : {Day, Default}]

\* A download, from StartDownload to the callback that records its outcome.
Stages == {"idle", "requested", "downloading", "mkdir", "dirMade", "noDir",
           "replace", "replaced", "notReplaced"}

ASSUME ConstantsAssumption ==
  /\ NoInfo \notin Info
  /\ MaxEvents \in Nat

VARIABLES
  prefs,      \* kAdBlockListSubscriptions, in memory
  saved,      \* kAdBlockListSubscriptions, on disk
  synced,     \* subscriptions_ is a copy of prefs; it is empty before that
  manager,    \* download_manager_ and is_available_for_downloads_
  providers,  \* the keys of subscription_filters_providers_
  rows,       \* URLs an open page may list, deleted ones on a stale page too
  job,        \* the downloads of each URL
  dir,        \* URLs whose directory exists
  list,       \* each list file: never written, present, or deleted
  deletions,  \* DeletePathRecursively tasks that have not run, per URL
  edits, restarts   \* counters of the bound

service == <<saved, manager, providers, rows>>
disk == <<dir, list>>
bounds == <<edits, restarts>>
vars == <<prefs, synced, service, job, disk, deletions, bounds>>

\* "waiting" until OnGetDownloadManager, "gone" once the profile is.
Managers == {"waiting", "available", "unavailable", "gone"}

TypeOK ==
  /\ prefs \in [Url -> Info \cup {NoInfo}]
  /\ saved \in [Url -> Info \cup {NoInfo}]
  /\ synced \in BOOLEAN
  /\ manager \in Managers
  /\ providers \subseteq Url /\ rows \subseteq Url
  /\ job \in [Url -> [Slot -> Stages]]
  /\ dir \subseteq Url
  /\ list \in [Url -> {"unwritten", "present", "deleted"}]
  /\ deletions \in [Url -> Nat]
  /\ edits \in Nat /\ restarts \in Nat

NoJobs == [u \in Url |-> [j \in Slot |-> "idle"]]

\* A new profile.
Init ==
  /\ prefs = [u \in Url |-> NoInfo] /\ saved = prefs /\ synced = FALSE
  /\ manager = "waiting" /\ providers = {} /\ rows = {}
  /\ job = NoJobs
  /\ dir = {} /\ list = [u \in Url |-> "unwritten"]
  /\ deletions = [u \in Url |-> 0]
  /\ edits = 0 /\ restarts = 0

-----------------------------------------------------------------------------
(***************************************************************************)
(* The dictionary.                                                         *)
(***************************************************************************)

\* GetInfo looks into the copy.
GetInfo(u) == IF synced THEN prefs[u] ELSE NoInfo

\* UpdateSubscriptionPrefs and ClearSubscriptionPrefs copy the whole dictionary.
UpdateSubscriptionPrefs(u, info) ==
  /\ prefs' = [prefs EXCEPT ![u] = info]
  /\ synced' = TRUE

\* The preference service writes its file some seconds later.
CommitPrefs ==
  /\ saved # prefs
  /\ saved' = prefs
  /\ UNCHANGED <<prefs, synced, manager, providers, rows, job, disk, deletions, bounds>>

\* Time passes for the attempt of u.
Tick(u) ==
  /\ prefs[u] # NoInfo /\ prefs[u].age < 2
  /\ prefs' = [prefs EXCEPT ![u].age = @ + 1]
  /\ UNCHANGED <<service, synced, job, disk, deletions, bounds>>

-----------------------------------------------------------------------------
(***************************************************************************)
(* Downloads start.                                                        *)
(***************************************************************************)

\* Any free slot will do: nothing tells the downloads of a URL apart.
Free(u) == CHOOSE j \in Slot : job[u][j] = "idle"

\* StartDownload for every URL of U.  Nothing looks whether one is in flight
\* already.
StartDownload(U) ==
  IF manager = "available"
    THEN /\ \A u \in U : \E j \in Slot : job[u][j] = "idle"
         /\ job' = [u \in Url |->
                      IF u \in U THEN [job[u] EXCEPT ![Free(u)] = "requested"]
                                 ELSE job[u]]
    ELSE UNCHANGED job

Due(u) ==
  /\ prefs[u] # NoInfo
  /\ prefs[u].enabled
  /\ prefs[u].attempt = "failed" \/ prefs[u].age >= prefs[u].expires

OnUpdateTimer ==
  /\ manager # "waiting"
  /\ synced' = TRUE
  /\ StartDownload({u \in Url : Due(u)})
  /\ UNCHANGED <<prefs, service, disk, deletions, bounds>>

-----------------------------------------------------------------------------
(***************************************************************************)
(* The page's operations.                                                  *)
(***************************************************************************)
Edit == edits + restarts < MaxEvents /\ edits' = edits + 1

\* Both times of a new subscription are null, as old as can be.
NewInfo == [enabled |-> TRUE, attempt |-> "never", age |-> 2, expires |-> Default]

\* GetSubscriptions, which a page shows when it opens and when it is refreshed.
Listed(dictionary) == {u \in Url : dictionary[u] # NoInfo}

CreateSubscription(u) ==
  /\ Edit
  /\ u \notin providers
  /\ UpdateSubscriptionPrefs(u, NewInfo)
  /\ providers' = providers \cup {u}
  /\ rows' = rows \cup Listed(prefs')
  /\ StartDownload({u})
  /\ UNCHANGED <<saved, manager, disk, deletions, restarts>>

\* Its DCHECKs are its preconditions: the subscription is known, and has a
\* provider exactly when it is about to lose it.
EnableSubscription(u, enabled) ==
  /\ Edit
  /\ GetInfo(u) # NoInfo
  /\ enabled <=> u \notin providers
  /\ providers' = IF enabled THEN providers \cup {u} ELSE providers \ {u}
  /\ UpdateSubscriptionPrefs(u, [GetInfo(u) EXCEPT !.enabled = enabled])
  /\ UNCHANGED <<saved, manager, rows, job, disk, deletions, restarts>>

\* A mutant of DeleteSubscription: the provider stays.
DeleteSubscriptionKeepsProvider(u) ==
  /\ Edit
  /\ u \in rows
  /\ UpdateSubscriptionPrefs(u, NoInfo)
  /\ deletions' = [deletions EXCEPT ![u] = @ + 1]
  /\ UNCHANGED <<service, job, disk, restarts>>

\* Downloads in flight go on.  The URL comes from a row of some page.
DeleteSubscription(u) ==
  /\ Edit
  /\ u \in rows
  /\ providers' = providers \ {u}
  /\ UpdateSubscriptionPrefs(u, NoInfo)
  /\ deletions' = [deletions EXCEPT ![u] = @ + 1]
  /\ UNCHANGED <<saved, manager, rows, job, disk, restarts>>

\* A page that has not heard of a deletion still offers to refresh the list.
RefreshSubscription(u) ==
  /\ Edit
  /\ u \in rows
  /\ StartDownload({u})
  /\ UNCHANGED <<prefs, synced, service, disk, deletions, restarts>>

\* DeletePathRecursively on a pool thread, in no order with the downloads; its
\* result is ignored.
DeletePathRecursively(u, ok) ==
  /\ deletions[u] > 0
  /\ deletions' = [deletions EXCEPT ![u] = @ - 1]
  /\ IF ok /\ u \in dir
       THEN /\ dir' = dir \ {u}
            /\ list' = [list EXCEPT ![u] = IF @ = "present" THEN "deleted" ELSE @]
       ELSE UNCHANGED disk
  /\ UNCHANGED <<prefs, synced, service, job, bounds>>

-----------------------------------------------------------------------------
(***************************************************************************)
(* The profile and its download manager.                                   *)
(***************************************************************************)

\* A mutant of OnGetDownloadManager: it does not look whether one is enabled.
OnGetDownloadManagerAll ==
  /\ manager = "waiting"
  /\ manager' = "available"
  /\ synced' = TRUE
  /\ providers' = providers \cup Listed(prefs)
  /\ rows' = rows \cup Listed(prefs)
  /\ UNCHANGED <<prefs, saved, job, disk, deletions, bounds>>

\* LoadSubscriptionServices makes a provider of each enabled subscription; one
\* that CreateSubscription made before stays.
OnGetDownloadManager ==
  /\ manager = "waiting"
  /\ manager' = "available"
  /\ synced' = TRUE
  /\ providers' = providers \cup {u \in Listed(prefs) : prefs[u].enabled}
  /\ rows' = rows \cup Listed(prefs)
  /\ UNCHANGED <<prefs, saved, job, disk, deletions, bounds>>

\* OnDownloadServiceUnavailable, and Shutdown, which cancels what is pending:
\* the service answers each cancellation with OnDownloadFailed.
OnDownloadServiceUnavailable ==
  /\ manager = "available"
  /\ manager' = "unavailable"
  /\ UNCHANGED <<prefs, saved, synced, providers, rows, job, disk, deletions, bounds>>

\* The profile destroys the download manager while the browser runs on.  File
\* tasks posted before still run, but reply to nobody.
ManagerDestroyed ==
  /\ manager = "unavailable"
  /\ manager' = "gone"
  /\ job' = [u \in Url |-> [j \in Slot |->
               IF job[u][j] \in {"mkdir", "replace"} THEN job[u][j] ELSE "idle"]]
  /\ UNCHANGED <<prefs, saved, synced, providers, rows, disk, deletions, bounds>>

-----------------------------------------------------------------------------
(***************************************************************************)
(* A download, in slot j of u.  The runners keep the order of the tasks    *)
(* posted to them, on which nothing depends: the downloads of different    *)
(* URLs touch different files, and those of one URL do the same.           *)
(***************************************************************************)
Move(u, j, from, to) ==
  /\ job[u][j] = from
  /\ job' = [job EXCEPT ![u][j] = to]

\* OnDownloadStarted with start_result ACCEPTED.
OnDownloadStarted(u, j) ==
  /\ Move(u, j, "requested", "downloading")
  /\ UNCHANGED <<prefs, synced, service, disk, deletions, bounds>>

\* OnDownloadStarted with another start_result: nothing is recorded.
OnDownloadRefused(u, j) ==
  /\ Move(u, j, "requested", "idle")
  /\ UNCHANGED <<prefs, synced, service, disk, deletions, bounds>>

\* The entry after an attempt just made.
Attempted(info, result) ==
  [enabled |-> info.enabled, attempt |-> result, age |-> 0,
   expires |-> info.expires]

\* A mutant of OnAttempt: it makes an entry if there is none.
OnAttemptUnchecked(u, result) ==
  LET info == IF GetInfo(u) = NoInfo THEN NewInfo ELSE GetInfo(u) IN
  UpdateSubscriptionPrefs(u, Attempted(info, result))

\* OnSubscriptionDownloaded and OnSubscriptionDownloadFailure.
OnAttempt(u, result) ==
  IF GetInfo(u) = NoInfo
    THEN UNCHANGED <<prefs, synced>>
    ELSE UpdateSubscriptionPrefs(u, Attempted(GetInfo(u), result))

\* The service failed, or sent something else than text/plain.
OnDownloadFailed(u, j) ==
  /\ Move(u, j, "downloading", "idle")
  /\ OnAttempt(u, "failed")
  /\ UNCHANGED <<service, disk, deletions, bounds>>

OnDownloadSucceeded(u, j) ==
  /\ Move(u, j, "downloading", "mkdir")
  /\ UNCHANGED <<prefs, synced, service, disk, deletions, bounds>>

\* What a task of the file runner leaves: nobody hears of it without a manager.
Reply(stage) == IF manager = "gone" THEN "idle" ELSE stage

\* EnsureDirExists: a directory that exists is fine.
EnsureDirExists(u, j, ok) ==
  /\ u \in dir => ok
  /\ Move(u, j, "mkdir", Reply(IF ok THEN "dirMade" ELSE "noDir"))
  /\ dir' = IF ok THEN dir \cup {u} ELSE dir
  /\ UNCHANGED <<prefs, synced, service, list, deletions, bounds>>

\* A mutant of OnDirCreated: it reports nothing when there is no directory.
OnDirCreatedSilently(u, j) ==
  /\ \/ Move(u, j, "noDir", "idle")
     \/ Move(u, j, "dirMade", "replace")
  /\ UNCHANGED <<prefs, synced, service, disk, deletions, bounds>>

OnDirCreated(u, j) ==
  /\ \/ /\ Move(u, j, "noDir", "idle")
        /\ OnAttempt(u, "failed")
     \/ /\ Move(u, j, "dirMade", "replace")
        /\ UNCHANGED <<prefs, synced>>
  /\ UNCHANGED <<service, disk, deletions, bounds>>

\* base::ReplaceFile: as a whole or not at all, and never without the directory.
ReplaceFile(u, j, ok) ==
  /\ ok => u \in dir
  /\ Move(u, j, "replace", Reply(IF ok THEN "replaced" ELSE "notReplaced"))
  /\ list' = IF ok THEN [list EXCEPT ![u] = "present"] ELSE list
  /\ UNCHANGED <<prefs, synced, service, dir, deletions, bounds>>

\* A mutant of ReplaceFileCallback: it does not look at its argument.
ReplaceFileCallbackUnchecked(u, j) ==
  /\ Move(u, j, "notReplaced", "idle") \/ Move(u, j, "replaced", "idle")
  /\ OnAttempt(u, "succeeded")
  /\ UNCHANGED <<service, disk, deletions, bounds>>

ReplaceFileCallback(u, j) ==
  /\ \/ /\ Move(u, j, "notReplaced", "idle")
        /\ OnAttempt(u, "failed")
     \/ /\ Move(u, j, "replaced", "idle")
        /\ OnAttempt(u, "succeeded")
  /\ UNCHANGED <<service, disk, deletions, bounds>>

\* A load has parsed the list of u, when it had a provider; the callback says
\* what the list declares, and may come long after.
OnListMetadata(u, expires) ==
  /\ GetInfo(u) # NoInfo
  /\ UpdateSubscriptionPrefs(u, [GetInfo(u) EXCEPT !.expires = expires])
  /\ UNCHANGED <<service, job, disk, deletions, bounds>>

-----------------------------------------------------------------------------
\* The browser comes back with the same profile.  An exit commits the
\* preferences and waits for the deletions (BLOCK_SHUTDOWN); a crash does not.
\* The guids of downloads in flight are forgotten: when the service reports
\* them to the new session, nobody knows their URL.
Restart(crash) ==
  /\ edits + restarts < MaxEvents
  /\ restarts' = restarts + 1
  /\ crash \/ \A u \in Url : deletions[u] = 0
  /\ prefs' = IF crash THEN saved ELSE prefs
  /\ saved' = prefs' /\ synced' = FALSE
  /\ manager' = "waiting" /\ providers' = {} /\ rows' = {}
  /\ job' = NoJobs /\ deletions' = [u \in Url |-> 0]
  /\ UNCHANGED <<disk, edits>>

Page ==
  \E u \in Url :
    \/ CreateSubscription(u) \/ DeleteSubscription(u) \/ RefreshSubscription(u)
    \/ \E enabled \in BOOLEAN : EnableSubscription(u, enabled)

\* A task of the download in slot j of u runs, or the service reports on it.
JobStep(u, j) ==
  \/ OnDownloadStarted(u, j) \/ OnDownloadRefused(u, j)
  \/ OnDownloadFailed(u, j) \/ OnDownloadSucceeded(u, j)
  \/ \E ok \in BOOLEAN : EnsureDirExists(u, j, ok) \/ ReplaceFile(u, j, ok)
  \/ OnDirCreated(u, j) \/ ReplaceFileCallback(u, j)

Next ==
  \/ Page
  \/ \E u \in Url :
       \/ Tick(u)
       \/ \E ok \in BOOLEAN : DeletePathRecursively(u, ok)
       \/ \E expires \in {Day, Default} : OnListMetadata(u, expires)
       \/ \E j \in Slot : JobStep(u, j)
  \/ OnUpdateTimer \/ CommitPrefs
  \/ OnGetDownloadManager \/ OnDownloadServiceUnavailable \/ ManagerDestroyed
  \/ \E crash \in BOOLEAN : Restart(crash)

Spec == Init /\ [][Next]_vars

\* The timer repeats, runners run what was posted to them, and the download
\* service ends every download it accepted one way or the other.
Fairness ==
  /\ WF_vars(OnUpdateTimer)
  /\ \A u \in Url, j \in Slot : WF_vars(JobStep(u, j))

FairSpec == Spec /\ Fairness

-----------------------------------------------------------------------------
(***************************************************************************)
(* Properties.                                                             *)
(***************************************************************************)

\* Once the profile is there, exactly the enabled subscriptions have a provider,
\* in whatever order pages, timers and the late profile come.
ProvidersMatchPrefs ==
  manager # "waiting" =>
    \A u \in Url : u \in providers <=> prefs[u] # NoInfo /\ prefs[u].enabled

\* What of a dictionary, and of a download, DownloadRecord speaks of: a download
\* whose manager is gone is given up.
Record(dictionary) ==
  [u \in Url |-> IF dictionary[u] = NoInfo THEN "none" ELSE dictionary[u].attempt]

Progress(stage) ==
  CASE stage = "idle" -> "none"
    [] stage = "requested" -> "asked"
    [] stage = "replaced" -> "put"
    [] OTHER -> "running"

Download ==
  [u \in Url |-> [j \in Slot |-> IF manager = "gone" THEN "none" ELSE Progress(job[u][j])]]

D == INSTANCE DownloadRecord
       WITH record <- Record(prefs), committed <- Record(saved), download <- Download

\* A download that was accepted does not end without its outcome being recorded,
\* nor is it recorded twice, whichever of its steps fail and whatever becomes of
\* its subscription meanwhile: it is recorded, in the entry its URL has by then,
\* as a success exactly if this download has put the list in place.  Nothing else
\* touches what an entry says of its last attempt, but its removal, its making
\* and a crash.
RecordsOutcomes == D!Spec

\* A deleted subscription comes back through CreateSubscription and as a new one
\* only (or with the preferences of before a crash): never because a download, a
\* timer or a metadata callback that was on its way writes its entry again.
NoResurrection ==
  [][\A u \in Url : prefs[u] = NoInfo /\ prefs'[u] # NoInfo =>
       prefs'[u] = NewInfo \/ restarts' # restarts]_vars

\* The inductive invariant behind these.
ProvidersInv ==
  \A u \in Url :
    /\ u \in providers => prefs[u] # NoInfo /\ prefs[u].enabled /\ synced
    /\ manager # "waiting" /\ prefs[u] # NoInfo /\ prefs[u].enabled => u \in providers

\* Downloads are under way only once the copy has been made, so that their outcome
\* finds its entry in it, and only file operations outlive the manager.
CopyInv ==
  /\ manager # "waiting" => synced
  /\ manager = "waiting" => job = NoJobs
  /\ manager = "gone" =>
       \A u \in Url, j \in Slot : job[u][j] \in {"idle", "mkdir", "replace"}

IInv == TypeOK /\ ProvidersInv /\ CopyInv

Refused(u) == \E j \in Slot : OnDownloadRefused(u, j)

\* A list that is due, and stays so, gets an attempt recorded, whichever steps of
\* its downloads fail, while downloads are available.  Not if the service goes on
\* refusing to start them: a refusal is not recorded as an attempt, and all there
\* is then is that the timer asks again.
DueIsAttempted ==
  \A u \in Url :
    <>[][~Refused(u)]_vars =>
      (Due(u) ~> \/ prefs[u] # NoInfo /\ prefs[u].age = 0
                 \/ ~Due(u)
                 \/ manager # "available")

-----------------------------------------------------------------------------
(***************************************************************************)
(* Statements of comments that the code does not keep.                     *)
(***************************************************************************)
Quiet(u) == deletions[u] = 0 /\ \A j \in Slot : job[u][j] = "idle"

\* "Any enabled list will be queried during network requests and page loads"
\* (ad_block_subscription_service_manager.h): there has to be a list to query
\* when the subscription says it was downloaded and nothing more is to come.
EnabledHasList ==
  \A u \in Url :
    /\ prefs[u] # NoInfo /\ Quiet(u)
    /\ ~Due(u) /\ prefs[u].enabled /\ prefs[u].attempt = "succeeded"
    => list[u] = "present"

\* "it will never be made if the corresponding entry is removed" (the traffic
\* annotation in ad_block_subscription_download_manager.cc).
NeverMadeOnceRemoved ==
  [][\A u \in Url, j \in Slot :
       job[u][j] = "requested" /\ job'[u][j] = "downloading" => prefs[u] # NoInfo]_vars
=============================================================================
