------------------------- MODULE SubscriptionsProofs -------------------------
(***************************************************************************)
(* Subscriptions, for every set of URLs and slots and every bound: IInv is *)
(* inductive; type correctness, the safety properties and that downloads   *)
(* are recorded as DownloadRecord says follow.                             *)
(***************************************************************************)
EXTENDS Subscriptions, TLAPS

\* What an update of the dictionary keeps: it is a dictionary.
LEMMA UpdateType ==
  ASSUME TypeOK, NEW u \in Url, NEW info \in Info \cup {NoInfo},
         UpdateSubscriptionPrefs(u, info)
  PROVE  /\ prefs' \in [Url -> Info \cup {NoInfo}] /\ synced' = TRUE
         /\ prefs'[u] = info
         /\ \A v \in Url \ {u} : prefs'[v] = prefs[v]
  BY DEF TypeOK, UpdateSubscriptionPrefs

\* GetInfo finds an entry of the dictionary or nothing.
LEMMA GetInfoType ==
  ASSUME TypeOK, NEW u \in Url
  PROVE  /\ GetInfo(u) \in Info \cup {NoInfo}
         /\ GetInfo(u) # NoInfo => GetInfo(u) = prefs[u] /\ GetInfo(u) \in Info
  BY DEF TypeOK, GetInfo

\* Recording an attempt keeps whether a subscription exists and is enabled; a
\* success is recorded only where one is reported.
LEMMA AttemptFacts ==
  ASSUME TypeOK, NEW u \in Url, NEW result \in Attempts, OnAttempt(u, result)
  PROVE  /\ prefs' \in [Url -> Info \cup {NoInfo}] /\ synced' \in BOOLEAN
         /\ synced => synced'
         /\ \A v \in Url :
              /\ prefs[v] = NoInfo <=> prefs'[v] = NoInfo
              /\ prefs[v] # NoInfo =>
                   /\ prefs'[v].enabled = prefs[v].enabled
                   /\ prefs'[v].attempt \in {prefs[v].attempt, result}
                   /\ v # u => prefs'[v] = prefs[v]
<1>1. CASE GetInfo(u) = NoInfo
  BY <1>1 DEF OnAttempt, TypeOK
<1>2. CASE GetInfo(u) # NoInfo
  <2> DEFINE info == Attempted(GetInfo(u), result)
  <2>1. GetInfo(u) = prefs[u] /\ prefs[u] \in Info
    BY <1>2, GetInfoType
  <2>2. /\ info.enabled = prefs[u].enabled /\ info.attempt = result
    BY <2>1 DEF Attempted
  <2>2a. info \in Info
    BY <2>1 DEF Attempted, Info
  <2>3. UpdateSubscriptionPrefs(u, info)
    BY <1>2 DEF OnAttempt
  <2> HIDE DEF info
  <2>4. /\ prefs' \in [Url -> Info \cup {NoInfo}] /\ synced' = TRUE
        /\ prefs'[u] = info
        /\ \A v \in Url \ {u} : prefs'[v] = prefs[v]
    BY <2>2a, <2>3, UpdateType
  <2>5. info # NoInfo /\ prefs[u] # NoInfo
    BY <2>1, <2>2a, ConstantsAssumption
  <2> QED
    BY <2>2, <2>2a, <2>4, <2>5
<1> QED
  BY <1>1, <1>2

\* A step of a download keeps the shape of the downloads, and the other ones.
LEMMA MoveFacts ==
  ASSUME TypeOK, NEW u \in Url, NEW j \in Slot, NEW from, NEW to \in Stages,
         Move(u, j, from, to)
  PROVE  /\ job' \in [Url -> [Slot -> Stages]] /\ job[u][j] = from
         /\ job'[u][j] = to
         /\ \A v \in Url, k \in Slot : v # u \/ k # j => job'[v][k] = job[v][k]
  BY DEF TypeOK, Move

\* Starting downloads takes free slots of the URLs, if downloads are available.
LEMMA StartFacts ==
  ASSUME TypeOK, NEW U \in SUBSET Url, StartDownload(U)
  PROVE  /\ job' \in [Url -> [Slot -> Stages]]
         /\ \A v \in Url, k \in Slot :
              \/ job'[v][k] = job[v][k]
              \/ v \in U /\ job[v][k] = "idle" /\ job'[v][k] = "requested"
         /\ manager # "available" => job' = job
<1>1. CASE manager # "available"
  BY <1>1 DEF StartDownload, TypeOK
<1>2. CASE manager = "available"
  <2>1. /\ \A u \in U : \E j \in Slot : job[u][j] = "idle"
        /\ job' = [u \in Url |->
                     IF u \in U THEN [job[u] EXCEPT ![Free(u)] = "requested"] ELSE job[u]]
    BY <1>2 DEF StartDownload
  <2>2. ASSUME NEW v \in Url
        PROVE  /\ job'[v] \in [Slot -> Stages]
               /\ \A k \in Slot :
                    \/ job'[v][k] = job[v][k]
                    \/ v \in U /\ job[v][k] = "idle" /\ job'[v][k] = "requested"
    <3>1. CASE v \notin U
      BY <2>1, <3>1 DEF TypeOK
    <3>2. CASE v \in U
      <4>1. Free(v) \in Slot /\ job[v][Free(v)] = "idle"
        BY <2>1, <3>2 DEF Free
      <4>2. job'[v] = [job[v] EXCEPT ![Free(v)] = "requested"]
        BY <2>1, <3>2
      <4>3. job[v] \in [Slot -> Stages] /\ "requested" \in Stages
        BY DEF TypeOK, Stages
      <4> HIDE DEF TypeOK
      <4> QED
        BY <3>2, <4>1, <4>2, <4>3
    <3> QED
      BY <3>1, <3>2
  <2>3. job' = [v \in Url |-> job'[v]]
    BY <2>1
  <2> QED
    BY <1>2, <2>2, <2>3
<1> QED
  BY <1>1, <1>2

\* What is replied by a task of the file runner is a stage, and not a success
\* unless the task reports one.
LEMMA ReplyFacts ==
  ASSUME NEW stage \in Stages
  PROVE  Reply(stage) \in Stages /\ Reply(stage) \in {"idle", stage}
  BY DEF Reply, Stages

-----------------------------------------------------------------------------
(***************************************************************************)
(* The steps, one by one.                                                  *)
(***************************************************************************)

LEMMA InitIInv == Init => IInv
<1> SUFFICES ASSUME Init PROVE IInv
  OBVIOUS
<1>1. TypeOK
  BY ConstantsAssumption DEF Init, TypeOK, NoJobs, Stages, Managers
<1>2. ProvidersInv
  BY DEF Init, ProvidersInv
<1>3. CopyInv
  BY DEF Init, CopyInv
<1> QED
  BY <1>1, <1>2, <1>3 DEF IInv

\* A step that writes one entry of the dictionary, and makes the providers agree.
LEMMA EntryStep ==
  ASSUME IInv, NEW u \in Url, NEW info \in Info \cup {NoInfo},
         UpdateSubscriptionPrefs(u, info),
         UNCHANGED manager, providers' \subseteq Url,
         \A v \in Url \ {u} : v \in providers' <=> v \in providers,
         u \in providers' <=> info # NoInfo /\ info.enabled,
         manager # "available" => job' = job
  PROVE  ProvidersInv' /\ CopyInv'
<1>1. /\ synced' = TRUE /\ prefs'[u] = info
      /\ \A v \in Url \ {u} : prefs'[v] = prefs[v]
  BY UpdateType DEF IInv
<1>2. ProvidersInv'
  BY <1>1 DEF IInv, ProvidersInv
<1>3. CopyInv'
  BY <1>1 DEF IInv, CopyInv, NoJobs
<1> QED
  BY <1>2, <1>3

LEMMA CreateStep ==
  ASSUME IInv, NEW u \in Url, CreateSubscription(u)
  PROVE  IInv'
<1> USE DEF IInv
<1>1. NewInfo \in Info /\ NewInfo # NoInfo /\ NewInfo.enabled
  <2>1. NewInfo \in Info
    BY DEF NewInfo, Info, Attempts, Day, Default
  <2>2. NewInfo.enabled = TRUE
    BY DEF NewInfo
  <2> QED
    BY <2>1, <2>2, ConstantsAssumption
<1>2. UpdateSubscriptionPrefs(u, NewInfo) /\ StartDownload({u})
  BY DEF CreateSubscription
<1>3. job' \in [Url -> [Slot -> Stages]] /\ (manager # "available" => job' = job)
  BY <1>2, StartFacts
<1>4. prefs' \in [Url -> Info \cup {NoInfo}] /\ synced' = TRUE
  BY <1>1, <1>2, UpdateType
<1>5. TypeOK'
  BY <1>3, <1>4, ConstantsAssumption
     DEF TypeOK, CreateSubscription, Edit, Listed, disk
<1>6. ProvidersInv' /\ CopyInv'
  BY <1>1, <1>2, <1>3, EntryStep DEF CreateSubscription, TypeOK, disk
<1> QED
  BY <1>5, <1>6

LEMMA EnableStep ==
  ASSUME IInv, NEW u \in Url, NEW enabled \in BOOLEAN, EnableSubscription(u, enabled)
  PROVE  IInv'
<1> USE DEF IInv
<1> DEFINE info == [GetInfo(u) EXCEPT !.enabled = enabled]
<1>1. GetInfo(u) = prefs[u] /\ prefs[u] \in Info
  BY GetInfoType DEF EnableSubscription
<1>2. info \in Info /\ info.enabled = enabled
  BY <1>1 DEF Info
<1>3. UpdateSubscriptionPrefs(u, info)
  BY DEF EnableSubscription
<1> HIDE DEF info
<1>4. info # NoInfo /\ prefs[u] # NoInfo
  BY <1>1, <1>2, ConstantsAssumption
<1>6. prefs' \in [Url -> Info \cup {NoInfo}] /\ synced' = TRUE
  BY <1>2, <1>3, UpdateType
<1>7. TypeOK'
  BY <1>6, ConstantsAssumption DEF TypeOK, EnableSubscription, Edit, disk
<1>8. ProvidersInv' /\ CopyInv'
  <2>1. /\ u \in providers' <=> enabled
        /\ \A v \in Url \ {u} : v \in providers' <=> v \in providers
        /\ providers' \subseteq Url /\ UNCHANGED <<manager, job>>
    BY DEF EnableSubscription, TypeOK, disk
  <2> QED
    BY <1>2, <1>3, <1>4, <2>1, EntryStep
<1> QED
  BY <1>7, <1>8

LEMMA DeleteStep ==
  ASSUME IInv, NEW u \in Url, DeleteSubscription(u)
  PROVE  IInv'
<1> USE DEF IInv
<1>1. UpdateSubscriptionPrefs(u, NoInfo)
  BY DEF DeleteSubscription
<1>2. prefs' \in [Url -> Info \cup {NoInfo}] /\ synced' = TRUE
  BY <1>1, UpdateType
<1>3. deletions' \in [Url -> Nat] /\ edits' \in Nat
  BY ConstantsAssumption DEF TypeOK, DeleteSubscription, Edit
<1>3a. TypeOK'
  BY <1>2, <1>3 DEF TypeOK, DeleteSubscription, disk
<1>4. ProvidersInv' /\ CopyInv'
  BY <1>1, EntryStep DEF DeleteSubscription, TypeOK
<1> QED
  BY <1>3a, <1>4

LEMMA MetadataStep ==
  ASSUME IInv, NEW u \in Url, NEW expires \in {Day, Default}, OnListMetadata(u, expires)
  PROVE  IInv'
<1> USE DEF IInv
<1> DEFINE info == [GetInfo(u) EXCEPT !.expires = expires]
<1>1. GetInfo(u) = prefs[u] /\ prefs[u] \in Info /\ synced
  BY GetInfoType DEF OnListMetadata, GetInfo
<1>2. info \in Info /\ info.enabled = prefs[u].enabled
  BY <1>1 DEF Info
<1>3. UpdateSubscriptionPrefs(u, info)
  BY DEF OnListMetadata
<1> HIDE DEF info
<1>4. info # NoInfo /\ prefs[u] # NoInfo
  BY <1>1, <1>2, ConstantsAssumption
<1>5. /\ prefs' \in [Url -> Info \cup {NoInfo}] /\ synced' = TRUE
      /\ prefs'[u] = info /\ \A v \in Url \ {u} : prefs'[v] = prefs[v]
  BY <1>2, <1>3, UpdateType
<1>6. TypeOK'
  BY <1>5, ConstantsAssumption DEF TypeOK, OnListMetadata, disk, service, bounds
<1>7. ProvidersInv'
  BY <1>2, <1>4, <1>5 DEF ProvidersInv, OnListMetadata, service
<1>8. CopyInv'
  BY <1>5 DEF CopyInv, OnListMetadata, service
<1> QED
  BY <1>6, <1>7, <1>8

\* A download under way has a manager, and the copy has been made.
LEMMA UnderWay ==
  ASSUME IInv, NEW u \in Url, NEW j \in Slot, job[u][j] # "idle"
  PROVE  manager # "waiting" /\ synced
  BY DEF IInv, CopyInv, NoJobs

\* A step in which a download ends and its outcome is recorded.
LEMMA OutcomeStep ==
  ASSUME IInv, NEW u \in Url, NEW j \in Slot, NEW from, from # "idle",
         NEW result \in {"failed", "succeeded"},
         Move(u, j, from, "idle"), OnAttempt(u, result),
         UNCHANGED <<service, disk, deletions, bounds>>
  PROVE  IInv'
<1> USE DEF IInv
<1>1. /\ job' \in [Url -> [Slot -> Stages]] /\ job[u][j] = from /\ job'[u][j] = "idle"
      /\ \A v \in Url, k \in Slot : v # u \/ k # j => job'[v][k] = job[v][k]
  BY MoveFacts DEF Stages
<1>2. /\ prefs' \in [Url -> Info \cup {NoInfo}] /\ synced' \in BOOLEAN
      /\ synced => synced'
      /\ \A v \in Url :
           /\ prefs[v] = NoInfo <=> prefs'[v] = NoInfo
           /\ prefs[v] # NoInfo => prefs'[v].enabled = prefs[v].enabled
  BY AttemptFacts DEF Attempts
<1>3. TypeOK'
  BY <1>1, <1>2 DEF TypeOK, service, disk, bounds
<1>4. ProvidersInv'
  BY <1>2 DEF ProvidersInv, service
<1>5. CopyInv'
  BY <1>1, <1>2, UnderWay DEF CopyInv, service
<1> QED
  BY <1>3, <1>4, <1>5

\* A step in which a download moves on without an outcome.
LEMMA SilentStep ==
  ASSUME IInv, NEW u \in Url, NEW j \in Slot, NEW from, from # "idle", NEW to \in Stages,
         Move(u, j, from, to), dir' \subseteq Url,
         manager = "gone" => to = "idle" \/ from \notin {"mkdir", "replace"},
         list' \in [Url -> {"unwritten", "present", "deleted"}],
         UNCHANGED <<prefs, synced, service, deletions, bounds>>
  PROVE  IInv'
<1> USE DEF IInv
<1>1. /\ job' \in [Url -> [Slot -> Stages]] /\ job[u][j] = from /\ job'[u][j] = to
      /\ \A v \in Url, k \in Slot : v # u \/ k # j => job'[v][k] = job[v][k]
  BY MoveFacts
<1>2. TypeOK'
  BY <1>1 DEF TypeOK, service, bounds
<1>3. ProvidersInv' /\ CopyInv'
  BY <1>1, UnderWay DEF ProvidersInv, CopyInv, service
<1> QED
  BY <1>2, <1>3

LEMMA ReplaceStep ==
  ASSUME IInv, NEW u \in Url, NEW j \in Slot, NEW ok \in BOOLEAN, ReplaceFile(u, j, ok)
  PROVE  IInv'
<1> DEFINE to == Reply(IF ok THEN "replaced" ELSE "notReplaced")
<1>1. to \in Stages
  BY ReplyFacts DEF Stages
<1>2. Move(u, j, "replace", to)
  BY DEF ReplaceFile
<1>2a. manager = "gone" => to = "idle"
  BY DEF Reply
<1>3. dir' \subseteq Url /\ list' \in [Url -> {"unwritten", "present", "deleted"}]
  BY DEF IInv, TypeOK, ReplaceFile
<1> HIDE DEF to
<1> QED
  BY <1>1, <1>2, <1>2a, <1>3, SilentStep DEF ReplaceFile

LEMMA JobStepInv ==
  ASSUME IInv, NEW u \in Url, NEW j \in Slot, JobStep(u, j)
  PROVE  IInv'
<1>1. CASE OnDownloadStarted(u, j)
  BY <1>1, SilentStep DEF OnDownloadStarted, IInv, TypeOK, Stages, disk
<1>2. CASE OnDownloadRefused(u, j)
  BY <1>2, SilentStep DEF OnDownloadRefused, IInv, TypeOK, Stages, disk
<1>3. CASE OnDownloadFailed(u, j)
  BY <1>3, OutcomeStep DEF OnDownloadFailed
<1>4. CASE OnDownloadSucceeded(u, j)
  BY <1>4, SilentStep DEF OnDownloadSucceeded, IInv, TypeOK, Stages, disk
<1>5. ASSUME NEW ok \in BOOLEAN, EnsureDirExists(u, j, ok) PROVE IInv'
  <2> DEFINE to == Reply(IF ok THEN "dirMade" ELSE "noDir")
  <2>1. to \in Stages
    BY DEF Reply, Stages
  <2>2. Move(u, j, "mkdir", to)
    BY <1>5 DEF EnsureDirExists
  <2>2a. manager = "gone" => to = "idle"
    BY DEF Reply
  <2>3. dir' \subseteq Url /\ list' \in [Url -> {"unwritten", "present", "deleted"}]
    BY <1>5 DEF EnsureDirExists, IInv, TypeOK
  <2> HIDE DEF to
  <2> QED
    BY <1>5, <2>1, <2>2, <2>2a, <2>3, SilentStep DEF EnsureDirExists
<1>6. ASSUME NEW ok \in BOOLEAN, ReplaceFile(u, j, ok) PROVE IInv'
  BY <1>6, ReplaceStep
<1>7. CASE OnDirCreated(u, j)
  <2>1. CASE Move(u, j, "noDir", "idle") /\ OnAttempt(u, "failed")
    BY <1>7, <2>1, OutcomeStep DEF OnDirCreated
  <2>2. CASE Move(u, j, "dirMade", "replace") /\ UNCHANGED <<prefs, synced>>
    BY <1>7, <2>2, SilentStep DEF OnDirCreated, IInv, TypeOK, Stages, disk
  <2> QED
    BY <1>7, <2>1, <2>2 DEF OnDirCreated
<1>8. CASE ReplaceFileCallback(u, j)
  <2>1. CASE Move(u, j, "notReplaced", "idle") /\ OnAttempt(u, "failed")
    BY <1>8, <2>1, OutcomeStep DEF ReplaceFileCallback
  <2>2. CASE Move(u, j, "replaced", "idle") /\ OnAttempt(u, "succeeded")
    BY <1>8, <2>2, OutcomeStep DEF ReplaceFileCallback
  <2> QED
    BY <1>8, <2>1, <2>2 DEF ReplaceFileCallback
<1> QED
  BY <1>1, <1>2, <1>3, <1>4, <1>5, <1>6, <1>7, <1>8 DEF JobStep

LEMMA NextIInv ==
  ASSUME IInv, [Next]_vars
  PROVE  IInv'
<1> USE DEF IInv
<1>1. CASE Page
  <2>1. ASSUME NEW u \in Url, RefreshSubscription(u) PROVE IInv'
    <3>1. job' \in [Url -> [Slot -> Stages]] /\ (manager # "available" => job' = job)
      BY <2>1, StartFacts DEF RefreshSubscription
    <3>2. TypeOK'
      BY <2>1, <3>1, ConstantsAssumption DEF TypeOK, RefreshSubscription, Edit, service, disk
    <3>3. ProvidersInv' /\ CopyInv'
      BY <2>1, <3>1 DEF ProvidersInv, CopyInv, RefreshSubscription, service
    <3> QED
      BY <3>2, <3>3
  <2> QED
    BY <1>1, <2>1, CreateStep, EnableStep, DeleteStep DEF Page
<1>2. ASSUME NEW u \in Url, Tick(u) PROVE IInv'
  <2>1. /\ prefs' \in [Url -> Info \cup {NoInfo}] /\ prefs'[u] # NoInfo
        /\ prefs'[u].enabled = prefs[u].enabled
        /\ \A v \in Url \ {u} : prefs'[v] = prefs[v]
    <3> DEFINE info == [prefs[u] EXCEPT !.age = @ + 1]
    <3>1. prefs[u] \in Info /\ prefs[u].age < 2
      BY <1>2 DEF TypeOK, Tick
    <3>2. prefs[u].age + 1 \in 0 .. 2
      BY <3>1 DEF Info
    <3>3. info \in Info /\ info.enabled = prefs[u].enabled
      BY <3>1, <3>2 DEF Info
    <3>4. prefs' = [prefs EXCEPT ![u] = info]
      BY <1>2 DEF Tick
    <3> HIDE DEF info
    <3> QED
      BY <3>3, <3>4, ConstantsAssumption DEF TypeOK
  <2>2. TypeOK'
    BY <1>2, <2>1 DEF TypeOK, Tick, service, disk, bounds
  <2>3. ProvidersInv' /\ CopyInv'
    BY <1>2, <2>1 DEF ProvidersInv, CopyInv, Tick, service
  <2> QED
    BY <2>2, <2>3
<1>3. ASSUME NEW u \in Url, NEW ok \in BOOLEAN, DeletePathRecursively(u, ok) PROVE IInv'
  <2>1. list' \in [Url -> {"unwritten", "present", "deleted"}] /\ dir' \subseteq Url
    BY <1>3 DEF TypeOK, DeletePathRecursively, disk
  <2>1a. deletions' \in [Url -> Nat]
    BY <1>3 DEF TypeOK, DeletePathRecursively
  <2>2. TypeOK'
    BY <1>3, <2>1, <2>1a DEF TypeOK, DeletePathRecursively, service, bounds
  <2>3. ProvidersInv' /\ CopyInv'
    BY <1>3 DEF ProvidersInv, CopyInv, DeletePathRecursively, service
  <2> QED
    BY <2>2, <2>3
<1>4. CASE OnUpdateTimer
  <2>1. job' \in [Url -> [Slot -> Stages]] /\ (manager # "available" => job' = job)
    BY <1>4, StartFacts DEF OnUpdateTimer
  <2>2. TypeOK'
    BY <1>4, <2>1 DEF TypeOK, OnUpdateTimer, service, disk, bounds
  <2>3. ProvidersInv' /\ CopyInv'
    BY <1>4, <2>1 DEF ProvidersInv, CopyInv, OnUpdateTimer, service
  <2> QED
    BY <2>2, <2>3
<1>5. CASE CommitPrefs
  BY <1>5 DEF CommitPrefs, TypeOK, ProvidersInv, CopyInv, disk, bounds
<1>6. CASE OnGetDownloadManager
  <2>1. providers' \subseteq Url /\ rows' \subseteq Url /\ manager' \in Managers
    BY <1>6 DEF OnGetDownloadManager, TypeOK, Listed, Managers
  <2>2. TypeOK'
    BY <1>6, <2>1 DEF OnGetDownloadManager, TypeOK, disk, bounds
  <2>3. ProvidersInv'
    BY <1>6 DEF OnGetDownloadManager, ProvidersInv, Listed
  <2>4. CopyInv'
    BY <1>6 DEF OnGetDownloadManager, CopyInv
  <2> QED
    BY <2>2, <2>3, <2>4
<1>7. CASE OnDownloadServiceUnavailable
  BY <1>7 DEF OnDownloadServiceUnavailable, TypeOK, Managers, ProvidersInv,
              CopyInv, disk, bounds
<1>8. CASE ManagerDestroyed
  <2>1. job' \in [Url -> [Slot -> Stages]]
    BY <1>8 DEF ManagerDestroyed, TypeOK, Stages
  <2> QED
    BY <1>8, <2>1 DEF ManagerDestroyed, TypeOK, Managers, ProvidersInv, CopyInv,
                      disk, bounds
<1>9. ASSUME NEW crash \in BOOLEAN, Restart(crash) PROVE IInv'
  <2>1. /\ prefs' \in {prefs, saved} /\ saved' = prefs'
        /\ job' = NoJobs /\ providers' = {} /\ manager' = "waiting"
    BY <1>9 DEF Restart
  <2>1a. /\ job' \in [Url -> [Slot -> Stages]] /\ deletions' \in [Url -> Nat]
         /\ manager' \in Managers /\ rows' = {} /\ synced' = FALSE
         /\ restarts' \in Nat
    BY <1>9 DEF Restart, TypeOK, NoJobs, Stages, Managers
  <2>2. TypeOK'
    BY <1>9, <2>1, <2>1a DEF Restart, TypeOK, disk
  <2>3. ProvidersInv'
    BY <2>1 DEF ProvidersInv
  <2>4. CopyInv'
    BY <2>1 DEF CopyInv
  <2> QED
    BY <2>2, <2>3, <2>4
<1>10. CASE UNCHANGED vars
  BY <1>10 DEF vars, service, disk, bounds, TypeOK, ProvidersInv, CopyInv
<1> QED
  BY <1>1, <1>2, <1>3, <1>4, <1>5, <1>6, <1>7, <1>8, <1>9, <1>10, MetadataStep,
     JobStepInv DEF Next

-----------------------------------------------------------------------------
\* IInv holds in every state: providers follow the dictionary, and no download is
\* under way before the copy has been made.
THEOREM Inductive == Spec => []IInv
<1>1. IInv /\ [Next]_vars => IInv'
  BY NextIInv
<1> QED
  BY InitIInv, <1>1, PTL DEF Spec

\* Type correctness; in particular no deletion runs that was not posted.
THEOREM TypeCorrect == Spec => []TypeOK
<1>1. IInv => TypeOK
  BY DEF IInv
<1> QED
  BY Inductive, <1>1, PTL

\* Exactly the enabled subscriptions have a provider once the profile is there.
THEOREM ProvidersFollow == Spec => []ProvidersMatchPrefs
<1>1. IInv => ProvidersMatchPrefs
  BY DEF IInv, ProvidersInv, ProvidersMatchPrefs
<1> QED
  BY Inductive, <1>1, PTL

\* No callback brings a deleted subscription back.
LEMMA ComesBackNew ==
  ASSUME IInv, [Next]_vars
  PROVE  \A v \in Url : prefs[v] = NoInfo /\ prefs'[v] # NoInfo =>
           prefs'[v] = NewInfo \/ restarts' # restarts
<1> SUFFICES ASSUME NEW v \in Url, prefs[v] = NoInfo, prefs'[v] # NoInfo
             PROVE  prefs'[v] = NewInfo \/ restarts' # restarts
  OBVIOUS
<1> USE DEF IInv
<1>1. ASSUME NEW u \in Url, CreateSubscription(u) PROVE prefs'[v] = NewInfo
  BY <1>1 DEF CreateSubscription, UpdateSubscriptionPrefs, TypeOK
<1>2. ASSUME NEW u \in Url, NEW enabled \in BOOLEAN, EnableSubscription(u, enabled)
      PROVE  FALSE
  BY <1>2 DEF EnableSubscription, UpdateSubscriptionPrefs, GetInfo, TypeOK
<1>3. ASSUME NEW u \in Url, DeleteSubscription(u) PROVE FALSE
  BY <1>3 DEF DeleteSubscription, UpdateSubscriptionPrefs, TypeOK
<1>4. ASSUME NEW u \in Url, Tick(u) PROVE FALSE
  BY <1>4 DEF Tick, TypeOK
<1>5. ASSUME NEW u \in Url, NEW expires \in {Day, Default}, OnListMetadata(u, expires)
      PROVE  FALSE
  BY <1>5 DEF OnListMetadata, UpdateSubscriptionPrefs, GetInfo, TypeOK
<1>6. ASSUME NEW u \in Url, NEW result \in Attempts, OnAttempt(u, result) PROVE FALSE
  BY <1>6, AttemptFacts
<1>7. ASSUME NEW u \in Url, NEW j \in Slot, JobStep(u, j) PROVE FALSE
  <2>1. UNCHANGED prefs \/ \E result \in Attempts : OnAttempt(u, result)
    BY <1>7 DEF JobStep, OnDownloadStarted, OnDownloadRefused, OnDownloadFailed,
                OnDownloadSucceeded, EnsureDirExists, ReplaceFile, OnDirCreated,
                ReplaceFileCallback, Attempts
  <2> QED
    BY <1>6, <2>1
<1>8. ASSUME NEW crash \in BOOLEAN, Restart(crash) PROVE restarts' # restarts
  BY <1>8 DEF Restart, TypeOK
<1>9. ASSUME \/ \E u \in Url : \/ RefreshSubscription(u)
                              \/ \E ok \in BOOLEAN : DeletePathRecursively(u, ok)
             \/ OnUpdateTimer \/ CommitPrefs \/ OnGetDownloadManager
             \/ OnDownloadServiceUnavailable \/ ManagerDestroyed \/ UNCHANGED vars
      PROVE  FALSE
  BY <1>9 DEF RefreshSubscription, DeletePathRecursively, OnUpdateTimer, CommitPrefs,
              OnGetDownloadManager, OnDownloadServiceUnavailable, ManagerDestroyed, vars
<1> QED
  BY <1>1, <1>2, <1>3, <1>4, <1>5, <1>7, <1>8, <1>9 DEF Next, Page

THEOREM NothingResurrects == Spec => NoResurrection
<1>1. IInv /\ [Next]_vars =>
        [\A u \in Url : prefs[u] = NoInfo /\ prefs'[u] # NoInfo =>
           prefs'[u] = NewInfo \/ restarts' # restarts]_vars
  BY ComesBackNew
<1> QED
  BY Inductive, <1>1, PTL DEF Spec, NoResurrection
-----------------------------------------------------------------------------
(***************************************************************************)
(* Downloads are recorded as DownloadRecord says, step by step.            *)
(***************************************************************************)

\* What of the records a step on one entry changes.
LEMMA RecordOfEntry ==
  ASSUME TypeOK, NEW u \in Url, NEW info \in Info \cup {NoInfo},
         UpdateSubscriptionPrefs(u, info)
  PROVE  Record(prefs)' =
           [Record(prefs) EXCEPT ![u] = IF info = NoInfo THEN "none" ELSE info.attempt]
<1>1. /\ prefs'[u] = info
      /\ \A v \in Url \ {u} : prefs'[v] = prefs[v]
  BY UpdateType
<1> QED
  BY <1>1 DEF Record

\* An entry says never, failed or succeeded; only what is no entry says none.
LEMMA RecordOf ==
  ASSUME TypeOK, NEW u \in Url
  PROVE  /\ Record(prefs)[u] = "none" <=> prefs[u] = NoInfo
         /\ prefs[u] # NoInfo => Record(prefs)[u] = prefs[u].attempt
<1>1. prefs[u] # NoInfo => prefs[u].attempt # "none"
  BY DEF TypeOK, Info, Attempts
<1> QED
  BY <1>1 DEF Record

\* Starting downloads asks for some.
LEMMA StartAsks ==
  ASSUME TypeOK, NEW U \in SUBSET Url, StartDownload(U), UNCHANGED manager
  PROVE  D!Asked(U)
<1>1. /\ job' \in [Url -> [Slot -> Stages]]
      /\ \A v \in Url, k \in Slot :
           \/ job'[v][k] = job[v][k]
           \/ v \in U /\ job[v][k] = "idle" /\ job'[v][k] = "requested"
  BY StartFacts
<1>2. Download' \in [Url -> [Slot -> D!Downloads]]
  BY DEF Download, Progress, D!Downloads
<1>3. ASSUME NEW v \in Url, NEW k \in Slot
      PROVE  \/ Download'[v][k] = Download[v][k]
             \/ v \in U /\ Download[v][k] = "none" /\ Download'[v][k] = "asked"
  BY <1>1 DEF Download, Progress
<1> QED
  BY <1>2, <1>3 DEF D!Asked

\* A download moves on, or is done, while it has a manager.
LEMMA MoveMaps ==
  ASSUME TypeOK, NEW u \in Url, NEW j \in Slot, NEW from, NEW to \in Stages,
         Move(u, j, from, to), UNCHANGED manager, manager # "gone"
  PROVE  D!Move(u, j, Progress(from), Progress(to))
<1>1. /\ job' \in [Url -> [Slot -> Stages]] /\ job[u][j] = from /\ job'[u][j] = to
      /\ \A v \in Url, k \in Slot : v # u \/ k # j => job'[v][k] = job[v][k]
  BY MoveFacts
<1>2. /\ Download = [v \in Url |-> [k \in Slot |-> Progress(job[v][k])]]
      /\ Download' = [v \in Url |-> [k \in Slot |-> Progress(job'[v][k])]]
  BY DEF Download
<1>3. Download' = [Download EXCEPT ![u][j] = Progress(to)]
  <2>1. ASSUME NEW v \in Url \ {u} PROVE Download'[v] = Download[v]
    <3>1. \A k \in Slot : job'[v][k] = job[v][k]
      BY <1>1
    <3> QED
      BY <1>2, <3>1
  <2>2. Download'[u] = [Download[u] EXCEPT ![j] = Progress(to)]
    <3>1. \A k \in Slot : job'[u][k] = IF k = j THEN to ELSE job[u][k]
      BY <1>1
    <3> QED
      BY <1>2, <3>1
  <2> QED
    BY <1>2, <2>1, <2>2
<1> QED
  BY <1>1, <1>2, <1>3 DEF D!Move

\* Without a manager what a file operation leaves is seen by nobody.
LEMMA UnseenMove ==
  ASSUME UNCHANGED manager, manager = "gone"
  PROVE  UNCHANGED Download
  BY DEF Download

\* Of some stages it is not seen that they were reached.
LEMMA SameProgress ==
  ASSUME TypeOK, NEW u \in Url, NEW j \in Slot, NEW from, NEW to \in Stages,
         Progress(from) = Progress(to), Move(u, j, from, to), UNCHANGED manager
  PROVE  UNCHANGED Download
<1>1. CASE manager = "gone"
  BY <1>1, UnseenMove
<1>2. CASE manager # "gone"
  <2>1. D!Move(u, j, Progress(to), Progress(to))
    BY <1>2, MoveMaps
  <2>2. Download = [v \in Url |-> [k \in Slot |-> Download[v][k]]]
    BY DEF Download
  <2>3. Download[u][j] = Progress(to) /\ Download' = [Download EXCEPT ![u][j] = Progress(to)]
    BY <2>1 DEF D!Move
  <2> HIDE DEF Download
  <2> QED
    BY <2>2, <2>3
<1> QED
  BY <1>1, <1>2

\* Starting downloads is nothing else than asking for some.
LEMMA AsksAny ==
  ASSUME TypeOK, NEW U \in SUBSET Url, StartDownload(U),
         UNCHANGED <<manager, prefs, saved, list>>
  PROVE  D!Ask
<1>1. D!Asked(Url)
  BY StartAsks DEF D!Asked
<1>2. UNCHANGED <<Record(prefs), Record(saved)>>
  BY DEF Record
<1> QED
  BY <1>1, <1>2 DEF D!Ask

\* What is recorded when a download ends.
LEMMA OutcomeRecorded ==
  ASSUME IInv, NEW u \in Url, NEW j \in Slot, job[u][j] # "idle",
         NEW result \in {"failed", "succeeded"}, OnAttempt(u, result)
  PROVE  D!Recorded(u, result)
<1>1. TypeOK /\ synced
  BY UnderWay DEF IInv
<1>2. GetInfo(u) = prefs[u]
  BY <1>1 DEF GetInfo
<1>3. CASE prefs[u] = NoInfo
  <2>1. Record(prefs)' = Record(prefs) /\ Record(prefs)[u] = "none"
    BY <1>1, <1>2, <1>3, RecordOf DEF OnAttempt, Record
  <2>2. Record(prefs) = [Record(prefs) EXCEPT ![u] = Record(prefs)[u]]
    BY DEF Record
  <2> QED
    BY <2>1, <2>2 DEF D!Recorded
<1>4. CASE prefs[u] # NoInfo
  <2> DEFINE info == Attempted(prefs[u], result)
  <2>1. prefs[u] \in Info
    BY <1>1, <1>4 DEF TypeOK
  <2>2. info \in Info /\ info.attempt = result
    BY <2>1 DEF Attempted, Info, Attempts
  <2>3. UpdateSubscriptionPrefs(u, info)
    BY <1>2, <1>4 DEF OnAttempt
  <2> HIDE DEF info
  <2>4. info # NoInfo
    BY <2>2, ConstantsAssumption
  <2>5. Record(prefs)' = [Record(prefs) EXCEPT ![u] = result]
    BY <1>1, <2>2, <2>3, <2>4, RecordOfEntry
  <2>6. Record(prefs)[u] # "none"
    BY <1>1, <1>4, RecordOf
  <2> QED
    BY <2>5, <2>6 DEF D!Recorded
<1> QED
  BY <1>3, <1>4

\* A step in which a download that has put the list in place ends, or one that
\* has not.
LEMMA OutcomeMaps ==
  ASSUME IInv, NEW u \in Url, NEW j \in Slot,
         NEW from \in {"downloading", "noDir", "notReplaced", "replaced"},
         NEW result, result = IF from = "replaced" THEN "succeeded" ELSE "failed",
         Move(u, j, from, "idle"), OnAttempt(u, result),
         UNCHANGED <<service, disk>>
  PROVE  D!End(u, j)
<1>1. TypeOK /\ job[u][j] = from /\ from # "idle" /\ manager # "gone"
  BY DEF IInv, CopyInv, Move
<1>2. D!Recorded(u, result)
  BY <1>1, OutcomeRecorded
<1>3. D!Move(u, j, Progress(from), "none")
  BY <1>1, MoveMaps DEF service, Stages, Progress
<1>4. Progress(from) = IF from = "replaced" THEN "put" ELSE "running"
  BY DEF Progress
<1>5. UNCHANGED <<Record(saved), list>>
  BY DEF service, disk, Record
<1> QED
  BY <1>2, <1>3, <1>4, <1>5 DEF D!End

\* A step that neither records anything nor moves a download on.
LEMMA Stutters ==
  ASSUME UNCHANGED <<saved, list>>, Record(prefs)' = Record(prefs), UNCHANGED Download
  PROVE  UNCHANGED D!vars
<1>1. UNCHANGED Record(saved)
  BY DEF Record
<1> QED
  BY <1>1 DEF D!vars

\* An entry that is written with what it says of its last attempt.
LEMMA SameRecord ==
  ASSUME TypeOK, NEW u \in Url, prefs[u] # NoInfo, NEW info \in Info,
         info.attempt = prefs[u].attempt, UpdateSubscriptionPrefs(u, info)
  PROVE  Record(prefs)' = Record(prefs)
<1>1. info # NoInfo
  BY ConstantsAssumption
<1>2. Record(prefs)' = [Record(prefs) EXCEPT ![u] = prefs[u].attempt]
  BY <1>1, RecordOfEntry
<1>3. Record(prefs)[u] = prefs[u].attempt
  BY RecordOf
<1> QED
  BY <1>2, <1>3 DEF Record

\* A click on the page makes an entry, removes one, asks for a download or says
\* nothing of one.
LEMMA PageMaps ==
  ASSUME IInv, Page
  PROVE  D!Next \/ UNCHANGED D!vars
<1> USE DEF IInv
<1>1. ASSUME NEW u \in Url, CreateSubscription(u) PROVE D!Subscribe(u)
  <2>1. UpdateSubscriptionPrefs(u, NewInfo) /\ StartDownload({u}) /\ UNCHANGED <<manager, saved, list>>
    BY <1>1 DEF CreateSubscription, disk
  <2>2. NewInfo \in Info /\ NewInfo.attempt = "never"
    BY DEF NewInfo, Info, Attempts, Day, Default
  <2>3. Record(prefs)' = [Record(prefs) EXCEPT ![u] = "never"]
    BY <2>1, <2>2, RecordOfEntry, ConstantsAssumption
  <2>4. D!Asked({u})
    BY <2>1, StartAsks
  <2>5. UNCHANGED Record(saved)
    BY <2>1 DEF Record
  <2> QED
    BY <2>1, <2>3, <2>4, <2>5 DEF D!Subscribe
<1>2. ASSUME NEW u \in Url, DeleteSubscription(u) PROVE D!Unsubscribe(u)
  <2>1. UpdateSubscriptionPrefs(u, NoInfo) /\ UNCHANGED <<manager, saved, job, list>>
    BY <1>2 DEF DeleteSubscription, disk
  <2>2. Record(prefs)' = [Record(prefs) EXCEPT ![u] = "none"]
    BY <2>1, RecordOfEntry
  <2>3. UNCHANGED <<Record(saved), Download>>
    BY <2>1 DEF Record, Download
  <2> QED
    BY <2>1, <2>2, <2>3 DEF D!Unsubscribe
<1>3. ASSUME NEW u \in Url, RefreshSubscription(u) PROVE D!Ask
  BY <1>3, AsksAny DEF RefreshSubscription, service, disk
<1>4. ASSUME NEW u \in Url, NEW enabled \in BOOLEAN, EnableSubscription(u, enabled)
      PROVE  UNCHANGED D!vars
  <2> DEFINE info == [GetInfo(u) EXCEPT !.enabled = enabled]
  <2>1. GetInfo(u) = prefs[u] /\ prefs[u] \in Info
    BY <1>4, GetInfoType DEF EnableSubscription
  <2>2. info \in Info /\ info.attempt = prefs[u].attempt
    BY <2>1 DEF Info
  <2>3. UpdateSubscriptionPrefs(u, info) /\ UNCHANGED <<manager, saved, job, list>>
    BY <1>4 DEF EnableSubscription, disk
  <2> HIDE DEF info
  <2>4. Record(prefs)' = Record(prefs)
    BY <2>1, <2>2, <2>3, SameRecord, ConstantsAssumption
  <2>5. UNCHANGED Download
    BY <2>3 DEF Download
  <2> QED
    BY <2>3, <2>4, <2>5, Stutters
<1> QED
  BY <1>1, <1>2, <1>3, <1>4 DEF Page, D!Next

\* What a task of the file runner leaves once the list is in place, or not.
LEMMA ReplaceMaps ==
  ASSUME IInv, NEW u \in Url, NEW j \in Slot, NEW ok \in BOOLEAN, ReplaceFile(u, j, ok)
  PROVE  D!Put(u, j) \/ D!PutLate(u) \/ UNCHANGED D!vars
<1> USE DEF IInv
<1>1. UNCHANGED <<prefs, saved, manager>>
  BY DEF ReplaceFile, service
<1>2. UNCHANGED <<Record(prefs), Record(saved)>>
  BY <1>1 DEF Record
<1>3. CASE manager = "gone"
  <2>1. UNCHANGED Download
    BY <1>1, <1>3, UnseenMove
  <2>2. CASE ok
    BY <1>2, <2>1, <2>2 DEF ReplaceFile, D!PutLate
  <2>3. CASE ~ok
    BY <1>1, <1>2, <2>1, <2>3, Stutters DEF ReplaceFile
  <2> QED
    BY <2>2, <2>3
<1>4. CASE manager # "gone" /\ ok
  <2>1. Move(u, j, "replace", "replaced") /\ list' = [list EXCEPT ![u] = "present"]
    BY <1>4 DEF ReplaceFile, Reply
  <2>2. D!Move(u, j, "running", "put")
    BY <1>1, <1>4, <2>1, MoveMaps DEF Stages, Progress
  <2> QED
    BY <1>2, <2>1, <2>2 DEF D!Put
<1>5. CASE manager # "gone" /\ ~ok
  <2>1. Move(u, j, "replace", "notReplaced") /\ UNCHANGED list
    BY <1>5 DEF ReplaceFile, Reply
  <2>2. UNCHANGED Download
    BY <1>1, <1>5, <2>1, SameProgress DEF Stages, Progress
  <2> QED
    BY <1>1, <1>2, <2>1, <2>2, Stutters
<1> QED
  BY <1>3, <1>4, <1>5

\* A download is accepted or refused, puts the list in place, ends, or goes on.
LEMMA JobMaps ==
  ASSUME IInv, NEW u \in Url, NEW j \in Slot, JobStep(u, j)
  PROVE  D!Next \/ UNCHANGED D!vars
<1> USE DEF IInv
<1>1. CASE OnDownloadStarted(u, j)
  <2>1. /\ Move(u, j, "requested", "downloading") /\ manager # "gone"
        /\ UNCHANGED <<prefs, saved, manager, list>>
    BY <1>1 DEF OnDownloadStarted, Move, CopyInv, service, disk
  <2>2. D!Move(u, j, "asked", "running")
    BY <2>1, MoveMaps DEF Stages, Progress
  <2>3. UNCHANGED <<Record(prefs), Record(saved)>>
    BY <2>1 DEF Record
  <2> QED
    BY <2>1, <2>2, <2>3 DEF D!Accept, D!Next
<1>2. CASE OnDownloadRefused(u, j)
  <2>1. /\ Move(u, j, "requested", "idle") /\ manager # "gone"
        /\ UNCHANGED <<prefs, saved, manager, list>>
    BY <1>2 DEF OnDownloadRefused, Move, CopyInv, service, disk
  <2>2. D!Move(u, j, "asked", "none")
    BY <2>1, MoveMaps DEF Stages, Progress
  <2>3. UNCHANGED <<Record(prefs), Record(saved)>>
    BY <2>1 DEF Record
  <2> QED
    BY <2>1, <2>2, <2>3 DEF D!Refuse, D!Next
<1>3. CASE OnDownloadFailed(u, j)
  BY <1>3, OutcomeMaps DEF OnDownloadFailed, D!Next
<1>4. CASE OnDownloadSucceeded(u, j)
  <2>1. UNCHANGED <<prefs, saved, manager, list>> /\ Move(u, j, "downloading", "mkdir")
    BY <1>4 DEF OnDownloadSucceeded, service, disk
  <2>2. UNCHANGED Download
    BY <2>1, SameProgress DEF Stages, Progress
  <2>3. Record(prefs)' = Record(prefs)
    BY <2>1 DEF Record
  <2> QED
    BY <2>1, <2>2, <2>3, Stutters
<1>5. ASSUME NEW ok \in BOOLEAN, EnsureDirExists(u, j, ok) PROVE UNCHANGED D!vars
  <2>1. UNCHANGED <<prefs, saved, manager, list>>
    BY <1>5 DEF EnsureDirExists, service
  <2>2. UNCHANGED Download
    <3>1. CASE manager = "gone"
      BY <2>1, <3>1, UnseenMove
    <3>2. CASE manager # "gone"
      <4>1. \/ Move(u, j, "mkdir", "dirMade") \/ Move(u, j, "mkdir", "noDir")
        BY <1>5, <3>2 DEF EnsureDirExists, Reply
      <4> QED
        BY <2>1, <4>1, SameProgress DEF Stages, Progress
    <3> QED
      BY <3>1, <3>2
  <2>3. Record(prefs)' = Record(prefs)
    BY <2>1 DEF Record
  <2> QED
    BY <2>1, <2>2, <2>3, Stutters
<1>6. ASSUME NEW ok \in BOOLEAN, ReplaceFile(u, j, ok) PROVE D!Next \/ UNCHANGED D!vars
  BY <1>6, ReplaceMaps DEF D!Next
<1>7. CASE OnDirCreated(u, j)
  <2>1. CASE Move(u, j, "noDir", "idle") /\ OnAttempt(u, "failed")
    BY <1>7, <2>1, OutcomeMaps DEF OnDirCreated, D!Next
  <2>2. CASE Move(u, j, "dirMade", "replace") /\ UNCHANGED prefs
    <3>1. UNCHANGED <<saved, manager, list>>
      BY <1>7 DEF OnDirCreated, service, disk
    <3>2. UNCHANGED Download
      BY <2>2, <3>1, SameProgress DEF Stages, Progress
    <3>3. Record(prefs)' = Record(prefs)
      BY <2>2 DEF Record
    <3> QED
      BY <3>1, <3>2, <3>3, Stutters
  <2> QED
    BY <1>7, <2>1, <2>2 DEF OnDirCreated
<1>8. CASE ReplaceFileCallback(u, j)
  <2>1. CASE Move(u, j, "notReplaced", "idle") /\ OnAttempt(u, "failed")
    BY <1>8, <2>1, OutcomeMaps DEF ReplaceFileCallback, D!Next
  <2>2. CASE Move(u, j, "replaced", "idle") /\ OnAttempt(u, "succeeded")
    BY <1>8, <2>2, OutcomeMaps DEF ReplaceFileCallback, D!Next
  <2> QED
    BY <1>8, <2>1, <2>2 DEF ReplaceFileCallback
<1> QED
  BY <1>1, <1>2, <1>3, <1>4, <1>5, <1>6, <1>7, <1>8 DEF JobStep

\* Every step of the subscriptions is one of DownloadRecord, or none.
LEMMA StepMaps ==
  ASSUME IInv, [Next]_vars
  PROVE  [D!Next]_D!vars
<1> USE DEF IInv
<1>1. ASSUME NEW u \in Url, Tick(u) PROVE UNCHANGED D!vars
  <2>1. UNCHANGED <<saved, list, manager, job>>
    BY <1>1 DEF Tick, service, disk
  <2>2. UNCHANGED Download
    BY <2>1 DEF Download
  <2>3. Record(prefs)' = Record(prefs)
    <3> DEFINE info == [prefs[u] EXCEPT !.age = @ + 1]
    <3>1. prefs[u] \in Info /\ prefs[u] # NoInfo /\ prefs' = [prefs EXCEPT ![u] = info]
      BY <1>1 DEF TypeOK, Tick
    <3>2. prefs[u].age + 1 \in 0 .. 2
      BY <1>1, <3>1 DEF Info, Tick
    <3>3. info \in Info /\ info.attempt = prefs[u].attempt
      BY <3>1, <3>2 DEF Info
    <3>4. info # NoInfo
      BY <3>3, ConstantsAssumption
    <3> HIDE DEF info
    <3> QED
      BY <3>1, <3>3, <3>4 DEF Record, TypeOK
  <2> QED
    BY <2>1, <2>2, <2>3, Stutters
<1>2. ASSUME NEW u \in Url, NEW ok \in BOOLEAN, DeletePathRecursively(u, ok)
      PROVE  D!Remove(u) \/ UNCHANGED D!vars
  <2>1. UNCHANGED <<prefs, saved, manager, job>>
    BY <1>2 DEF DeletePathRecursively, service
  <2>2. UNCHANGED <<Record(prefs), Record(saved), Download>>
    BY <2>1 DEF Record, Download
  <2>3. CASE list[u] = "present" /\ list' = [list EXCEPT ![u] = "deleted"]
    BY <2>2, <2>3 DEF D!Remove
  <2>4. CASE UNCHANGED list
    BY <2>1, <2>2, <2>4, Stutters
  <2>5. list \in [Url -> {"unwritten", "present", "deleted"}]
    BY DEF TypeOK
  <2>6. UNCHANGED list \/ list' = [list EXCEPT ![u] = IF @ = "present" THEN "deleted" ELSE @]
    BY <1>2 DEF DeletePathRecursively, disk
  <2> QED
    BY <2>3, <2>4, <2>5, <2>6
<1>3. ASSUME NEW u \in Url, NEW expires \in {Day, Default}, OnListMetadata(u, expires)
      PROVE  UNCHANGED D!vars
  <2> DEFINE info == [GetInfo(u) EXCEPT !.expires = expires]
  <2>1. GetInfo(u) = prefs[u] /\ prefs[u] \in Info
    BY <1>3, GetInfoType DEF OnListMetadata
  <2>2. info \in Info /\ info.attempt = prefs[u].attempt
    BY <2>1 DEF Info
  <2>3. UpdateSubscriptionPrefs(u, info) /\ UNCHANGED <<manager, saved, job, list>>
    BY <1>3 DEF OnListMetadata, service, disk
  <2> HIDE DEF info
  <2>4. Record(prefs)' = Record(prefs)
    BY <2>1, <2>2, <2>3, SameRecord, ConstantsAssumption
  <2>5. UNCHANGED Download
    BY <2>3 DEF Download
  <2> QED
    BY <2>3, <2>4, <2>5, Stutters
<1>4. CASE OnUpdateTimer
  BY <1>4, AsksAny DEF OnUpdateTimer, service, disk, D!Next
<1>5. CASE CommitPrefs
  <2>1. UNCHANGED Download /\ UNCHANGED Record(prefs) /\ UNCHANGED list
    BY <1>5 DEF CommitPrefs, Download, Record, disk
  <2>2. Record(saved)' = Record(prefs)
    BY <1>5 DEF CommitPrefs, Record
  <2> QED
    BY <2>1, <2>2 DEF D!Commit, D!Next
<1>6. CASE OnGetDownloadManager \/ OnDownloadServiceUnavailable
  <2>1. UNCHANGED <<prefs, saved, job, list>> /\ manager # "gone" /\ manager' # "gone"
    BY <1>6 DEF OnGetDownloadManager, OnDownloadServiceUnavailable, disk
  <2>2. UNCHANGED Download /\ Record(prefs)' = Record(prefs)
    BY <2>1 DEF Download, Record
  <2> QED
    BY <2>1, <2>2, Stutters
<1>7. CASE ManagerDestroyed
  <2>1. Download' = D!NoDownloads
    BY <1>7 DEF ManagerDestroyed, Download, D!NoDownloads
  <2>2. UNCHANGED <<Record(prefs), Record(saved), list>>
    BY <1>7 DEF ManagerDestroyed, Record, disk
  <2> QED
    BY <2>1, <2>2 DEF D!Abandon, D!Next
<1>8. ASSUME NEW crash \in BOOLEAN, Restart(crash) PROVE D!Restart
  <2>1. /\ prefs' \in {prefs, saved} /\ saved' = prefs' /\ UNCHANGED list
        /\ job' = NoJobs /\ manager' = "waiting"
    BY <1>8 DEF Restart, disk
  <2>2. Download' = D!NoDownloads
    BY <2>1 DEF Download, NoJobs, Progress, D!NoDownloads
  <2>3. Record(prefs)' \in {Record(prefs), Record(saved)} /\ Record(saved)' = Record(prefs)'
    BY <2>1 DEF Record
  <2> QED
    BY <2>1, <2>2, <2>3 DEF D!Restart
<1>9. CASE UNCHANGED vars
  <2>1. UNCHANGED <<prefs, saved, manager, job, list>>
    BY <1>9 DEF vars, service, disk
  <2> QED
    BY <2>1, Stutters DEF Download, Record
<1> QED
  BY <1>1, <1>2, <1>3, <1>4, <1>5, <1>6, <1>7, <1>8, <1>9, PageMaps, JobMaps DEF Next, D!Next

\* Whatever fails, is deleted, outlived or restarted: when a download that was
\* accepted ends, the entry its URL has then, if any, says whether this download
\* has put the list file in place, for any number of URLs, of downloads at a time
\* and of clicks.
THEOREM OutcomesRecorded == Spec => RecordsOutcomes
<1>1. Init => D!Init
  BY DEF Init, D!Init, Record, Download, NoJobs, Progress, D!NoDownloads
<1>2. IInv /\ [Next]_vars => [D!Next]_D!vars
  BY StepMaps
<1> QED
  BY <1>1, <1>2, Inductive, PTL DEF Spec, RecordsOutcomes, D!Spec
=============================================================================
