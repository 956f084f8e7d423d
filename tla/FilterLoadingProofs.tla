------------------------- MODULE FilterLoadingProofs -------------------------
(***************************************************************************)
(* Proofs about FilterLoading, for any sets of providers and any bounds.   *)
(***************************************************************************)
EXTENDS FilterLoading, SequenceTheorems, TLAPS

-----------------------------------------------------------------------------
(* Queues: what a post and a take do to the entries. *)

LEMMA PostFacts ==
  ASSUME NEW S, NEW q \in Seq(S), NEW e \in S
  PROVE  /\ Append(q, e) \in Seq(S)
         /\ Len(Append(q, e)) = Len(q) + 1 /\ Len(q) \in Nat
         /\ \A i \in 1 .. Len(q) : Append(q, e)[i] = q[i]
         /\ Append(q, e)[Len(q) + 1] = e
  OBVIOUS

LEMMA TakeFacts ==
  ASSUME NEW S, NEW q \in Seq(S), q # <<>>
  PROVE  /\ Head(q) \in S /\ Head(q) = q[1] /\ 1 \in 1 .. Len(q)
         /\ Tail(q) \in Seq(S)
         /\ Len(Tail(q)) = Len(q) - 1 /\ Len(q) \in Nat
         /\ \A i \in 1 .. Len(q) - 1 : Tail(q)[i] = q[i + 1]
  BY HeadTailProperties, EmptySeq, LenProperties

(* A task of the engine's runner names a load. *)
LEMMA TaskFacts ==
  /\ \A k \in LoadId : Build(k) \in Task /\ Load(k) \in Task
  /\ LoadDATTask \in Task
  /\ \A k \in LoadId : /\ Build(k).op = "build" /\ Build(k).id = k
                       /\ Load(k).op = "load" /\ Load(k).id = k
  /\ LoadDATTask.op = "dat"
  /\ \A t \in Task : /\ t.op \in {"build", "load", "dat"}
                     /\ t.op # "dat" => t.id \in LoadId
  BY DEF Build, Load, LoadDATTask, Task

-----------------------------------------------------------------------------
(* Starting a load. *)

LEMMA StartLoadType ==
  ASSUME TypeOK, NEW P \in SUBSET Provider, NEW st \in [LoadId -> Stages],
         NEW q \in Seq(Task), StartLoad(P, st, q)
  PROVE  /\ started' = started + 1 /\ started' \in LoadId
         /\ started' \in 0 .. MaxLoads
         /\ want' = [want EXCEPT ![started + 1] = P]
         /\ stage' = [st EXCEPT ![started + 1] =
                        IF P = {} THEN "build" ELSE "collect"]
         /\ want' \in [LoadId -> SUBSET Provider] /\ stage' \in [LoadId -> Stages]
         /\ read' = read /\ arrived' = arrived /\ got' = got
         /\ engineQ' \in Seq(Task)
         /\ unnotified' = {}
  <1>1. started' = started + 1 /\ started' \in LoadId /\ started' \in 0 .. MaxLoads
    BY ConstantsAssumption DEF StartLoad, TypeOK, LoadId
  <1>2. /\ want' \in [LoadId -> SUBSET Provider] /\ stage' \in [LoadId -> Stages]
        /\ read' = read /\ arrived' = arrived /\ got' = got
    BY <1>1 DEF StartLoad, TypeOK, Stages
  <1>3. engineQ' \in Seq(Task)
    BY <1>1, TaskFacts, PostFacts DEF StartLoad
  <1> QED BY <1>1, <1>2, <1>3 DEF StartLoad

LEMMA StartLoadInv ==
  ASSUME IInv, NEW P \in SUBSET Provider, NEW st \in [LoadId -> Stages],
         NEW q \in Seq(Task), StartLoad(P, st, q), providers' = P,
         \A k \in LoadId : st[k] # stage[k] => k <= started /\ ~Ready(k) /\ st[k] = "dropped",
         \A i \in 1 .. Len(q) : TaskOK(q[i]),
         UNCHANGED <<keysQ, postedQ, datBuf, rules, cache>>
  PROVE  Inv'
  <1>t. TypeOK BY DEF IInv
  <1>u. started' = started + 1 /\ started' \in LoadId
    BY <1>t, StartLoadType
  <1>n. PICK n \in LoadId : n = started + 1 /\ started' = n
    BY <1>u
  <1>v. /\ want' = [want EXCEPT ![n] = P]
        /\ stage' = [st EXCEPT ![n] = IF P = {} THEN "build" ELSE "collect"]
        /\ read' = read /\ arrived' = arrived /\ got' = got /\ unnotified' = {}
    BY <1>t, <1>n, StartLoadType
  <1>w. /\ started \in Nat /\ LoadId \subseteq Nat
        /\ want \in [LoadId -> SUBSET Provider] /\ stage \in [LoadId -> Stages]
    BY <1>t, ConstantsAssumption DEF TypeOK, LoadId
  <1>0. /\ started \in Nat /\ n \in LoadId /\ LoadId \subseteq Nat
        /\ n = started + 1 /\ started' = n
        /\ want \in [LoadId -> SUBSET Provider] /\ stage \in [LoadId -> Stages]
        /\ want' = [want EXCEPT ![n] = P]
        /\ stage' = [st EXCEPT ![n] = IF P = {} THEN "build" ELSE "collect"]
        /\ read' = read /\ arrived' = arrived /\ got' = got /\ unnotified' = {}
    BY <1>n, <1>v, <1>w
  <1>1. \A k \in LoadId : Ready(k) => Ready(k)' /\ k # n
    BY <1>0 DEF Ready
  <1>2. \A t \in Task : TaskOK(t) => TaskOK(t)'
    BY <1>1, TaskFacts DEF TaskOK
  <1>3. \A k \in 0 .. MaxLoads : RequestOK(k) => RequestOK(k)'
    BY <1>1 DEF RequestOK, LoadId
  <1>4. \A i \in 1 .. Len(engineQ)' : TaskOK(engineQ[i])'
    <2>1. CASE P = {}
      <3>1. engineQ' = Append(q, Build(n)) BY <2>1, <1>n DEF StartLoad
      <3>2. Build(n) \in Task /\ TaskOK(Build(n))'
        BY <2>1, <1>0, TaskFacts DEF TaskOK, Ready
      <3>3. \A i \in 1 .. Len(q) : q[i] \in Task BY ElementOfSeq
      <3> QED BY <3>1, <3>2, <3>3, <1>2, PostFacts
    <2>2. CASE P # {}
      <3>1. engineQ' = q BY <2>2 DEF StartLoad
      <3>2. \A i \in 1 .. Len(q) : q[i] \in Task BY ElementOfSeq
      <3> QED BY <3>1, <3>2, <1>2
    <2> QED BY <2>1, <2>2
  <1>5. QueueInv'
    <2>1. /\ \A i \in 1 .. Len(keysQ) : keysQ[i] \in 0 .. MaxLoads
          /\ \A i \in 1 .. Len(postedQ) : postedQ[i] \in 0 .. MaxLoads
      BY ElementOfSeq DEF IInv, TypeOK
    <2> QED BY <1>3, <1>4, <2>1 DEF IInv, Inv, QueueInv
  <1>6. \A k \in LoadId : LoadInv(k)'
    <2> SUFFICES ASSUME NEW k \in LoadId PROVE LoadInv(k)'
      OBVIOUS
    <2>0. LoadInv(k) BY DEF IInv, Inv
    <2>1. CASE k = n
      <3>1. /\ read'[n] = {} /\ arrived'[n] = {} /\ got' = got
            /\ \A p \in Provider : got[n][p] = 0
        BY <2>0, <2>1, <1>0 DEF LoadInv
      <3>2. want'[n] = P /\ (P # {} => stage'[n] = "collect") /\ started' = n
        BY <1>0
      <3>3. Ready(n)' => P = {}
        BY <3>2 DEF Ready
      <3> QED BY <2>1, <1>0, <3>1, <3>2, <3>3 DEF LoadInv
    <2>2. CASE k # n
      BY <2>0, <2>2, <1>0, <1>1 DEF LoadInv, Ready
    <2> QED BY <2>1, <2>2
  <1>7. LatestInv'
    BY <1>0 DEF LatestInv, IInv, Inv, LoadInv
  <1>8. EngineInv'
    BY <1>0, <1>1 DEF EngineInv, IInv, Inv, rules, TypeOK, LoadId
  <1>9. DATInv'
    BY DEF DATInv, IInv, Inv, rules, cache
  <1> QED BY <1>5, <1>6, <1>7, <1>8, <1>9 DEF Inv

-----------------------------------------------------------------------------
(* A step that leaves the loads alone and admits every change it makes. *)

LEMMA QuietInv ==
  ASSUME IInv,
         UNCHANGED <<loads, engineQ, keysQ, postedQ, datBuf, rules, cache>>,
         unnotified \subseteq unnotified',
         providers' \ unnotified' = providers \ unnotified',
         \A p \in providers \ unnotified' : ver'[p] = ver[p]
  PROVE  Inv'
  <1>1. QueueInv'
    BY DEF IInv, Inv, QueueInv, TaskOK, RequestOK, Ready, loads
  <1>2. \A k \in LoadId : LoadInv(k)'
    BY DEF IInv, Inv, LoadInv, Ready, loads
  <1>3. LatestInv'
    <2>1. started > 0 => started \in LoadId
      BY ConstantsAssumption DEF IInv, TypeOK, LoadId
    <2>2. started > 0 => read[started] \subseteq want[started]
      BY <2>1 DEF IInv, Inv, LoadInv
    <2>3. started > 0 =>
            /\ stage[started] \notin {"idle", "dropped"}
            /\ want[started] \ unnotified' = providers' \ unnotified'
      BY DEF IInv, Inv, LatestInv
    <2>4. started > 0 =>
            \A p \in read[started] \ unnotified' : got[started][p] = ver'[p]
      BY <2>2, <2>3 DEF IInv, Inv, LatestInv
    <2> QED BY <2>3, <2>4 DEF LatestInv, loads
  <1>4. EngineInv' /\ DATInv'
    BY DEF IInv, Inv, EngineInv, DATInv, Ready, loads, rules, cache
  <1> QED BY <1>1, <1>2, <1>3, <1>4 DEF Inv

(* A notification, at the manager and at startup. *)

LEMMA QueuedTasks ==
  ASSUME IInv
  PROVE  /\ stage \in [LoadId -> Stages] /\ engineQ \in Seq(Task)
         /\ \A i \in 1 .. Len(engineQ) : TaskOK(engineQ[i])
  BY DEF IInv, TypeOK, Inv, QueueInv

LEMMA OnChangedInv ==
  ASSUME IInv, NEW P \in SUBSET Provider, NEW D \in SUBSET Provider,
         OnChanged(P, D), providers' = P,
         providers' \ D = providers \ D,
         \A p \in providers \ D : ver'[p] = ver[p],
         UNCHANGED <<keysQ, postedQ, datBuf, rules, cache>>
  PROVE  Inv'
  <1>1. CASE StartLoad(P, stage, engineQ)
    BY <1>1, QueuedTasks, StartLoadInv
  <1>2. CASE unnotified' = unnotified \cup D /\ UNCHANGED <<loads, engineQ>>
    <2>1. UNCHANGED <<loads, engineQ, keysQ, postedQ, datBuf, rules, cache>>
      BY <1>2
    <2>2. /\ unnotified \subseteq unnotified'
          /\ providers' \ unnotified' = providers \ unnotified'
          /\ \A p \in providers \ unnotified' : ver'[p] = ver[p]
      BY <1>2
    <2> QED BY <2>1, <2>2, QuietInv
  <1> QED BY <1>1, <1>2 DEF OnChanged

LEMMA ForceNotifyInv ==
  ASSUME IInv, NEW q \in Seq(Task), ForceNotifyObserver(q),
         \A i \in 1 .. Len(q) : TaskOK(q[i]),
         UNCHANGED <<ver, providers, keysQ, postedQ, datBuf, rules, cache>>
  PROVE  Inv'
  <1>t. TypeOK BY DEF IInv
  <1>1. CASE StartLoad(providers, stage, q)
    <2>1. providers \in SUBSET Provider /\ providers' = providers
      BY <1>t DEF TypeOK
    <2> QED BY <1>1, <2>1, QueuedTasks, StartLoadInv
  <1>2. CASE engineQ' = q /\ UNCHANGED <<loads, unnotified>>
    <2>1. QueueInv'
      BY <1>2 DEF IInv, Inv, QueueInv, TaskOK, RequestOK, Ready, loads
    <2>2. \A k \in LoadId : LoadInv(k)'
      BY <1>2 DEF IInv, Inv, LoadInv, Ready, loads
    <2>3. LatestInv' /\ EngineInv' /\ DATInv'
      BY <1>2 DEF IInv, Inv, LatestInv, EngineInv, DATInv, Ready, loads, rules, cache
    <2> QED BY <2>1, <2>2, <2>3 DEF Inv
  <1> QED BY <1>1, <1>2 DEF ForceNotifyObserver

-----------------------------------------------------------------------------
(* The environment's steps. *)

LEMMA RemoveProviderInv ==
  ASSUME IInv, NEW s \in Subs, RemoveProvider(s),
         UNCHANGED <<keysQ, postedQ, datBuf, rules, cache>>
  PROVE  Inv'
  <1> DEFINE waits(k) == stage[k] = "collect" /\ s \in want[k] \ arrived[k]
             st == [k \in LoadId |-> IF waits(k) THEN "dropped" ELSE stage[k]]
  <1>t. TypeOK BY DEF IInv
  <1>1. providers \ {s} \in SUBSET Provider
    BY <1>t DEF TypeOK
  <1>2. st \in [LoadId -> Stages]
    BY <1>t DEF TypeOK, Stages
  <1>3. StartLoad(providers \ {s}, st, engineQ) /\ providers' = providers \ {s}
    BY DEF RemoveProvider
  <1>4. \A k \in LoadId : st[k] # stage[k] =>
          k <= started /\ ~Ready(k) /\ st[k] = "dropped"
    <2> SUFFICES ASSUME NEW k \in LoadId, waits(k)
                 PROVE  k <= started /\ ~Ready(k) /\ st[k] = "dropped"
      OBVIOUS
    <2>1. k \in Nat /\ started \in Nat
      BY <1>t, ConstantsAssumption DEF TypeOK, LoadId
    <2>2. LoadInv(k) BY DEF IInv, Inv
    <2> QED BY <2>1, <2>2 DEF LoadInv, Ready
  <1> HIDE DEF st
  <1> QED BY <1>1, <1>2, <1>3, <1>4, QueuedTasks, StartLoadInv

LEMMA EnvironmentInv ==
  ASSUME IInv, Environment
  PROVE  Inv'
  <1>t. TypeOK BY DEF IInv
  <1>p. providers \in SUBSET Provider /\ Static \subseteq Provider /\ Subs \subseteq Provider
    BY <1>t DEF TypeOK, Provider
  <1>v. ver \in [Provider -> Nat]
    BY <1>t DEF TypeOK, Content
  <1>1. ASSUME NEW p \in Static, UpdateCustomFilters(p) PROVE Inv'
    <2>1. /\ OnChanged(providers, {p}) /\ providers' = providers
          /\ UNCHANGED <<keysQ, postedQ, datBuf, rules, cache>>
      BY <1>1 DEF UpdateCustomFilters, resources, startup
    <2>2. \A x \in Provider \ {p} : ver'[x] = ver[x]
      BY <1>1, <1>v DEF UpdateCustomFilters, Write
    <2>3. {p} \in SUBSET Provider BY <1>p
    <2> QED BY <1>p, <2>1, <2>2, <2>3, OnChangedInv
  <1>2. ASSUME NEW s \in Subs, ReplaceListFile(s) PROVE Inv'
    <2>1. /\ UNCHANGED <<loads, engineQ, keysQ, postedQ, datBuf, rules, cache>>
          /\ unnotified' = unnotified \cup ({s} \cap providers)
          /\ providers' = providers
      BY <1>2 DEF ReplaceListFile, resources, startup
    <2>2. \A x \in Provider \ {s} : ver'[x] = ver[x]
      BY <1>2, <1>v DEF ReplaceListFile, Write
    <2>3. \A x \in providers \ unnotified' : ver'[x] = ver[x]
      BY <1>p, <2>1, <2>2
    <2> QED BY <2>1, <2>3, QuietInv
  <1>3. ASSUME NEW s \in Subs, OnSubscriptionDownloaded(s) PROVE Inv'
    <2>1. /\ UNCHANGED <<keysQ, postedQ, datBuf, rules, cache>>
          /\ providers' = providers /\ ver' = ver
      BY <1>3 DEF OnSubscriptionDownloaded, resources, startup
    <2>2. CASE OnChanged(providers, {})
      <3>1. {} \in SUBSET Provider OBVIOUS
      <3> QED BY <1>p, <2>1, <2>2, <3>1, OnChangedInv
    <2>3. CASE UNCHANGED <<loads, engineQ, unnotified>>
      BY <2>1, <2>3, QuietInv
    <2> QED BY <1>3, <2>2, <2>3 DEF OnSubscriptionDownloaded
  <1>4. ASSUME NEW s \in Subs, CreateSubscription(s) PROVE Inv'
    <2>1. UNCHANGED <<loads, engineQ, keysQ, postedQ, datBuf, rules, cache>>
      BY <1>4 DEF CreateSubscription, resources, startup
    <2>2. /\ unnotified \subseteq unnotified'
          /\ providers' \ unnotified' = providers \ unnotified'
          /\ ver' = ver
      BY <1>4 DEF CreateSubscription
    <2> QED BY <2>1, <2>2, QuietInv
  <1>5. ASSUME NEW s \in Subs, EnableSubscription(s) PROVE Inv'
    <2>1. /\ OnChanged(providers', {s}) /\ providers' = providers \cup {s}
          /\ UNCHANGED <<ver, keysQ, postedQ, datBuf, rules, cache>>
      BY <1>5 DEF EnableSubscription, resources, startup
    <2>2. PICK P \in SUBSET Provider : P = providers' 
      BY <1>p, <2>1
    <2>3. OnChanged(P, {s}) /\ providers' = P /\ {s} \in SUBSET Provider
      BY <1>p, <2>1, <2>2
    <2>4. providers' \ {s} = providers \ {s}
      BY <2>1
    <2> QED BY <2>1, <2>3, <2>4, OnChangedInv
  <1>6. ASSUME NEW s \in Subs, DisableSubscription(s) PROVE Inv'
    BY <1>6, RemoveProviderInv DEF DisableSubscription, resources, startup
  <1>7. ASSUME NEW s \in Subs, DeleteSubscription(s) PROVE Inv'
    <2>1. UNCHANGED <<ver, keysQ, postedQ, datBuf, rules, cache>>
      BY <1>7 DEF DeleteSubscription, resources, startup
    <2>2. CASE RemoveProvider(s)
      BY <2>1, <2>2, RemoveProviderInv
    <2>3. CASE UNCHANGED <<providers, suppress, loads, engineQ, unnotified>>
      BY <2>1, <2>3, QuietInv
    <2> QED BY <1>7, <2>2, <2>3 DEF DeleteSubscription
  <1>8. ASSUME NEW s \in Subs, DeleteListFile(s) PROVE Inv'
    <2>1. /\ UNCHANGED <<loads, engineQ, keysQ, postedQ, datBuf, rules, cache>>
          /\ unnotified' = unnotified \cup ({s} \cap providers)
          /\ providers' = providers
      BY <1>8 DEF DeleteListFile, resources, startup
    <2>2. \A x \in Provider \ {s} : ver'[x] = ver[x]
      BY <1>8, <1>v DEF DeleteListFile
    <2>3. \A x \in providers \ unnotified' : ver'[x] = ver[x]
      BY <1>p, <2>1, <2>2
    <2> QED BY <2>1, <2>3, QuietInv
  <1>9. ASSUME NEW edited \in BOOLEAN, ResourcesRequestedElsewhere(edited)
        PROVE  Inv'
    <2>1. /\ keysQ' = Append(keysQ, 0) /\ UNCHANGED postedQ
          /\ UNCHANGED <<stage, read, arrived, got, engineQ, rules, cache,
                        unchangedByLoading>>
      BY <1>9 DEF ResourcesRequestedElsewhere
    <2>2. UNCHANGED <<ver, providers, unnotified, started, want, datBuf>>
      BY <2>1 DEF unchangedByLoading, sources, startup
    <2>3. \A i \in 1 .. Len(keysQ)' : RequestOK(keysQ[i])'
      <3>1. keysQ \in Seq(0 .. MaxLoads) /\ 0 \in 0 .. MaxLoads
        BY <1>t, ConstantsAssumption DEF TypeOK
      <3>2. \A i \in 1 .. Len(keysQ) : RequestOK(keysQ[i])
        BY DEF IInv, Inv, QueueInv
      <3> QED BY <2>1, <2>2, <3>1, <3>2, PostFacts DEF RequestOK, Ready
    <2>4. QueueInv'
      BY <2>1, <2>2, <2>3 DEF IInv, Inv, QueueInv, TaskOK, RequestOK, Ready
    <2>5. \A k \in LoadId : LoadInv(k)'
      BY <2>1, <2>2 DEF IInv, Inv, LoadInv, Ready
    <2>6. LatestInv' /\ EngineInv' /\ DATInv'
      BY <2>1, <2>2 DEF IInv, Inv, LatestInv, EngineInv, DATInv, Ready, rules, cache
    <2> QED BY <2>4, <2>5, <2>6 DEF Inv
  <1> QED BY <1>1, <1>2, <1>3, <1>4, <1>5, <1>6, <1>7, <1>8, <1>9 DEF Environment

-----------------------------------------------------------------------------
(* The stages of a load. *)

(* A step of the task runners leaves the sources and the other loads alone. *)
LEMMA LoadingFacts ==
  ASSUME unchangedByLoading' = unchangedByLoading
  PROVE  UNCHANGED <<ver, edits, providers, suppress, callbacks, deleting,
                     unnotified, started, want, datPending, datBuf, restarts>>
  BY DEF unchangedByLoading, sources, startup

LEMMA ReadInv ==
  ASSUME IInv, NEW k \in LoadId, NEW p \in Provider, Read(k, p),
         UNCHANGED <<stage, arrived, engineQ, unchangedByLoading, resources,
                     rules, cache>>
  PROVE  Inv'
  <1>t. TypeOK BY DEF IInv
  <1>1. /\ UNCHANGED <<ver, providers, unnotified, started, want, datBuf, keysQ,
                       postedQ>>
        /\ stage[k] = "collect" /\ p \in want[k] \ read[k]
        /\ read' = [read EXCEPT ![k] = @ \cup {p}]
        /\ got' = [got EXCEPT ![k] = [@ EXCEPT ![p] = ver[p]]]
    BY LoadingFacts DEF Read, resources
  <1>2. \A j \in LoadId : /\ j # k => read'[j] = read[j] /\ got'[j] = got[j]
                          /\ Ready(j)' <=> Ready(j)
    BY <1>1, <1>t DEF TypeOK, Ready
  <1>3. /\ read'[k] = read[k] \cup {p} /\ got'[k][p] = ver[p]
        /\ \A x \in Provider : x # p => got'[k][x] = got[k][x]
        /\ ~Ready(k)
    BY <1>1, <1>t DEF TypeOK, Content, Ready
  <1>4. QueueInv'
    BY <1>1 DEF IInv, Inv, QueueInv, TaskOK, RequestOK, Ready
  <1>5. \A j \in LoadId : LoadInv(j)'
    <2> SUFFICES ASSUME NEW j \in LoadId PROVE LoadInv(j)'
      OBVIOUS
    <2>0. LoadInv(j) BY DEF IInv, Inv
    <2>1. CASE j = k
      BY <1>1, <1>2, <1>3, <2>0, <2>1 DEF LoadInv
    <2>2. CASE j # k
      BY <1>1, <1>2, <2>0, <2>2 DEF LoadInv
    <2> QED BY <2>1, <2>2
  <1>6. LatestInv'
    <2>1. LatestInv BY DEF IInv, Inv
    <2>2. CASE started = k
      BY <1>1, <1>3, <2>1, <2>2 DEF LatestInv
    <2>3. CASE started # k
      <3>1. started > 0 => started \in LoadId
        BY <1>t, ConstantsAssumption DEF TypeOK, LoadId
      <3> QED BY <1>1, <1>2, <2>1, <2>3, <3>1 DEF LatestInv
    <2> QED BY <2>2, <2>3
  <1>7. EngineInv' /\ DATInv'
    <2>1. engineLoad > 0 => engineLoad \in LoadId
      BY <1>t, ConstantsAssumption DEF TypeOK, LoadId
    <2>2. EngineInv /\ DATInv BY DEF IInv, Inv
    <2>3. EngineInv'
      BY <1>2, <1>3, <2>1, <2>2 DEF EngineInv, rules
    <2>4. DATInv'
      BY <2>2 DEF DATInv, rules, cache
    <2> QED BY <2>3, <2>4
  <1> QED BY <1>4, <1>5, <1>6, <1>7 DEF Inv

LEMMA ArriveInv ==
  ASSUME IInv, NEW k \in LoadId, NEW p \in Provider, Arrive(k, p),
         stage[k] = "collect", p \in read[k],
         UNCHANGED <<read, got, unchangedByLoading, resources, rules, cache>>
  PROVE  Inv'
  <1>t. TypeOK BY DEF IInv
  <1>0. LoadInv(k) BY DEF IInv, Inv
  <1>1. UNCHANGED <<ver, providers, unnotified, started, want, datBuf, keysQ,
                    postedQ>>
    BY LoadingFacts DEF resources
  <1>2. /\ arrived' = [arrived EXCEPT ![k] = @ \cup {p}]
        /\ k <= started
    BY <1>t, <1>0, ConstantsAssumption DEF Arrive, LoadInv, TypeOK, LoadId
  <1>3. CASE UNCHANGED <<stage, engineQ>>
    <2>1. QueueInv'
      BY <1>1, <1>3 DEF IInv, Inv, QueueInv, TaskOK, RequestOK, Ready
    <2>2. \A j \in LoadId : LoadInv(j)'
      <3> SUFFICES ASSUME NEW j \in LoadId PROVE LoadInv(j)'
        OBVIOUS
      <3>1. LoadInv(j) BY DEF IInv, Inv
      <3>2. arrived'[j] \subseteq read[j]
        BY <1>2, <1>t, <3>1 DEF LoadInv, TypeOK
      <3> QED BY <1>1, <1>3, <3>1, <3>2 DEF LoadInv, Ready
    <2>3. LatestInv' /\ EngineInv' /\ DATInv'
      BY <1>1, <1>3 DEF IInv, Inv, LatestInv, EngineInv, DATInv, Ready, rules, cache
    <2> QED BY <2>1, <2>2, <2>3 DEF Inv
  <1>4. CASE /\ arrived[k] \cup {p} = want[k]
             /\ stage' = [stage EXCEPT ![k] = "build"]
             /\ engineQ' = Append(engineQ, Build(k))
    <2>1. read[k] = want[k]
      BY <1>0, <1>4 DEF LoadInv
    <2>2. \A j \in LoadId : Ready(j)' <=> Ready(j) \/ j = k
      BY <1>1, <1>2, <1>4, <1>t DEF Ready, TypeOK
    <2>3. QueueInv'
      <3>1. \A t \in Task : TaskOK(t) => TaskOK(t)'
        BY <1>1, <2>2, TaskFacts DEF TaskOK
      <3>2. \A t \in Task : t = Build(k) => TaskOK(t)'
        BY <2>2, TaskFacts DEF TaskOK
      <3>3. \A j \in 0 .. MaxLoads : RequestOK(j) => RequestOK(j)'
        BY <2>2 DEF RequestOK, LoadId
      <3>4. /\ engineQ \in Seq(Task) /\ Build(k) \in Task
            /\ \A i \in 1 .. Len(engineQ) : engineQ[i] \in Task
            /\ \A i \in 1 .. Len(keysQ) : keysQ[i] \in 0 .. MaxLoads
            /\ \A i \in 1 .. Len(postedQ) : postedQ[i] \in 0 .. MaxLoads
        BY <1>t, TaskFacts, ElementOfSeq DEF TypeOK
      <3>5. \A i \in 1 .. Len(engineQ)' : TaskOK(engineQ[i])'
        BY <1>4, <3>1, <3>2, <3>4, PostFacts DEF IInv, Inv, QueueInv
      <3> QED BY <1>1, <3>3, <3>4, <3>5 DEF IInv, Inv, QueueInv
    <2>4. \A j \in LoadId : LoadInv(j)'
      <3> SUFFICES ASSUME NEW j \in LoadId PROVE LoadInv(j)'
        OBVIOUS
      <3>1. LoadInv(j) BY DEF IInv, Inv
      <3>2. arrived'[j] \subseteq read[j]
        BY <1>2, <1>t, <3>1 DEF LoadInv, TypeOK
      <3>3. j # k => stage'[j] = stage[j]
        BY <1>4, <1>t DEF TypeOK
      <3>4. Ready(j)' => read[j] = want[j]
        BY <2>1, <2>2, <3>1 DEF LoadInv
      <3>5. j > started => j # k
        BY <1>2, <1>t, ConstantsAssumption DEF TypeOK, LoadId
      <3> QED BY <1>1, <3>1, <3>2, <3>3, <3>4, <3>5 DEF LoadInv
    <2>5. LatestInv'
      <3>1. started > 0 => started \in LoadId
        BY <1>t, ConstantsAssumption DEF TypeOK, LoadId
      <3>2. started > 0 => stage'[started] \notin {"idle", "dropped"}
        BY <1>4, <1>t, <3>1 DEF TypeOK, IInv, Inv, LatestInv
      <3> QED BY <1>1, <3>2 DEF IInv, Inv, LatestInv
    <2>6. EngineInv' /\ DATInv'
      <3>1. engineLoad > 0 => engineLoad \in LoadId
        BY <1>t, ConstantsAssumption DEF TypeOK, LoadId
      <3> QED BY <2>2, <3>1 DEF IInv, Inv, EngineInv, DATInv, rules, cache
    <2> QED BY <2>3, <2>4, <2>5, <2>6 DEF Inv
  <1> QED BY <1>3, <1>4 DEF Arrive

(* A load past its barrier moves on. *)
LEMMA AdvanceInv ==
  ASSUME IInv, NEW k \in LoadId, Ready(k),
         NEW x \in {"resources", "queued", "done"},
         stage' = [stage EXCEPT ![k] = x],
         UNCHANGED <<read, arrived, got, unchangedByLoading>>
  PROVE  /\ \A j \in LoadId : Ready(j)' <=> Ready(j)
         /\ \A j \in LoadId : LoadInv(j)'
         /\ LatestInv'
         /\ \A t \in Task : TaskOK(t)' <=> TaskOK(t)
         /\ \A j \in 0 .. MaxLoads : RequestOK(j)' <=> RequestOK(j)
  <1>t. TypeOK BY DEF IInv
  <1>0. UNCHANGED <<ver, providers, unnotified, started, want, datBuf>>
    BY LoadingFacts
  <1>1. \A j \in LoadId : Ready(j)' <=> Ready(j)
    BY <1>0, <1>t DEF Ready, TypeOK
  <1>2. \A j \in LoadId : LoadInv(j)'
    <2> SUFFICES ASSUME NEW j \in LoadId PROVE LoadInv(j)'
      OBVIOUS
    <2>1. LoadInv(j) BY DEF IInv, Inv
    <2>2. j > started => j # k
      BY <1>t, ConstantsAssumption DEF Ready, TypeOK, LoadId
    <2>3. j # k => stage'[j] = stage[j]
      BY <1>t DEF TypeOK
    <2> QED BY <1>0, <1>1, <2>1, <2>2, <2>3 DEF LoadInv
  <1>3. LatestInv'
    <2>1. started > 0 => started \in LoadId
      BY <1>t, ConstantsAssumption DEF TypeOK, LoadId
    <2>2. started > 0 => stage'[started] \notin {"idle", "dropped"}
      BY <1>t, <2>1 DEF TypeOK, IInv, Inv, LatestInv
    <2> QED BY <1>0, <2>2 DEF IInv, Inv, LatestInv
  <1>4. \A t \in Task : TaskOK(t)' <=> TaskOK(t)
    BY <1>0, <1>1, TaskFacts DEF TaskOK
  <1>5. \A j \in 0 .. MaxLoads : RequestOK(j)' <=> RequestOK(j)
    BY <1>1 DEF RequestOK, LoadId
  <1> QED BY <1>1, <1>2, <1>3, <1>4, <1>5

(* The engine's runner takes the next task. *)
LEMMA NextTask ==
  ASSUME IInv, engineQ # <<>>
  PROVE  /\ Head(engineQ) \in Task /\ TaskOK(Head(engineQ))
         /\ Tail(engineQ) \in Seq(Task)
         /\ \A i \in 1 .. Len(Tail(engineQ)) :
               Tail(engineQ)[i] \in Task /\ TaskOK(Tail(engineQ)[i])
  <1>1. engineQ \in Seq(Task) /\ \A i \in 1 .. Len(engineQ) : TaskOK(engineQ[i])
    BY DEF IInv, TypeOK, Inv, QueueInv
  <1>2. /\ Head(engineQ) \in Task /\ Head(engineQ) = engineQ[1]
        /\ 1 \in 1 .. Len(engineQ) /\ Tail(engineQ) \in Seq(Task)
        /\ Len(Tail(engineQ)) = Len(engineQ) - 1 /\ Len(engineQ) \in Nat
        /\ \A i \in 1 .. Len(engineQ) - 1 : Tail(engineQ)[i] = engineQ[i + 1]
    BY <1>1, TakeFacts
  <1>3. \A i \in 1 .. Len(Tail(engineQ)) :
           Tail(engineQ)[i] \in Task /\ TaskOK(Tail(engineQ)[i])
    <2> SUFFICES ASSUME NEW i \in 1 .. Len(Tail(engineQ))
                 PROVE  Tail(engineQ)[i] \in Task /\ TaskOK(Tail(engineQ)[i])
      OBVIOUS
    <2>1. i + 1 \in 1 .. Len(engineQ) /\ Tail(engineQ)[i] = engineQ[i + 1]
      BY <1>2
    <2>2. Tail(engineQ)[i] \in Task
      BY <1>2, ElementOfSeq
    <2> QED BY <1>1, <2>1, <2>2
  <1> QED BY <1>1, <1>2, <1>3

(* The resource provider answers the next request of a queue. *)
LEMMA NextRequest ==
  ASSUME IInv, NEW q \in Seq(0 .. MaxLoads), q # <<>>,
         \A i \in 1 .. Len(q) : RequestOK(q[i])
  PROVE  /\ Head(q) \in 0 .. MaxLoads /\ RequestOK(Head(q))
         /\ Tail(q) \in Seq(0 .. MaxLoads)
         /\ \A i \in 1 .. Len(Tail(q)) :
               Tail(q)[i] \in 0 .. MaxLoads /\ RequestOK(Tail(q)[i])
  <1>2. /\ Head(q) \in 0 .. MaxLoads /\ Head(q) = q[1]
        /\ 1 \in 1 .. Len(q) /\ Tail(q) \in Seq(0 .. MaxLoads)
        /\ Len(Tail(q)) = Len(q) - 1 /\ Len(q) \in Nat
        /\ \A i \in 1 .. Len(q) - 1 : Tail(q)[i] = q[i + 1]
    BY TakeFacts
  <1>3. \A i \in 1 .. Len(Tail(q)) :
           Tail(q)[i] \in 0 .. MaxLoads /\ RequestOK(Tail(q)[i])
    <2> SUFFICES ASSUME NEW i \in 1 .. Len(Tail(q))
                 PROVE  Tail(q)[i] \in 0 .. MaxLoads /\ RequestOK(Tail(q)[i])
      OBVIOUS
    <2>1. i + 1 \in 1 .. Len(q) /\ Tail(q)[i] = q[i + 1]
      BY <1>2
    <2>2. Tail(q)[i] \in 0 .. MaxLoads
      BY <1>2, ElementOfSeq
    <2> QED BY <2>1, <2>2
  <1> QED BY <1>2, <1>3

LEMMA LoadResourcesInv ==
  ASSUME TypeOK, NEW k \in 0 .. MaxLoads, LoadResources(k), RequestOK(k)',
         \A j \in 0 .. MaxLoads : RequestOK(j) => RequestOK(j)',
         \A i \in 1 .. Len(keysQ) : RequestOK(keysQ[i]),
         \A i \in 1 .. Len(postedQ) : RequestOK(postedQ[i])
  PROVE  /\ \A i \in 1 .. Len(keysQ)' : RequestOK(keysQ[i])'
         /\ \A i \in 1 .. Len(postedQ)' : RequestOK(postedQ[i])'
         /\ keysQ' \in Seq(0 .. MaxLoads) /\ postedQ' \in Seq(0 .. MaxLoads)
  <1>1. /\ keysQ \in Seq(0 .. MaxLoads) /\ postedQ \in Seq(0 .. MaxLoads)
        /\ \A i \in 1 .. Len(keysQ) : keysQ[i] \in 0 .. MaxLoads
        /\ \A i \in 1 .. Len(postedQ) : postedQ[i] \in 0 .. MaxLoads
    BY ElementOfSeq DEF TypeOK
  <1>2. CASE postedQ' = Append(postedQ, k) /\ keysQ' = keysQ
    <2>1. \A i \in 1 .. Len(keysQ)' : RequestOK(keysQ[i])'
      BY <1>1, <1>2
    <2>2. \A i \in 1 .. Len(postedQ)' : RequestOK(postedQ[i])'
      BY <1>1, <1>2, PostFacts
    <2>3. keysQ' \in Seq(0 .. MaxLoads) /\ postedQ' \in Seq(0 .. MaxLoads)
      BY <1>1, <1>2, PostFacts
    <2> QED BY <2>1, <2>2, <2>3
  <1>3. CASE keysQ' = Append(keysQ, k) /\ postedQ' = postedQ
    <2>1. \A i \in 1 .. Len(postedQ)' : RequestOK(postedQ[i])'
      BY <1>1, <1>3
    <2>2. \A i \in 1 .. Len(keysQ)' : RequestOK(keysQ[i])'
      BY <1>1, <1>3, PostFacts
    <2>3. keysQ' \in Seq(0 .. MaxLoads) /\ postedQ' \in Seq(0 .. MaxLoads)
      BY <1>1, <1>3, PostFacts
    <2> QED BY <2>1, <2>2, <2>3
  <1> QED BY <1>2, <1>3 DEF LoadResources

LEMMA OnFilterSetCreatedInv ==
  ASSUME IInv, OnFilterSetCreated
  PROVE  Inv'
  <1>t. TypeOK BY DEF IInv
  <1>1. /\ engineQ # <<>> /\ Head(engineQ).op = "build"
        /\ engineQ' = Tail(engineQ)
        /\ UNCHANGED <<read, arrived, got, unchangedByLoading, rules, cache>>
    BY DEF OnFilterSetCreated
  <1>2. PICK k \in LoadId : k = Head(engineQ).id /\ Ready(k)
    BY <1>1, NextTask, TaskFacts DEF TaskOK
  <1>3. stage' = [stage EXCEPT ![k] = "resources"] /\ LoadResources(k)
    BY <1>2 DEF OnFilterSetCreated
  <1>4. /\ \A j \in LoadId : Ready(j)' <=> Ready(j)
        /\ \A j \in LoadId : LoadInv(j)'
        /\ LatestInv'
        /\ \A t \in Task : TaskOK(t)' <=> TaskOK(t)
        /\ \A j \in 0 .. MaxLoads : RequestOK(j)' <=> RequestOK(j)
    BY <1>1, <1>2, <1>3, AdvanceInv
  <1>5. k \in 0 .. MaxLoads /\ RequestOK(k)'
    BY <1>2, <1>4, ConstantsAssumption DEF LoadId, RequestOK
  <1>6. /\ \A i \in 1 .. Len(keysQ) : RequestOK(keysQ[i])
        /\ \A i \in 1 .. Len(postedQ) : RequestOK(postedQ[i])
    BY DEF IInv, Inv, QueueInv
  <1>7. /\ \A i \in 1 .. Len(keysQ)' : RequestOK(keysQ[i])'
        /\ \A i \in 1 .. Len(postedQ)' : RequestOK(postedQ[i])'
    BY <1>t, <1>3, <1>4, <1>5, <1>6, LoadResourcesInv
  <1>8. \A i \in 1 .. Len(engineQ)' : TaskOK(engineQ[i])'
    BY <1>1, <1>4, NextTask
  <1>9. EngineInv' /\ DATInv'
    <2>1. engineLoad > 0 => engineLoad \in LoadId
      BY <1>t, ConstantsAssumption DEF TypeOK, LoadId
    <2> QED BY <1>1, <1>4, <2>1 DEF IInv, Inv, EngineInv, DATInv, rules, cache
  <1> QED BY <1>4, <1>7, <1>8, <1>9 DEF Inv, QueueInv

(* A load that has its resources joins the engine's queue. *)
LEMMA OnAllLoadedInv ==
  ASSUME IInv, NEW k \in 0 .. MaxLoads, RequestOK(k), OnAllLoaded(k),
         UNCHANGED <<read, arrived, got, unchangedByLoading>>
  PROVE  /\ \A j \in LoadId : Ready(j)' <=> Ready(j)
         /\ \A j \in LoadId : LoadInv(j)'
         /\ LatestInv'
         /\ \A i \in 1 .. Len(engineQ)' : TaskOK(engineQ[i])'
         /\ \A j \in 0 .. MaxLoads : RequestOK(j)' <=> RequestOK(j)
  <1>t. TypeOK BY DEF IInv
  <1>q. /\ engineQ \in Seq(Task)
        /\ \A i \in 1 .. Len(engineQ) : engineQ[i] \in Task /\ TaskOK(engineQ[i])
    BY <1>t, QueuedTasks, ElementOfSeq
  <1>1. CASE k = 0
    <2>1. UNCHANGED <<stage, engineQ, ver, providers, unnotified, started, want,
                      datBuf>>
      BY <1>1, LoadingFacts DEF OnAllLoaded
    <2> QED BY <1>q, <2>1 DEF IInv, Inv, LoadInv, LatestInv, Ready, TaskOK, RequestOK
  <1>2. CASE k # 0
    <2>1. /\ k \in LoadId /\ Ready(k)
          /\ stage' = [stage EXCEPT ![k] = "queued"]
          /\ engineQ' = Append(engineQ, Load(k))
      BY <1>2 DEF OnAllLoaded, RequestOK, LoadId
    <2>2. /\ \A j \in LoadId : Ready(j)' <=> Ready(j)
          /\ \A j \in LoadId : LoadInv(j)'
          /\ LatestInv'
          /\ \A t \in Task : TaskOK(t)' <=> TaskOK(t)
          /\ \A j \in 0 .. MaxLoads : RequestOK(j)' <=> RequestOK(j)
      BY <2>1, AdvanceInv
    <2>3. \A t \in Task : t = Load(k) => TaskOK(t)
      BY <2>1, TaskFacts DEF TaskOK
    <2>4. Load(k) \in Task
      BY <2>1, TaskFacts
    <2>5. \A i \in 1 .. Len(engineQ)' : TaskOK(engineQ[i])'
      BY <1>q, <2>1, <2>2, <2>3, <2>4, PostFacts
    <2> QED BY <2>2, <2>5
  <1> QED BY <1>1, <1>2

LEMMA ResourcesInv ==
  ASSUME IInv, OnCustomResourcesLoaded \/ OnCachedResources
  PROVE  Inv'
  <1>t. TypeOK BY DEF IInv
  <1>s. UNCHANGED <<read, arrived, got, unchangedByLoading, rules, cache>>
    BY DEF OnCustomResourcesLoaded, OnCachedResources
  <1>q. /\ keysQ \in Seq(0 .. MaxLoads) /\ postedQ \in Seq(0 .. MaxLoads)
        /\ \A i \in 1 .. Len(keysQ) : keysQ[i] \in 0 .. MaxLoads /\ RequestOK(keysQ[i])
        /\ \A i \in 1 .. Len(postedQ) :
              postedQ[i] \in 0 .. MaxLoads /\ RequestOK(postedQ[i])
    BY <1>t, ElementOfSeq DEF TypeOK, IInv, Inv, QueueInv
  <1>e. engineLoad > 0 => engineLoad \in LoadId
    BY <1>t, ConstantsAssumption DEF TypeOK, LoadId
  <1>1. CASE OnCustomResourcesLoaded
    <2>1. /\ keysQ # <<>> /\ OnAllLoaded(Head(keysQ)) /\ keysQ' = Tail(keysQ)
          /\ postedQ' = postedQ
      BY <1>1 DEF OnCustomResourcesLoaded
    <2>2. /\ Head(keysQ) \in 0 .. MaxLoads /\ RequestOK(Head(keysQ))
          /\ \A i \in 1 .. Len(Tail(keysQ)) :
                Tail(keysQ)[i] \in 0 .. MaxLoads /\ RequestOK(Tail(keysQ)[i])
      BY <1>q, <2>1, NextRequest
    <2>3. PICK k \in 0 .. MaxLoads : k = Head(keysQ)
      BY <2>2
    <2>4. /\ \A j \in LoadId : Ready(j)' <=> Ready(j)
          /\ \A j \in LoadId : LoadInv(j)'
          /\ LatestInv'
          /\ \A i \in 1 .. Len(engineQ)' : TaskOK(engineQ[i])'
          /\ \A j \in 0 .. MaxLoads : RequestOK(j)' <=> RequestOK(j)
      BY <1>s, <2>1, <2>2, <2>3, OnAllLoadedInv
    <2>5. QueueInv'
      BY <1>q, <2>1, <2>2, <2>4 DEF QueueInv
    <2>6. EngineInv' /\ DATInv'
      BY <1>s, <1>e, <2>4 DEF IInv, Inv, EngineInv, DATInv, rules, cache
    <2> QED BY <2>4, <2>5, <2>6 DEF Inv
  <1>2. CASE OnCachedResources
    <2>1. /\ postedQ # <<>> /\ OnAllLoaded(Head(postedQ))
          /\ postedQ' = Tail(postedQ) /\ keysQ' = keysQ
      BY <1>2 DEF OnCachedResources
    <2>2. /\ Head(postedQ) \in 0 .. MaxLoads /\ RequestOK(Head(postedQ))
          /\ \A i \in 1 .. Len(Tail(postedQ)) :
                Tail(postedQ)[i] \in 0 .. MaxLoads /\ RequestOK(Tail(postedQ)[i])
      BY <1>q, <2>1, NextRequest
    <2>3. PICK k \in 0 .. MaxLoads : k = Head(postedQ)
      BY <2>2
    <2>4. /\ \A j \in LoadId : Ready(j)' <=> Ready(j)
          /\ \A j \in LoadId : LoadInv(j)'
          /\ LatestInv'
          /\ \A i \in 1 .. Len(engineQ)' : TaskOK(engineQ[i])'
          /\ \A j \in 0 .. MaxLoads : RequestOK(j)' <=> RequestOK(j)
      BY <1>s, <2>1, <2>2, <2>3, OnAllLoadedInv
    <2>5. QueueInv'
      BY <1>q, <2>1, <2>2, <2>4 DEF QueueInv
    <2>6. EngineInv' /\ DATInv'
      BY <1>s, <1>e, <2>4 DEF IInv, Inv, EngineInv, DATInv, rules, cache
    <2> QED BY <2>4, <2>5, <2>6 DEF Inv
  <1> QED BY <1>1, <1>2

LEMMA LoadEngineInv ==
  ASSUME IInv, LoadEngine
  PROVE  Inv'
  <1>t. TypeOK BY DEF IInv
  <1>1. /\ engineQ # <<>> /\ Head(engineQ).op = "load"
        /\ engineQ' = Tail(engineQ)
        /\ UNCHANGED <<read, arrived, got, unchangedByLoading, resources, dat,
                       writeFailed>>
    BY DEF LoadEngine
  <1>2. PICK k \in LoadId : k = Head(engineQ).id /\ Ready(k)
    BY <1>1, NextTask, TaskFacts DEF TaskOK
  <1>3. /\ stage' = [stage EXCEPT ![k] = "done"]
        /\ engine' = got[k] /\ engineLoad' = k
        /\ datWrites' = IF DATCache THEN Append(datWrites, got[k]) ELSE datWrites
    BY <1>2 DEF LoadEngine
  <1>4. /\ \A j \in LoadId : Ready(j)' <=> Ready(j)
        /\ \A j \in LoadId : LoadInv(j)'
        /\ LatestInv'
        /\ \A t \in Task : TaskOK(t)' <=> TaskOK(t)
        /\ \A j \in 0 .. MaxLoads : RequestOK(j)' <=> RequestOK(j)
    BY <1>1, <1>2, <1>3, AdvanceInv
  <1>5. QueueInv'
    <2>1. /\ \A i \in 1 .. Len(keysQ) : keysQ[i] \in 0 .. MaxLoads
          /\ \A i \in 1 .. Len(postedQ) : postedQ[i] \in 0 .. MaxLoads
      BY <1>t, ElementOfSeq DEF TypeOK
    <2>2. keysQ' = keysQ /\ postedQ' = postedQ
      BY <1>1 DEF resources
    <2>3. \A i \in 1 .. Len(engineQ)' : TaskOK(engineQ[i])'
      BY <1>1, <1>4, NextTask
    <2> QED BY <1>4, <2>1, <2>2, <2>3 DEF IInv, Inv, QueueInv
  <1>6. EngineInv'
    BY <1>1, <1>2, <1>3, <1>4 DEF EngineInv
  <1>7. DATInv'
    <2> SUFFICES ASSUME DATCache PROVE DATInv'
      BY DEF DATInv
    <2>1. datWrites \in Seq(Content) /\ got[k] \in Content
      BY <1>t DEF TypeOK
    <2>2. /\ Len(datWrites') = Len(datWrites) + 1 /\ Len(datWrites) \in Nat
          /\ datWrites'[Len(datWrites) + 1] = got[k]
      BY <1>3, <2>1, PostFacts
    <2>3. datWrites' # <<>> BY <2>2
    <2> QED BY <1>3, <2>2, <2>3 DEF DATInv
  <1> QED BY <1>4, <1>5, <1>6, <1>7 DEF Inv

LEMMA WriteDATFileInv ==
  ASSUME IInv, NEW ok \in BOOLEAN, WriteDATFile(ok)
  PROVE  Inv'
  <1>t. TypeOK BY DEF IInv
  <1>1. /\ datWrites # <<>> /\ datWrites' = Tail(datWrites)
        /\ dat' = IF ok THEN Head(datWrites) ELSE dat
        /\ writeFailed' = ~ok
        /\ UNCHANGED <<stage, read, arrived, got, engineQ, keysQ, postedQ, rules>>
        /\ UNCHANGED <<ver, providers, unnotified, started, want, datBuf>>
    BY LoadingFacts DEF WriteDATFile, resources
  <1>2. QueueInv'
    BY <1>1 DEF IInv, Inv, QueueInv, TaskOK, RequestOK, Ready
  <1>3. \A k \in LoadId : LoadInv(k)'
    BY <1>1 DEF IInv, Inv, LoadInv, Ready
  <1>4. LatestInv' /\ EngineInv'
    BY <1>1 DEF IInv, Inv, LatestInv, EngineInv, Ready, rules
  <1>5. DATInv'
    <2> SUFFICES ASSUME DATCache, engineLoad > 0 PROVE DATInv'
      BY <1>1 DEF DATInv, rules
    <2>1. datWrites[Len(datWrites)] = engine
      BY <1>1 DEF IInv, Inv, DATInv
    <2>2. /\ Head(datWrites) = datWrites[1] /\ Tail(datWrites) \in Seq(Content)
          /\ Len(Tail(datWrites)) = Len(datWrites) - 1
          /\ Len(datWrites) \in Nat /\ 1 \in 1 .. Len(datWrites)
          /\ \A i \in 1 .. Len(datWrites) - 1 : Tail(datWrites)[i] = datWrites[i + 1]
      BY <1>t, <1>1, TakeFacts DEF TypeOK
    <2>3. CASE Tail(datWrites) = <<>>
      <3>0. Len(Tail(datWrites)) = 0
        BY <2>3, EmptySeq
      <3>a. Len(Tail(datWrites)) = Len(datWrites) - 1 /\ Len(datWrites) \in Nat
        BY <2>2
      <3>1. Len(datWrites) = 1 BY <3>0, <3>a
      <3> QED BY <1>1, <2>1, <2>2, <2>3, <3>1 DEF DATInv, rules
    <2>4. CASE Tail(datWrites) # <<>>
      <3>1. Len(Tail(datWrites)) \in 1 .. Len(datWrites) - 1
        BY <2>2, <2>4, EmptySeq, LenProperties
      <3>2. Tail(datWrites)[Len(Tail(datWrites))] = datWrites[Len(datWrites)]
        BY <2>2, <3>1
      <3> QED BY <1>1, <2>1, <2>4, <3>2 DEF DATInv, rules
    <2> QED BY <2>3, <2>4
  <1> QED BY <1>2, <1>3, <1>4, <1>5 DEF Inv

-----------------------------------------------------------------------------
(* The cached DAT. *)

LEMMA OnReadCachedDATFilesInv ==
  ASSUME IInv, OnReadCachedDATFiles
  PROVE  Inv'
  <1>t. TypeOK BY DEF IInv
  <1>s. UNCHANGED <<ver, providers, rules, cache, datBuf>>
    BY DEF OnReadCachedDATFiles
  <1>1. CASE /\ datBuf # NoDAT
             /\ engineQ' = Append(engineQ, LoadDATTask)
             /\ LoadResources(0)
             /\ UNCHANGED <<suppress, loads, unnotified>>
    <2>1. /\ \A t \in Task : TaskOK(t)' <=> TaskOK(t)
          /\ \A j \in 0 .. MaxLoads : RequestOK(j)' <=> RequestOK(j)
          /\ \A j \in LoadId : Ready(j)' <=> Ready(j)
      BY <1>s, <1>1 DEF TaskOK, RequestOK, Ready, loads
    <2>2. 0 \in 0 .. MaxLoads /\ RequestOK(0)'
      BY ConstantsAssumption DEF RequestOK
    <2>3. /\ \A i \in 1 .. Len(keysQ)' : RequestOK(keysQ[i])'
          /\ \A i \in 1 .. Len(postedQ)' : RequestOK(postedQ[i])'
      <3>1. /\ \A i \in 1 .. Len(keysQ) : RequestOK(keysQ[i])
            /\ \A i \in 1 .. Len(postedQ) : RequestOK(postedQ[i])
        BY DEF IInv, Inv, QueueInv
      <3> QED BY <1>t, <1>1, <2>1, <2>2, <3>1, LoadResourcesInv
    <2>4. \A i \in 1 .. Len(engineQ)' : TaskOK(engineQ[i])'
      <3>1. /\ engineQ \in Seq(Task) /\ LoadDATTask \in Task
            /\ \A i \in 1 .. Len(engineQ) : engineQ[i] \in Task /\ TaskOK(engineQ[i])
        BY QueuedTasks, TaskFacts, ElementOfSeq
      <3>2. \A t \in Task : t = LoadDATTask => TaskOK(t)
        BY <1>1, TaskFacts DEF TaskOK
      <3> QED BY <1>1, <2>1, <3>1, <3>2, PostFacts
    <2>5. \A k \in LoadId : LoadInv(k)'
      BY <1>1, <2>1 DEF IInv, Inv, LoadInv, loads
    <2>6. LatestInv' /\ EngineInv' /\ DATInv'
      BY <1>s, <1>1 DEF IInv, Inv, LatestInv, EngineInv, DATInv, Ready, loads,
                        rules, cache
    <2> QED BY <2>3, <2>4, <2>5, <2>6 DEF Inv, QueueInv
  <1>2. CASE ForceNotifyObserver(engineQ) /\ UNCHANGED <<keysQ, postedQ, cached>>
    BY <1>s, <1>2, QueuedTasks, ForceNotifyInv
  <1> QED BY <1>1, <1>2 DEF OnReadCachedDATFiles

LEMMA LoadDATInv ==
  ASSUME IInv, NEW ok \in BOOLEAN, LoadDAT(ok)
  PROVE  Inv'
  <1>s. UNCHANGED <<ver, providers, keysQ, postedQ, cache, datBuf>>
    BY DEF LoadDAT, resources, startup
  <1>q. /\ Tail(engineQ) \in Seq(Task)
        /\ \A i \in 1 .. Len(Tail(engineQ)) :
              Tail(engineQ)[i] \in Task /\ TaskOK(Tail(engineQ)[i])
    BY NextTask DEF LoadDAT
  <1>1. CASE /\ engine' = datBuf /\ engineLoad' = 0
             /\ engineQ' = Tail(engineQ)
             /\ UNCHANGED <<suppress, loads, unnotified>>
    <2>1. QueueInv'
      <3>1. \A t \in Task : TaskOK(t)' <=> TaskOK(t)
        BY <1>s, <1>1 DEF TaskOK, Ready, loads
      <3>2. \A i \in 1 .. Len(engineQ)' : TaskOK(engineQ[i])'
        BY <1>q, <1>1, <3>1
      <3> QED BY <1>s, <1>1, <3>2 DEF IInv, Inv, QueueInv, RequestOK, Ready, loads
    <2>2. \A k \in LoadId : LoadInv(k)'
      BY <1>1 DEF IInv, Inv, LoadInv, Ready, loads
    <2>3. LatestInv' /\ EngineInv' /\ DATInv'
      BY <1>s, <1>1 DEF IInv, Inv, LatestInv, EngineInv, DATInv, loads
    <2> QED BY <2>1, <2>2, <2>3 DEF Inv
  <1>2. CASE ForceNotifyObserver(Tail(engineQ)) /\ UNCHANGED rules
    BY <1>s, <1>q, <1>2, ForceNotifyInv
  <1> QED BY <1>1, <1>2 DEF LoadDAT

-----------------------------------------------------------------------------
(* The service's constructor, at first and after a restart. *)

LEMMA InitInv == Init => Inv
  <1> SUFFICES ASSUME Init PROVE Inv
    OBVIOUS
  <1>0. FirstLoad \in {0, 1} /\ LoadId \subseteq Nat /\ 1 \in LoadId
    BY ConstantsAssumption DEF FirstLoad, LoadId
  <1>1. QueueInv
    BY EmptySeq DEF Init, QueueInv
  <1>2. \A k \in LoadId : LoadInv(k)
    BY <1>0 DEF Init, LoadInv, Ready, FirstStage, FirstWant, Nothing, NoRules
  <1>3. LatestInv
    BY <1>0 DEF Init, LatestInv, FirstStage, FirstWant, Nothing, FirstLoad
  <1>4. EngineInv /\ DATInv
    BY DEF Init, EngineInv, DATInv
  <1> QED BY <1>1, <1>2, <1>3, <1>4 DEF Inv

LEMMA RestartInv == Restart => Inv'
  <1> SUFFICES ASSUME Restart PROVE Inv'
    OBVIOUS
  <1>0. FirstLoad \in {0, 1} /\ LoadId \subseteq Nat /\ 1 \in LoadId
    BY ConstantsAssumption DEF FirstLoad, LoadId
  <1>1. QueueInv'
    BY EmptySeq DEF Restart, QueueInv
  <1>2. \A k \in LoadId : LoadInv(k)'
    BY <1>0 DEF Restart, LoadInv, Ready, FirstStage, FirstWant, Nothing, NoRules
  <1>3. LatestInv'
    BY <1>0 DEF Restart, LatestInv, FirstStage, FirstWant, Nothing, FirstLoad
  <1>4. EngineInv' /\ DATInv'
    BY DEF Restart, EngineInv, DATInv
  <1> QED BY <1>1, <1>2, <1>3, <1>4 DEF Inv

-----------------------------------------------------------------------------
(* Types. *)

LEMMA OnChangedType ==
  ASSUME TypeOK, NEW P \in SUBSET Provider, NEW D \in SUBSET Provider,
         OnChanged(P, D)
  PROVE  /\ suppress' \in BOOLEAN /\ started' \in 0 .. MaxLoads
         /\ stage' \in [LoadId -> Stages] /\ want' \in [LoadId -> SUBSET Provider]
         /\ UNCHANGED <<read, arrived, got>>
         /\ engineQ' \in Seq(Task) /\ unnotified' \subseteq Provider
  <1>t. stage \in [LoadId -> Stages] /\ engineQ \in Seq(Task)
    BY DEF TypeOK
  <1>1. CASE StartLoad(P, stage, engineQ) /\ UNCHANGED suppress
    BY <1>t, <1>1, StartLoadType DEF TypeOK
  <1>2. CASE /\ suppress' = (suppress /\ P = {})
             /\ unnotified' = unnotified \cup D
             /\ UNCHANGED <<loads, engineQ>>
    BY <1>2 DEF TypeOK, loads
  <1> QED BY <1>1, <1>2 DEF OnChanged

LEMMA ForceNotifyType ==
  ASSUME TypeOK, NEW q \in Seq(Task), ForceNotifyObserver(q)
  PROVE  /\ suppress' \in BOOLEAN /\ started' \in 0 .. MaxLoads
         /\ stage' \in [LoadId -> Stages] /\ want' \in [LoadId -> SUBSET Provider]
         /\ UNCHANGED <<read, arrived, got>>
         /\ engineQ' \in Seq(Task) /\ unnotified' \subseteq Provider
  <1>t. stage \in [LoadId -> Stages] /\ providers \in SUBSET Provider
    BY DEF TypeOK
  <1>1. CASE StartLoad(providers, stage, q) /\ UNCHANGED suppress
    BY <1>t, <1>1, StartLoadType DEF TypeOK
  <1>2. CASE /\ suppress' = FALSE /\ engineQ' = q
             /\ UNCHANGED <<loads, unnotified>>
    BY <1>2 DEF TypeOK, loads
  <1> QED BY <1>1, <1>2 DEF ForceNotifyObserver

LEMMA RemoveProviderType ==
  ASSUME TypeOK, NEW s \in Subs, RemoveProvider(s)
  PROVE  /\ suppress' \in BOOLEAN /\ started' \in 0 .. MaxLoads
         /\ stage' \in [LoadId -> Stages] /\ want' \in [LoadId -> SUBSET Provider]
         /\ UNCHANGED <<read, arrived, got>>
         /\ engineQ' \in Seq(Task) /\ unnotified' \subseteq Provider
         /\ providers' \subseteq Provider
  <1> DEFINE waits(k) == stage[k] = "collect" /\ s \in want[k] \ arrived[k]
             st == [k \in LoadId |-> IF waits(k) THEN "dropped" ELSE stage[k]]
  <1>1. /\ providers \ {s} \in SUBSET Provider /\ engineQ \in Seq(Task)
        /\ st \in [LoadId -> Stages]
    BY DEF TypeOK, Stages
  <1>2. /\ StartLoad(providers \ {s}, st, engineQ) /\ providers' = providers \ {s}
        /\ suppress' = suppress
    BY DEF RemoveProvider
  <1> HIDE DEF st
  <1> QED BY <1>1, <1>2, StartLoadType DEF TypeOK

LEMMA EnvironmentType == TypeOK /\ Environment => TypeOK'
  <1> SUFFICES ASSUME TypeOK, Environment PROVE TypeOK'
    OBVIOUS
  <1>p. providers \in SUBSET Provider /\ Static \subseteq Provider /\ Subs \subseteq Provider
    BY DEF TypeOK, Provider
  <1>w. \A p \in Provider : Write(p) => ver' \in Content /\ edits' \in Nat
    BY DEF TypeOK, Content, Write
  <1>1. ASSUME NEW p \in Static, UpdateCustomFilters(p) PROVE TypeOK'
    <2>1. /\ Write(p) /\ OnChanged(providers, {p})
          /\ UNCHANGED <<providers, callbacks, deleting, resources, rules, cache,
                         startup, restarts>>
      BY <1>1 DEF UpdateCustomFilters
    <2>2. /\ suppress' \in BOOLEAN /\ started' \in 0 .. MaxLoads
          /\ stage' \in [LoadId -> Stages] /\ want' \in [LoadId -> SUBSET Provider]
          /\ UNCHANGED <<read, arrived, got>>
          /\ engineQ' \in Seq(Task) /\ unnotified' \subseteq Provider
      BY <1>p, <2>1, OnChangedType
    <2>3. ver' \in Content /\ edits' \in Nat BY <1>p, <1>w, <2>1
    <2> QED BY <2>1, <2>2, <2>3 DEF TypeOK, resources, rules, cache, startup
  <1>2. ASSUME NEW s \in Subs, ReplaceListFile(s) PROVE TypeOK'
    <2>1. ver' \in Content /\ edits' \in Nat
      BY <1>p, <1>w, <1>2 DEF ReplaceListFile
    <2>2. callbacks' \in [Subs -> Nat] BY <1>2 DEF ReplaceListFile, TypeOK
    <2> QED BY <1>2, <1>p, <2>1, <2>2 DEF ReplaceListFile, TypeOK, loads, resources,
                                     rules, cache, startup
  <1>3. ASSUME NEW s \in Subs, OnSubscriptionDownloaded(s) PROVE TypeOK'
    <2>1. /\ OnChanged(providers, {}) \/ UNCHANGED <<suppress, loads, engineQ, unnotified>>
          /\ UNCHANGED <<ver, edits, providers, deleting, resources, rules, cache,
                         startup, restarts>>
      BY <1>3 DEF OnSubscriptionDownloaded
    <2>2. callbacks' \in [Subs -> Nat]
      BY <1>3 DEF OnSubscriptionDownloaded, TypeOK
    <2>3. /\ suppress' \in BOOLEAN /\ started' \in 0 .. MaxLoads
          /\ stage' \in [LoadId -> Stages] /\ want' \in [LoadId -> SUBSET Provider]
          /\ UNCHANGED <<read, arrived, got>>
          /\ engineQ' \in Seq(Task) /\ unnotified' \subseteq Provider
      <3>1. CASE OnChanged(providers, {})
        BY <1>p, <3>1, OnChangedType
      <3>2. CASE UNCHANGED <<suppress, loads, engineQ, unnotified>>
        BY <3>2 DEF TypeOK, loads
      <3> QED BY <2>1, <3>1, <3>2
    <2> QED BY <2>1, <2>2, <2>3 DEF TypeOK, resources, rules, cache, startup
  <1>4. ASSUME NEW s \in Subs, CreateSubscription(s) PROVE TypeOK'
    BY <1>4, <1>p DEF CreateSubscription, TypeOK, loads, resources, rules, cache,
                      startup
  <1>5. ASSUME NEW s \in Subs, EnableSubscription(s) PROVE TypeOK'
    <2>1. /\ providers' = providers \cup {s} /\ OnChanged(providers', {s})
          /\ UNCHANGED <<ver, edits, callbacks, deleting, resources, rules, cache,
                         startup, restarts>>
      BY <1>5 DEF EnableSubscription
    <2>2. PICK P \in SUBSET Provider : P = providers'
      BY <1>p, <2>1
    <2>3. OnChanged(P, {s}) /\ {s} \in SUBSET Provider
      BY <1>p, <2>1, <2>2
    <2>4. /\ suppress' \in BOOLEAN /\ started' \in 0 .. MaxLoads
          /\ stage' \in [LoadId -> Stages] /\ want' \in [LoadId -> SUBSET Provider]
          /\ UNCHANGED <<read, arrived, got>>
          /\ engineQ' \in Seq(Task) /\ unnotified' \subseteq Provider
      BY <2>3, OnChangedType
    <2> QED BY <2>1, <2>2, <2>4 DEF TypeOK, resources, rules, cache, startup
  <1>6. ASSUME NEW s \in Subs, DisableSubscription(s) PROVE TypeOK'
    <2>1. /\ RemoveProvider(s)
          /\ UNCHANGED <<ver, edits, callbacks, deleting, resources, rules, cache,
                         startup, restarts>>
      BY <1>6 DEF DisableSubscription
    <2>2. /\ suppress' \in BOOLEAN /\ started' \in 0 .. MaxLoads
          /\ stage' \in [LoadId -> Stages] /\ want' \in [LoadId -> SUBSET Provider]
          /\ UNCHANGED <<read, arrived, got>>
          /\ engineQ' \in Seq(Task) /\ unnotified' \subseteq Provider
          /\ providers' \subseteq Provider
      BY <2>1, RemoveProviderType
    <2> QED BY <2>1, <2>2 DEF TypeOK, resources, rules, cache, startup
  <1>7. ASSUME NEW s \in Subs, DeleteSubscription(s) PROVE TypeOK'
    <2>1. UNCHANGED <<ver, edits, callbacks, resources, rules, cache, startup,
                      restarts>>
      BY <1>7 DEF DeleteSubscription
    <2>2. deleting' \subseteq Subs
      BY <1>7 DEF DeleteSubscription, TypeOK
    <2>3. /\ suppress' \in BOOLEAN /\ started' \in 0 .. MaxLoads
          /\ stage' \in [LoadId -> Stages] /\ want' \in [LoadId -> SUBSET Provider]
          /\ UNCHANGED <<read, arrived, got>>
          /\ engineQ' \in Seq(Task) /\ unnotified' \subseteq Provider
          /\ providers' \subseteq Provider
      <3>1. CASE RemoveProvider(s)
        BY <3>1, RemoveProviderType
      <3>2. CASE UNCHANGED <<providers, suppress, loads, engineQ, unnotified>>
        BY <3>2 DEF TypeOK, loads
      <3> QED BY <1>7, <3>1, <3>2 DEF DeleteSubscription
    <2> QED BY <2>1, <2>2, <2>3 DEF TypeOK, resources, rules, cache, startup
  <1>8. ASSUME NEW s \in Subs, DeleteListFile(s) PROVE TypeOK'
    <2>1. ver' \in Content
      BY <1>8 DEF DeleteListFile, TypeOK, Content
    <2> QED BY <1>8, <1>p, <2>1 DEF DeleteListFile, TypeOK, loads, resources,
                               rules, cache, startup
  <1>9. ASSUME NEW edited \in BOOLEAN, ResourcesRequestedElsewhere(edited)
        PROVE  TypeOK'
    <2>1. /\ keysQ' = Append(keysQ, 0) /\ cached' = FALSE /\ requests' = requests + 1
          /\ UNCHANGED <<stage, read, arrived, got, engineQ, postedQ, rules, cache>>
          /\ UNCHANGED <<ver, edits, providers, suppress, callbacks, deleting,
                         unnotified, started, want, datPending, datBuf, restarts>>
      BY <1>9, LoadingFacts DEF ResourcesRequestedElsewhere
    <2>2. keysQ' \in Seq(0 .. MaxLoads)
      BY <2>1, PostFacts, ConstantsAssumption DEF TypeOK
    <2>3. requests' \in Nat
      BY <2>1 DEF TypeOK
    <2>4. cached' \in BOOLEAN
      BY <2>1
    <2> QED BY <2>1, <2>2, <2>3, <2>4 DEF TypeOK, rules, cache
  <1> QED BY <1>1, <1>2, <1>3, <1>4, <1>5, <1>6, <1>7, <1>8, <1>9 DEF Environment

LEMMA LoadResourcesType ==
  ASSUME TypeOK, NEW k \in 0 .. MaxLoads, LoadResources(k)
  PROVE  keysQ' \in Seq(0 .. MaxLoads) /\ postedQ' \in Seq(0 .. MaxLoads)
  <1>1. keysQ \in Seq(0 .. MaxLoads) /\ postedQ \in Seq(0 .. MaxLoads)
    BY DEF TypeOK
  <1>2. /\ keysQ' = Append(keysQ, k) \/ keysQ' = keysQ
        /\ postedQ' = Append(postedQ, k) \/ postedQ' = postedQ
    BY DEF LoadResources
  <1> QED BY <1>1, <1>2, PostFacts

LEMMA FirstLoadType ==
  /\ FirstLoad \in 0 .. MaxLoads
  /\ FirstStage \in [LoadId -> Stages]
  /\ FirstWant \in [LoadId -> SUBSET Provider]
  /\ Nothing \in [LoadId -> SUBSET Provider]
  /\ [k \in LoadId |-> NoRules] \in [LoadId -> Content]
  /\ NoRules \in Content /\ [s \in Subs |-> 0] \in [Subs -> Nat]
  /\ Static \subseteq Provider
  BY ConstantsAssumption DEF FirstLoad, FirstStage, FirstWant, Nothing, NoRules,
     Content, Stages, Provider

LEMMA EmptyQueues ==
  <<>> \in Seq(Task) /\ <<>> \in Seq(0 .. MaxLoads) /\ <<>> \in Seq(Content)
  OBVIOUS

LEMMA InitType == Init => TypeOK
  <1> SUFFICES ASSUME Init PROVE TypeOK
    OBVIOUS
  <1>1. suppress \in BOOLEAN /\ datPending \in BOOLEAN
    BY ConstantsAssumption DEF Init
  <1>2. cached \in BOOLEAN /\ writeFailed \in BOOLEAN
    BY DEF Init
  <1>3. 0 \in 0 .. MaxLoads BY ConstantsAssumption
  <1> QED BY <1>1, <1>2, <1>3, FirstLoadType, EmptyQueues DEF Init, TypeOK

LEMMA RestartType == TypeOK /\ Restart => TypeOK'
  <1> SUFFICES ASSUME TypeOK, Restart PROVE TypeOK'
    OBVIOUS
  <1>1. suppress' \in BOOLEAN /\ datPending' \in BOOLEAN
    BY ConstantsAssumption DEF Restart
  <1>2. cached' \in BOOLEAN /\ writeFailed' \in BOOLEAN
    BY DEF Restart
  <1>3. 0 \in 0 .. MaxLoads BY ConstantsAssumption
  <1>4. ver' \in Content /\ edits' \in Nat /\ dat' \in Content \cup {NoDAT}
    BY DEF Restart, TypeOK, disk
  <1>5. restarts' \in Nat /\ requests' \in Nat
    BY DEF Restart, TypeOK
  <1>6. datBuf' \in Content \cup {NoDAT}
    BY DEF Restart, TypeOK
  <1> QED BY <1>1, <1>2, <1>3, <1>4, <1>5, <1>6, FirstLoadType, EmptyQueues
          DEF Restart, TypeOK

LEMMA LoadStepType ==
  ASSUME TypeOK, NEW k \in LoadId, LoadStep(k)
  PROVE  TypeOK'
  <1>1. PICK p \in Provider :
           \/ LoadStaticList(k, p) \/ AnswerStaticList(k, p)
           \/ ReadListFile(k, p) \/ OnDATFileDataReady(k, p)
    BY DEF LoadStep
  <1>2. CASE LoadStaticList(k, p) \/ ReadListFile(k, p)
    <2>1. /\ Read(k, p)
          /\ UNCHANGED <<stage, arrived, engineQ, unchangedByLoading, resources,
                         rules, cache>>
      BY <1>2 DEF LoadStaticList, ReadListFile
    <2>2. read' \in [LoadId -> SUBSET Provider] /\ got' \in [LoadId -> Content]
      BY <2>1 DEF Read, TypeOK, Content
    <2> QED BY <2>1, <2>2, LoadingFacts DEF TypeOK, resources, rules, cache
  <1>3. CASE AnswerStaticList(k, p) \/ OnDATFileDataReady(k, p)
    <2>1. /\ Arrive(k, p)
          /\ UNCHANGED <<read, got, unchangedByLoading, resources, rules, cache>>
      BY <1>3 DEF AnswerStaticList, OnDATFileDataReady
    <2>2. /\ arrived' \in [LoadId -> SUBSET Provider]
          /\ stage' \in [LoadId -> Stages]
      BY <2>1 DEF Arrive, TypeOK, Stages
    <2>3. engineQ' \in Seq(Task)
      <3>1. engineQ \in Seq(Task) /\ Build(k) \in Task
        BY TaskFacts DEF TypeOK
      <3>2. engineQ' = Append(engineQ, Build(k)) \/ engineQ' = engineQ
        BY <2>1 DEF Arrive
      <3> QED BY <3>1, <3>2, PostFacts
    <2> QED BY <2>1, <2>2, <2>3, LoadingFacts DEF TypeOK, resources, rules, cache
  <1> QED BY <1>1, <1>2, <1>3

LEMMA OnFilterSetCreatedType ==
  ASSUME IInv, OnFilterSetCreated
  PROVE  TypeOK'
  <1>t. TypeOK BY DEF IInv
  <1>1. /\ engineQ # <<>> /\ engineQ' = Tail(engineQ)
        /\ UNCHANGED <<read, arrived, got, requests, rules, cache>>
        /\ UNCHANGED <<ver, edits, providers, suppress, callbacks, deleting,
                       unnotified, started, want, datPending, datBuf, restarts>>
    BY LoadingFacts DEF OnFilterSetCreated
  <1>2. PICK k \in LoadId : k = Head(engineQ).id
    BY <1>1, NextTask, TaskFacts DEF OnFilterSetCreated
  <1>3. stage' = [stage EXCEPT ![k] = "resources"] /\ LoadResources(k)
    BY <1>2 DEF OnFilterSetCreated
  <1>4. stage' \in [LoadId -> Stages]
    BY <1>t, <1>3 DEF TypeOK, Stages
  <1>5. engineQ' \in Seq(Task)
    BY <1>1, NextTask
  <1>6. k \in 0 .. MaxLoads
    BY ConstantsAssumption DEF LoadId
  <1>7. keysQ' \in Seq(0 .. MaxLoads) /\ postedQ' \in Seq(0 .. MaxLoads)
    BY <1>t, <1>3, <1>6, LoadResourcesType
  <1>8. cached' = cached
    BY <1>3 DEF LoadResources
  <1> QED BY <1>t, <1>1, <1>4, <1>5, <1>7, <1>8 DEF TypeOK, rules, cache

LEMMA ResourcesType ==
  ASSUME IInv, OnCustomResourcesLoaded \/ OnCachedResources
  PROVE  TypeOK'
  <1>t. TypeOK BY DEF IInv
  <1>s. /\ UNCHANGED <<read, arrived, got, requests, rules, cache>>
        /\ UNCHANGED <<ver, edits, providers, suppress, callbacks, deleting,
                       unnotified, started, want, datPending, datBuf, restarts>>
    BY LoadingFacts DEF OnCustomResourcesLoaded, OnCachedResources
  <1>a. ASSUME NEW k \in 0 .. MaxLoads, OnAllLoaded(k)
        PROVE  stage' \in [LoadId -> Stages] /\ engineQ' \in Seq(Task)
    <2>1. CASE k = 0
      BY <1>a, <1>t, <2>1 DEF OnAllLoaded, TypeOK
    <2>2. CASE k # 0
      <3>1. k \in LoadId BY <2>2 DEF LoadId
      <3>2. /\ stage' = [stage EXCEPT ![k] = "queued"]
            /\ engineQ' = Append(engineQ, Load(k))
        BY <1>a, <2>2 DEF OnAllLoaded
      <3>3. stage' \in [LoadId -> Stages]
        BY <1>t, <3>2 DEF TypeOK, Stages
      <3>4. engineQ' \in Seq(Task)
        BY <1>t, <3>1, <3>2, TaskFacts, PostFacts DEF TypeOK
      <3> QED BY <3>3, <3>4
    <2> QED BY <2>1, <2>2
  <1>1. CASE OnCustomResourcesLoaded
    <2>1. /\ keysQ # <<>> /\ OnAllLoaded(Head(keysQ)) /\ keysQ' = Tail(keysQ)
          /\ cached' = TRUE /\ postedQ' = postedQ
      BY <1>1 DEF OnCustomResourcesLoaded
    <2>2. Head(keysQ) \in 0 .. MaxLoads /\ keysQ' \in Seq(0 .. MaxLoads)
      BY <1>t, <2>1, TakeFacts DEF TypeOK
    <2>3. stage' \in [LoadId -> Stages] /\ engineQ' \in Seq(Task)
      BY <1>a, <2>1, <2>2
    <2>4. cached' \in BOOLEAN BY <2>1
    <2> QED BY <1>t, <1>s, <2>1, <2>2, <2>3, <2>4 DEF TypeOK, rules, cache
  <1>2. CASE OnCachedResources
    <2>1. /\ postedQ # <<>> /\ OnAllLoaded(Head(postedQ))
          /\ postedQ' = Tail(postedQ) /\ UNCHANGED <<keysQ, cached>>
      BY <1>2 DEF OnCachedResources
    <2>2. Head(postedQ) \in 0 .. MaxLoads /\ postedQ' \in Seq(0 .. MaxLoads)
      BY <1>t, <2>1, TakeFacts DEF TypeOK
    <2>3. stage' \in [LoadId -> Stages] /\ engineQ' \in Seq(Task)
      BY <1>a, <2>1, <2>2
    <2> QED BY <1>t, <1>s, <2>1, <2>2, <2>3 DEF TypeOK, rules, cache
  <1> QED BY <1>1, <1>2

LEMMA LoadEngineType ==
  ASSUME IInv, LoadEngine
  PROVE  TypeOK'
  <1>t. TypeOK BY DEF IInv
  <1>1. /\ engineQ # <<>> /\ engineQ' = Tail(engineQ)
        /\ UNCHANGED <<read, arrived, got, resources, dat, writeFailed>>
        /\ UNCHANGED <<ver, edits, providers, suppress, callbacks, deleting,
                       unnotified, started, want, datPending, datBuf, restarts>>
    BY LoadingFacts DEF LoadEngine
  <1>2. PICK k \in LoadId : k = Head(engineQ).id
    BY <1>1, NextTask, TaskFacts DEF LoadEngine
  <1>3. /\ stage' = [stage EXCEPT ![k] = "done"]
        /\ engine' = got[k] /\ engineLoad' = k
        /\ datWrites' = Append(datWrites, got[k]) \/ datWrites' = datWrites
    BY <1>2 DEF LoadEngine
  <1>4. stage' \in [LoadId -> Stages]
    BY <1>t, <1>3 DEF TypeOK, Stages
  <1>5. engineQ' \in Seq(Task)
    BY <1>1, NextTask
  <1>6. engine' \in Content /\ engineLoad' \in 0 .. MaxLoads
    BY <1>t, <1>3, ConstantsAssumption DEF TypeOK, LoadId
  <1>7. datWrites' \in Seq(Content)
    <2>1. datWrites \in Seq(Content) /\ got[k] \in Content
      BY <1>t DEF TypeOK
    <2> QED BY <1>3, <2>1, PostFacts
  <1> QED BY <1>t, <1>1, <1>4, <1>5, <1>6, <1>7 DEF TypeOK, resources

LEMMA WriteDATFileType ==
  ASSUME TypeOK, NEW ok \in BOOLEAN, WriteDATFile(ok)
  PROVE  TypeOK'
  <1>1. /\ datWrites # <<>> /\ datWrites' = Tail(datWrites)
        /\ dat' = IF ok THEN Head(datWrites) ELSE dat
        /\ UNCHANGED <<stage, read, arrived, got, engineQ, resources, rules>>
        /\ UNCHANGED <<ver, edits, providers, suppress, callbacks, deleting,
                       unnotified, started, want, datPending, datBuf, restarts>>
    BY LoadingFacts DEF WriteDATFile
  <1>2. datWrites' \in Seq(Content) /\ dat' \in Content \cup {NoDAT}
    BY <1>1, TakeFacts DEF TypeOK
  <1>3. writeFailed' \in BOOLEAN
    BY DEF WriteDATFile
  <1> QED BY <1>1, <1>2, <1>3 DEF TypeOK, resources, rules

LEMMA OnReadCachedDATFilesType ==
  ASSUME IInv, OnReadCachedDATFiles
  PROVE  TypeOK'
  <1>t. TypeOK BY DEF IInv
  <1>1. /\ datPending' = FALSE
        /\ UNCHANGED <<ver, edits, providers, callbacks, deleting, requests,
                       rules, cache, datBuf, restarts>>
    BY DEF OnReadCachedDATFiles
  <1>2. datPending' \in BOOLEAN BY <1>1
  <1>3. CASE /\ engineQ' = Append(engineQ, LoadDATTask)
             /\ LoadResources(0)
             /\ UNCHANGED <<suppress, loads, unnotified>>
    <2>1. engineQ' \in Seq(Task)
      BY <1>t, <1>3, TaskFacts, PostFacts DEF TypeOK
    <2>2. 0 \in 0 .. MaxLoads BY ConstantsAssumption
    <2>3. keysQ' \in Seq(0 .. MaxLoads) /\ postedQ' \in Seq(0 .. MaxLoads)
      BY <1>t, <1>3, <2>2, LoadResourcesType
    <2>4. cached' = cached BY <1>3 DEF LoadResources
    <2> QED BY <1>t, <1>1, <1>2, <1>3, <2>1, <2>3, <2>4 DEF TypeOK, loads, rules, cache
  <1>4. CASE ForceNotifyObserver(engineQ) /\ UNCHANGED <<keysQ, postedQ, cached>>
    <2>1. engineQ \in Seq(Task) BY <1>t DEF TypeOK
    <2>2. /\ suppress' \in BOOLEAN /\ started' \in 0 .. MaxLoads
          /\ stage' \in [LoadId -> Stages] /\ want' \in [LoadId -> SUBSET Provider]
          /\ UNCHANGED <<read, arrived, got>>
          /\ engineQ' \in Seq(Task) /\ unnotified' \subseteq Provider
      BY <1>t, <1>4, <2>1, ForceNotifyType
    <2> QED BY <1>t, <1>1, <1>2, <1>4, <2>2 DEF TypeOK, rules, cache
  <1> QED BY <1>3, <1>4 DEF OnReadCachedDATFiles

LEMMA LoadDATType ==
  ASSUME IInv, NEW ok \in BOOLEAN, LoadDAT(ok)
  PROVE  TypeOK'
  <1>t. TypeOK BY DEF IInv
  <1>1. UNCHANGED <<ver, edits, providers, callbacks, deleting, resources, cache,
                    startup, restarts>>
    BY DEF LoadDAT
  <1>2. /\ Head(engineQ) \in Task /\ TaskOK(Head(engineQ))
        /\ Tail(engineQ) \in Seq(Task)
    BY NextTask DEF LoadDAT
  <1>3. CASE /\ engine' = datBuf /\ engineLoad' = 0
             /\ engineQ' = Tail(engineQ)
             /\ UNCHANGED <<suppress, loads, unnotified>>
    <2>1. datBuf # NoDAT
      BY <1>2 DEF LoadDAT, TaskOK
    <2>2. engine' \in Content
      BY <1>t, <1>3, <2>1 DEF TypeOK
    <2>3. engineLoad' \in 0 .. MaxLoads
      BY <1>3, ConstantsAssumption
    <2> QED BY <1>t, <1>1, <1>2, <1>3, <2>2, <2>3 DEF TypeOK, loads, resources,
                                                    cache, startup
  <1>4. CASE ForceNotifyObserver(Tail(engineQ)) /\ UNCHANGED rules
    <2>1. /\ suppress' \in BOOLEAN /\ started' \in 0 .. MaxLoads
          /\ stage' \in [LoadId -> Stages] /\ want' \in [LoadId -> SUBSET Provider]
          /\ UNCHANGED <<read, arrived, got>>
          /\ engineQ' \in Seq(Task) /\ unnotified' \subseteq Provider
      BY <1>t, <1>2, <1>4, ForceNotifyType
    <2> QED BY <1>t, <1>1, <1>4, <2>1 DEF TypeOK, rules, resources, cache, startup
  <1> QED BY <1>3, <1>4 DEF LoadDAT

LEMMA NextInv == IInv /\ [Next]_vars => Inv'
  <1> SUFFICES ASSUME IInv, [Next]_vars PROVE Inv'
    OBVIOUS
  <1>1. CASE Environment
    BY <1>1, EnvironmentInv
  <1>2. ASSUME NEW k \in LoadId, LoadStep(k) PROVE Inv'
    <2>1. PICK p \in Provider :
             \/ LoadStaticList(k, p) \/ AnswerStaticList(k, p)
             \/ ReadListFile(k, p) \/ OnDATFileDataReady(k, p)
      BY <1>2 DEF LoadStep
    <2>2. CASE LoadStaticList(k, p) \/ ReadListFile(k, p)
      BY <2>2, ReadInv DEF LoadStaticList, ReadListFile
    <2>3. CASE AnswerStaticList(k, p) \/ OnDATFileDataReady(k, p)
      BY <2>3, ArriveInv DEF AnswerStaticList, OnDATFileDataReady
    <2> QED BY <2>1, <2>2, <2>3
  <1>3. CASE EngineStep
    BY <1>3, OnFilterSetCreatedInv, LoadEngineInv, LoadDATInv DEF EngineStep
  <1>4. CASE OnCustomResourcesLoaded \/ OnCachedResources
    BY <1>4, ResourcesInv
  <1>5. CASE OnReadCachedDATFiles
    BY <1>5, OnReadCachedDATFilesInv
  <1>6. CASE \E ok \in BOOLEAN : WriteDATFile(ok)
    BY <1>6, WriteDATFileInv
  <1>7. CASE Restart
    BY <1>7, RestartInv
  <1>8. CASE UNCHANGED vars
    <2>1. /\ UNCHANGED <<loads, engineQ, keysQ, postedQ, datBuf, rules, cache>>
          /\ unnotified' = unnotified /\ providers' = providers /\ ver' = ver
      BY <1>8 DEF vars, resources, startup, sources
    <2> QED BY <2>1, QuietInv
  <1> QED BY <1>1, <1>2, <1>3, <1>4, <1>5, <1>6, <1>7, <1>8 DEF Next

LEMMA NextType == IInv /\ [Next]_vars => TypeOK'
  <1> SUFFICES ASSUME IInv, [Next]_vars PROVE TypeOK'
    OBVIOUS
  <1>t. TypeOK BY DEF IInv
  <1>1. CASE Environment
    BY <1>t, <1>1, EnvironmentType
  <1>2. ASSUME NEW k \in LoadId, LoadStep(k) PROVE TypeOK'
    BY <1>t, <1>2, LoadStepType
  <1>3. CASE EngineStep
    BY <1>3, OnFilterSetCreatedType, LoadEngineType, LoadDATType DEF EngineStep
  <1>4. CASE OnCustomResourcesLoaded \/ OnCachedResources
    BY <1>4, ResourcesType
  <1>5. CASE OnReadCachedDATFiles
    BY <1>5, OnReadCachedDATFilesType
  <1>6. CASE \E ok \in BOOLEAN : WriteDATFile(ok)
    BY <1>t, <1>6, WriteDATFileType
  <1>7. CASE Restart
    BY <1>t, <1>7, RestartType
  <1>8. CASE UNCHANGED vars
    BY <1>t, <1>8 DEF TypeOK, vars, sources, loads, resources, rules, cache, startup
  <1> QED BY <1>1, <1>2, <1>3, <1>4, <1>5, <1>6, <1>7, <1>8 DEF Next

-----------------------------------------------------------------------------
(* The theorems. *)

\* Every reachable state is well typed and satisfies the inductive invariant.
THEOREM Inductive == Spec => []IInv
  <1>1. Init => IInv
    BY InitInv, InitType DEF IInv
  <1>2. IInv /\ [Next]_vars => IInv'
    BY NextInv, NextType DEF IInv
  <1> QED BY <1>1, <1>2, PTL DEF Spec

\* No handler leaves the pipeline's state outside its types: no queue ever
\* names a load that was never started, no DAT task runs without a DAT.
THEOREM TypeCorrect == Spec => []TypeOK
  <1>1. IInv => TypeOK BY DEF IInv
  <1> QED BY <1>1, Inductive, PTL

\* The load AdBlockService started last never waits for a destroyed provider,
\* whatever subscriptions are removed while loads are on their way.
THEOREM LatestAlive == Spec => []LatestLoadAlive
  <1>1. IInv => LatestLoadAlive
    BY DEF IInv, Inv, LatestInv, LatestLoadAlive
  <1> QED BY <1>1, Inductive, PTL

\* An engine that applies the load started last applies what the registered
\* providers hold, except for sources changed without a notification since.
THEOREM LatestCurrent == Spec => []LatestLoadIsCurrent
  <1>1. IInv => LatestLoadIsCurrent
    <2> SUFFICES ASSUME IInv, started > 0, engineLoad = started,
                        NEW p \in Provider \ unnotified
                 PROVE  engine[p] = Current[p]
      BY DEF LatestLoadIsCurrent
    <2>1. started \in LoadId
      BY ConstantsAssumption DEF IInv, TypeOK, LoadId
    <2>2. LoadInv(started) /\ LatestInv /\ EngineInv
      BY <2>1 DEF IInv, Inv
    <2>3. /\ engine = got[started] /\ read[started] = want[started]
          /\ want[started] \ unnotified = providers \ unnotified
      BY <2>2 DEF LoadInv, LatestInv, EngineInv
    <2>4. CASE p \in providers
      BY <2>2, <2>3, <2>4 DEF LatestInv, Current
    <2>5. CASE p \notin providers
      BY <2>2, <2>3, <2>5 DEF LoadInv, Current
    <2> QED BY <2>4, <2>5
  <1> QED BY <1>1, Inductive, PTL

\* With no write pending or failed, the DAT file is the engine's own rules.
THEOREM DATIsEngine == Spec => []DATMatchesEngine
  <1>1. IInv => DATMatchesEngine
    BY DEF IInv, Inv, DATInv, DATMatchesEngine
  <1> QED BY <1>1, Inductive, PTL
=============================================================================
