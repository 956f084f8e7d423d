--------------------------- MODULE CustomResources ---------------------------
(***************************************************************************)
(* AdBlockCustomResourceProvider: the user's resources (scriptlets and     *)
(* bundles), one list per key in a value store, and cached_storage_, the   *)
(* storage that is handed to the engines.                                  *)
(*                                                                         *)
(* Every edit of a list reads it from the store's task runner and writes   *)
(* it back in the reply, so two edits of a key may overlap.  Both runners  *)
(* are queues here: toStore and toUI.                                      *)
(*                                                                         *)
(* No component ever makes the default provider ready, so that it answers  *)
(* with an empty storage in the same call.                                 *)
(***************************************************************************)
EXTENDS Naturals, Sequences, FiniteSets, FiniteSetsExt

CONSTANTS
  Key,        \* keys of the store, in the order of a dictionary
  Name,       \* names that IsValidResource accepts
  Content,    \* contents that it accepts
  Malformed,  \* those of them that do not deserialize in adblock-rust
  Engine,     \* the engines, each with a SourceProviderObserver
  MaxEdits,   \* bound: edits
  MaxLoads    \* bound: LoadResources calls of the engines

\* Who waits for a storage: an engine, or (after an edit) every observer.
Everyone == "everyone"
Waiter == Engine \cup {Everyone}

ASSUME ConstantsAssumption ==
  /\ Key \subseteq Nat
  /\ Malformed \subseteq Content
  /\ Everyone \notin Engine
  /\ MaxEdits \in Nat /\ MaxLoads \in Nat

Resource == [name : Name, content : Content]
Lists == [Key -> SUBSET Resource]

Edit ==
  [op : {"add"}, key : Key, resource : Resource]
    \cup [op : {"update"}, key : Key, old : Name, resource : Resource]
    \cup [op : {"remove"}, key : Key, old : Name]

VARIABLES
  store,       \* the value store
  toStore,     \* tasks of its runner
  toUI,        \* tasks of the UI sequence: replies, and posted answers
  cached,      \* cached_storage_, an optional: no storage or one
  registered,  \* engines that observe the provider
  resources,   \* the resources of each engine
  edits, loads,  \* counters of the bounds
  expected,    \* history: the lists that the successful edits should make
  open,        \* history: edits of a key between their read and their reply
  clashed,     \* history: keys of which two edits have overlapped
  outrun       \* history: engines answered from the cache during a reload

vars == <<store, toStore, toUI, cached, registered, resources, edits, loads,
          expected, open, clashed, outrun>>

StoreTask ==
  [task : {"get"}, edit : Edit]
    \cup [task : {"keys"}, who : Waiter]
    \cup [task : {"set"}, key : Key, list : SUBSET Resource]
UITask ==
  [task : {"got"}, edit : Edit, list : SUBSET Resource]
    \cup [task : {"keys"}, who : Waiter, lists : Lists]
    \cup [task : {"answer"}, who : Engine, storage : SUBSET Resource]

TypeOK ==
  /\ store \in Lists /\ expected \in Lists
  /\ toStore \in Seq(StoreTask) /\ toUI \in Seq(UITask)
  /\ cached \subseteq SUBSET Resource /\ Cardinality(cached) <= 1
  /\ registered \subseteq Engine /\ outrun \subseteq Engine
  /\ resources \in [Engine -> SUBSET Resource]
  /\ open \in [Key -> Nat] /\ clashed \subseteq Key
  /\ edits \in Nat /\ loads \in Nat

Empty == [k \in Key |-> {}]

Init ==
  /\ store = Empty /\ expected = Empty
  /\ toStore = <<>> /\ toUI = <<>>
  /\ cached = {} /\ registered = {}
  /\ resources = [e \in Engine |-> {}]
  /\ edits = 0 /\ loads = 0
  /\ open = [k \in Key |-> 0] /\ clashed = {} /\ outrun = {}

-----------------------------------------------------------------------------
(***************************************************************************)
(* Storages.                                                               *)
(***************************************************************************)

Names(list) == {r.name : r \in list}

\* extend_resource_storage for one key after the other: a list with a resource
\* that does not deserialize adds nothing, a name that is there is kept.
Merged(lists) ==
  LET good == {k \in Key : \A r \in lists[k] : r.content \notin Malformed} IN
  UNION {{r \in lists[k] : \A j \in good : j < k => r.name \notin Names(lists[j])}
         : k \in good}

\* GetKeys, whose reply makes a storage of all that is there.
GetKeys(who) == [task |-> "keys", who |-> who]

\* A storage for everyone is being made.
Reloading ==
  \/ \E i \in 1 .. Len(toStore) : toStore[i] = GetKeys(Everyone)
  \/ \E i \in 1 .. Len(toUI) : toUI[i].task = "keys" /\ toUI[i].who = Everyone

\* OnDefaultResourcesLoaded, with the empty storage of the default provider.
OnDefaultResourcesLoaded(who) == toStore' = Append(toStore, GetKeys(who))

\* LoadResources: an engine wants a storage for a filter set or a DAT, and
\* observes from now on.
EngineLoadsResources(e) ==
  /\ loads < MaxLoads
  /\ loads' = loads + 1
  /\ registered' = registered \cup {e}
  /\ \/ \E storage \in cached :
        /\ toUI' = Append(toUI, [task |-> "answer", who |-> e, storage |-> storage])
        /\ outrun' = IF Reloading THEN outrun \cup {e} ELSE outrun
        /\ UNCHANGED toStore
     \/ /\ cached = {}
        /\ OnDefaultResourcesLoaded(e)
        /\ UNCHANGED <<toUI, outrun>>
  /\ UNCHANGED <<store, cached, resources, edits, expected, open, clashed>>

-----------------------------------------------------------------------------
(***************************************************************************)
(* Edits.                                                                  *)
(***************************************************************************)

\* GetCustomResources: every edit reads the list first.
GetCustomResources(edit) ==
  /\ toStore' = Append(toStore, [task |-> "get", edit |-> edit])
  /\ open' = [open EXCEPT ![edit.key] = @ + 1]
  /\ clashed' = IF open[edit.key] > 0 THEN clashed \cup {edit.key} ELSE clashed
  /\ UNCHANGED <<cached, expected, outrun>>

\* IsValidResource has refused what is no Resource.
AddResource(k, r) ==
  GetCustomResources([op |-> "add", key |-> k, resource |-> r])

UpdateResource(k, name, r) ==
  GetCustomResources([op |-> "update", key |-> k, old |-> name, resource |-> r])

RemoveResource(k, name) ==
  GetCustomResources([op |-> "remove", key |-> k, old |-> name])

\* A mutant of SaveAndReload: the storage is made before the list is saved.
SaveAndReloadFirst(key, list) ==
  /\ cached' = {}
  /\ toStore' = toStore \o <<GetKeys(Everyone),
                             [task |-> "set", key |-> key, list |-> list]>>
  /\ outrun' = {}

\* SaveResources (or Remove, which leaves no list) and ReloadResourcesAndNotify,
\* whose LoadResources finds no cached storage.
SaveAndReload(key, list) ==
  /\ cached' = {}
  /\ toStore' = toStore \o <<[task |-> "set", key |-> key, list |-> list],
                             GetKeys(Everyone)>>
  /\ outrun' = {}

RemoveKey(k) ==
  /\ SaveAndReload(k, {})
  /\ expected' = [expected EXCEPT ![k] = {}]
  /\ clashed' = IF open[k] > 0 THEN clashed \cup {k} ELSE clashed
  /\ UNCHANGED open

\* What an edit makes of a list.
Edited(edit, list) ==
  CASE edit.op = "add" -> list \cup {edit.resource}
    [] edit.op = "remove" -> {r \in list : r.name # edit.old}
    [] edit.op = "update" -> {r \in list : r.name # edit.old} \cup {edit.resource}

\* OnResourceUpdateStatus tells the page kOk, of an edit of this list.
Acknowledge(edit, list) ==
  /\ SaveAndReload(edit.key, Edited(edit, list))
  /\ expected' = [expected EXCEPT ![edit.key] = Edited(edit, @)]

\* OnResourceUpdateStatus tells it kAlreadyExists or kNotFound.
Refuse == UNCHANGED <<toStore, cached, expected, outrun>>

\* A mutant of AddResourceInternal: the list is saved before it is edited.
AddResourceInternalSavedFirst(edit, list) ==
  IF edit.resource.name \in Names(list)
  THEN Refuse
  ELSE /\ SaveAndReload(edit.key, list)
       /\ expected' = [expected EXCEPT ![edit.key] = Edited(edit, @)]

AddResourceInternal(edit, list) ==
  IF edit.resource.name \in Names(list)
  THEN Refuse
  ELSE Acknowledge(edit, list)

\* A mutant of UpdateResourceInternal: it may take a name that is in use.
UpdateResourceInternalRename(edit, list) ==
  IF edit.old \notin Names(list) THEN Refuse ELSE Acknowledge(edit, list)

UpdateResourceInternal(edit, list) ==
  IF edit.old \notin Names(list) \/ edit.resource.name \in Names(list) \ {edit.old}
  THEN Refuse
  ELSE Acknowledge(edit, list)

RemoveResourceInternal(edit, list) ==
  IF edit.old \in Names(list) THEN Acknowledge(edit, list) ELSE Refuse

\* The reply with the list: the edit is carried out on what was read.
OnList(edit, list) ==
  /\ open' = [open EXCEPT ![edit.key] = @ - 1]
  /\ \/ edit.op = "add" /\ AddResourceInternal(edit, list)
     \/ edit.op = "update" /\ UpdateResourceInternal(edit, list)
     \/ edit.op = "remove" /\ RemoveResourceInternal(edit, list)
  /\ UNCHANGED <<registered, resources, clashed>>

-----------------------------------------------------------------------------
(***************************************************************************)
(* AdblockDOMHandler: the messages of the page.  It sends one after the    *)
(* other if it imports, but no click waits for the answer to another.      *)
(***************************************************************************)

\* A message that edits.
Message ==
  /\ edits < MaxEdits
  /\ edits' = edits + 1
  /\ UNCHANGED <<store, toUI, registered, resources, loads>>

HandleAddCustomResource(k, r) == Message /\ AddResource(k, r)
HandleUpdateCustomResource(k, name, r) == Message /\ UpdateResource(k, name, r)
HandleRemoveCustomResource(k, name) == Message /\ RemoveResource(k, name)
HandleRemoveCustomResourceKey(k) == Message /\ RemoveKey(k)

-----------------------------------------------------------------------------
(***************************************************************************)
(* Storages reach the engines.  Their runner keeps the order, so that an   *)
(* engine has a storage as soon as its observer has.                       *)
(***************************************************************************)

\* AdBlockEngine::UseResources.
UseResources(engines, storage) ==
  resources' = [e \in Engine |-> IF e \in engines THEN storage ELSE resources[e]]

\* Who is waiting: NotifyResourcesLoaded reaches every observer, OnAllLoaded one
\* engine.
Reached(who) == IF who = Everyone THEN registered ELSE {who}

\* A mutant of OnCustomResourcesLoaded: a storage that is cached is kept.
OnCustomResourcesLoadedOnce(who, lists) ==
  /\ cached' = IF cached = {} THEN {Merged(lists)} ELSE cached
  /\ UseResources(Reached(who), Merged(lists))
  /\ UNCHANGED <<toStore, registered, expected, open, clashed, outrun>>

\* A mutant of OnCustomResourcesLoaded: the storage joins what is cached.
OnCustomResourcesLoadedJoins(who, lists) ==
  /\ cached' = cached \cup {Merged(lists)}
  /\ UseResources(Reached(who), Merged(lists))
  /\ UNCHANGED <<toStore, registered, expected, open, clashed, outrun>>

OnCustomResourcesLoaded(who, lists) ==
  /\ cached' = {Merged(lists)}
  /\ UseResources(Reached(who), Merged(lists))
  /\ UNCHANGED <<toStore, registered, expected, open, clashed, outrun>>

\* An answer that LoadResources has posted reaches OnAllLoaded.
OnAnswer(e, storage) ==
  /\ UseResources({e}, storage)
  /\ UNCHANGED <<toStore, cached, registered, expected, open, clashed, outrun>>

-----------------------------------------------------------------------------
\* The store's runner.
RunStore ==
  /\ toStore # <<>>
  /\ toStore' = Tail(toStore)
  /\ LET t == Head(toStore) IN
     \/ /\ t.task = "get"
        /\ toUI' = Append(toUI, [task |-> "got", edit |-> t.edit,
                                 list |-> store[t.edit.key]])
        /\ UNCHANGED store
     \/ /\ t.task = "keys"
        /\ toUI' = Append(toUI, [task |-> "keys", who |-> t.who, lists |-> store])
        /\ UNCHANGED store
     \/ /\ t.task = "set"
        /\ store' = [store EXCEPT ![t.key] = t.list]
        /\ UNCHANGED toUI
  /\ UNCHANGED <<cached, registered, resources, edits, loads, expected, open,
                 clashed, outrun>>

\* The UI sequence.
RunUI ==
  /\ toUI # <<>>
  /\ toUI' = Tail(toUI)
  /\ LET t == Head(toUI) IN
     \/ t.task = "got" /\ OnList(t.edit, t.list)
     \/ t.task = "keys" /\ OnCustomResourcesLoaded(t.who, t.lists)
     \/ t.task = "answer" /\ OnAnswer(t.who, t.storage)
  /\ UNCHANGED <<store, edits, loads>>

Next ==
  \/ \E e \in Engine : EngineLoadsResources(e)
  \/ \E k \in Key :
       \/ \E r \in Resource : HandleAddCustomResource(k, r)
       \/ \E name \in Name, r \in Resource : HandleUpdateCustomResource(k, name, r)
       \/ \E name \in Name : HandleRemoveCustomResource(k, name)
       \/ HandleRemoveCustomResourceKey(k)
  \/ RunStore
  \/ RunUI

Spec == Init /\ [][Next]_vars

-----------------------------------------------------------------------------
(***************************************************************************)
(* Properties.                                                             *)
(***************************************************************************)

\* The list of a key once the writes that were posted are done.
AfterWrites(k) ==
  LET writes == {i \in 1 .. Len(toStore) :
                   toStore[i].task = "set" /\ toStore[i].key = k}
  IN IF writes = {} THEN store[k] ELSE toStore[Max(writes)].list

\* Edits that were answered kOk are in the store, or on their way, in the order
\* of their answers, unless two edits of the key have overlapped: SaveResources
\* writes the whole list that GetCustomResources read for its own edit.
AckedEditsStored ==
  \A k \in Key \ clashed : AfterWrites(k) = expected[k]

\* No list ever has two resources of one name, however edits overlap: what
\* FindResource of the three Internal methods was shown is what is written.
NamesUnique ==
  \A k \in Key : \A r, s \in store[k] : r.name = s.name => r = s

\* Once nothing is being read, cached_storage_ is what the store makes: a load
\* that read before an edit may fill it, but never for good.
CacheFollowsStore ==
  toStore = <<>>
    /\ (\A i \in 1 .. Len(toUI) : toUI[i].task # "keys")
    => cached \subseteq {Merged(store)}

\* Once both runners are idle every engine that has asked for resources has
\* those of the store, unless it was handed the cached storage while a reload
\* was under way (the reload may then overtake the answer) and no edit followed.
EnginesFollowStore ==
  toStore = <<>> /\ toUI = <<>>
    => \A e \in registered \ outrun : resources[e] = Merged(store)
=============================================================================
