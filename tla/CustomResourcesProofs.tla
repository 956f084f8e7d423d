------------------------ MODULE CustomResourcesProofs ------------------------
(***************************************************************************)
(* CustomResources, for every set of keys, resources and engines and any   *)
(* number of edits and loads: an inductive invariant, and the safety       *)
(* properties of the provider that follow.                                 *)
(***************************************************************************)
EXTENDS CustomResources, TLAPS, SequenceTheorems, FiniteSetTheorems

\* The tasks of a key: reads, their replies, and writes.
Gets(k) == {i \in DOMAIN toStore : toStore[i].task = "get" /\ toStore[i].edit.key = k}
Gots(k) == {i \in DOMAIN toUI : toUI[i].task = "got" /\ toUI[i].edit.key = k}
Sets(k) == {i \in DOMAIN toStore : toStore[i].task = "set" /\ toStore[i].key = k}

\* Every list has a name once: stored, read, or about to be written.
Unique(list) == \A r, s \in list : r.name = s.name => r = s

UniqueInv ==
  /\ \A k \in Key : Unique(store[k])
  /\ \A i \in DOMAIN toStore : toStore[i].task = "set" => Unique(toStore[i].list)
  /\ \A i \in DOMAIN toUI : toUI[i].task = "got" => Unique(toUI[i].list)

\* The last write of a key has what is expected of it.
Stored(k) ==
  \/ Sets(k) = {} /\ store[k] = expected[k]
  \/ \E i \in Sets(k) : (\A j \in Sets(k) : j <= i) /\ toStore[i].list = expected[k]

\* The only edit of a key reads what is expected of it: its read comes after the
\* writes of the key, none of which is posted before its reply.
ReadsStored(k) ==
  /\ \A i \in Gets(k), j \in Sets(k) : j < i
  /\ \A i \in Gots(k) : Sets(k) = {} /\ toUI[i].list = expected[k]

EditInv(k) ==
  /\ open[k] = Cardinality(Gets(k)) + Cardinality(Gots(k))
  /\ k \notin clashed => open[k] <= 1 /\ Stored(k) /\ ReadsStored(k)

\* A write is followed by a read for everyone.
SaveInv ==
  \A i \in DOMAIN toStore :
    toStore[i].task = "set" => i + 1 \in DOMAIN toStore /\ toStore[i + 1] = GetKeys(Everyone)

Saving == \E i \in DOMAIN toStore : toStore[i] = GetKeys(Everyone)

ForEveryone(i) == toUI[i].task = "keys" /\ toUI[i].who = Everyone

\* A storage for this engine is on its way.
Awaits(e) ==
  \/ \E i \in DOMAIN toStore : toStore[i] = GetKeys(e)
  \/ \E i \in DOMAIN toUI : toUI[i].task \in {"keys", "answer"} /\ toUI[i].who = e

\* The reply number m is the last for everyone (0: there is none), and it and what
\* comes after it is as the store is.
Follows(m) ==
  /\ m # 0 => m \in DOMAIN toUI /\ ForEveryone(m)
  /\ \A i \in DOMAIN toUI : i > m => ~ForEveryone(i)
  /\ \A i \in DOMAIN toUI : i >= m /\ toUI[i].task = "keys" => toUI[i].lists = store
  /\ \A i \in DOMAIN toUI :
       i > m /\ toUI[i].task = "answer" /\ toUI[i].who \notin outrun =>
         toUI[i].storage = Merged(store)
  /\ m = 0 =>
       /\ cached \subseteq {Merged(store)}
       /\ \A e \in registered \ outrun : resources[e] = Merged(store) \/ Awaits(e)

\* A read for everyone is yet to be done, or it has been done after the last write.
FollowInv == Saving \/ \E m \in Nat : Follows(m)

IInv ==
  /\ TypeOK /\ UniqueInv /\ SaveInv /\ FollowInv
  /\ \A k \in Key : EditInv(k)
-----------------------------------------------------------------------------
(* Facts about queues and finite sets of places.                           *)

LEMMA Posted ==
  ASSUME NEW T, NEW q \in Seq(T), NEW x \in T
  PROVE  /\ Append(q, x) \in Seq(T) /\ Len(q) \in Nat /\ DOMAIN q = 1..Len(q)
         /\ DOMAIN Append(q, x) = 1..(Len(q) + 1)
         /\ \A i \in 1..Len(q) : Append(q, x)[i] = q[i]
         /\ Append(q, x)[Len(q) + 1] = x
<1>1. /\ Append(q, x) \in Seq(T) /\ Len(Append(q, x)) = Len(q) + 1
      /\ \A i \in 1..Len(q) : Append(q, x)[i] = q[i]
      /\ Append(q, x)[Len(q) + 1] = x
  BY AppendProperties
<1>2. DOMAIN Append(q, x) = 1..Len(Append(q, x)) /\ Len(q) \in Nat /\ DOMAIN q = 1..Len(q)
  BY <1>1, LenProperties
<1> QED
  BY <1>1, <1>2

LEMMA PostedTwo ==
  ASSUME NEW T, NEW q \in Seq(T), NEW x \in T, NEW y \in T
  PROVE  /\ q \o <<x, y>> \in Seq(T) /\ Len(q) \in Nat /\ DOMAIN q = 1..Len(q)
         /\ DOMAIN (q \o <<x, y>>) = 1..(Len(q) + 2)
         /\ \A i \in 1..Len(q) : (q \o <<x, y>>)[i] = q[i]
         /\ (q \o <<x, y>>)[Len(q) + 1] = x /\ (q \o <<x, y>>)[Len(q) + 2] = y
<1> DEFINE both == <<x, y>>
<1>1. both \in Seq(T) /\ Len(both) = 2 /\ both[1] = x /\ both[2] = y
  OBVIOUS
<1> HIDE DEF both
<1>2. Len(q) \in Nat /\ DOMAIN q = 1..Len(q)
  BY LenProperties
<1>3. /\ q \o both \in Seq(T) /\ Len(q \o both) = Len(q) + 2
      /\ \A i \in 1..(Len(q) + 2) :
           (q \o both)[i] = IF i <= Len(q) THEN q[i] ELSE both[i - Len(q)]
  <2>1. /\ q \o both \in Seq(T) /\ Len(q \o both) = Len(q) + Len(both)
        /\ \A i \in 1..(Len(q) + Len(both)) :
             (q \o both)[i] = IF i <= Len(q) THEN q[i] ELSE both[i - Len(q)]
    BY <1>1, ConcatProperties
  <2> QED
    BY <1>1, <2>1
<1>4. DOMAIN (q \o both) = 1..(Len(q) + 2)
  BY <1>3, LenProperties
<1>5. \A i \in 1..Len(q) : (q \o both)[i] = q[i]
  BY <1>2, <1>3
<1>6. (q \o both)[Len(q) + 1] = both[1] /\ (q \o both)[Len(q) + 2] = both[2]
  <2>1. /\ Len(q) + 1 \in 1..(Len(q) + 2) /\ ~(Len(q) + 1 <= Len(q)) /\ Len(q) + 1 - Len(q) = 1
        /\ Len(q) + 2 \in 1..(Len(q) + 2) /\ ~(Len(q) + 2 <= Len(q)) /\ Len(q) + 2 - Len(q) = 2
    BY <1>2
  <2> QED
    BY <1>3, <2>1
<1>7. /\ q \o both \in Seq(T) /\ Len(q) \in Nat /\ DOMAIN q = 1..Len(q)
      /\ DOMAIN (q \o both) = 1..(Len(q) + 2)
      /\ \A i \in 1..Len(q) : (q \o both)[i] = q[i]
      /\ (q \o both)[Len(q) + 1] = x /\ (q \o both)[Len(q) + 2] = y
  BY <1>1, <1>2, <1>3, <1>4, <1>5, <1>6
<1> QED
  BY <1>7 DEF both

LEMMA Taken ==
  ASSUME NEW T, NEW q \in Seq(T), q # <<>>
  PROVE  /\ Tail(q) \in Seq(T) /\ Head(q) \in T /\ Head(q) = q[1]
         /\ Len(q) \in Nat \ {0} /\ DOMAIN q = 1..Len(q) /\ 1 \in DOMAIN q
         /\ DOMAIN Tail(q) = 1..(Len(q) - 1)
         /\ \A i \in DOMAIN Tail(q) :
              i + 1 \in DOMAIN q /\ i + 1 > 1 /\ i \in Nat /\ Tail(q)[i] = q[i + 1]
         /\ \A i \in DOMAIN q \ {1} : i - 1 \in DOMAIN Tail(q) /\ Tail(q)[i - 1] = q[i]
<1>1. Len(q) \in Nat \ {0} /\ DOMAIN q = 1..Len(q)
  BY EmptySeq, LenProperties
<1>2. /\ Head(q) \in T /\ Tail(q) \in Seq(T) /\ Len(Tail(q)) = Len(q) - 1
      /\ \A i \in 1..Len(Tail(q)) : Tail(q)[i] = q[i + 1]
  BY HeadTailProperties
<1>3. DOMAIN Tail(q) = 1..(Len(q) - 1)
  BY <1>2, LenProperties
<1>4. Head(q) = q[1]
  OBVIOUS
<1>5. \A i \in DOMAIN Tail(q) :
        i + 1 \in DOMAIN q /\ i + 1 > 1 /\ i \in Nat /\ Tail(q)[i] = q[i + 1]
  BY <1>1, <1>2, <1>3
<1>6. ASSUME NEW i \in DOMAIN q \ {1}
      PROVE  i - 1 \in DOMAIN Tail(q) /\ Tail(q)[i - 1] = q[i]
  <2>1. i \in Nat /\ i - 1 \in 1..(Len(q) - 1) /\ (i - 1) + 1 = i
    BY <1>1
  <2> QED
    BY <1>2, <1>3, <2>1
<1> QED
  BY <1>1, <1>2, <1>3, <1>4, <1>5, <1>6

\* As many places, one further to the front or not.
LEMMA Shifted ==
  ASSUME NEW S \in SUBSET Int, IsFiniteSet(S), NEW d \in Int
  PROVE  /\ IsFiniteSet({i - d : i \in S})
         /\ Cardinality({i - d : i \in S}) = Cardinality(S)
<1> DEFINE T == {i - d : i \in S}
           f == [i \in S |-> i - d]
<1>1. f \in [S -> T]
  OBVIOUS
<1>2. \A i, j \in S : f[i] = f[j] => i = j
  OBVIOUS
<1>3. \A t \in T : \E i \in S : f[i] = t
  OBVIOUS
<1> HIDE DEF f, T
<1>4. f \in Bijection(S, T)
  BY <1>1, <1>2, <1>3 DEF Bijection, Injection, Surjection, IsInjective
<1>5. ExistsBijection(S, T)
  BY <1>4 DEF ExistsBijection
<1>6. IsFiniteSet(T) /\ Cardinality(T) = Cardinality(S)
  BY <1>5, FS_Bijection
<1> QED
  BY <1>6 DEF T

\* At most one place in two sets of places.
LEMMA AtMostOne ==
  ASSUME NEW S, NEW T, IsFiniteSet(S), IsFiniteSet(T)
  PROVE  /\ Cardinality(S) \in Nat /\ Cardinality(T) \in Nat
         /\ Cardinality(S) + Cardinality(T) = 0 => S = {} /\ T = {}
         /\ Cardinality(S) + Cardinality(T) <= 1 =>
              /\ \A i \in S : S = {i} /\ T = {}
              /\ \A i \in T : T = {i} /\ S = {}
<1>1. Cardinality(S) \in Nat /\ Cardinality(T) \in Nat
  BY FS_CardinalityType
<1>2. /\ Cardinality(S) = 0 <=> S = {}
      /\ Cardinality(T) = 0 <=> T = {}
  BY FS_EmptySet
<1>3. ASSUME Cardinality(S) + Cardinality(T) <= 1, NEW i \in S
      PROVE  S = {i} /\ T = {}
  <2>1. Cardinality(S) = 1 /\ Cardinality(T) = 0
    BY <1>1, <1>2, <1>3
  <2>2. \E x : S = {x}
    BY <2>1, FS_Singleton
  <2> QED
    BY <1>2, <1>3, <2>1, <2>2
<1>4. ASSUME Cardinality(S) + Cardinality(T) <= 1, NEW i \in T
      PROVE  T = {i} /\ S = {}
  <2>1. Cardinality(T) = 1 /\ Cardinality(S) = 0
    BY <1>1, <1>2, <1>4
  <2>2. \E x : T = {x}
    BY <2>1, FS_Singleton
  <2> QED
    BY <1>2, <1>4, <2>1, <2>2
<1>5. Cardinality(S) + Cardinality(T) = 0 => S = {} /\ T = {}
  BY <1>1, <1>2
<1> QED
  BY <1>1, <1>3, <1>4, <1>5
-----------------------------------------------------------------------------
(* Facts about tasks, lists and storages.                                  *)

LEMMA EditFields ==
  ASSUME NEW edit \in Edit
  PROVE  /\ edit.op \in {"add", "update", "remove"} /\ edit.key \in Key
         /\ edit.op # "remove" => edit.resource \in Resource
BY DEF Edit

LEMMA StoreTaskFields ==
  ASSUME NEW t \in StoreTask
  PROVE  /\ t.task \in {"get", "keys", "set"}
         /\ t.task = "get" => t.edit \in Edit
         /\ t.task = "keys" => t.who \in Waiter /\ t = GetKeys(t.who)
         /\ t.task = "set" => t.key \in Key /\ t.list \in SUBSET Resource
BY DEF StoreTask, GetKeys

LEMMA UITaskFields ==
  ASSUME NEW t \in UITask
  PROVE  /\ t.task \in {"got", "keys", "answer"}
         /\ t.task = "got" => t.edit \in Edit /\ t.list \in SUBSET Resource
         /\ t.task = "keys" => t.who \in Waiter /\ t.lists \in Lists
         /\ t.task = "answer" => t.who \in Engine /\ t.storage \in SUBSET Resource
BY DEF UITask

LEMMA MergedType ==
  ASSUME NEW lists \in Lists
  PROVE  Merged(lists) \in SUBSET Resource
BY DEF Merged, Lists

\* What the Internal methods let through keeps the names of a list unique.
LEMMA EditedType ==
  ASSUME NEW edit \in Edit, NEW list \in SUBSET Resource
  PROVE  Edited(edit, list) \in SUBSET Resource
<1>1. CASE edit.op = "add"
  BY <1>1, EditFields DEF Edited
<1>2. CASE edit.op = "update"
  BY <1>2, EditFields DEF Edited
<1>3. CASE edit.op = "remove"
  BY <1>3, EditFields DEF Edited
<1> QED
  BY <1>1, <1>2, <1>3, EditFields

LEMMA EditedUnique ==
  ASSUME NEW edit \in Edit, NEW list \in SUBSET Resource, Unique(list),
         \/ edit.op = "add" /\ edit.resource.name \notin Names(list)
         \/ edit.op = "update" /\ edit.resource.name \notin Names(list) \ {edit.old}
         \/ edit.op = "remove"
  PROVE  Unique(Edited(edit, list))
<1>1. CASE edit.op = "add" /\ edit.resource.name \notin Names(list)
  <2>1. Edited(edit, list) = list \cup {edit.resource}
    BY <1>1 DEF Edited
  <2>2. \A r \in list : r.name # edit.resource.name
    BY <1>1 DEF Names
  <2> QED
    BY <2>1, <2>2 DEF Unique
<1>2. CASE edit.op = "update" /\ edit.resource.name \notin Names(list) \ {edit.old}
  <2> DEFINE rest == {r \in list : r.name # edit.old}
  <2>1. Edited(edit, list) = rest \cup {edit.resource}
    BY <1>2 DEF Edited
  <2>2. \A r \in rest : r \in list /\ r.name # edit.resource.name
    BY <1>2 DEF Names
  <2> HIDE DEF rest
  <2> QED
    BY <2>1, <2>2 DEF Unique
<1>3. CASE edit.op = "remove"
  <2>1. Edited(edit, list) = {r \in list : r.name # edit.old}
    BY <1>3 DEF Edited
  <2> QED
    BY <2>1 DEF Unique
<1> QED
  BY <1>1, <1>2, <1>3

LEMMA Queues ==
  ASSUME IInv
  PROVE  /\ toStore \in Seq(StoreTask) /\ toUI \in Seq(UITask)
         /\ Len(toStore) \in Nat /\ DOMAIN toStore = 1..Len(toStore)
         /\ Len(toUI) \in Nat /\ DOMAIN toUI = 1..Len(toUI)
         /\ \A i \in DOMAIN toStore : toStore[i] \in StoreTask
         /\ \A i \in DOMAIN toUI : toUI[i] \in UITask
<1>1. toStore \in Seq(StoreTask) /\ toUI \in Seq(UITask)
  BY DEF IInv, TypeOK
<1>2. /\ Len(toStore) \in Nat /\ DOMAIN toStore = 1..Len(toStore)
      /\ Len(toUI) \in Nat /\ DOMAIN toUI = 1..Len(toUI)
  BY <1>1, LenProperties
<1>3. \A i \in DOMAIN toStore : toStore[i] \in StoreTask
  BY <1>1, <1>2, ElementOfSeq
<1>4. \A i \in DOMAIN toUI : toUI[i] \in UITask
  BY <1>1, <1>2, ElementOfSeq
<1> QED
  BY <1>1, <1>2, <1>3, <1>4

LEMMA Places ==
  ASSUME IInv, NEW k \in Key
  PROVE  /\ Gets(k) \in SUBSET Int /\ IsFiniteSet(Gets(k))
         /\ Gots(k) \in SUBSET Int /\ IsFiniteSet(Gots(k))
         /\ Sets(k) \in SUBSET Int
         /\ Cardinality(Gets(k)) \in Nat /\ Cardinality(Gots(k)) \in Nat
<1>1. IsFiniteSet(1..Len(toStore)) /\ IsFiniteSet(1..Len(toUI))
  BY Queues, FS_Interval
<1>2. Gets(k) \in SUBSET (1..Len(toStore)) /\ Gots(k) \in SUBSET (1..Len(toUI))
  BY Queues DEF Gets, Gots
<1>3. IsFiniteSet(Gets(k)) /\ IsFiniteSet(Gots(k))
  BY <1>1, <1>2, FS_Subset
<1>4. Gets(k) \in SUBSET Int /\ Gots(k) \in SUBSET Int
  BY <1>2, Queues
<1>5. Sets(k) \in SUBSET Int
  BY Queues DEF Sets
<1> QED
  BY <1>3, <1>4, <1>5, FS_CardinalityType

\* Without a clash the pending edit of a key is the only one.
LEMMA OneEdit ==
  ASSUME IInv, NEW k \in Key
  PROVE  /\ open[k] \in Nat
         /\ open[k] = Cardinality(Gets(k)) + Cardinality(Gots(k))
         /\ open[k] = 0 => Gets(k) = {} /\ Gots(k) = {}
         /\ Gets(k) # {} \/ Gots(k) # {} => open[k] > 0
         /\ k \notin clashed =>
              /\ open[k] <= 1 /\ Stored(k) /\ ReadsStored(k)
              /\ \A i \in Gets(k) : Gets(k) = {i} /\ Gots(k) = {}
              /\ \A i \in Gots(k) : Gots(k) = {i} /\ Gets(k) = {}
<1>1. /\ open[k] = Cardinality(Gets(k)) + Cardinality(Gots(k))
      /\ k \notin clashed => open[k] <= 1 /\ Stored(k) /\ ReadsStored(k)
  BY DEF IInv, EditInv
<1>2. IsFiniteSet(Gets(k)) /\ IsFiniteSet(Gots(k))
  BY Places
<1>3. open[k] = 0 => Gets(k) = {} /\ Gots(k) = {}
  BY <1>1, <1>2, AtMostOne
<1>4. open[k] \in Nat
  BY <1>1, Places
<1>5. open[k] <= 1 => /\ \A i \in Gets(k) : Gets(k) = {i} /\ Gots(k) = {}
                      /\ \A i \in Gots(k) : Gots(k) = {i} /\ Gets(k) = {}
  BY <1>1, <1>2, AtMostOne
<1>6. Gets(k) # {} \/ Gots(k) # {} => open[k] > 0
  BY <1>3, <1>4
<1> QED
  BY <1>1, <1>3, <1>4, <1>5, <1>6
-----------------------------------------------------------------------------
(* The edits of a key.                                                     *)

\* The queues grow or lose their first task, and this key has no part in it.
NotOf(t, k) ==
  ~(t.task \in {"get", "got"} /\ t.edit.key = k) /\ ~(t.task = "set" /\ t.key = k)

StoreGrows(k) ==
  /\ DOMAIN toStore \subseteq DOMAIN toStore'
  /\ \A i \in DOMAIN toStore : toStore'[i] = toStore[i]
  /\ \A i \in DOMAIN toStore' : i \notin DOMAIN toStore => NotOf(toStore'[i], k)

StoreShrinks(k) == toStore # <<>> /\ toStore' = Tail(toStore) /\ NotOf(Head(toStore), k)

UIGrows(k) ==
  /\ DOMAIN toUI \subseteq DOMAIN toUI'
  /\ \A i \in DOMAIN toUI : toUI'[i] = toUI[i]
  /\ \A i \in DOMAIN toUI' : i \notin DOMAIN toUI => NotOf(toUI'[i], k)

UIShrinks(k) == toUI # <<>> /\ toUI' = Tail(toUI) /\ NotOf(Head(toUI), k)

LEMMA StoreTaken ==
  ASSUME IInv, NEW k \in Key, toStore # <<>>, toStore' = Tail(toStore)
  PROVE  /\ Sets(k)' = {i - 1 : i \in Sets(k) \ {1}}
         /\ Gets(k)' = {i - 1 : i \in Gets(k) \ {1}}
         /\ \A i \in DOMAIN toStore \ {1} : toStore'[i - 1] = toStore[i]
<1>1. /\ DOMAIN toStore = 1..Len(toStore) /\ Len(toStore) \in Nat
      /\ \A i \in DOMAIN toStore' :
           i + 1 \in DOMAIN toStore /\ i + 1 > 1 /\ i \in Nat /\ toStore'[i] = toStore[i + 1]
      /\ \A i \in DOMAIN toStore \ {1} :
           i - 1 \in DOMAIN toStore' /\ toStore'[i - 1] = toStore[i]
  BY Queues, Taken
<1>2. \A i \in DOMAIN toStore : i \in Int
  BY <1>1
<1>3. ASSUME NEW i \in Sets(k)' PROVE i \in {j - 1 : j \in Sets(k) \ {1}}
  <2>1. i + 1 \in Sets(k) \ {1} /\ (i + 1) - 1 = i
    BY <1>1 DEF Sets
  <2> QED
    BY <2>1
<1>4. ASSUME NEW i \in Gets(k)' PROVE i \in {j - 1 : j \in Gets(k) \ {1}}
  <2>1. i + 1 \in Gets(k) \ {1} /\ (i + 1) - 1 = i
    BY <1>1 DEF Gets
  <2> QED
    BY <2>1
<1>5. \A j \in Sets(k) \ {1} : j - 1 \in Sets(k)'
  BY <1>1 DEF Sets
<1>6. \A j \in Gets(k) \ {1} : j - 1 \in Gets(k)'
  BY <1>1 DEF Gets
<1> QED
  BY <1>1, <1>3, <1>4, <1>5, <1>6

LEMMA UITaken ==
  ASSUME IInv, NEW k \in Key, toUI # <<>>, toUI' = Tail(toUI)
  PROVE  /\ Gots(k)' = {i - 1 : i \in Gots(k) \ {1}}
         /\ \A i \in DOMAIN toUI \ {1} : toUI'[i - 1] = toUI[i]
<1>1. /\ DOMAIN toUI = 1..Len(toUI) /\ Len(toUI) \in Nat
      /\ \A i \in DOMAIN toUI' :
           i + 1 \in DOMAIN toUI /\ i + 1 > 1 /\ i \in Nat /\ toUI'[i] = toUI[i + 1]
      /\ \A i \in DOMAIN toUI \ {1} : i - 1 \in DOMAIN toUI' /\ toUI'[i - 1] = toUI[i]
  BY Queues, Taken
<1>2. ASSUME NEW i \in Gots(k)' PROVE i \in {j - 1 : j \in Gots(k) \ {1}}
  <2>1. i + 1 \in Gots(k) \ {1} /\ (i + 1) - 1 = i
    BY <1>1 DEF Gots
  <2> QED
    BY <2>1
<1>3. \A j \in Gots(k) \ {1} : j - 1 \in Gots(k)'
  BY <1>1 DEF Gots
<1> QED
  BY <1>1, <1>2, <1>3

LEMMA StoreOfOthers ==
  ASSUME IInv, NEW k \in Key, StoreGrows(k) \/ StoreShrinks(k)
  PROVE  \E d \in Int :
           /\ Sets(k)' = {i - d : i \in Sets(k)}
           /\ Gets(k)' = {i - d : i \in Gets(k)}
           /\ \A i \in Sets(k) : toStore'[i - d] = toStore[i]
<1>1. CASE StoreGrows(k)
  <2>1. Sets(k)' = Sets(k) /\ Gets(k)' = Gets(k)
    BY <1>1 DEF StoreGrows, NotOf, Sets, Gets
  <2>2. \A i \in Sets(k) : toStore'[i] = toStore[i]
    BY <1>1 DEF StoreGrows, Sets
  <2>3. \A S \in SUBSET Int : {i - 0 : i \in S} = S
    <3>1. \A i \in Int : i - 0 = i
      OBVIOUS
    <3> QED
      BY <3>1
  <2>4. \A i \in Sets(k) : i - 0 = i
    BY Places
  <2> WITNESS 0 \in Int
  <2> QED
    BY <2>1, <2>2, <2>3, <2>4, Places
<1>2. CASE StoreShrinks(k)
  <2>1. 1 \notin Sets(k) /\ 1 \notin Gets(k)
    BY <1>2, Queues, Taken DEF StoreShrinks, NotOf, Sets, Gets
  <2>2. Sets(k) \ {1} = Sets(k) /\ Gets(k) \ {1} = Gets(k)
    BY <2>1
  <2>3. \A i \in Sets(k) : i \in DOMAIN toStore \ {1}
    BY <2>1 DEF Sets
  <2>4. /\ Sets(k)' = {i - 1 : i \in Sets(k) \ {1}}
        /\ Gets(k)' = {i - 1 : i \in Gets(k) \ {1}}
        /\ \A i \in DOMAIN toStore \ {1} : toStore'[i - 1] = toStore[i]
    BY <1>2, StoreTaken DEF StoreShrinks
  <2> WITNESS 1 \in Int
  <2> QED
    BY <2>2, <2>3, <2>4
<1> QED
  BY <1>1, <1>2

LEMMA UIOfOthers ==
  ASSUME IInv, NEW k \in Key, UIGrows(k) \/ UIShrinks(k)
  PROVE  \E d \in Int :
           /\ Gots(k)' = {i - d : i \in Gots(k)}
           /\ \A i \in Gots(k) : toUI'[i - d] = toUI[i]
<1>1. CASE UIGrows(k)
  <2>1. Gots(k)' = Gots(k)
    BY <1>1 DEF UIGrows, NotOf, Gots
  <2>2. \A i \in Gots(k) : toUI'[i] = toUI[i]
    BY <1>1 DEF UIGrows, Gots
  <2>3. {i - 0 : i \in Gots(k)} = Gots(k) /\ \A i \in Gots(k) : i - 0 = i
    <3>1. \A i \in Gots(k) : i - 0 = i
      BY Places
    <3> QED
      BY <3>1
  <2> WITNESS 0 \in Int
  <2> QED
    BY <2>1, <2>2, <2>3
<1>2. CASE UIShrinks(k)
  <2>1. 1 \notin Gots(k)
    BY <1>2, Queues, Taken DEF UIShrinks, NotOf, Gots
  <2>2. Gots(k) \ {1} = Gots(k)
    BY <2>1
  <2>3. \A i \in Gots(k) : i \in DOMAIN toUI \ {1}
    BY <2>1 DEF Gots
  <2>4. /\ Gots(k)' = {i - 1 : i \in Gots(k) \ {1}}
        /\ \A i \in DOMAIN toUI \ {1} : toUI'[i - 1] = toUI[i]
    BY <1>2, UITaken DEF UIShrinks
  <2> WITNESS 1 \in Int
  <2> QED
    BY <2>2, <2>3, <2>4
<1> QED
  BY <1>1, <1>2

\* What is true of the edits of a key stays so when the tasks of others move.
LEMMA OtherKeys ==
  ASSUME IInv, NEW k \in Key,
         StoreGrows(k) \/ StoreShrinks(k), UIGrows(k) \/ UIShrinks(k),
         store'[k] = store[k], expected'[k] = expected[k], open'[k] = open[k],
         k \in clashed => k \in clashed'
  PROVE  EditInv(k)'
<1>1. PICK d \in Int :
        /\ Sets(k)' = {i - d : i \in Sets(k)}
        /\ Gets(k)' = {i - d : i \in Gets(k)}
        /\ \A i \in Sets(k) : toStore'[i - d] = toStore[i]
  BY StoreOfOthers
<1>2. PICK u \in Int :
        /\ Gots(k)' = {i - u : i \in Gots(k)}
        /\ \A i \in Gots(k) : toUI'[i - u] = toUI[i]
  BY UIOfOthers
<1>3. /\ Gets(k) \in SUBSET Int /\ IsFiniteSet(Gets(k))
      /\ Gots(k) \in SUBSET Int /\ IsFiniteSet(Gots(k)) /\ Sets(k) \in SUBSET Int
  BY Places
<1>4. /\ Cardinality(Gets(k)') = Cardinality(Gets(k))
      /\ Cardinality(Gots(k)') = Cardinality(Gots(k))
  BY <1>1, <1>2, <1>3, Shifted
<1>5. open'[k] = Cardinality(Gets(k)') + Cardinality(Gots(k)')
  BY <1>4, OneEdit
<1>6. ASSUME k \notin clashed'
      PROVE  open'[k] <= 1 /\ Stored(k)' /\ ReadsStored(k)'
  <2>1. open[k] <= 1 /\ Stored(k) /\ ReadsStored(k)
    BY <1>6, OneEdit
  <2>2. Stored(k)'
    <3>1. CASE Sets(k) = {} /\ store[k] = expected[k]
      <4>1. Sets(k)' = {}
        BY <1>1, <3>1
      <4> QED
        BY <3>1, <4>1 DEF Stored
    <3>2. CASE \E i \in Sets(k) : (\A j \in Sets(k) : j <= i) /\ toStore[i].list = expected[k]
      <4>1. PICK i \in Sets(k) : (\A j \in Sets(k) : j <= i) /\ toStore[i].list = expected[k]
        BY <3>2
      <4>2. i - d \in Sets(k)' /\ toStore'[i - d].list = expected'[k]
        BY <1>1, <4>1
      <4>3. \A j \in Sets(k)' : j <= i - d
        BY <1>1, <1>3, <4>1
      <4> QED
        BY <4>2, <4>3 DEF Stored
    <3> QED
      BY <2>1, <3>1, <3>2 DEF Stored
  <2>3. ReadsStored(k)'
    <3>1. \A i \in Gets(k)', j \in Sets(k)' : j < i
      BY <1>1, <1>3, <2>1 DEF ReadsStored
    <3>2. \A i \in Gots(k)' : Sets(k)' = {} /\ toUI'[i].list = expected'[k]
      BY <1>1, <1>2, <2>1 DEF ReadsStored
    <3> QED
      BY <3>1, <3>2 DEF ReadsStored
  <2> QED
    BY <2>1, <2>2, <2>3
<1> QED
  BY <1>5, <1>6 DEF EditInv
-----------------------------------------------------------------------------
(* Storages on their way.                                                  *)

\* Nothing is taken, and what is posted to the UI sequence is as the store is.
LEMMA FollowsMore ==
  ASSUME IInv, NEW m \in Nat, Follows(m), store' = store, outrun \subseteq outrun',
         DOMAIN toUI \subseteq DOMAIN toUI', \A i \in DOMAIN toUI : toUI'[i] = toUI[i],
         \A i \in DOMAIN toUI' : i \notin DOMAIN toUI =>
           /\ ~ForEveryone(i)'
           /\ toUI'[i].task = "keys" => toUI'[i].lists = store
           /\ toUI'[i].task = "answer" /\ toUI'[i].who \notin outrun' /\ m = 0 =>
                toUI'[i].storage = Merged(store)
           /\ toUI'[i].task = "answer" /\ toUI'[i].who \notin outrun' => m = 0,
         m = 0 => /\ cached' \subseteq cached
                  /\ \A e \in registered' \ outrun' :
                       \/ e \in registered \ outrun /\ resources'[e] = resources[e]
                                                    /\ (Awaits(e) => Awaits(e)')
                       \/ Awaits(e)'
  PROVE  Follows(m)'
<1>1. (m # 0 => m \in DOMAIN toUI' /\ ForEveryone(m)')
  BY DEF Follows, ForEveryone
<1>2. \A i \in DOMAIN toUI' : i > m => ~ForEveryone(i)'
  BY DEF Follows, ForEveryone
<1>3. \A i \in DOMAIN toUI' : i >= m /\ toUI'[i].task = "keys" => toUI'[i].lists = store'
  BY DEF Follows
<1>4. \A i \in DOMAIN toUI' :
        i > m /\ toUI'[i].task = "answer" /\ toUI'[i].who \notin outrun' =>
          toUI'[i].storage = Merged(store)'
  BY DEF Follows
<1>5. m = 0 =>
       /\ cached' \subseteq {Merged(store)'}
       /\ \A e \in registered' \ outrun' : resources'[e] = Merged(store)' \/ Awaits(e)'
  BY DEF Follows
<1> QED
  BY <1>1, <1>2, <1>3, <1>4, <1>5 DEF Follows

\* The first task of the UI sequence is taken.
LEMMA FollowsNext ==
  ASSUME IInv, NEW m \in Nat, Follows(m), toUI # <<>>, toUI' = Tail(toUI),
         UNCHANGED <<store, outrun>>,
         m \in {0, 1} =>
           /\ cached' \subseteq {Merged(store)}
           /\ \A e \in registered' \ outrun : resources'[e] = Merged(store) \/ Awaits(e)'
  PROVE  \E n \in Nat : Follows(n)'
<1> DEFINE n == IF m = 0 THEN 0 ELSE m - 1
<1>1. /\ n \in Nat /\ (n = 0 => m \in {0, 1}) /\ (n # 0 => m > 1 /\ m = n + 1)
      /\ \A i \in Nat : i > n => i + 1 > m
      /\ \A i \in Nat : i >= n => i + 1 >= m
  OBVIOUS
<1> HIDE DEF n
<1>2. /\ \A i \in DOMAIN toUI' :
           i + 1 \in DOMAIN toUI /\ i + 1 > 1 /\ i \in Nat /\ toUI'[i] = toUI[i + 1]
      /\ \A i \in DOMAIN toUI \ {1} : i - 1 \in DOMAIN toUI' /\ toUI'[i - 1] = toUI[i]
  BY Queues, Taken
<1>3. n # 0 => n \in DOMAIN toUI' /\ ForEveryone(n)'
  <2>1. CASE n # 0
    <3>1. m \in DOMAIN toUI \ {1} /\ m - 1 = n /\ ForEveryone(m)
      BY <1>1, <2>1 DEF Follows
    <3> QED
      BY <1>2, <3>1 DEF ForEveryone
  <2> QED
    BY <2>1
<1>4. \A i \in DOMAIN toUI' : i > n => ~ForEveryone(i)'
  BY <1>1, <1>2 DEF Follows, ForEveryone
<1>5. \A i \in DOMAIN toUI' : i >= n /\ toUI'[i].task = "keys" => toUI'[i].lists = store'
  BY <1>1, <1>2 DEF Follows
<1>6. \A i \in DOMAIN toUI' :
        i > n /\ toUI'[i].task = "answer" /\ toUI'[i].who \notin outrun' =>
          toUI'[i].storage = Merged(store)'
  BY <1>1, <1>2 DEF Follows
<1>7. n = 0 =>
       /\ cached' \subseteq {Merged(store)'}
       /\ \A e \in registered' \ outrun' : resources'[e] = Merged(store)' \/ Awaits(e)'
  BY <1>1
<1>8. Follows(n)'
  BY <1>3, <1>4, <1>5, <1>6, <1>7 DEF Follows
<1> QED
  BY <1>1, <1>8
-----------------------------------------------------------------------------
(* The actions.                                                            *)

\* An engine asks for a storage: it gets what is cached, or what will be read.
LEMMA LoadKeeps ==
  ASSUME IInv, NEW e \in Engine, EngineLoadsResources(e)
  PROVE  IInv'
<1>1. /\ loads' = loads + 1 /\ registered' = registered \cup {e}
      /\ UNCHANGED <<store, cached, resources, edits, expected, open, clashed>>
      /\ \/ \E storage \in cached :
              /\ toUI' = Append(toUI, [task |-> "answer", who |-> e, storage |-> storage])
              /\ outrun' = IF Reloading THEN outrun \cup {e} ELSE outrun
              /\ UNCHANGED toStore
         \/ /\ toStore' = Append(toStore, GetKeys(e))
            /\ UNCHANGED <<toUI, outrun>>
  BY DEF EngineLoadsResources, OnDefaultResourcesLoaded
<1>2. /\ Len(toStore) \in Nat /\ DOMAIN toStore = 1..Len(toStore) /\ toStore \in Seq(StoreTask)
      /\ Len(toUI) \in Nat /\ DOMAIN toUI = 1..Len(toUI) /\ toUI \in Seq(UITask)
  BY Queues
<1>3. CASE \E storage \in cached :
              /\ toUI' = Append(toUI, [task |-> "answer", who |-> e, storage |-> storage])
              /\ outrun' = IF Reloading THEN outrun \cup {e} ELSE outrun
              /\ UNCHANGED toStore
  <2>1. PICK storage \in cached :
          /\ toUI' = Append(toUI, [task |-> "answer", who |-> e, storage |-> storage])
          /\ outrun' = IF Reloading THEN outrun \cup {e} ELSE outrun
          /\ UNCHANGED toStore
    BY <1>3
  <2>2. storage \in SUBSET Resource
    BY DEF IInv, TypeOK
  <2>3. PICK t \in UITask :
          /\ t = [task |-> "answer", who |-> e, storage |-> storage]
          /\ toUI' = Append(toUI, t)
    BY <2>1, <2>2 DEF UITask
  <2>4. t.task = "answer" /\ t.who = e /\ t.storage = storage
    BY <2>3
  <2>5. /\ toUI' \in Seq(UITask) /\ DOMAIN toUI' = 1..(Len(toUI) + 1)
        /\ \A i \in DOMAIN toUI : toUI'[i] = toUI[i]
        /\ toUI'[Len(toUI) + 1] = t
    BY <1>2, <2>3, Posted
  <2>6. /\ DOMAIN toUI \subseteq DOMAIN toUI' /\ Len(toUI) + 1 \in DOMAIN toUI'
        /\ \A i \in DOMAIN toUI' : i \notin DOMAIN toUI => i = Len(toUI) + 1
    BY <1>2, <2>5
  <2>7. TypeOK'
    BY <1>1, <2>1, <2>5 DEF IInv, TypeOK
  <2>8. UniqueInv' /\ SaveInv'
    BY <1>1, <2>1, <2>4, <2>5, <2>6 DEF IInv, UniqueInv, SaveInv
  <2>9. ASSUME NEW k \in Key PROVE EditInv(k)'
    <3>1. UIGrows(k)
      BY <2>4, <2>5, <2>6 DEF UIGrows, NotOf
    <3>2. StoreGrows(k)
      BY <2>1 DEF StoreGrows
    <3> QED
      BY <1>1, <3>1, <3>2, OtherKeys
  <2>10. FollowInv'
    <3>1. CASE Saving
      BY <2>1, <3>1 DEF FollowInv, Saving
    <3>2. CASE ~Saving
      <4>1. PICK m \in Nat : Follows(m)
        BY <3>2 DEF IInv, FollowInv
      <4>2. m # 0 => Reloading
        BY <1>2, <4>1 DEF Follows, ForEveryone, Reloading
      <4>3. m = 0 => storage = Merged(store)
        BY <2>1, <4>1 DEF Follows
      <4>4. Awaits(e)'
        BY <2>4, <2>5, <2>6 DEF Awaits
      <4>5. ASSUME NEW f \in registered' \ outrun', f # e
            PROVE  f \in registered \ outrun /\ resources'[f] = resources[f]
        BY <1>1, <2>1, <4>5
      <4>6. ASSUME NEW f, Awaits(f) PROVE Awaits(f)'
        BY <2>1, <2>5, <2>6, <4>6 DEF Awaits
      <4>7. outrun \subseteq outrun' /\ (e \notin outrun' => ~Reloading)
        BY <2>1
      <4>8. \A i \in DOMAIN toUI' : i \notin DOMAIN toUI => ~ForEveryone(i)'
        BY <2>4, <2>5, <2>6 DEF ForEveryone
      <4>9. Follows(m)'
        <5>1. \A i \in DOMAIN toUI' : i \notin DOMAIN toUI =>
                /\ ~ForEveryone(i)'
                /\ toUI'[i].task = "keys" => toUI'[i].lists = store
                /\ toUI'[i].task = "answer" /\ toUI'[i].who \notin outrun' /\ m = 0 =>
                     toUI'[i].storage = Merged(store)
                /\ toUI'[i].task = "answer" /\ toUI'[i].who \notin outrun' => m = 0
          BY <2>4, <2>5, <2>6, <4>2, <4>3, <4>7, <4>8
        <5>2. \A f \in registered' \ outrun' :
                \/ f \in registered \ outrun /\ resources'[f] = resources[f]
                                             /\ (Awaits(f) => Awaits(f)')
                \/ Awaits(f)'
          BY <4>4, <4>5, <4>6
        <5> QED
          BY <1>1, <2>5, <2>6, <4>1, <4>7, <5>1, <5>2, FollowsMore
      <4> QED
        BY <4>9 DEF FollowInv
    <3> QED
      BY <3>1, <3>2
  <2> QED
    BY <2>7, <2>8, <2>9, <2>10 DEF IInv
<1>4. CASE toStore' = Append(toStore, GetKeys(e)) /\ UNCHANGED <<toUI, outrun>>
  <2>1. PICK t \in StoreTask : t = GetKeys(e) /\ toStore' = Append(toStore, t)
    BY <1>4 DEF StoreTask, GetKeys, Waiter
  <2>2. t.task = "keys"
    BY <2>1 DEF GetKeys
  <2>3. /\ toStore' \in Seq(StoreTask) /\ DOMAIN toStore' = 1..(Len(toStore) + 1)
        /\ \A i \in DOMAIN toStore : toStore'[i] = toStore[i]
        /\ toStore'[Len(toStore) + 1] = t
    BY <1>2, <2>1, Posted
  <2>4. /\ DOMAIN toStore \subseteq DOMAIN toStore' /\ Len(toStore) + 1 \in DOMAIN toStore'
        /\ \A i \in DOMAIN toStore' : i \notin DOMAIN toStore => i = Len(toStore) + 1
    BY <1>2, <2>3
  <2>5. TypeOK'
    BY <1>1, <1>4, <2>3 DEF IInv, TypeOK
  <2>6. UniqueInv' /\ SaveInv'
    BY <1>1, <1>4, <2>2, <2>3, <2>4 DEF IInv, UniqueInv, SaveInv
  <2>7. ASSUME NEW k \in Key PROVE EditInv(k)'
    <3>1. StoreGrows(k)
      BY <2>2, <2>3, <2>4 DEF StoreGrows, NotOf
    <3>2. UIGrows(k)
      BY <1>4 DEF UIGrows
    <3> QED
      BY <1>1, <3>1, <3>2, OtherKeys
  <2>8. FollowInv'
    <3>1. CASE Saving
      BY <2>3, <2>4, <3>1 DEF FollowInv, Saving
    <3>2. CASE ~Saving
      <4>1. PICK m \in Nat : Follows(m)
        BY <3>2 DEF IInv, FollowInv
      <4>2. Awaits(e)'
        BY <2>1, <2>3, <2>4 DEF Awaits
      <4>3. ASSUME NEW f, Awaits(f) PROVE Awaits(f)'
        BY <1>4, <2>3, <2>4, <4>3 DEF Awaits
      <4>4. \A f \in registered' \ outrun' :
              \/ f \in registered \ outrun /\ resources'[f] = resources[f]
                                           /\ (Awaits(f) => Awaits(f)')
              \/ Awaits(f)'
        BY <1>1, <1>4, <4>2, <4>3
      <4>5. Follows(m)'
        BY <1>1, <1>4, <4>1, <4>4, FollowsMore
      <4> QED
        BY <4>5 DEF FollowInv
    <3> QED
      BY <3>1, <3>2
  <2> QED
    BY <2>5, <2>6, <2>7, <2>8 DEF IInv
<1> QED
  BY <1>1, <1>3, <1>4

\* An edit asks for the list of its key.
LEMMA GetKeeps ==
  ASSUME IInv, NEW edit \in Edit, GetCustomResources(edit), Message
  PROVE  IInv'
<1>1. /\ toStore' = Append(toStore, [task |-> "get", edit |-> edit])
      /\ open' = [open EXCEPT ![edit.key] = @ + 1]
      /\ clashed' = IF open[edit.key] > 0 THEN clashed \cup {edit.key} ELSE clashed
      /\ UNCHANGED <<cached, expected, outrun, store, toUI, registered, resources, loads>>
      /\ edits' = edits + 1
  BY DEF GetCustomResources, Message
<1>2. edit.key \in Key
  BY EditFields
<1>3. /\ Len(toStore) \in Nat /\ DOMAIN toStore = 1..Len(toStore) /\ toStore \in Seq(StoreTask)
  BY Queues
<1>4. PICK n \in Nat : n = Len(toStore) + 1 /\ DOMAIN toStore = 1..(n - 1)
  BY <1>3
<1>5. PICK t \in StoreTask : t = [task |-> "get", edit |-> edit] /\ toStore' = Append(toStore, t)
  BY <1>1 DEF StoreTask
<1>6. t.task = "get" /\ t.edit = edit
  BY <1>5
<1>7. /\ toStore' \in Seq(StoreTask) /\ DOMAIN toStore' = 1..n
      /\ \A i \in DOMAIN toStore : toStore'[i] = toStore[i]
      /\ toStore'[n] = t
  BY <1>3, <1>4, <1>5, Posted
<1>8. /\ DOMAIN toStore \subseteq DOMAIN toStore' /\ n \in DOMAIN toStore'
      /\ \A i \in DOMAIN toStore' : i \notin DOMAIN toStore => i = n
      /\ \A i \in DOMAIN toStore : i < n
  BY <1>4, <1>7
<1>9. TypeOK'
  <2>1. open' \in [Key -> Nat] /\ clashed' \subseteq Key
    BY <1>1, <1>2 DEF IInv, TypeOK
  <2> QED
    BY <1>1, <1>7, <2>1 DEF IInv, TypeOK
<1>10. UniqueInv' /\ SaveInv'
  BY <1>1, <1>6, <1>7, <1>8 DEF IInv, UniqueInv, SaveInv
<1>11. ASSUME NEW k \in Key PROVE EditInv(k)'
  <2>1. CASE k # edit.key
    <3>1. StoreGrows(k) /\ UIGrows(k)
      BY <1>1, <1>6, <1>7, <1>8, <2>1 DEF StoreGrows, UIGrows, NotOf
    <3>2. open'[k] = open[k] /\ (k \in clashed => k \in clashed')
      BY <1>1, <2>1 DEF IInv, TypeOK
    <3> QED
      BY <1>1, <3>1, <3>2, OtherKeys
  <2>2. CASE k = edit.key
    <3>1. Gets(k)' = Gets(k) \cup {n}
      BY <1>6, <1>7, <1>8, <2>2 DEF Gets
    <3>2. Sets(k)' = Sets(k) /\ \A i \in Sets(k) : toStore'[i] = toStore[i]
      BY <1>6, <1>7, <1>8 DEF Sets
    <3>3. Gots(k)' = Gots(k)
      BY <1>1 DEF Gots
    <3>4. n \notin Gets(k)
      BY <1>8 DEF Gets
    <3>5. Cardinality(Gets(k)') = Cardinality(Gets(k)) + 1
      BY <3>1, <3>4, Places, FS_AddElement
    <3>6. open'[k] = open[k] + 1
      BY <1>1, <2>2 DEF IInv, TypeOK
    <3>7. open'[k] = Cardinality(Gets(k)') + Cardinality(Gots(k)')
      BY <3>3, <3>5, <3>6, OneEdit, Places
    <3>8. ASSUME k \notin clashed'
          PROVE  open'[k] <= 1 /\ Stored(k)' /\ ReadsStored(k)'
      <4>1. ~(open[k] > 0) /\ k \notin clashed
        BY <1>1, <2>2, <3>8
      <4>2. open[k] = 0 /\ Gets(k) = {} /\ Gots(k) = {}
        BY <4>1, OneEdit
      <4>3. Stored(k)'
        BY <1>1, <3>2, <4>1, OneEdit DEF Stored
      <4>4. \A j \in Sets(k)' : j < n
        BY <1>8, <3>2 DEF Sets
      <4>5. ReadsStored(k)'
        BY <3>1, <3>3, <4>2, <4>4 DEF ReadsStored
      <4> QED
        BY <3>6, <4>2, <4>3, <4>5
    <3> QED
      BY <3>7, <3>8 DEF EditInv
  <2> QED
    BY <2>1, <2>2
<1>12. FollowInv'
  <2>1. CASE Saving
    BY <1>7, <1>8, <2>1 DEF FollowInv, Saving
  <2>2. CASE ~Saving
    <3>1. PICK m \in Nat : Follows(m)
      BY <2>2 DEF IInv, FollowInv
    <3>2. ASSUME NEW f, Awaits(f) PROVE Awaits(f)'
      BY <1>1, <1>7, <1>8, <3>2 DEF Awaits
    <3>3. Follows(m)'
      BY <1>1, <3>1, <3>2, FollowsMore
    <3> QED
      BY <3>3 DEF FollowInv
  <2> QED
    BY <2>1, <2>2
<1> QED
  BY <1>9, <1>10, <1>11, <1>12 DEF IInv

\* A list is written, and everyone gets a storage.
LEMMA SaveFacts ==
  ASSUME IInv, NEW key \in Key, NEW list \in SUBSET Resource, Unique(list),
         SaveAndReload(key, list)
  PROVE  /\ toStore' \in Seq(StoreTask) /\ SaveInv' /\ Saving'
         /\ \A i \in DOMAIN toStore' : toStore'[i].task = "set" => Unique(toStore'[i].list)
         /\ Gets(key)' = Gets(key)
         /\ \E n \in Sets(key)' : (\A j \in Sets(key)' : j <= n) /\ toStore'[n].list = list
         /\ \A k \in Key : k # key => StoreGrows(k)
         /\ cached' = {} /\ outrun' = {}
<1> DEFINE write == [task |-> "set", key |-> key, list |-> list]
<1>1. /\ toStore' = toStore \o <<write, GetKeys(Everyone)>>
      /\ cached' = {} /\ outrun' = {}
  BY DEF SaveAndReload
<1>2. /\ Len(toStore) \in Nat /\ DOMAIN toStore = 1..Len(toStore) /\ toStore \in Seq(StoreTask)
  BY Queues
<1>3. PICK n \in Nat : n = Len(toStore) + 1 /\ DOMAIN toStore = 1..(n - 1) /\ n > 0
  BY <1>2
<1>4. write \in StoreTask /\ GetKeys(Everyone) \in StoreTask
  BY DEF StoreTask, GetKeys, Waiter
<1>5. PICK w \in StoreTask, r \in StoreTask :
        w = write /\ r = GetKeys(Everyone) /\ toStore' = toStore \o <<w, r>>
  BY <1>1, <1>4
<1>6. w.task = "set" /\ w.key = key /\ w.list = list /\ r.task = "keys"
  BY <1>5 DEF GetKeys
<1> HIDE DEF write
<1>7. /\ toStore' \in Seq(StoreTask) /\ DOMAIN toStore' = 1..(n + 1)
      /\ \A i \in DOMAIN toStore : toStore'[i] = toStore[i]
      /\ toStore'[n] = w /\ toStore'[n + 1] = r
  <2>1. /\ DOMAIN toStore' = 1..(Len(toStore) + 2)
        /\ toStore'[Len(toStore) + 1] = w /\ toStore'[Len(toStore) + 2] = r
        /\ toStore' \in Seq(StoreTask)
        /\ \A i \in DOMAIN toStore : toStore'[i] = toStore[i]
    BY <1>2, <1>5, PostedTwo
  <2>2. Len(toStore) + 1 = n /\ Len(toStore) + 2 = n + 1
    BY <1>2, <1>3
  <2> QED
    BY <2>1, <2>2
<1>8. /\ DOMAIN toStore \subseteq DOMAIN toStore' /\ n \in DOMAIN toStore' /\ n + 1 \in DOMAIN toStore'
      /\ \A i \in DOMAIN toStore' : i \notin DOMAIN toStore => i = n \/ i = n + 1
      /\ \A i \in DOMAIN toStore : i <= n
      /\ n \notin DOMAIN toStore
  BY <1>3, <1>7
<1>9. SaveInv'
  <2>1. ASSUME NEW i \in DOMAIN toStore', toStore'[i].task = "set"
        PROVE  i + 1 \in DOMAIN toStore' /\ toStore'[i + 1] = GetKeys(Everyone)
    <3>1. CASE i \in DOMAIN toStore
      BY <1>7, <1>8, <2>1, <3>1 DEF IInv, SaveInv
    <3>2. CASE i = n
      BY <1>5, <1>7, <1>8, <3>2
    <3>3. i # n + 1
      BY <1>6, <1>7, <2>1
    <3> QED
      BY <1>8, <3>1, <3>2, <3>3
  <2>2. UNCHANGED GetKeys(Everyone)
    BY DEF GetKeys, Everyone
  <2> QED
    BY <2>1, <2>2 DEF SaveInv
<1>10. Saving'
  BY <1>5, <1>7, <1>8 DEF Saving, GetKeys, Everyone
<1>11. \A i \in DOMAIN toStore' : toStore'[i].task = "set" => Unique(toStore'[i].list)
  BY <1>6, <1>7, <1>8 DEF IInv, UniqueInv
<1>12. Gets(key)' = Gets(key)
  BY <1>6, <1>7, <1>8 DEF Gets
<1>13. \E i \in Sets(key)' : (\A j \in Sets(key)' : j <= i) /\ toStore'[i].list = list
  <2>1. n \in Sets(key)' /\ toStore'[n].list = list
    BY <1>6, <1>7, <1>8 DEF Sets
  <2>2. \A j \in Sets(key)' : j \in DOMAIN toStore \/ j = n
    BY <1>6, <1>7, <1>8 DEF Sets
  <2>3. \A j \in Sets(key)' : j <= n
    BY <1>3, <1>8, <2>2
  <2> QED
    BY <2>1, <2>3
<1>14. \A k \in Key : k # key => StoreGrows(k)
  BY <1>6, <1>7, <1>8 DEF StoreGrows, NotOf
<1> QED
  BY <1>1, <1>7, <1>9, <1>10, <1>11, <1>12, <1>13, <1>14

LEMMA RemoveKeyKeeps ==
  ASSUME IInv, NEW key \in Key, RemoveKey(key), Message
  PROVE  IInv'
<1>1. /\ SaveAndReload(key, {})
      /\ expected' = [expected EXCEPT ![key] = {}]
      /\ clashed' = IF open[key] > 0 THEN clashed \cup {key} ELSE clashed
      /\ UNCHANGED <<open, store, toUI, registered, resources, loads>>
      /\ edits' = edits + 1
  BY DEF RemoveKey, Message
<1>2. Unique({})
  BY DEF Unique
<1>3. /\ toStore' \in Seq(StoreTask) /\ SaveInv' /\ Saving'
      /\ \A i \in DOMAIN toStore' : toStore'[i].task = "set" => Unique(toStore'[i].list)
      /\ Gets(key)' = Gets(key)
      /\ \E n \in Sets(key)' : (\A j \in Sets(key)' : j <= n) /\ toStore'[n].list = {}
      /\ \A k \in Key : k # key => StoreGrows(k)
      /\ cached' = {} /\ outrun' = {}
  BY <1>1, <1>2, SaveFacts
<1>4. TypeOK'
  <2>1. expected' \in Lists /\ clashed' \subseteq Key /\ edits' \in Nat
    BY <1>1 DEF IInv, TypeOK, Lists
  <2>2. cached' \subseteq SUBSET Resource /\ Cardinality(cached') <= 1
    BY <1>3, FS_EmptySet
  <2> QED
    BY <1>1, <1>3, <2>1, <2>2 DEF IInv, TypeOK
<1>5. UniqueInv' /\ FollowInv'
  BY <1>1, <1>3 DEF IInv, UniqueInv, FollowInv
<1>6. ASSUME NEW k \in Key PROVE EditInv(k)'
  <2>1. UIGrows(k)
    BY <1>1 DEF UIGrows
  <2>2. expected \in [Key -> SUBSET Resource]
    BY DEF IInv, TypeOK, Lists
  <2>3. CASE k # key
    BY <1>1, <1>3, <2>1, <2>2, <2>3, OtherKeys
  <2>4. CASE k = key
    <3>1. Gets(k)' = Gets(k) /\ Gots(k)' = Gots(k) /\ expected'[k] = {}
      BY <1>1, <1>3, <2>2, <2>4 DEF Gots
    <3>2. open'[k] = Cardinality(Gets(k)') + Cardinality(Gots(k)')
      BY <1>1, <3>1, OneEdit
    <3>3. ASSUME k \notin clashed'
          PROVE  open'[k] <= 1 /\ Stored(k)' /\ ReadsStored(k)'
      <4>1. ~(open[k] > 0)
        BY <1>1, <2>4, <3>3
      <4>2. open[k] = 0 /\ Gets(k) = {} /\ Gots(k) = {}
        BY <4>1, OneEdit
      <4>3. Stored(k)'
        BY <1>3, <2>4, <3>1 DEF Stored
      <4>4. ReadsStored(k)'
        BY <3>1, <4>2 DEF ReadsStored
      <4> QED
        BY <1>1, <4>2, <4>3, <4>4
    <3> QED
      BY <3>2, <3>3 DEF EditInv
  <2> QED
    BY <2>3, <2>4
<1> QED
  BY <1>3, <1>4, <1>5, <1>6 DEF IInv

\* The store's runner takes its first task.
LEMMA StoreNext ==
  ASSUME IInv, toStore # <<>>, toStore' = Tail(toStore)
  PROVE  /\ toStore' \in Seq(StoreTask) /\ SaveInv'
         /\ 1 \in DOMAIN toStore /\ Head(toStore) = toStore[1] /\ Head(toStore) \in StoreTask
         /\ \A i \in DOMAIN toStore' : toStore'[i].task = "set" => Unique(toStore'[i].list)
         /\ \A e \in Waiter : Head(toStore) # GetKeys(e) =>
              \A i \in DOMAIN toStore : toStore[i] = GetKeys(e) =>
                \E j \in DOMAIN toStore' : toStore'[j] = GetKeys(e)
<1>1. /\ toStore' \in Seq(StoreTask) /\ 1 \in DOMAIN toStore
      /\ Head(toStore) = toStore[1] /\ Head(toStore) \in StoreTask
      /\ \A i \in DOMAIN toStore' :
           i + 1 \in DOMAIN toStore /\ i + 1 > 1 /\ i \in Nat /\ toStore'[i] = toStore[i + 1]
      /\ \A i \in DOMAIN toStore \ {1} :
           i - 1 \in DOMAIN toStore' /\ toStore'[i - 1] = toStore[i]
  BY Queues, Taken
<1>2. \A i \in DOMAIN toStore' : toStore'[i].task = "set" => Unique(toStore'[i].list)
  BY <1>1 DEF IInv, UniqueInv
<1>3. ASSUME NEW i \in DOMAIN toStore', toStore'[i].task = "set"
      PROVE  i + 1 \in DOMAIN toStore' /\ toStore'[i + 1] = GetKeys(Everyone)
  <2>1. (i + 1) + 1 \in DOMAIN toStore \ {1} /\ toStore[(i + 1) + 1] = GetKeys(Everyone)
    <3>1. (i + 1) + 1 # 1
      BY <1>1
    <3> QED
      BY <1>1, <1>3, <3>1 DEF IInv, SaveInv
  <2>2. ((i + 1) + 1) - 1 = i + 1
    BY <1>1
  <2> QED
    BY <1>1, <2>1, <2>2
<1>4. SaveInv'
  BY <1>3 DEF SaveInv, GetKeys, Everyone
<1> QED
  BY <1>1, <1>2, <1>4

\* It reads a list for an edit.
LEMMA RunGetKeeps ==
  ASSUME IInv, RunStore, Head(toStore).task = "get"
  PROVE  IInv'
<1> DEFINE t == Head(toStore)
<1>1. /\ toStore # <<>> /\ toStore' = Tail(toStore)
      /\ toUI' = Append(toUI, [task |-> "got", edit |-> t.edit, list |-> store[t.edit.key]])
      /\ UNCHANGED <<store, cached, registered, resources, edits, loads, expected, open,
                     clashed, outrun>>
  BY DEF RunStore
<1>2. PICK key \in Key, edit \in Edit : t.edit = edit /\ edit.key = key
  BY <1>1, StoreNext, StoreTaskFields, EditFields
<1>3. store \in [Key -> SUBSET Resource]
  BY DEF IInv, TypeOK, Lists
<1>4. PICK u \in UITask :
        /\ u = [task |-> "got", edit |-> edit, list |-> store[key]]
        /\ toUI' = Append(toUI, u)
  BY <1>1, <1>2, <1>3 DEF UITask
<1>5. u.task = "got" /\ u.edit = edit /\ u.edit.key = key /\ u.list = store[key]
  BY <1>2, <1>4
<1>6. /\ Len(toUI) \in Nat /\ DOMAIN toUI = 1..Len(toUI) /\ toUI \in Seq(UITask)
  BY Queues
<1>7. PICK n \in Nat : n = Len(toUI) + 1 /\ DOMAIN toUI = 1..(n - 1)
  BY <1>6
<1>8. /\ toUI' \in Seq(UITask) /\ DOMAIN toUI' = 1..n
      /\ \A i \in DOMAIN toUI : toUI'[i] = toUI[i]
      /\ toUI'[n] = u
  BY <1>4, <1>6, <1>7, Posted
<1>9. /\ DOMAIN toUI \subseteq DOMAIN toUI' /\ n \in DOMAIN toUI' /\ n \notin DOMAIN toUI
      /\ \A i \in DOMAIN toUI' : i \notin DOMAIN toUI => i = n
  BY <1>7, <1>8
<1>10. /\ toStore' \in Seq(StoreTask) /\ SaveInv'
       /\ 1 \in DOMAIN toStore /\ t = toStore[1] /\ t \in StoreTask
       /\ \A i \in DOMAIN toStore' : toStore'[i].task = "set" => Unique(toStore'[i].list)
       /\ \A e \in Waiter : t # GetKeys(e) =>
            \A i \in DOMAIN toStore : toStore[i] = GetKeys(e) =>
              \E j \in DOMAIN toStore' : toStore'[j] = GetKeys(e)
  BY <1>1, StoreNext
<1>11. \A e \in Waiter : \A i \in DOMAIN toStore : toStore[i] = GetKeys(e) =>
          \E j \in DOMAIN toStore' : toStore'[j] = GetKeys(e)
  BY <1>10 DEF GetKeys
<1>12. TypeOK'
  BY <1>1, <1>8, <1>10 DEF IInv, TypeOK
<1>13. UniqueInv'
  BY <1>1, <1>5, <1>8, <1>9, <1>10 DEF IInv, UniqueInv
<1>14. ASSUME NEW k \in Key PROVE EditInv(k)'
  <2>1. CASE k # key
    <3>1. StoreShrinks(k)
      BY <1>1, <1>2, <2>1 DEF StoreShrinks, NotOf
    <3>2. UIGrows(k)
      BY <1>5, <1>8, <1>9, <2>1 DEF UIGrows, NotOf
    <3> QED
      BY <1>1, <3>1, <3>2, OtherKeys
  <2>2. CASE k = key
    <3>1. 1 \in Gets(k)
      BY <1>2, <1>10, <2>2 DEF Gets
    <3>2. /\ Sets(k)' = {i - 1 : i \in Sets(k) \ {1}} /\ Gets(k)' = {i - 1 : i \in Gets(k) \ {1}}
          /\ \A i \in DOMAIN toStore \ {1} : toStore'[i - 1] = toStore[i]
      BY <1>1, StoreTaken
    <3>3. Gots(k)' = Gots(k) \cup {n} /\ n \notin Gots(k)
      BY <1>5, <1>8, <1>9, <2>2 DEF Gots
    <3>4. /\ Gets(k) \ {1} \in SUBSET Int /\ IsFiniteSet(Gets(k) \ {1})
          /\ Cardinality(Gets(k) \ {1}) = Cardinality(Gets(k)) - 1
      BY <3>1, Places, FS_RemoveElement
    <3>5. Cardinality(Gets(k)') = Cardinality(Gets(k)) - 1
      <4> DEFINE later == Gets(k) \ {1}
      <4>1. later \in SUBSET Int /\ IsFiniteSet(later) /\ 1 \in Int
        BY <3>4
      <4> HIDE DEF later
      <4>2. Cardinality({i - 1 : i \in later}) = Cardinality(later)
        BY <4>1, Shifted
      <4> QED
        BY <3>2, <3>4, <4>2 DEF later
    <3>6. Cardinality(Gots(k)') = Cardinality(Gots(k)) + 1
      BY <3>3, Places, FS_AddElement
    <3>7. open'[k] = Cardinality(Gets(k)') + Cardinality(Gots(k)')
      BY <1>1, <3>5, <3>6, OneEdit, Places
    <3>8. ASSUME k \notin clashed'
          PROVE  open'[k] <= 1 /\ Stored(k)' /\ ReadsStored(k)'
      <4>1. /\ open[k] <= 1 /\ Stored(k) /\ ReadsStored(k)
            /\ Gets(k) = {1} /\ Gots(k) = {}
        BY <1>1, <3>1, <3>8, OneEdit
      <4>2. Sets(k) = {}
        <5>1. \A j \in Sets(k) : j < 1
          BY <3>1, <4>1 DEF ReadsStored
        <5>2. \A j \in Sets(k) : j >= 1
          BY Queues DEF Sets
        <5>3. \A j \in Sets(k) : j \in Int
          BY Places
        <5> QED
          BY <5>1, <5>2, <5>3
      <4>3. store[k] = expected[k] /\ Sets(k)' = {}
        BY <3>2, <4>1, <4>2 DEF Stored
      <4>4. Stored(k)'
        BY <1>1, <4>3 DEF Stored
      <4>5. Gots(k)' = {n} /\ toUI'[n].list = expected'[k]
        BY <1>1, <1>5, <1>8, <2>2, <3>3, <4>1, <4>3
      <4>6. ReadsStored(k)'
        BY <4>3, <4>5 DEF ReadsStored
      <4> QED
        BY <1>1, <4>1, <4>4, <4>6
    <3> QED
      BY <3>7, <3>8 DEF EditInv
  <2> QED
    BY <2>1, <2>2
<1>15. FollowInv'
  <2>1. CASE Saving
    BY <1>11, <2>1 DEF FollowInv, Saving, Waiter, GetKeys, Everyone
  <2>2. CASE ~Saving
    <3>1. PICK m \in Nat : Follows(m)
      BY <2>2 DEF IInv, FollowInv
    <3>2. ASSUME NEW f \in Engine, Awaits(f) PROVE Awaits(f)'
      BY <1>8, <1>9, <1>11, <3>2 DEF Awaits, Waiter, GetKeys
    <3>3. \A i \in DOMAIN toUI' : i \notin DOMAIN toUI =>
            toUI'[i].task = "got" /\ ~ForEveryone(i)'
      BY <1>5, <1>8, <1>9 DEF ForEveryone
    <3>4. registered' \subseteq Engine
      BY <1>12 DEF TypeOK
    <3>5. Follows(m)'
      BY <1>1, <1>8, <1>9, <3>1, <3>2, <3>3, <3>4, FollowsMore
    <3> QED
      BY <3>5 DEF FollowInv
  <2> QED
    BY <2>1, <2>2
<1> QED
  BY <1>10, <1>12, <1>13, <1>14, <1>15 DEF IInv

\* It reads all of the store for a storage.
LEMMA RunKeysKeeps ==
  ASSUME IInv, RunStore, Head(toStore).task = "keys"
  PROVE  IInv'
<1> DEFINE t == Head(toStore)
<1>1. /\ toStore # <<>> /\ toStore' = Tail(toStore)
      /\ toUI' = Append(toUI, [task |-> "keys", who |-> t.who, lists |-> store])
      /\ UNCHANGED <<store, cached, registered, resources, edits, loads, expected, open,
                     clashed, outrun>>
  BY DEF RunStore
<1>2. PICK who \in Waiter : t.who = who /\ t = GetKeys(who)
  BY <1>1, StoreNext, StoreTaskFields
<1>3. PICK u \in UITask :
        /\ u = [task |-> "keys", who |-> who, lists |-> store]
        /\ toUI' = Append(toUI, u)
  BY <1>1, <1>2 DEF UITask, IInv, TypeOK
<1>4. u.task = "keys" /\ u.who = who /\ u.lists = store
  BY <1>3
<1>5. /\ Len(toUI) \in Nat /\ DOMAIN toUI = 1..Len(toUI) /\ toUI \in Seq(UITask)
  BY Queues
<1>6. PICK n \in Nat : n = Len(toUI) + 1 /\ DOMAIN toUI = 1..(n - 1) /\ n > 0
  BY <1>5
<1>7. /\ toUI' \in Seq(UITask) /\ DOMAIN toUI' = 1..n
      /\ \A i \in DOMAIN toUI : toUI'[i] = toUI[i]
      /\ toUI'[n] = u
  BY <1>3, <1>5, <1>6, Posted
<1>8. /\ DOMAIN toUI \subseteq DOMAIN toUI' /\ n \in DOMAIN toUI'
      /\ \A i \in DOMAIN toUI' : i \notin DOMAIN toUI => i = n
      /\ \A i \in DOMAIN toUI' : i <= n
  BY <1>6, <1>7
<1>9. /\ toStore' \in Seq(StoreTask) /\ SaveInv'
      /\ \A i \in DOMAIN toStore' : toStore'[i].task = "set" => Unique(toStore'[i].list)
      /\ \A e \in Waiter : t # GetKeys(e) =>
           \A i \in DOMAIN toStore : toStore[i] = GetKeys(e) =>
             \E j \in DOMAIN toStore' : toStore'[j] = GetKeys(e)
  BY <1>1, StoreNext
<1>10. \A e \in Waiter : e # who => t # GetKeys(e)
  BY <1>2 DEF GetKeys
<1>11. TypeOK'
  BY <1>1, <1>7, <1>9 DEF IInv, TypeOK
<1>12. UniqueInv'
  BY <1>1, <1>4, <1>7, <1>8, <1>9 DEF IInv, UniqueInv
<1>13. ASSUME NEW k \in Key PROVE EditInv(k)'
  <2>1. StoreShrinks(k)
    BY <1>1 DEF StoreShrinks, NotOf
  <2>2. UIGrows(k)
    BY <1>4, <1>7, <1>8 DEF UIGrows, NotOf
  <2> QED
    BY <1>1, <2>1, <2>2, OtherKeys
<1>14. CASE who = Everyone
  <2>1. ForEveryone(n)'
    BY <1>4, <1>7, <1>14 DEF ForEveryone
  <2>2. n # 0 /\ \A i \in DOMAIN toUI' : ~(i > n) /\ (i >= n => i = n)
    BY <1>6, <1>7
  <2>3. Follows(n)'
    BY <1>1, <1>4, <1>7, <1>8, <2>1, <2>2 DEF Follows
  <2> QED
    BY <1>9, <1>11, <1>12, <1>13, <2>3 DEF IInv, FollowInv
<1>15. CASE who # Everyone
  <2>1. CASE Saving
    <3>1. Saving'
      BY <1>9, <1>10, <1>15, <2>1 DEF Saving, Waiter, GetKeys, Everyone
    <3> QED
      BY <1>9, <1>11, <1>12, <1>13, <3>1 DEF IInv, FollowInv
  <2>2. CASE ~Saving
    <3>1. PICK m \in Nat : Follows(m)
      BY <2>2 DEF IInv, FollowInv
    <3>2. ASSUME NEW f \in Engine, Awaits(f) PROVE Awaits(f)'
      <4>1. CASE f = who
        BY <1>4, <1>7, <1>8, <4>1 DEF Awaits
      <4>2. CASE f # who
        BY <1>7, <1>8, <1>9, <1>10, <3>2, <4>2 DEF Awaits, Waiter, GetKeys
      <4> QED
        BY <4>1, <4>2
    <3>3. \A i \in DOMAIN toUI' : i \notin DOMAIN toUI =>
            toUI'[i].task = "keys" /\ toUI'[i].lists = store /\ ~ForEveryone(i)'
      BY <1>4, <1>7, <1>8, <1>15 DEF ForEveryone
    <3>4. registered' \subseteq Engine
      BY <1>11 DEF TypeOK
    <3>5. Follows(m)'
      BY <1>1, <1>7, <1>8, <3>1, <3>2, <3>3, <3>4, FollowsMore
    <3> QED
      BY <1>9, <1>11, <1>12, <1>13, <3>5 DEF IInv, FollowInv
  <2> QED
    BY <2>1, <2>2
<1> QED
  BY <1>14, <1>15

\* It writes a list: the read for everyone comes next.
LEMMA RunSetKeeps ==
  ASSUME IInv, RunStore, Head(toStore).task = "set"
  PROVE  IInv'
<1> DEFINE t == Head(toStore)
<1>1. /\ toStore # <<>> /\ toStore' = Tail(toStore)
      /\ store' = [store EXCEPT ![t.key] = t.list]
      /\ UNCHANGED <<toUI, cached, registered, resources, edits, loads, expected, open,
                     clashed, outrun>>
  BY DEF RunStore
<1>2. PICK key \in Key, list \in SUBSET Resource : t.key = key /\ t.list = list
  BY <1>1, StoreNext, StoreTaskFields
<1>3. /\ toStore' \in Seq(StoreTask) /\ SaveInv'
      /\ 1 \in DOMAIN toStore /\ t = toStore[1]
      /\ \A i \in DOMAIN toStore' : toStore'[i].task = "set" => Unique(toStore'[i].list)
      /\ \A e \in Waiter : t # GetKeys(e) =>
           \A i \in DOMAIN toStore : toStore[i] = GetKeys(e) =>
             \E j \in DOMAIN toStore' : toStore'[j] = GetKeys(e)
  BY <1>1, StoreNext
<1>4. /\ store \in [Key -> SUBSET Resource]
      /\ store' \in Lists /\ store'[key] = list
      /\ \A k \in Key : k # key => store'[k] = store[k]
  BY <1>1, <1>2 DEF IInv, TypeOK, Lists
<1>5. Unique(list)
  BY <1>2, <1>3 DEF IInv, UniqueInv
<1>6. TypeOK'
  BY <1>1, <1>3, <1>4 DEF IInv, TypeOK
<1>7. UniqueInv'
  BY <1>1, <1>3, <1>4, <1>5 DEF IInv, UniqueInv
<1>8. Saving'
  <2>1. \E i \in DOMAIN toStore : toStore[i] = GetKeys(Everyone)
    BY <1>3 DEF IInv, SaveInv
  <2>2. t # GetKeys(Everyone)
    BY DEF GetKeys
  <2> QED
    BY <1>3, <2>1, <2>2 DEF Saving, Waiter, GetKeys, Everyone
<1>9. ASSUME NEW k \in Key PROVE EditInv(k)'
  <2>1. UIGrows(k)
    BY <1>1 DEF UIGrows
  <2>2. CASE k # key
    <3>1. StoreShrinks(k)
      BY <1>1, <1>2, <2>2 DEF StoreShrinks, NotOf
    <3> QED
      BY <1>1, <1>4, <2>1, <2>2, <3>1, OtherKeys
  <2>3. CASE k = key
    <3>1. 1 \in Sets(k) /\ 1 \notin Gets(k)
      BY <1>2, <1>3, <2>3 DEF Sets, Gets
    <3>2. /\ Sets(k)' = {i - 1 : i \in Sets(k) \ {1}} /\ Gets(k)' = {i - 1 : i \in Gets(k) \ {1}}
          /\ \A i \in DOMAIN toStore \ {1} : toStore'[i - 1] = toStore[i]
      BY <1>1, StoreTaken
    <3>3. Gets(k)' = {i - 1 : i \in Gets(k)}
      <4>1. Gets(k) \ {1} = Gets(k)
        BY <3>1
      <4> QED
        BY <3>2, <4>1
    <3>4. Cardinality(Gets(k)') = Cardinality(Gets(k))
      <4>1. PICK d \in Int : d = 1
        OBVIOUS
      <4>2. Cardinality({i - d : i \in Gets(k)}) = Cardinality(Gets(k))
        BY Places, Shifted
      <4> QED
        BY <3>3, <4>1, <4>2
    <3>5. Gots(k)' = Gots(k)
      BY <1>1 DEF Gots
    <3>6. open'[k] = Cardinality(Gets(k)') + Cardinality(Gots(k)')
      BY <1>1, <3>4, <3>5, OneEdit
    <3>7. ASSUME k \notin clashed'
          PROVE  open'[k] <= 1 /\ Stored(k)' /\ ReadsStored(k)'
      <4>1. open[k] <= 1 /\ Stored(k) /\ ReadsStored(k)
        BY <1>1, <3>7, OneEdit
      <4>2. PICK i \in Sets(k) : (\A j \in Sets(k) : j <= i) /\ toStore[i].list = expected[k]
        BY <3>1, <4>1 DEF Stored
      <4>3. \A j \in Sets(k) : j \in Int /\ j >= 1
        BY Places, Queues DEF Sets
      <4>4. Stored(k)'
        <5>1. CASE i = 1
          <6>1. \A j \in Sets(k) : j = 1
            <7>1. \A j \in Sets(k) : j <= 1 /\ j >= 1 /\ j \in Int
              BY <4>2, <4>3, <5>1
            <7> QED
              BY <7>1
          <6>2. Sets(k)' = {}
            BY <3>2, <6>1
          <6>3. store'[k] = expected'[k]
            BY <1>1, <1>2, <1>3, <1>4, <2>3, <4>2, <5>1
          <6> QED
            BY <6>2, <6>3 DEF Stored
        <5>2. CASE i # 1
          <6>1. i \in DOMAIN toStore \ {1}
            BY <5>2 DEF Sets
          <6>2. i \in Sets(k) \ {1} /\ toStore'[i - 1] = toStore[i]
            BY <3>2, <5>2, <6>1
          <6>3. i - 1 \in Sets(k)' /\ toStore'[i - 1].list = expected'[k]
            BY <1>1, <3>2, <4>2, <6>2
          <6>4. \A j \in Sets(k)' : j <= i - 1
            BY <3>2, <4>2, <4>3
          <6> QED
            BY <6>3, <6>4 DEF Stored
        <5> QED
          BY <5>1, <5>2
      <4>5. \A g \in Gets(k)', j \in Sets(k)' : j < g
        BY <3>2, <3>3, <4>1, <4>3, Places DEF ReadsStored
      <4>6. Gots(k)' = {}
        BY <3>1, <3>5, <4>1 DEF ReadsStored
      <4> QED
        BY <1>1, <4>1, <4>4, <4>5, <4>6 DEF ReadsStored
    <3> QED
      BY <3>6, <3>7 DEF EditInv
  <2> QED
    BY <2>2, <2>3
<1> QED
  BY <1>3, <1>6, <1>7, <1>8, <1>9 DEF IInv, FollowInv

\* The UI sequence takes its first task.
LEMMA UINext ==
  ASSUME IInv, toUI # <<>>, toUI' = Tail(toUI)
  PROVE  /\ toUI' \in Seq(UITask)
         /\ 1 \in DOMAIN toUI /\ Head(toUI) = toUI[1] /\ Head(toUI) \in UITask
         /\ \A i \in DOMAIN toUI' : toUI'[i].task = "got" => Unique(toUI'[i].list)
         /\ \A e \in Engine :
              toStore' = toStore /\ Awaits(e)
                /\ ~(Head(toUI).task \in {"keys", "answer"} /\ Head(toUI).who = e)
              => Awaits(e)'
<1>1. /\ toUI' \in Seq(UITask) /\ 1 \in DOMAIN toUI
      /\ Head(toUI) = toUI[1] /\ Head(toUI) \in UITask
      /\ \A i \in DOMAIN toUI' :
           i + 1 \in DOMAIN toUI /\ i + 1 > 1 /\ i \in Nat /\ toUI'[i] = toUI[i + 1]
      /\ \A i \in DOMAIN toUI \ {1} : i - 1 \in DOMAIN toUI' /\ toUI'[i - 1] = toUI[i]
  BY Queues, Taken
<1>2. \A i \in DOMAIN toUI' : toUI'[i].task = "got" => Unique(toUI'[i].list)
  BY <1>1 DEF IInv, UniqueInv
<1>3. ASSUME NEW e \in Engine, toStore' = toStore, Awaits(e),
             ~(Head(toUI).task \in {"keys", "answer"} /\ Head(toUI).who = e)
      PROVE  Awaits(e)'
  <2>1. CASE \E i \in DOMAIN toStore : toStore[i] = GetKeys(e)
    BY <1>3, <2>1 DEF Awaits, GetKeys
  <2>2. CASE \E i \in DOMAIN toUI : toUI[i].task \in {"keys", "answer"} /\ toUI[i].who = e
    <3>1. PICK i \in DOMAIN toUI : toUI[i].task \in {"keys", "answer"} /\ toUI[i].who = e
      BY <2>2
    <3>2. i # 1
      BY <1>1, <1>3, <3>1
    <3>3. i - 1 \in DOMAIN toUI' /\ toUI'[i - 1] = toUI[i]
      BY <1>1, <3>2
    <3> QED
      BY <3>1, <3>3 DEF Awaits
  <2> QED
    BY <1>3, <2>1, <2>2 DEF Awaits
<1> QED
  BY <1>1, <1>2, <1>3

\* The reply with a list: the edit is refused, or carried out on that list.
LEMMA RunGotKeeps ==
  ASSUME IInv, RunUI, Head(toUI).task = "got"
  PROVE  IInv'
<1> DEFINE t == Head(toUI)
<1>1. /\ toUI # <<>> /\ toUI' = Tail(toUI) /\ OnList(t.edit, t.list)
      /\ UNCHANGED <<store, edits, loads>>
  BY DEF RunUI
<1>2. /\ toUI' \in Seq(UITask)
      /\ 1 \in DOMAIN toUI /\ t = toUI[1] /\ t \in UITask
      /\ \A i \in DOMAIN toUI' : toUI'[i].task = "got" => Unique(toUI'[i].list)
      /\ \A e \in Engine : toStore' = toStore /\ Awaits(e) => Awaits(e)'
  BY <1>1, UINext
<1>3. PICK edit \in Edit, list \in SUBSET Resource, key \in Key :
        t.edit = edit /\ t.list = list /\ edit.key = key
  BY <1>2, UITaskFields, EditFields
<1>4. Unique(list)
  BY <1>2, <1>3 DEF IInv, UniqueInv
<1>5. /\ open' = [open EXCEPT ![key] = @ - 1]
      /\ UNCHANGED <<registered, resources, clashed, store, edits, loads>>
  BY <1>1, <1>3 DEF OnList
<1>6. Refuse \/ (Acknowledge(edit, list) /\ Unique(Edited(edit, list)))
  <2>1. \/ edit.op = "add" /\ AddResourceInternal(edit, list)
        \/ edit.op = "update" /\ UpdateResourceInternal(edit, list)
        \/ edit.op = "remove" /\ RemoveResourceInternal(edit, list)
    BY <1>1, <1>3 DEF OnList
  <2>2. \/ Refuse
        \/ /\ Acknowledge(edit, list)
           /\ \/ edit.op = "add" /\ edit.resource.name \notin Names(list)
              \/ edit.op = "update" /\ edit.resource.name \notin Names(list) \ {edit.old}
              \/ edit.op = "remove"
    BY <2>1 DEF AddResourceInternal, UpdateResourceInternal, RemoveResourceInternal
  <2> QED
    BY <1>4, <2>2, EditedUnique
<1>7. /\ open \in [Key -> Nat] /\ expected \in [Key -> SUBSET Resource]
      /\ 1 \in Gots(key)
  BY <1>2, <1>3 DEF IInv, TypeOK, Lists, Gots
<1>8. /\ open'[key] = open[key] - 1 /\ open' \in [Key -> Nat]
      /\ \A k \in Key : k # key => open'[k] = open[k]
  <2>1. open[key] > 0
    BY <1>7, OneEdit
  <2> QED
    BY <1>5, <1>7, <2>1
<1>9. \A k \in Key : k # key => UIShrinks(k)
  BY <1>1, <1>3 DEF UIShrinks, NotOf
<1>10. Cardinality(Gots(key)') = Cardinality(Gots(key)) - 1
  <2> DEFINE later == Gots(key) \ {1}
  <2>1. /\ later \in SUBSET Int /\ IsFiniteSet(later) /\ 1 \in Int
        /\ Cardinality(later) = Cardinality(Gots(key)) - 1
    <3>1. Gots(key) \in SUBSET Int /\ IsFiniteSet(Gots(key))
      BY Places
    <3>2. IsFiniteSet(later) /\ Cardinality(later) = Cardinality(Gots(key)) - 1
      BY <1>7, <3>1, FS_RemoveElement
    <3> QED
      BY <3>1, <3>2
  <2>2. Gots(key)' = {i - 1 : i \in later}
    BY <1>1, UITaken
  <2> HIDE DEF later
  <2>3. Cardinality({i - 1 : i \in later}) = Cardinality(later)
    BY <2>1, Shifted
  <2> QED
    BY <2>1, <2>2, <2>3
<1>11. key \notin clashed =>
         /\ open[key] <= 1 /\ Stored(key) /\ list = expected[key]
         /\ Gets(key) = {} /\ Gots(key)' = {}
  <2>1. ASSUME key \notin clashed
        PROVE  /\ open[key] <= 1 /\ Stored(key) /\ ReadsStored(key)
               /\ Gets(key) = {} /\ Gots(key) = {1}
    BY <1>7, <2>1, OneEdit
  <2>2. Gots(key)' = {i - 1 : i \in Gots(key) \ {1}}
    BY <1>1, UITaken
  <2> QED
    BY <1>2, <1>3, <1>7, <2>1, <2>2 DEF ReadsStored
<1>12. CASE Refuse
  <2>1. UNCHANGED <<toStore, cached, expected, outrun>>
    BY <1>12 DEF Refuse
  <2>2. TypeOK'
    BY <1>2, <1>5, <1>8, <2>1 DEF IInv, TypeOK
  <2>3. UniqueInv' /\ SaveInv'
    BY <1>2, <1>5, <2>1 DEF IInv, UniqueInv, SaveInv, GetKeys, Everyone
  <2>4. ASSUME NEW k \in Key PROVE EditInv(k)'
    <3>1. CASE k # key
      <4>1. StoreGrows(k)
        BY <2>1 DEF StoreGrows
      <4> QED
        BY <1>5, <1>8, <1>9, <2>1, <3>1, <4>1, OtherKeys
    <3>2. CASE k = key
      <4>1. Gets(k)' = Gets(k) /\ Sets(k)' = Sets(k)
        BY <2>1 DEF Gets, Sets
      <4>2. open'[k] = Cardinality(Gets(k)') + Cardinality(Gots(k)')
        BY <1>8, <1>10, <3>2, <4>1, OneEdit, Places
      <4>3. ASSUME k \notin clashed'
            PROVE  open'[k] <= 1 /\ Stored(k)' /\ ReadsStored(k)'
        <5>1. open[k] <= 1 /\ Stored(k) /\ Gets(k) = {} /\ Gots(k)' = {}
          BY <1>5, <1>11, <3>2, <4>3
        <5>2. Stored(k)'
          BY <1>5, <2>1, <4>1, <5>1 DEF Stored
        <5>3. ReadsStored(k)'
          BY <4>1, <5>1 DEF ReadsStored
        <5>4. open'[k] <= 1
          BY <1>7, <1>8, <3>2, <5>1
        <5> QED
          BY <5>2, <5>3, <5>4
      <4> QED
        BY <4>2, <4>3 DEF EditInv
    <3> QED
      BY <3>1, <3>2
  <2>5. FollowInv'
    <3>1. CASE Saving
      BY <2>1, <3>1 DEF FollowInv, Saving, GetKeys, Everyone
    <3>2. CASE ~Saving
      <4>1. PICK m \in Nat : Follows(m)
        BY <3>2 DEF IInv, FollowInv
      <4>2. m # 1
        BY <1>2, <4>1 DEF Follows, ForEveryone
      <4>3. m = 0 =>
              /\ cached' \subseteq {Merged(store)}
              /\ \A e \in registered' \ outrun : resources'[e] = Merged(store) \/ Awaits(e)'
        BY <1>2, <1>5, <2>1, <4>1 DEF Follows, IInv, TypeOK
      <4>4. \E n \in Nat : Follows(n)'
        BY <1>1, <2>1, <4>1, <4>2, <4>3, FollowsNext
      <4> QED
        BY <4>4 DEF FollowInv
    <3> QED
      BY <3>1, <3>2
  <2> QED
    BY <2>2, <2>3, <2>4, <2>5 DEF IInv
<1>13. CASE Acknowledge(edit, list) /\ Unique(Edited(edit, list))
  <2>1. PICK new \in SUBSET Resource : new = Edited(edit, list) /\ Unique(new)
    BY <1>13, EditedType
  <2>2. /\ SaveAndReload(key, new)
        /\ expected' = [expected EXCEPT ![key] = Edited(edit, @)]
    BY <1>3, <1>13, <2>1 DEF Acknowledge
  <2>3. /\ toStore' \in Seq(StoreTask) /\ SaveInv' /\ Saving'
        /\ \A i \in DOMAIN toStore' : toStore'[i].task = "set" => Unique(toStore'[i].list)
        /\ Gets(key)' = Gets(key)
        /\ \E n \in Sets(key)' : (\A j \in Sets(key)' : j <= n) /\ toStore'[n].list = new
        /\ \A k \in Key : k # key => StoreGrows(k)
        /\ cached' = {} /\ outrun' = {}
    BY <2>1, <2>2, SaveFacts
  <2>4. /\ expected'[key] = Edited(edit, expected[key]) /\ expected' \in Lists
        /\ \A k \in Key : k # key => expected'[k] = expected[k]
    <3>1. Edited(edit, expected[key]) \in SUBSET Resource
      BY <1>7, EditedType
    <3> QED
      BY <1>7, <2>2, <3>1 DEF Lists
  <2>5. TypeOK'
    <3>1. cached' \subseteq SUBSET Resource /\ Cardinality(cached') <= 1 /\ outrun' \subseteq Engine
      BY <2>3, FS_EmptySet
    <3> QED
      BY <1>2, <1>5, <1>8, <2>3, <2>4, <3>1 DEF IInv, TypeOK
  <2>6. UniqueInv' /\ FollowInv'
    BY <1>2, <1>5, <2>3 DEF IInv, UniqueInv, FollowInv
  <2>7. ASSUME NEW k \in Key PROVE EditInv(k)'
    <3>1. CASE k # key
      BY <1>5, <1>8, <1>9, <2>3, <2>4, <3>1, OtherKeys
    <3>2. CASE k = key
      <4>1. open'[k] = Cardinality(Gets(k)') + Cardinality(Gots(k)')
        BY <1>8, <1>10, <2>3, <3>2, OneEdit, Places
      <4>2. ASSUME k \notin clashed'
            PROVE  open'[k] <= 1 /\ Stored(k)' /\ ReadsStored(k)'
        <5>1. /\ open[k] <= 1 /\ list = expected[k]
              /\ Gets(k)' = {} /\ Gots(k)' = {}
          BY <1>5, <1>11, <2>3, <3>2, <4>2
        <5>2. new = expected'[k]
          BY <2>1, <2>4, <3>2, <5>1
        <5>3. Stored(k)'
          BY <2>3, <3>2, <5>2 DEF Stored
        <5>4. ReadsStored(k)'
          BY <5>1 DEF ReadsStored
        <5>5. open'[k] <= 1
          BY <1>7, <1>8, <3>2, <5>1
        <5> QED
          BY <5>3, <5>4, <5>5
      <4> QED
        BY <4>1, <4>2 DEF EditInv
    <3> QED
      BY <3>1, <3>2
  <2> QED
    BY <2>3, <2>5, <2>6, <2>7 DEF IInv
<1> QED
  BY <1>6, <1>12, <1>13

\* A storage reaches those who wait for it.
LEMMA RunStorageKeeps ==
  ASSUME IInv, RunUI, Head(toUI).task \in {"keys", "answer"}
  PROVE  IInv'
<1> DEFINE t == Head(toUI)
<1>1. /\ toUI # <<>> /\ toUI' = Tail(toUI)
      /\ \/ t.task = "keys" /\ OnCustomResourcesLoaded(t.who, t.lists)
         \/ t.task = "answer" /\ OnAnswer(t.who, t.storage)
      /\ UNCHANGED <<store, toStore, registered, edits, loads, expected, open, clashed, outrun>>
  BY DEF RunUI, OnCustomResourcesLoaded, OnAnswer
<1>2. /\ toUI' \in Seq(UITask)
      /\ 1 \in DOMAIN toUI /\ t = toUI[1] /\ t \in UITask
      /\ \A i \in DOMAIN toUI' : toUI'[i].task = "got" => Unique(toUI'[i].list)
      /\ \A e \in Engine : Awaits(e) /\ t.who # e => Awaits(e)'
  BY <1>1, UINext
<1>3. PICK engines \in SUBSET Waiter, storage \in SUBSET Resource :
        /\ UseResources(engines, storage)
        /\ IF t.task = "keys"
           THEN cached' = {storage} /\ storage = Merged(t.lists) /\ engines = Reached(t.who)
           ELSE cached' = cached /\ storage = t.storage /\ engines = {t.who}
  <2>1. CASE t.task = "keys" /\ OnCustomResourcesLoaded(t.who, t.lists)
    <3>1. Merged(t.lists) \in SUBSET Resource /\ t.who \in Waiter
      BY <1>2, <2>1, UITaskFields, MergedType
    <3>2. Reached(t.who) \in SUBSET Waiter
      BY <3>1 DEF Reached, Waiter, IInv, TypeOK
    <3> QED
      BY <2>1, <3>1, <3>2 DEF OnCustomResourcesLoaded
  <2>2. CASE t.task = "answer" /\ OnAnswer(t.who, t.storage)
    <3>1. t.storage \in SUBSET Resource /\ {t.who} \in SUBSET Waiter
      BY <1>2, <2>2, UITaskFields DEF Waiter
    <3> QED
      BY <2>2, <3>1 DEF OnAnswer
  <2> QED
    BY <1>1, <2>1, <2>2
<1>4. /\ resources' \in [Engine -> SUBSET Resource]
      /\ \A e \in Engine : resources'[e] = IF e \in engines THEN storage ELSE resources[e]
  BY <1>3 DEF UseResources, IInv, TypeOK
<1>5. TypeOK'
  <2>1. cached' \subseteq SUBSET Resource /\ Cardinality(cached') <= 1
    <3>1. cached' = cached \/ cached' = {storage}
      BY <1>3
    <3>2. CASE cached' = cached
      BY <3>2 DEF IInv, TypeOK
    <3>3. CASE cached' = {storage}
      <4>1. Cardinality(cached') = 1
        BY <3>3, FS_Singleton
      <4> QED
        BY <3>3, <4>1
    <3> QED
      BY <3>1, <3>2, <3>3
  <2> QED
    BY <1>1, <1>2, <1>4, <2>1 DEF IInv, TypeOK
<1>6. UniqueInv' /\ SaveInv'
  BY <1>1, <1>2 DEF IInv, UniqueInv, SaveInv, GetKeys, Everyone
<1>7. ASSUME NEW k \in Key PROVE EditInv(k)'
  <2>1. StoreGrows(k) /\ UIShrinks(k)
    BY <1>1 DEF StoreGrows, UIShrinks, NotOf
  <2> QED
    BY <1>1, <2>1, OtherKeys
<1>8. CASE Saving
  <2>1. Saving'
    BY <1>1, <1>8 DEF Saving, GetKeys, Everyone
  <2> QED
    BY <1>5, <1>6, <1>7, <2>1 DEF IInv, FollowInv
<1>9. CASE ~Saving
  <2>1. PICK m \in Nat : Follows(m)
    BY <1>9 DEF IInv, FollowInv
  <2>2. CASE m \notin {0, 1}
    <3>1. \E n \in Nat : Follows(n)'
      BY <1>1, <2>1, <2>2, FollowsNext
    <3> QED
      BY <1>5, <1>6, <1>7, <3>1 DEF IInv, FollowInv
  <2>3. CASE m \in {0, 1}
    <3>1. t.task = "keys" => storage = Merged(store)
      BY <1>2, <1>3, <2>1, <2>3, Queues DEF Follows
    <3>2. t.task = "answer" => m = 0 /\ (t.who \notin outrun => storage = Merged(store))
      BY <1>2, <1>3, <2>1, <2>3, Queues DEF Follows, ForEveryone
    <3>3. cached' \subseteq {Merged(store)}
      BY <1>1, <1>3, <2>1, <3>1, <3>2 DEF Follows
    <3>4. ASSUME NEW e \in registered \ outrun
          PROVE  resources'[e] = Merged(store) \/ Awaits(e)'
      <4>1. e \in Engine
        BY DEF IInv, TypeOK
      <4>2. CASE e \in engines
        <5>1. resources'[e] = storage
          BY <1>4, <4>1, <4>2
        <5>2. t.task = "answer" => t.who = e
          BY <1>3, <4>2
        <5> QED
          BY <1>1, <3>1, <3>2, <5>1, <5>2
      <4>3. CASE e \notin engines
        <5>1. t.who # e /\ (t.who # Everyone \/ t.task = "answer")
          BY <1>1, <1>3, <4>1, <4>3, ConstantsAssumption DEF Reached
        <5>2. m = 0
          BY <1>2, <2>1, <2>3, <3>2, <5>1, <1>1 DEF Follows, ForEveryone
        <5>3. resources[e] = Merged(store) \/ Awaits(e)
          BY <2>1, <5>2 DEF Follows
        <5>4. resources'[e] = resources[e]
          BY <1>4, <4>1, <4>3
        <5> QED
          BY <1>2, <4>1, <5>1, <5>3, <5>4
      <4> QED
        BY <4>2, <4>3
    <3>5. \E n \in Nat : Follows(n)'
      BY <1>1, <2>1, <3>3, <3>4, FollowsNext
    <3> QED
      BY <1>5, <1>6, <1>7, <3>5 DEF IInv, FollowInv
  <2> QED
    BY <2>2, <2>3
<1> QED
  BY <1>8, <1>9
-----------------------------------------------------------------------------
(* The specification.                                                      *)

LEMMA Start ==
  ASSUME Init
  PROVE  IInv
<1> USE DEF Init
<1>1. DOMAIN toStore = {} /\ DOMAIN toUI = {}
  OBVIOUS
<1>2. TypeOK
  <2>1. toStore \in Seq(StoreTask) /\ toUI \in Seq(UITask)
    BY EmptySeq
  <2>2. Cardinality(cached) <= 1
    BY FS_EmptySet
  <2>3. store \in Lists /\ expected \in Lists
    BY DEF Empty, Lists
  <2> QED
    BY <2>1, <2>2, <2>3 DEF TypeOK
<1>3. UniqueInv /\ SaveInv
  BY <1>1 DEF UniqueInv, SaveInv, Unique, Empty
<1>4. ASSUME NEW k \in Key PROVE EditInv(k)
  <2>1. Gets(k) = {} /\ Gots(k) = {} /\ Sets(k) = {}
    BY <1>1 DEF Gets, Gots, Sets
  <2>2. open[k] = 0 /\ store[k] = expected[k]
    BY DEF Empty
  <2>3. Cardinality({}) = 0
    BY FS_EmptySet
  <2> QED
    BY <2>1, <2>2, <2>3 DEF EditInv, Stored, ReadsStored
<1>5. FollowInv
  <2>1. Follows(0)
    BY <1>1 DEF Follows
  <2> QED
    BY <2>1 DEF FollowInv
<1> QED
  BY <1>2, <1>3, <1>4, <1>5 DEF IInv

LEMMA Inductive ==
  ASSUME IInv, [Next]_vars
  PROVE  IInv'
<1>1. CASE \E e \in Engine : EngineLoadsResources(e)
  BY <1>1, LoadKeeps
<1>2. ASSUME NEW k \in Key, NEW r \in Resource, HandleAddCustomResource(k, r)
      PROVE  IInv'
  <2>1. PICK edit \in Edit : edit = [op |-> "add", key |-> k, resource |-> r]
    BY DEF Edit
  <2> QED
    BY <1>2, <2>1, GetKeeps DEF HandleAddCustomResource, AddResource
<1>3. ASSUME NEW k \in Key, NEW name \in Name, NEW r \in Resource,
             HandleUpdateCustomResource(k, name, r)
      PROVE  IInv'
  <2>1. PICK edit \in Edit : edit = [op |-> "update", key |-> k, old |-> name, resource |-> r]
    BY DEF Edit
  <2> QED
    BY <1>3, <2>1, GetKeeps DEF HandleUpdateCustomResource, UpdateResource
<1>4. ASSUME NEW k \in Key, NEW name \in Name, HandleRemoveCustomResource(k, name)
      PROVE  IInv'
  <2>1. PICK edit \in Edit : edit = [op |-> "remove", key |-> k, old |-> name]
    BY DEF Edit
  <2> QED
    BY <1>4, <2>1, GetKeeps DEF HandleRemoveCustomResource, RemoveResource
<1>5. ASSUME NEW k \in Key, HandleRemoveCustomResourceKey(k)
      PROVE  IInv'
  BY <1>5, RemoveKeyKeeps DEF HandleRemoveCustomResourceKey
<1>6. CASE RunStore
  BY <1>6, RunGetKeeps, RunKeysKeeps, RunSetKeeps DEF RunStore
<1>7. CASE RunUI
  BY <1>7, RunGotKeeps, RunStorageKeeps DEF RunUI
<1>8. CASE UNCHANGED vars
  <2>1. UNCHANGED <<store, toStore, toUI, cached, registered, resources, edits, loads,
                    expected, open, clashed, outrun>>
    BY <1>8 DEF vars
  <2>2. TypeOK' /\ UniqueInv' /\ SaveInv'
    BY <2>1 DEF IInv, TypeOK, UniqueInv, SaveInv, GetKeys, Everyone
  <2>3. \A k \in Key : EditInv(k)'
    BY <2>1, OtherKeys DEF StoreGrows, UIGrows
  <2>4. FollowInv'
    BY <2>1 DEF IInv, FollowInv, Saving, Follows, ForEveryone, Awaits, GetKeys, Everyone
  <2> QED
    BY <2>2, <2>3, <2>4 DEF IInv
<1> QED
  BY <1>1, <1>2, <1>3, <1>4, <1>5, <1>6, <1>7, <1>8 DEF Next

LEMMA Invariance == Spec => []IInv
BY Start, Inductive, PTL DEF Spec
-----------------------------------------------------------------------------
\* The store, the tasks of both runners and the storages stay within their types,
\* and no key has fewer edits under way than none.
THEOREM TypeCorrect == Spec => []TypeOK
<1>1. IInv => TypeOK
  BY DEF IInv
<1> QED
  BY <1>1, Invariance, PTL

\* Whatever edits overlap, no list has two resources of one name: what an edit
\* writes is what it was shown, changed as FindResource allowed it.
THEOREM UniqueNames == Spec => []NamesUnique
<1>1. IInv => NamesUnique
  BY DEF IInv, UniqueInv, Unique, NamesUnique
<1> QED
  BY <1>1, Invariance, PTL

LEMMA LastWrite ==
  ASSUME IInv, NEW k \in Key, Stored(k)
  PROVE  AfterWrites(k) = expected[k]
<1>1. AfterWrites(k) = IF Sets(k) = {} THEN store[k] ELSE toStore[Max(Sets(k))].list
  <2>1. {i \in 1..Len(toStore) : toStore[i].task = "set" /\ toStore[i].key = k} = Sets(k)
    BY Queues DEF Sets
  <2> QED
    BY <2>1 DEF AfterWrites
<1>2. CASE Sets(k) = {} /\ store[k] = expected[k]
  BY <1>1, <1>2
<1>3. CASE \E i \in Sets(k) : (\A j \in Sets(k) : j <= i) /\ toStore[i].list = expected[k]
  <2>1. PICK i \in Sets(k) : (\A j \in Sets(k) : j <= i) /\ toStore[i].list = expected[k]
    BY <1>3
  <2>2. Sets(k) \in SUBSET Int
    BY Places
  <2> DEFINE m == Max(Sets(k))
  <2>3. m \in Sets(k) /\ \A j \in Sets(k) : m >= j
    BY <2>1, <2>2 DEF Max
  <2>4. m = i
    BY <2>1, <2>2, <2>3
  <2> QED
    BY <1>1, <2>1, <2>4
<1> QED
  BY <1>2, <1>3 DEF Stored

\* What the page was told is kept is stored, or will be, while no two edits of the
\* list overlap.
THEOREM EditsStored == Spec => []AckedEditsStored
<1>1. ASSUME IInv PROVE AckedEditsStored
  BY <1>1, OneEdit, LastWrite DEF AckedEditsStored
<1> QED
  BY <1>1, Invariance, PTL

\* When nothing is read or about to be, no storage for everyone is under way, and
\* the last was read after the last write.
LEMMA NothingOnItsWay ==
  ASSUME IInv, toStore = <<>>, \A i \in 1..Len(toUI) : toUI[i].task # "keys"
  PROVE  Follows(0)
<1>1. ~Saving
  BY DEF Saving
<1>2. PICK m \in Nat : Follows(m)
  BY <1>1 DEF IInv, FollowInv
<1>3. m = 0
  BY <1>2, Queues DEF Follows, ForEveryone
<1> QED
  BY <1>2, <1>3

\* The cached storage is made of the store once nothing is being read.
THEOREM CacheFollows == Spec => []CacheFollowsStore
<1>1. ASSUME IInv PROVE CacheFollowsStore
  BY <1>1, NothingOnItsWay DEF CacheFollowsStore, Follows
<1> QED
  BY <1>1, Invariance, PTL

\* And so are the resources of the engines, once both runners are idle.
THEOREM EnginesFollow == Spec => []EnginesFollowStore
<1>1. ASSUME IInv PROVE EnginesFollowStore
  <2>1. ASSUME toStore = <<>>, toUI = <<>>, NEW e \in registered \ outrun
        PROVE  resources[e] = Merged(store)
    <3>1. DOMAIN toStore = {} /\ DOMAIN toUI = {} /\ Len(toUI) = 0
      BY <2>1
    <3>2. Follows(0)
      BY <1>1, <2>1, <3>1, NothingOnItsWay
    <3>3. ~Awaits(e)
      BY <3>1 DEF Awaits
    <3> QED
      BY <3>2, <3>3 DEF Follows
  <2> QED
    BY <2>1 DEF EnginesFollowStore
<1> QED
  BY <1>1, Invariance, PTL
=============================================================================
