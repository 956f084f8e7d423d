--------------------------- MODULE CosmeticScript ---------------------------
(***************************************************************************)
(* content_cosmetic.ts, the script that watches a document for classes and *)
(* ids and asks which of them are to be hidden.  It starts after a delay,  *)
(* scans the document, then observes mutations; when there are too many it *)
(* scans the document at an interval instead, for a while.  Questions may  *)
(* be throttled.                                                           *)
(*                                                                         *)
(* Time is left to choose: a score may pass its threshold, a throttle may  *)
(* apply, an interval may have gone on for long enough.  All of the        *)
(* variables are of the present document.  Classes and ids are treated     *)
(* alike; what procedural actions do to elements is a change of the page.  *)
(***************************************************************************)
EXTENDS CosmeticHandler

VARIABLES
  dom,         \* the names that elements of the document have
  records,     \* mutation records on their way to the observers
  elements,    \* names on the notYetQueriedElements
  queue,       \* notYetQueriedClasses and notYetQueriedIds
  queried,     \* queriedClasses and queriedIds
  loaded,      \* the bundle has been run in this world
  ccGeneric,   \* CC.generichide: empty while undefined
  procedural,  \* CC.hasProceduralActions
  started,     \* CC.observingHasStarted
  checking,    \* CC._startCheckingId is set
  occurred,    \* CC._hasDelayOcurred
  pump,        \* idle callbacks of scheduleQueuePump, by their genericHide
  delayed,     \* timeouts of startObserving
  observers,   \* mutation observers that observe
  interval,    \* selectorsPollingIntervalId is set
  timeout      \* fetchNewClassIdRulesTimeoutId is set

startVars == <<loaded, ccGeneric, procedural, started, checking, occurred, pump, delayed>>
queueVars == <<elements, queue, queried>>
watchVars == <<observers, interval>>
scriptVars == <<dom, records, queueVars, startVars, watchVars, timeout>>

Record == [name : Name, in : {"element", "attribute"}]

ScriptTypeOK ==
  /\ dom \subseteq Name /\ records \subseteq Record
  /\ elements \subseteq Name /\ queue \subseteq Name /\ queried \subseteq Name
  /\ loaded \in BOOLEAN /\ ccGeneric \subseteq BOOLEAN /\ procedural \in BOOLEAN
  /\ started \in BOOLEAN /\ checking \in BOOLEAN /\ occurred \in BOOLEAN
  /\ pump \in Seq(BOOLEAN)
  /\ delayed \in Nat /\ observers \in Nat
  /\ interval \in BOOLEAN /\ timeout \in BOOLEAN

\* The script's part of a new document, whose world is empty.
ScriptInit ==
  /\ dom = {} /\ records = {} /\ elements = {} /\ queue = {} /\ queried = {}
  /\ loaded = FALSE /\ ccGeneric = {} /\ procedural = FALSE
  /\ started = FALSE /\ checking = FALSE /\ occurred = FALSE
  /\ pump = <<>> /\ delayed = 0
  /\ observers = 0 /\ interval = FALSE /\ timeout = FALSE

NewDocument ==
  /\ dom' = {} /\ records' = {} /\ elements' = {} /\ queue' = {} /\ queried' = {}
  /\ loaded' = FALSE /\ ccGeneric' = {} /\ procedural' = FALSE
  /\ started' = FALSE /\ checking' = FALSE /\ occurred' = FALSE
  /\ pump' = <<>> /\ delayed' = 0
  /\ observers' = 0 /\ interval' = FALSE /\ timeout' = FALSE

\* What a script step leaves alone in the frame.
FrameUnchanged ==
  UNCHANGED <<handlerVars, frameVars, connected, history>>

-----------------------------------------------------------------------------
\* The page.

\* An element comes with a name, or an element gets it.
Appear ==
  \E n \in Name \ dom, kind \in {"element", "attribute"} :
    /\ load > 0
    /\ dom' = dom \cup {n}
    /\ records' = IF observers > 0 THEN records \cup {[name |-> n, in |-> kind]} ELSE records
    /\ UNCHANGED <<queueVars, startVars, watchVars, timeout, calls>>
    /\ FrameUnchanged

\* A removal leaves no record of a name.
Disappear ==
  \E n \in dom :
    /\ dom' = dom \ {n}
    /\ UNCHANGED <<records, queueVars, startVars, watchVars, timeout, calls>>
    /\ FrameUnchanged

-----------------------------------------------------------------------------
\* Questions.

\* queueElementIdAndClasses, of these names: what is new of them.
QueueElementIdAndClasses(names, known) == names \ known

\* fetchNewClassIdRules, when toAsk is queued, known is queried and found are the
\* names of the elements.
FetchNewClassIdRules(found, toAsk, known) ==
  LET asking == toAsk \cup QueueElementIdAndClasses(found, known)
  IN /\ elements' = {} /\ queue' = {} /\ queried' = known \cup found
     /\ IF asking = {} THEN UNCHANGED calls ELSE HiddenClassIdSelectors(asking)

\* queryAttrsFromDocument, without the switch back to the observer.
QueryAttrsFromDocument ==
  IF TRUE \in ccGeneric
  THEN UNCHANGED <<queueVars, calls>>
  ELSE FetchNewClassIdRules(elements \cup dom, queue, queried)

-----------------------------------------------------------------------------
\* Observing and polling.

\* useMutationObserver.
UseMutationObserver ==
  /\ interval' = FALSE /\ observers' = observers + 1

\* usePolling.
UsePolling ==
  /\ observers' = observers - 1 /\ interval' = TRUE

\* startObserving.
StartObserving ==
  /\ QueryAttrsFromDocument
  /\ UseMutationObserver
  /\ UNCHANGED <<dom, records, timeout>>

\* onMutations: queueAttrsFromMutations, usePolling if the score is too high
\* (which forgets the elements), then the question, unless it is throttled.
OnMutations ==
  LET in(kind) == {r.name : r \in {x \in records : x.in = kind}}
      new == in("attribute") \ queried
      found == elements \cup in("element")
  IN /\ observers > 0 /\ records # {} /\ records' = {}
     /\ \E many \in BOOLEAN, throttle \in {t \in BOOLEAN : timeout => t} :
          /\ IF many THEN UsePolling ELSE UNCHANGED watchVars
          /\ IF TRUE \in ccGeneric \/ throttle
             THEN /\ queue' = queue \cup new /\ queried' = queried \cup new
                  /\ elements' = IF many THEN {} ELSE found
                  /\ timeout' = (timeout \/ TRUE \notin ccGeneric)
                  /\ UNCHANGED calls
             ELSE /\ FetchNewClassIdRules(IF many THEN {} ELSE found, queue \cup new,
                                          queried \cup new)
                  /\ UNCHANGED timeout
     /\ UNCHANGED <<dom, startVars>>
     /\ FrameUnchanged

\* The timeout of ShouldThrottleFetchNewClassIdsRules.
OnThrottleTimeout ==
  /\ timeout /\ timeout' = FALSE
  /\ FetchNewClassIdRules(elements, queue, queried)
  /\ UNCHANGED <<dom, records, startVars, watchVars>>
  /\ FrameUnchanged

\* The interval of usePolling; late: returnToMutationObserverIntervalMs have passed.
OnInterval ==
  /\ interval
  /\ QueryAttrsFromDocument
  /\ \E late \in BOOLEAN : IF late THEN UseMutationObserver ELSE UNCHANGED watchVars
  /\ UNCHANGED <<dom, records, startVars, timeout>>
  /\ FrameUnchanged

-----------------------------------------------------------------------------
\* The start.

\* A mutant of ScheduleQueuePump: a callback for every call.
ScheduleQueuePumpAgain(genericHide) ==
  /\ checking' = TRUE /\ pump' = Append(pump, genericHide)

\* scheduleQueuePump.
ScheduleQueuePump(genericHide) ==
  IF occurred \/ checking
  THEN UNCHANGED <<checking, pump>>
  ELSE checking' = TRUE /\ pump' = Append(pump, genericHide)

\* tryScheduleQueuePump, in a world with this CC.generichide.
TryScheduleQueuePump(generic) ==
  /\ started' = TRUE
  /\ ScheduleQueuePump(~started /\ TRUE \in generic)
  /\ UNCHANGED <<occurred, delayed>>

\* The idle callback.  In a frame that is not the main one startObserving is
\* delayed further, by firstSelectorsPollingDelayMs.
OnIdle ==
  /\ pump # <<>> /\ pump' = Tail(pump)
  /\ occurred' = TRUE
  /\ \/ /\ Head(pump) /\ ~procedural
        /\ UNCHANGED <<dom, records, queueVars, watchVars, timeout, delayed, calls>>
     \/ /\ ~Head(pump) \/ procedural
        /\ \/ StartObserving /\ UNCHANGED delayed
           \/ /\ delayed' = delayed + 1
              /\ UNCHANGED <<dom, records, queueVars, watchVars, timeout, calls>>
  /\ UNCHANGED <<loaded, ccGeneric, procedural, started, checking>>
  /\ FrameUnchanged

\* The timeout of the first selectors.
OnFirstSelectors ==
  /\ delayed > 0 /\ delayed' = delayed - 1
  /\ StartObserving
  /\ UNCHANGED <<loaded, ccGeneric, procedural, started, checking, occurred, pump>>
  /\ FrameUnchanged
=============================================================================
