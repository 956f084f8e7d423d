--------------------------- MODULE CosmeticHandler ---------------------------
(***************************************************************************)
(* CosmeticFiltersJSHandler and its connection to the browser.  The        *)
(* handler lives as long as its frame, while documents come and go.        *)
(*                                                                         *)
(* calls is the queue of calls whose replies the handler has not seen.  A  *)
(* reply depends on its call alone, so one queue stands for both           *)
(* directions; the pipe keeps their order.  The synchronous call does not  *)
(* wait in it, nor do the replies that are queued overtake it.             *)
(***************************************************************************)
EXTENDS CosmeticRules, Naturals, Sequences, FiniteSets

CONSTANTS
  Name,            \* classes and ids, and the generic selectors that hide them
  Url,             \* http(s) URLs, as far as rules tell them apart
  Default,         \* the default engine's resources for a URL
  Additional,      \* those of the additional one
  DefaultGeneric,  \* names for which the default engine has a generic rule
  ForcedGeneric,   \* names for which the additional one has
  None,
  MaxLoads,        \* bound: documents that the frame loads
  MaxWaiting       \* bound: starts of a document that wait for its rules

\* An answer has the keys of a Dict, or none because it does not parse.
ASSUME ConstantsAssumption ==
  /\ None \notin Url
  /\ \A u \in Url : \A answer \in {Default[u], Additional[u]} :
       DOMAIN answer # {} =>
         /\ EngineKey \subseteq DOMAIN answer
         /\ answer["exceptions"] \subseteq Name /\ answer["generichide"] \in BOOLEAN
  /\ DefaultGeneric \subseteq Name /\ ForcedGeneric \subseteq Name
  /\ MaxLoads \in Nat /\ MaxWaiting \in Nat

VARIABLES
  sync,         \* the feature CosmeticFilteringSyncLoad
  load,         \* counts the documents of the frame
  url,          \* url_, of this document; None if it is not http(s)
  resources,    \* resources_dict_: of which URL, or None
  generichide,  \* generichide_
  exceptions,   \* exceptions_
  injected,     \* bundle_injected_
  world,        \* the isolated world of this document has its context
  ready,        \* ready_ has been signalled
  waiting,      \* how often ApplyRules has been posted on ready_
  connected,    \* the browser's end of the pipe is there
  calls,
  applied,      \* history: the URLs whose rules this document has been given
  inserted      \* history: what stylesheets for questions hide, and of which load

handlerVars == <<resources, generichide, exceptions, injected, world>>
pipeVars == <<connected, calls>>
frameVars == <<sync, load, url, ready, waiting>>
history == <<applied, inserted>>

Call ==
  [op : {"url"}, load : 1..MaxLoads, url : Url]
    \cup [op : {"hide"}, load : 1..MaxLoads, names : SUBSET Name, exceptions : SUBSET Name]

HandlerTypeOK ==
  /\ sync \in BOOLEAN /\ load \in 0..MaxLoads /\ url \in Url \cup {None}
  /\ resources \in Url \cup {None} /\ generichide \in BOOLEAN
  /\ exceptions \subseteq Name /\ injected \in BOOLEAN /\ world \in BOOLEAN
  /\ ready \in BOOLEAN /\ waiting \in 0..MaxWaiting
  /\ connected \in BOOLEAN
  /\ calls \in Seq(Call)
  /\ applied \subseteq Url
  /\ inserted \subseteq [load : 1..load, hides : Name]

HandlerInit ==
  /\ sync \in BOOLEAN /\ load = 0 /\ url = None
  /\ resources = None /\ generichide = FALSE /\ exceptions = {}
  /\ injected = FALSE /\ world = FALSE
  /\ ready = FALSE /\ waiting = 0
  /\ connected = TRUE /\ calls = <<>>
  /\ applied = {} /\ inserted = {}

\* What the browser says of each URL.
Resources == [u \in Url |-> UrlCosmeticResources(Default[u], Additional[u])]

-----------------------------------------------------------------------------

\* A message to an end that is gone is lost.
Send(call) == calls' = IF connected THEN Append(calls, call) ELSE calls

\* HiddenClassIdSelectors, called by the page's script.
HiddenClassIdSelectors(names) ==
  Send([op |-> "hide", load |-> load, names |-> names, exceptions |-> exceptions])

\* ProcessURL, for load number k.  The synchronous call returns nothing if the
\* browser's end is gone.
ProcessURL(u, k) ==
  IF sync
  THEN resources' = (IF connected THEN u ELSE None) /\ UNCHANGED calls
  ELSE resources' = None /\ Send([op |-> "url", load |-> k, url |-> u])

\* A mutant of OnProcessURL: the weak pointers of earlier loads stay valid.
OnProcessURLOfAnyLoad(k) == ready' = TRUE

\* OnProcessURL, through a weak pointer that the next load invalidates.
OnProcessURL(k) == ready' = (ready \/ k = load)

\* OnUrlCosmeticResources: whichever load asked, its reply is kept.
OnUrlCosmeticResources ==
  /\ calls # <<>> /\ Head(calls).op = "url"
  /\ resources' = Head(calls).url
  /\ OnProcessURL(Head(calls).load)
  /\ calls' = Tail(calls)
  /\ UNCHANGED <<generichide, exceptions, injected, world, sync, load, url, waiting,
                 connected, history>>

\* OnHiddenClassIdSelectors: a stylesheet for the document there is now.
OnHiddenClassIdSelectors ==
  /\ calls # <<>> /\ Head(calls).op = "hide"
  /\ LET call == Head(calls)
         found == WrapperSelectors(DefaultGeneric, ForcedGeneric, call.names, call.exceptions)
     IN inserted' = IF generichide
                    THEN inserted
                    ELSE inserted \cup
                           {[load |-> call.load, hides |-> n] :
                              n \in found.hide_selectors \cup found.force_hide_selectors}
  /\ calls' = Tail(calls)
  /\ UNCHANGED <<handlerVars, frameVars, connected, applied>>

\* The browser drops its end: the last calls stay without their replies.
Disconnect ==
  /\ connected /\ connected' = FALSE
  /\ \E answered \in 0..Len(calls) : calls' = SubSeq(calls, 1, answered)
  /\ UNCHANGED <<handlerVars, frameVars, history>>

\* OnRemoteDisconnect, after the replies that had been sent; EnsureConnected.
OnRemoteDisconnect ==
  /\ ~connected /\ calls = <<>>
  /\ connected' = TRUE
  /\ UNCHANGED <<calls, handlerVars, frameVars, history>>
=============================================================================
