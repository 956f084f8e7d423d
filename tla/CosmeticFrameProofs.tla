-------------------------- MODULE CosmeticFrameProofs --------------------------
(***************************************************************************)
(* CosmeticFrame, for every set of URLs and names, whatever the engines say *)
(* of them, and any number of documents: an inductive invariant, and the    *)
(* safety properties of a frame that follow.                               *)
(***************************************************************************)
EXTENDS CosmeticFrame, TLAPS, SequenceTheorems

\* The exceptions for a URL, as the browser tells them.
Exceptions(u) == List(Resources[u], "exceptions")

UrlCalls == {i \in DOMAIN calls : calls[i].op = "url"}
HideCalls == {i \in DOMAIN calls : calls[i].op = "hide"}

\* Questions for rules come in the order of the documents, one each, and the last
\* has been answered when the document is ready.
CallsInv ==
  /\ \A i \in DOMAIN calls : calls[i].load <= load
  /\ \A i \in UrlCalls : ~sync /\ ~ready /\ (calls[i].load = load => calls[i].url = url)
  /\ \A i, j \in UrlCalls : i < j => calls[i].load < calls[j].load

\* What is ready are the rules of this document, or none.
ReadyInv == ready => load > 0 /\ url \in Url /\ resources \in {None, url}

\* The script's callbacks and timeouts to come, and what watches the document.
Polls == IF interval THEN 1 ELSE 0
Watches == Len(pump) + delayed + observers + Polls

\* The script is started once, when the handler has the exceptions.
StartInv ==
  /\ Watches <= 1
  /\ ~checking => Watches = 0 /\ ~timeout
  /\ checking => load > 0 /\ url \in Url /\ Exceptions(url) \subseteq exceptions

\* Questions of this document were asked with its exceptions, and so answered.
AskedInv ==
  /\ \A i \in HideCalls :
       calls[i].load = load => url \in Url /\ Exceptions(url) \subseteq calls[i].exceptions
  /\ \A s \in inserted : s.load = load => url \in Url /\ s.hides \notin Exceptions(url)

IInv ==
  /\ TypeOK /\ CallsInv /\ ReadyInv /\ StartInv /\ AskedInv
  /\ RulesOfTheirDocument
-----------------------------------------------------------------------------
(* Facts about the rules and the calls.                                    *)

LEMMA ResourcesFields ==
  ASSUME NEW u \in Url
  PROVE  /\ Exceptions(u) \in SUBSET Name
         /\ Flag(Resources[u], "generichide") \in BOOLEAN
<1> DEFINE d == EngineResources(Default[u])
           a == EngineResources(Additional[u])
           merged == WrapperResources(Default[u], Additional[u])
<1>1. /\ List(d, "exceptions") \in SUBSET Name /\ List(a, "exceptions") \in SUBSET Name
      /\ Flag(d, "generichide") \in BOOLEAN /\ Flag(a, "generichide") \in BOOLEAN
  BY ConstantsAssumption DEF EngineResources, List, Flag, EngineKey
<1>2. merged = MergeResourcesInto(a, d)
  BY DEF WrapperResources
<1> HIDE DEF d, a, merged
<1>3. /\ List(merged, "exceptions") \in SUBSET Name
      /\ Flag(merged, "generichide") \in BOOLEAN
  BY <1>1, <1>2 DEF MergeResourcesInto, List, Flag, Appended
<1>4. Resources[u] = UrlCosmeticResources(Default[u], Additional[u])
  BY DEF Resources
<1>5. /\ List(Resources[u], "exceptions") = List(merged, "exceptions")
      /\ Flag(Resources[u], "generichide") = Flag(merged, "generichide")
  BY <1>4 DEF UrlCosmeticResources, merged, List, Flag
<1> QED
  BY <1>3, <1>5 DEF Exceptions

\* With answers that parse nothing is lost of what either engine excepts.
LEMMA ExceptionsOfBoth ==
  ASSUME NEW u \in Url, DOMAIN Default[u] # {}
  PROVE  Exceptions(u) = List(Default[u], "exceptions") \cup List(Additional[u], "exceptions")
<1> DEFINE d == EngineResources(Default[u])
           a == EngineResources(Additional[u])
           merged == WrapperResources(Default[u], Additional[u])
<1>1. /\ d = Default[u] /\ "exceptions" \in DOMAIN d
      /\ List(a, "exceptions") = List(Additional[u], "exceptions")
  BY ConstantsAssumption DEF EngineResources, List, EngineKey
<1>2. merged = MergeResourcesInto(a, d)
  BY DEF WrapperResources
<1> HIDE DEF d, a, merged
<1>3. List(merged, "exceptions") = List(d, "exceptions") \cup List(a, "exceptions")
  BY <1>1, <1>2 DEF MergeResourcesInto, List, Appended
<1>4. Resources[u] = UrlCosmeticResources(Default[u], Additional[u])
  BY DEF Resources
<1>5. List(Resources[u], "exceptions") = List(merged, "exceptions")
  BY <1>4 DEF UrlCosmeticResources, merged, List
<1> QED
  BY <1>1, <1>3, <1>5 DEF Exceptions

LEMMA CallFields ==
  ASSUME NEW c \in Call
  PROVE  /\ c.op \in {"url", "hide"} /\ c.load \in 1..MaxLoads
         /\ c.op = "url" => c.url \in Url
         /\ c.op = "hide" => c.names \in SUBSET Name /\ c.exceptions \in SUBSET Name
BY DEF Call

LEMMA QueuedCalls ==
  ASSUME IInv
  PROVE  /\ Len(calls) \in Nat /\ DOMAIN calls = 1..Len(calls)
         /\ \A i \in DOMAIN calls : calls[i] \in Call /\ calls[i].load \in 1..load
         /\ load \in 0..MaxLoads
<1>1. calls \in Seq(Call) /\ load \in 0..MaxLoads
  BY DEF IInv, TypeOK, HandlerTypeOK
<1>2. Len(calls) \in Nat /\ DOMAIN calls = 1..Len(calls)
  BY <1>1, LenProperties
<1>3. \A i \in DOMAIN calls : calls[i] \in Call
  BY <1>1, <1>2, ElementOfSeq
<1>4. \A i \in DOMAIN calls : calls[i].load \in 1..MaxLoads /\ calls[i].load <= load
  BY <1>3, CallFields DEF IInv, CallsInv
<1> QED
  BY <1>1, <1>2, <1>3, <1>4

\* One call more: all that were there stay where they are.
LEMMA OneCallMore ==
  ASSUME IInv, NEW c \in Call, calls' = Append(calls, c)
  PROVE  /\ calls' \in Seq(Call)
         /\ \A i \in DOMAIN calls' :
              \/ i \in DOMAIN calls /\ calls'[i] = calls[i] /\ i < Len(calls) + 1
              \/ i = Len(calls) + 1 /\ calls'[i] = c
<1>1. calls \in Seq(Call) /\ Len(calls) \in Nat /\ DOMAIN calls = 1..Len(calls)
  BY QueuedCalls DEF IInv, TypeOK, HandlerTypeOK
<1>2. /\ calls' \in Seq(Call) /\ Len(calls') = Len(calls) + 1
      /\ \A i \in 1..Len(calls) : calls'[i] = calls[i]
      /\ calls'[Len(calls) + 1] = c
  BY <1>1, AppendProperties
<1>3. DOMAIN calls' = 1..(Len(calls) + 1)
  BY <1>2, LenProperties
<1> QED
  BY <1>1, <1>2, <1>3

\* Fewer calls, in the same order: what holds of them goes on to hold.
LEMMA FewerCalls ==
  ASSUME IInv, NEW d \in Nat,
         \A i \in DOMAIN calls' :
           i \in Nat /\ i + d \in DOMAIN calls /\ calls'[i] = calls[i + d]
  PROVE  /\ \A i \in DOMAIN calls' : calls'[i].load <= load
         /\ \A i \in UrlCalls' : ~sync /\ ~ready /\ (calls'[i].load = load => calls'[i].url = url)
         /\ \A i, j \in UrlCalls' : i < j => calls'[i].load < calls'[j].load
         /\ \A i \in HideCalls' :
              calls'[i].load = load => url \in Url /\ Exceptions(url) \subseteq calls'[i].exceptions
<1>1. \A i \in UrlCalls' : i \in Nat /\ i + d \in UrlCalls /\ calls'[i] = calls[i + d]
  BY DEF UrlCalls
<1>2. \A i \in HideCalls' : i + d \in HideCalls /\ calls'[i] = calls[i + d]
  BY DEF HideCalls
<1>3. \A i \in DOMAIN calls' : calls'[i].load <= load
  BY DEF IInv, CallsInv
<1>4. \A i \in UrlCalls' : ~sync /\ ~ready /\ (calls'[i].load = load => calls'[i].url = url)
  BY <1>1 DEF IInv, CallsInv
<1>5. ASSUME NEW i \in UrlCalls', NEW j \in UrlCalls', i < j
      PROVE  calls'[i].load < calls'[j].load
  <2>1. i + d < j + d
    BY <1>1, <1>5
  <2> QED
    BY <1>1, <2>1 DEF IInv, CallsInv
<1>6. \A i \in HideCalls' :
        calls'[i].load = load => url \in Url /\ Exceptions(url) \subseteq calls'[i].exceptions
  BY <1>2 DEF IInv, AskedInv
<1> QED
  BY <1>3, <1>4, <1>5, <1>6

\* The first call is answered.
LEMMA FirstCall ==
  ASSUME IInv, calls # <<>>, calls' = Tail(calls)
  PROVE  /\ calls' \in Seq(Call) /\ 1 \in DOMAIN calls /\ Head(calls) = calls[1]
         /\ Head(calls) \in Call
         /\ \A i \in DOMAIN calls' :
              i \in Nat /\ i + 1 \in DOMAIN calls /\ i + 1 > 1 /\ calls'[i] = calls[i + 1]
<1>1. calls \in Seq(Call) /\ Len(calls) \in Nat /\ DOMAIN calls = 1..Len(calls)
  BY QueuedCalls DEF IInv, TypeOK, HandlerTypeOK
<1>2. /\ Head(calls) \in Call /\ calls' \in Seq(Call) /\ Len(calls') = Len(calls) - 1
      /\ \A i \in 1..Len(calls') : calls'[i] = calls[i + 1]
  BY <1>1, HeadTailProperties
<1>3. Len(calls) # 0
  BY <1>1, EmptySeq
<1>4. Head(calls) = calls[1]
  BY <1>1
<1>5. DOMAIN calls' = 1..(Len(calls) - 1)
  BY <1>2, LenProperties
<1> QED
  BY <1>1, <1>2, <1>3, <1>4, <1>5
-----------------------------------------------------------------------------
(* The handler and the pipe.                                               *)

LEMMA UrlAnswerKeeps ==
  ASSUME IInv, OnUrlCosmeticResources, UNCHANGED scriptVars
  PROVE  IInv'
<1> DEFINE k == calls[1].load
<1>1. /\ calls # <<>> /\ calls' = Tail(calls) /\ Head(calls).op = "url"
      /\ resources' = Head(calls).url
      /\ ready' = (ready \/ Head(calls).load = load)
      /\ UNCHANGED <<generichide, exceptions, injected, world, sync, load, url, waiting,
                     connected, history>>
  BY DEF OnUrlCosmeticResources, OnProcessURL
<1>2. /\ calls' \in Seq(Call) /\ 1 \in UrlCalls /\ Head(calls) = calls[1] /\ calls[1] \in Call
      /\ \A i \in DOMAIN calls' :
           i \in Nat /\ i + 1 \in DOMAIN calls /\ i + 1 > 1 /\ calls'[i] = calls[i + 1]
  BY <1>1, FirstCall DEF UrlCalls
<1>3. /\ calls[1].url \in Url /\ calls[1].load \in 1..load /\ load \in 0..MaxLoads
      /\ ~sync /\ ~ready /\ (calls[1].load = load => calls[1].url = url)
  BY <1>1, <1>2, CallFields, QueuedCalls DEF IInv, CallsInv, UrlCalls
<1>4. ready' <=> calls[1].load = load
  BY <1>1, <1>2, <1>3
<1>5. /\ \A i \in DOMAIN calls' : calls'[i].load <= load
      /\ \A i \in UrlCalls' : ~sync /\ ~ready /\ (calls'[i].load = load => calls'[i].url = url)
      /\ \A i, j \in UrlCalls' : i < j => calls'[i].load < calls'[j].load
      /\ \A i \in HideCalls' :
           calls'[i].load = load => url \in Url /\ Exceptions(url) \subseteq calls'[i].exceptions
  BY <1>2, FewerCalls
<1>6. ASSUME NEW i \in UrlCalls' PROVE ~ready'
  <2>1. i + 1 \in UrlCalls /\ 1 < i + 1
    BY <1>2 DEF UrlCalls
  <2>2. calls[1].load < calls[i + 1].load /\ calls[i + 1].load \in 1..load
    BY <1>2, <2>1, QueuedCalls DEF IInv, CallsInv, UrlCalls
  <2> QED
    BY <1>3, <1>4, <2>2
<1>7. TypeOK'
  <2>1. ScriptTypeOK'
    BY DEF IInv, TypeOK, ScriptTypeOK, scriptVars, queueVars, startVars, watchVars
  <2>2. ready' \in BOOLEAN /\ resources' \in Url
    BY <1>1, <1>2, <1>3 DEF IInv, TypeOK, HandlerTypeOK
  <2> QED
    BY <1>1, <1>2, <2>1, <2>2 DEF IInv, TypeOK, HandlerTypeOK, history
<1>8. CallsInv'
  BY <1>1, <1>5, <1>6 DEF CallsInv
<1>9. ReadyInv'
  BY <1>1, <1>2, <1>3, <1>4 DEF ReadyInv
<1>10. StartInv'
  BY <1>1 DEF IInv, StartInv, Watches, Polls, scriptVars, startVars, watchVars
<1>11. AskedInv' /\ RulesOfTheirDocument'
  BY <1>1, <1>5 DEF IInv, AskedInv, RulesOfTheirDocument, history
<1> QED
  BY <1>7, <1>8, <1>9, <1>10, <1>11 DEF IInv

LEMMA HideAnswerKeeps ==
  ASSUME IInv, OnHiddenClassIdSelectors, UNCHANGED scriptVars
  PROVE  IInv'
<1> DEFINE c == calls[1]
           found == WrapperSelectors(DefaultGeneric, ForcedGeneric, c.names, c.exceptions)
           hidden == found.hide_selectors \cup found.force_hide_selectors
<1>1. /\ calls # <<>> /\ calls' = Tail(calls) /\ Head(calls).op = "hide"
      /\ UNCHANGED <<handlerVars, frameVars, connected, applied>>
  BY DEF OnHiddenClassIdSelectors
<1>2. /\ calls' \in Seq(Call) /\ 1 \in HideCalls /\ Head(calls) = c /\ c \in Call
      /\ \A i \in DOMAIN calls' :
           i \in Nat /\ i + 1 \in DOMAIN calls /\ i + 1 > 1 /\ calls'[i] = calls[i + 1]
  BY <1>1, FirstCall DEF HideCalls
<1>3. /\ c.names \in SUBSET Name /\ c.exceptions \in SUBSET Name
      /\ c.load \in 1..load
      /\ c.load = load => url \in Url /\ Exceptions(url) \subseteq c.exceptions
  BY <1>1, <1>2, CallFields, QueuedCalls DEF IInv, AskedInv, HideCalls
<1>4. inserted' = inserted \/
      inserted' = inserted \cup {[load |-> c.load, hides |-> n] : n \in hidden}
  BY <1>2 DEF OnHiddenClassIdSelectors
<1>5. \A n \in hidden : n \in Name /\ n \notin c.exceptions
  BY <1>3 DEF WrapperSelectors, EngineSelectors
<1> HIDE DEF found, hidden
<1>6. \A s \in inserted' :
        s \in inserted \/ (\E n \in hidden : s = [load |-> c.load, hides |-> n])
  BY <1>4
<1>7. /\ \A i \in DOMAIN calls' : calls'[i].load <= load
      /\ \A i \in UrlCalls' : ~sync /\ ~ready /\ (calls'[i].load = load => calls'[i].url = url)
      /\ \A i, j \in UrlCalls' : i < j => calls'[i].load < calls'[j].load
      /\ \A i \in HideCalls' :
           calls'[i].load = load => url \in Url /\ Exceptions(url) \subseteq calls'[i].exceptions
  BY <1>2, FewerCalls
<1>8. TypeOK'
  <2>1. ScriptTypeOK'
    BY DEF IInv, TypeOK, ScriptTypeOK, scriptVars, queueVars, startVars, watchVars
  <2>2. inserted' \subseteq [load : 1..load, hides : Name]
    BY <1>3, <1>5, <1>6 DEF IInv, TypeOK, HandlerTypeOK
  <2> QED
    BY <1>1, <1>2, <2>1, <2>2 DEF IInv, TypeOK, HandlerTypeOK, handlerVars, frameVars
<1>9. CallsInv' /\ ReadyInv'
  BY <1>1, <1>7 DEF IInv, CallsInv, ReadyInv, handlerVars, frameVars
<1>10. StartInv'
  BY <1>1 DEF IInv, StartInv, Watches, Polls, scriptVars, startVars, watchVars, handlerVars, frameVars
<1>11. AskedInv'
  <2>1. ASSUME NEW s \in inserted', s.load = load
        PROVE  url \in Url /\ s.hides \notin Exceptions(url)
    BY <1>3, <1>5, <1>6, <2>1 DEF IInv, AskedInv
  <2> QED
    BY <1>1, <1>7, <2>1 DEF AskedInv, frameVars
<1>12. RulesOfTheirDocument'
  BY <1>1 DEF IInv, RulesOfTheirDocument, frameVars
<1> QED
  BY <1>8, <1>9, <1>10, <1>11, <1>12 DEF IInv

\* The pipe breaks, or is made anew, or nothing happens.
LEMMA PipeKeeps ==
  ASSUME IInv, connected' \in BOOLEAN, calls' \in Seq(Call),
         \A i \in DOMAIN calls' : i \in DOMAIN calls /\ calls'[i] = calls[i],
         UNCHANGED <<handlerVars, frameVars, history, scriptVars>>
  PROVE  IInv'
<1> USE DEF handlerVars, frameVars, history
<1>1. DOMAIN calls = 1..Len(calls) /\ Len(calls) \in Nat
  BY QueuedCalls
<1>2. \A i \in DOMAIN calls' : i \in Nat /\ i + 0 \in DOMAIN calls /\ calls'[i] = calls[i + 0]
  BY <1>1
<1>3. /\ \A i \in DOMAIN calls' : calls'[i].load <= load
      /\ \A i \in UrlCalls' : ~sync /\ ~ready /\ (calls'[i].load = load => calls'[i].url = url)
      /\ \A i, j \in UrlCalls' : i < j => calls'[i].load < calls'[j].load
      /\ \A i \in HideCalls' :
           calls'[i].load = load => url \in Url /\ Exceptions(url) \subseteq calls'[i].exceptions
  BY <1>2, FewerCalls
<1>4. TypeOK'
  <2>1. ScriptTypeOK'
    BY DEF IInv, TypeOK, ScriptTypeOK, scriptVars, queueVars, startVars, watchVars
  <2> QED
    BY <2>1 DEF IInv, TypeOK, HandlerTypeOK
<1>5. CallsInv' /\ ReadyInv'
  BY <1>3 DEF IInv, CallsInv, ReadyInv
<1>6. StartInv'
  BY DEF IInv, StartInv, Watches, Polls, scriptVars, startVars, watchVars
<1>7. AskedInv' /\ RulesOfTheirDocument'
  BY <1>3 DEF IInv, AskedInv, RulesOfTheirDocument
<1> QED
  BY <1>4, <1>5, <1>6, <1>7 DEF IInv

LEMMA DisconnectKeeps ==
  ASSUME IInv, Disconnect \/ OnRemoteDisconnect \/ UNCHANGED <<pipeVars, handlerVars, frameVars, history>>,
         UNCHANGED scriptVars
  PROVE  IInv'
<1>1. calls \in Seq(Call) /\ Len(calls) \in Nat /\ DOMAIN calls = 1..Len(calls)
  BY QueuedCalls DEF IInv, TypeOK, HandlerTypeOK
<1>2. CASE Disconnect
  <2>1. PICK answered \in 0..Len(calls) : calls' = SubSeq(calls, 1, answered)
    BY <1>2 DEF Disconnect
  <2>2. \A i \in 1..answered : calls[i] \in Call
    BY <1>1, QueuedCalls
  <2>3. /\ calls' \in Seq(Call) /\ Len(calls') = answered
        /\ \A i \in 1..answered : calls'[i] = calls[i]
    BY <1>1, <2>1, <2>2, SubSeqProperties
  <2>4. DOMAIN calls' = 1..answered
    BY <2>3, LenProperties
  <2>5. \A i \in DOMAIN calls' : i \in DOMAIN calls /\ calls'[i] = calls[i]
    BY <1>1, <2>3, <2>4
  <2>6. connected' = FALSE /\ UNCHANGED <<handlerVars, frameVars, history>>
    BY <1>2 DEF Disconnect
  <2> QED
    BY <2>3, <2>5, <2>6, PipeKeeps
<1>3. CASE ~Disconnect
  BY <1>1, <1>3, PipeKeeps DEF OnRemoteDisconnect, pipeVars, IInv, TypeOK, HandlerTypeOK
<1> QED
  BY <1>2, <1>3
-----------------------------------------------------------------------------
(* The script.                                                             *)

\* A step of the script asks nothing, or asks with the exceptions of now.
Asks == checking /\ \E names \in SUBSET Name : HiddenClassIdSelectors(names)

LEMMA ScriptKeeps ==
  ASSUME IInv, FrameUnchanged, ScriptTypeOK', UNCHANGED calls \/ Asks,
         Watches' <= 1, checking' = checking, ~checking => Watches' = 0 /\ ~timeout'
  PROVE  IInv'
<1> USE DEF FrameUnchanged, handlerVars, frameVars, history
<1>1. StartInv'
  BY DEF IInv, StartInv
<1>2. CASE UNCHANGED calls
  <2>1. TypeOK'
    BY <1>2 DEF IInv, TypeOK, HandlerTypeOK
  <2>2. CallsInv' /\ ReadyInv' /\ AskedInv' /\ RulesOfTheirDocument'
    BY <1>2 DEF IInv, CallsInv, ReadyInv, AskedInv, RulesOfTheirDocument, UrlCalls, HideCalls
  <2> QED
    BY <1>1, <2>1, <2>2 DEF IInv
<1>3. CASE Asks /\ calls' # calls
  <2>1. checking /\ load > 0 /\ url \in Url /\ Exceptions(url) \subseteq exceptions
    BY <1>3 DEF Asks, IInv, StartInv
  <2>2. PICK names \in SUBSET Name : HiddenClassIdSelectors(names)
    BY <1>3 DEF Asks
  <2>3. load \in 1..MaxLoads /\ exceptions \in SUBSET Name
    BY <2>1 DEF IInv, TypeOK, HandlerTypeOK
  <2>4. PICK c \in Call :
          /\ c = [op |-> "hide", load |-> load, names |-> names, exceptions |-> exceptions]
          /\ calls' = Append(calls, c)
    BY <1>3, <2>2, <2>3 DEF HiddenClassIdSelectors, Send, Call
  <2>5. c.op = "hide" /\ c.load = load /\ c.exceptions = exceptions
    BY <2>4
  <2>6. /\ calls' \in Seq(Call)
        /\ \A i \in DOMAIN calls' :
             \/ i \in DOMAIN calls /\ calls'[i] = calls[i] /\ i < Len(calls) + 1
             \/ i = Len(calls) + 1 /\ calls'[i] = c
    BY <2>4, OneCallMore
  <2>7. TypeOK'
    BY <2>6 DEF IInv, TypeOK, HandlerTypeOK
  <2>8. CallsInv'
    <3>1. \A i \in DOMAIN calls' : calls'[i].load <= load
      BY <2>3, <2>5, <2>6 DEF IInv, CallsInv
    <3>2. \A i \in UrlCalls' : i \in UrlCalls /\ calls'[i] = calls[i]
      BY <2>5, <2>6 DEF UrlCalls
    <3> QED
      BY <3>1, <3>2 DEF IInv, CallsInv
  <2>9. AskedInv'
    <3>1. \A i \in HideCalls' : (i \in HideCalls /\ calls'[i] = calls[i]) \/ calls'[i] = c
      BY <2>6 DEF HideCalls
    <3> QED
      BY <2>1, <2>5, <3>1 DEF IInv, AskedInv
  <2>10. ReadyInv' /\ RulesOfTheirDocument'
    BY DEF IInv, ReadyInv, RulesOfTheirDocument
  <2> QED
    BY <1>1, <2>7, <2>8, <2>9, <2>10 DEF IInv
<1> QED
  BY <1>2, <1>3

\* fetchNewClassIdRules and queryAttrsFromDocument ask for names, if anything.
LEMMA FetchAsks ==
  ASSUME checking, NEW found \in SUBSET Name, NEW toAsk \in SUBSET Name,
         NEW known \in SUBSET Name, FetchNewClassIdRules(found, toAsk, known)
  PROVE  /\ elements' \in SUBSET Name /\ queue' \in SUBSET Name /\ queried' \in SUBSET Name
         /\ UNCHANGED calls \/ Asks
BY DEF FetchNewClassIdRules, QueueElementIdAndClasses, Asks

LEMMA QueryAsks ==
  ASSUME IInv, checking, QueryAttrsFromDocument
  PROVE  /\ elements' \in SUBSET Name /\ queue' \in SUBSET Name /\ queried' \in SUBSET Name
         /\ UNCHANGED calls \/ Asks
<1>1. /\ elements \in SUBSET Name /\ queue \in SUBSET Name /\ queried \in SUBSET Name
      /\ dom \in SUBSET Name
  BY DEF IInv, TypeOK, ScriptTypeOK
<1>2. elements \cup dom \in SUBSET Name
  BY <1>1
<1> QED
  BY <1>1, <1>2, FetchAsks DEF QueryAttrsFromDocument, queueVars

\* What watches a document, counted.
LEMMA Counts ==
  ASSUME IInv
  PROVE  /\ Len(pump) \in Nat /\ delayed \in Nat /\ observers \in Nat /\ Polls \in Nat
         /\ Watches = Len(pump) + delayed + observers + Polls
         /\ Watches <= 1
<1>1. Len(pump) \in Nat /\ delayed \in Nat /\ observers \in Nat
  BY LenProperties DEF IInv, TypeOK, ScriptTypeOK
<1>2. Watches <= 1
  BY DEF IInv, StartInv
<1>3. Polls \in Nat
  BY DEF Polls
<1> QED
  BY <1>1, <1>2, <1>3 DEF Watches

\* Whatever the script does, its start has been scheduled.
LEMMA Scheduled ==
  ASSUME IInv
  PROVE  /\ interval => Polls = 1
         /\ Len(pump) # 0 \/ delayed # 0 \/ observers # 0 \/ interval \/ timeout => checking
         /\ ~checking => Watches = 0 /\ ~timeout
<1>1. interval => Polls = 1
  BY DEF Polls
<1>2. ~checking => Watches = 0 /\ ~timeout
  BY DEF IInv, StartInv
<1>3. Watches = 0 => Len(pump) = 0 /\ delayed = 0 /\ observers = 0 /\ Polls = 0
  BY Counts
<1> QED
  BY <1>1, <1>2, <1>3

LEMMA PageKeeps ==
  ASSUME IInv, Appear \/ Disappear
  PROVE  IInv'
<1>1. /\ FrameUnchanged /\ UNCHANGED <<queueVars, startVars, watchVars, timeout, calls>>
      /\ dom' \in SUBSET Name /\ records' \in SUBSET Record
  BY DEF Appear, Disappear, IInv, TypeOK, ScriptTypeOK, Record
<1>2. ScriptTypeOK'
  BY <1>1 DEF IInv, TypeOK, ScriptTypeOK, queueVars, startVars, watchVars
<1>3. Watches' = Watches /\ checking' = checking /\ timeout' = timeout
  BY <1>1 DEF Watches, Polls, startVars, watchVars
<1> QED
  BY <1>1, <1>2, <1>3, Counts, Scheduled, ScriptKeeps

LEMMA MutationsKeep ==
  ASSUME IInv, OnMutations
  PROVE  IInv'
<1> DEFINE in(kind) == {r.name : r \in {x \in records : x.in = kind}}
           new == in("attribute") \ queried
           found == elements \cup in("element")
<1>1. /\ observers > 0 /\ records' = {} /\ FrameUnchanged
      /\ UNCHANGED <<dom, startVars>>
  BY DEF OnMutations
<1>2. PICK many \in BOOLEAN, throttle \in {t \in BOOLEAN : timeout => t} :
        /\ IF many THEN UsePolling ELSE UNCHANGED watchVars
        /\ IF TRUE \in ccGeneric \/ throttle
           THEN /\ queue' = queue \cup new /\ queried' = queried \cup new
                /\ elements' = IF many THEN {} ELSE found
                /\ timeout' = (timeout \/ TRUE \notin ccGeneric)
                /\ UNCHANGED calls
           ELSE /\ FetchNewClassIdRules(IF many THEN {} ELSE found, queue \cup new,
                                        queried \cup new)
                /\ UNCHANGED timeout
  BY DEF OnMutations
<1>3. checking
  BY <1>1, Counts, Scheduled
<1>4. /\ records \subseteq Record /\ elements \in SUBSET Name /\ queue \in SUBSET Name
      /\ queried \in SUBSET Name /\ timeout \in BOOLEAN
  BY DEF IInv, TypeOK, ScriptTypeOK
<1>5. new \in SUBSET Name /\ found \in SUBSET Name
  BY <1>4 DEF Record
<1> HIDE DEF new, found
<1>6. /\ elements' \in SUBSET Name /\ queue' \in SUBSET Name /\ queried' \in SUBSET Name
      /\ timeout' \in BOOLEAN /\ (UNCHANGED calls \/ Asks)
  <2>1. CASE TRUE \in ccGeneric \/ throttle
    BY <1>2, <1>4, <1>5, <2>1
  <2>2. CASE ~(TRUE \in ccGeneric \/ throttle)
    <3> DEFINE names == IF many THEN {} ELSE found
    <3>1. names \in SUBSET Name /\ queue \cup new \in SUBSET Name /\ queried \cup new \in SUBSET Name
      BY <1>4, <1>5
    <3>2. FetchNewClassIdRules(names, queue \cup new, queried \cup new) /\ UNCHANGED timeout
      BY <1>2, <2>2
    <3> HIDE DEF names
    <3> QED
      BY <1>3, <1>4, <3>1, <3>2, FetchAsks
  <2> QED
    BY <2>1, <2>2
<1>7. /\ observers' \in Nat /\ interval' \in BOOLEAN
      /\ Watches' <= 1
  <2>1. /\ Len(pump)' = Len(pump) /\ delayed' = delayed
        /\ Watches' = Len(pump) + delayed + observers' + Polls'
    BY <1>1 DEF Watches, startVars
  <2>2. CASE many
    <3>1. observers' = observers - 1 /\ interval' = TRUE /\ Polls' = 1
      BY <1>2, <2>2 DEF UsePolling, Polls
    <3>2. observers' \in Nat /\ Watches' <= 1
      BY <1>1, <2>1, <3>1, Counts
    <3> QED
      BY <3>1, <3>2
  <2>3. CASE ~many
    <3>1. observers' = observers /\ interval' = interval /\ Polls' = Polls
      BY <1>2, <2>3 DEF watchVars, Polls
    <3>2. observers' \in Nat /\ Watches' <= 1
      BY <2>1, <3>1, Counts
    <3> QED
      BY <3>1, <3>2 DEF IInv, TypeOK, ScriptTypeOK
  <2> QED
    BY <2>2, <2>3
<1>8. ScriptTypeOK'
  BY <1>1, <1>6, <1>7 DEF IInv, TypeOK, ScriptTypeOK, startVars
<1>9. checking' = checking
  BY <1>1 DEF startVars
<1> QED
  BY <1>1, <1>3, <1>6, <1>7, <1>8, <1>9, ScriptKeeps

LEMMA TimersKeep ==
  ASSUME IInv, OnThrottleTimeout \/ OnInterval
  PROVE  IInv'
<1>1. checking /\ FrameUnchanged /\ UNCHANGED <<dom, records, startVars>>
  BY Scheduled DEF OnThrottleTimeout, OnInterval
<1>2. /\ elements \in SUBSET Name /\ queue \in SUBSET Name /\ queried \in SUBSET Name
  BY DEF IInv, TypeOK, ScriptTypeOK
<1>3. /\ elements' \in SUBSET Name /\ queue' \in SUBSET Name /\ queried' \in SUBSET Name
      /\ timeout' \in BOOLEAN /\ (UNCHANGED calls \/ Asks)
  BY <1>1, <1>2, FetchAsks, QueryAsks
     DEF OnThrottleTimeout, OnInterval, IInv, TypeOK, ScriptTypeOK
<1>4. \/ UNCHANGED watchVars
      \/ interval /\ interval' = FALSE /\ observers' = observers + 1
  BY DEF OnThrottleTimeout, OnInterval, UseMutationObserver
<1>5. /\ observers' \in Nat /\ interval' \in BOOLEAN /\ Watches' <= 1
  <2>1. /\ Len(pump)' = Len(pump) /\ delayed' = delayed
        /\ Watches' = Len(pump) + delayed + observers' + Polls'
    BY <1>1 DEF Watches, startVars
  <2>2. CASE UNCHANGED watchVars
    <3>1. observers' = observers /\ interval' = interval /\ Polls' = Polls
      BY <2>2 DEF watchVars, Polls
    <3>2. observers' \in Nat /\ Watches' <= 1
      BY <2>1, <3>1, Counts
    <3> QED
      BY <3>1, <3>2 DEF IInv, TypeOK, ScriptTypeOK
  <2>3. CASE interval /\ interval' = FALSE /\ observers' = observers + 1
    <3>1. Polls = 1 /\ Polls' = 0
      BY <2>3 DEF Polls
    <3>2. observers' \in Nat /\ Watches' <= 1
      BY <2>1, <2>3, <3>1, Counts
    <3> QED
      BY <2>3, <3>2
  <2> QED
    BY <1>4, <2>2, <2>3
<1>6. ScriptTypeOK'
  BY <1>1, <1>3, <1>5 DEF IInv, TypeOK, ScriptTypeOK, startVars
<1>7. checking' = checking
  BY <1>1 DEF startVars
<1> QED
  BY <1>1, <1>3, <1>5, <1>6, <1>7, ScriptKeeps

LEMMA StartKeeps ==
  ASSUME IInv, OnIdle \/ OnFirstSelectors
  PROVE  IInv'
<1>1. FrameUnchanged /\ UNCHANGED <<loaded, ccGeneric, procedural, started, checking>>
  BY DEF OnIdle, OnFirstSelectors
<1>2. pump \in Seq(BOOLEAN) /\ delayed \in Nat
  BY DEF IInv, TypeOK, ScriptTypeOK
<1>3. /\ checking /\ pump' \in Seq(BOOLEAN) /\ Len(pump)' \in Nat /\ delayed' \in Nat
      /\ \/ StartObserving /\ Len(pump)' + delayed' = Len(pump) + delayed - 1
         \/ /\ UNCHANGED <<dom, records, queueVars, watchVars, timeout, calls>>
            /\ Len(pump)' + delayed' <= Len(pump) + delayed
  <2>1. CASE OnIdle
    <3>1. pump # <<>> /\ pump' = Tail(pump)
      BY <2>1 DEF OnIdle
    <3>2. /\ pump' \in Seq(BOOLEAN) /\ Len(pump)' = Len(pump) - 1
          /\ Len(pump) \in Nat \ {0}
      BY <1>2, <3>1, HeadTailProperties, EmptySeq
    <3>3. \/ StartObserving /\ delayed' = delayed
          \/ /\ delayed' \in {delayed, delayed + 1}
             /\ UNCHANGED <<dom, records, queueVars, watchVars, timeout, calls>>
      BY <2>1 DEF OnIdle
    <3>4. Len(pump)' \in Nat /\ Len(pump)' + delayed = Len(pump) + delayed - 1
      BY <1>2, <3>2
    <3>5. ASSUME delayed' \in {delayed, delayed + 1}
          PROVE  delayed' \in Nat /\ Len(pump)' + delayed' <= Len(pump) + delayed
      BY <1>2, <3>2, <3>5
    <3>6. checking
      BY <3>2, Scheduled
    <3> QED
      BY <1>2, <3>2, <3>3, <3>4, <3>5, <3>6, Zenon
  <2>2. CASE OnFirstSelectors
    <3>1. pump' = pump /\ delayed > 0 /\ delayed' = delayed - 1 /\ StartObserving
      BY <2>2 DEF OnFirstSelectors
    <3>2. /\ Len(pump)' \in Nat /\ delayed' \in Nat
          /\ Len(pump)' + delayed' = Len(pump) + delayed - 1
          /\ delayed # 0
      BY <1>2, <3>1, Counts
    <3>3. checking
      BY <3>2, Scheduled
    <3> QED
      BY <1>2, <3>1, <3>2, <3>3, Zenon
  <2> QED
    BY <2>1, <2>2
<1>4. occurred' \in BOOLEAN
  BY DEF OnIdle, OnFirstSelectors, IInv, TypeOK, ScriptTypeOK
<1>5. Watches' = Len(pump)' + delayed' + observers' + Polls'
  BY DEF Watches
<1>6. CASE StartObserving /\ Len(pump)' + delayed' = Len(pump) + delayed - 1
  <2>1. /\ elements' \in SUBSET Name /\ queue' \in SUBSET Name /\ queried' \in SUBSET Name
        /\ UNCHANGED <<dom, records, timeout>> /\ (UNCHANGED calls \/ Asks)
        /\ interval' = FALSE /\ observers' = observers + 1 /\ Polls' = 0
    BY <1>3, <1>6, QueryAsks DEF StartObserving, UseMutationObserver, Polls
  <2>2. observers' \in Nat /\ Watches' <= 1
    <3>1. /\ Len(pump)' + delayed' = Len(pump) + delayed - 1
          /\ Len(pump)' \in Nat /\ delayed' \in Nat
          /\ observers' = observers + 1 /\ Polls' = 0
      BY <1>3, <1>6, <2>1
    <3>2. observers' \in Nat /\ Len(pump)' + delayed' + observers' = Len(pump) + delayed + observers
      BY <3>1, Counts
    <3>3. Watches' = Len(pump) + delayed + observers
      BY <1>5, <3>1, <3>2, Counts
    <3> QED
      BY <3>2, <3>3, Counts
  <2>3. ScriptTypeOK'
    BY <1>1, <1>3, <1>4, <2>1, <2>2 DEF IInv, TypeOK, ScriptTypeOK
  <2> QED
    BY <1>1, <1>3, <2>1, <2>2, <2>3, ScriptKeeps
<1>7. CASE /\ UNCHANGED <<dom, records, queueVars, watchVars, timeout, calls>>
           /\ Len(pump)' + delayed' <= Len(pump) + delayed
  <2>1. observers' = observers /\ interval' = interval /\ Polls' = Polls
    BY <1>7 DEF watchVars, Polls
  <2>2. Watches' <= 1
    BY <1>3, <1>5, <1>7, <2>1, Counts
  <2>3. ScriptTypeOK'
    BY <1>1, <1>3, <1>4, <1>7 DEF IInv, TypeOK, ScriptTypeOK, queueVars, watchVars
  <2> QED
    BY <1>1, <1>3, <1>7, <2>2, <2>3, ScriptKeeps
<1> QED
  BY <1>3, <1>6, <1>7
-----------------------------------------------------------------------------
(* The frame.                                                              *)

\* The rules of the document are applied, the first time with a start of the
\* script, or there is nothing to apply.
LEMMA FrameKeeps ==
  ASSUME IInv,
         UNCHANGED <<sync, load, url, ready, resources, pipeVars, inserted,
                     dom, records, queueVars, watchVars, timeout, occurred, delayed>>,
         waiting' \in 0..MaxWaiting, generichide' \in BOOLEAN,
         exceptions' \in SUBSET Name, exceptions \subseteq exceptions',
         injected' \in BOOLEAN, world' \in BOOLEAN,
         applied' \subseteq Url, applied' \subseteq {url},
         loaded' \in BOOLEAN, procedural' \in BOOLEAN, started' \in BOOLEAN,
         ccGeneric' \in SUBSET BOOLEAN, pump' \in Seq(BOOLEAN),
         \/ UNCHANGED <<checking, pump>>
         \/ /\ ~checking /\ checking' = TRUE /\ Len(pump)' = Len(pump) + 1
            /\ load > 0 /\ url \in Url /\ Exceptions(url) \subseteq exceptions'
  PROVE  IInv'
<1> USE DEF pipeVars, queueVars, watchVars
<1>1. TypeOK'
  <2>1. HandlerTypeOK'
    BY DEF IInv, TypeOK, HandlerTypeOK
  <2>2. ScriptTypeOK'
    BY DEF IInv, TypeOK, ScriptTypeOK
  <2> QED
    BY <2>1, <2>2 DEF TypeOK
<1>2. CallsInv' /\ ReadyInv' /\ AskedInv' /\ RulesOfTheirDocument'
  BY DEF IInv, CallsInv, ReadyInv, AskedInv, RulesOfTheirDocument, UrlCalls, HideCalls
<1>3. StartInv'
  <2>1. Watches' = Len(pump)' + delayed + observers + Polls
    BY DEF Watches, Polls
  <2>2. CASE UNCHANGED <<checking, pump>>
    <3>1. Watches' = Watches
      BY <2>1, <2>2 DEF Watches
    <3> QED
      BY <2>2, <3>1 DEF IInv, StartInv
  <2>3. CASE /\ ~checking /\ checking' = TRUE /\ Len(pump)' = Len(pump) + 1
             /\ load > 0 /\ url \in Url /\ Exceptions(url) \subseteq exceptions'
    <3>1. Watches = 0
      BY <2>3, Scheduled
    <3>2. Watches' <= 1
      BY <2>1, <2>3, <3>1, Counts
    <3> QED
      BY <2>3, <3>2 DEF StartInv
  <2> QED
    BY <2>2, <2>3
<1> QED
  BY <1>1, <1>2, <1>3 DEF IInv

LEMMA ApplyRulesKeep ==
  ASSUME IInv, ready, ApplyRules, ApplyRulesKeeps, waiting' \in 0..MaxWaiting
  PROVE  IInv'
<1> DEFINE dict == Resources[resources]
           generic == IF ccGeneric = {} THEN {Flag(dict, "generichide")} ELSE ccGeneric
<1>1. UNCHANGED <<sync, load, url, ready, pipeVars, inserted,
                  dom, records, queueVars, watchVars, timeout>>
  BY DEF ApplyRulesKeeps
<1>2. CASE resources = None
  <2>1. UNCHANGED <<handlerVars, applied, startVars>>
    BY <1>2 DEF ApplyRules
  <2> QED
    BY <1>1, <2>1, FrameKeeps
       DEF handlerVars, startVars, IInv, TypeOK, HandlerTypeOK, ScriptTypeOK, RulesOfTheirDocument
<1>3. CASE resources # None
  <2>1. load > 0 /\ url \in Url /\ resources = url
    BY <1>3 DEF IInv, ReadyInv
  <2>2. /\ List(dict, "exceptions") = Exceptions(url) /\ Exceptions(url) \in SUBSET Name
        /\ Flag(dict, "generichide") \in BOOLEAN
    BY <2>1, ResourcesFields DEF Exceptions
  <2>3. /\ generichide' = Flag(dict, "generichide") /\ world' = TRUE /\ ccGeneric' = generic
        /\ ExecuteObservingBundleEntryPoint(generic)
        /\ exceptions' = exceptions \cup List(dict, "exceptions")
        /\ applied' = applied \cup {resources} /\ UNCHANGED resources
    BY <1>3 DEF ApplyRules, CSSRulesRoutine
  <2>4. procedural' \in BOOLEAN
    BY <1>3 DEF ApplyRules, IInv, TypeOK, ScriptTypeOK
  <2>5. injected' = TRUE /\ loaded' \in BOOLEAN
    BY <2>3 DEF ExecuteObservingBundleEntryPoint
  <2>6. \/ UNCHANGED <<started, checking, occurred, pump, delayed>>
         \/ TryScheduleQueuePump(generic)
    BY <2>3 DEF ExecuteObservingBundleEntryPoint
  <2>7. generic \in SUBSET BOOLEAN /\ pump \in Seq(BOOLEAN) /\ started \in BOOLEAN
    BY <2>2 DEF IInv, TypeOK, ScriptTypeOK
  <2> HIDE DEF dict, generic
  <2>8. /\ started' \in BOOLEAN /\ pump' \in Seq(BOOLEAN) /\ UNCHANGED <<occurred, delayed>>
        /\ \/ UNCHANGED <<checking, pump>>
           \/ ~checking /\ checking' = TRUE /\ Len(pump)' = Len(pump) + 1
    <3>1. CASE UNCHANGED <<started, checking, occurred, pump, delayed>>
      BY <2>7, <3>1
    <3>2. CASE TryScheduleQueuePump(generic)
      <4>1. started' = TRUE /\ UNCHANGED <<occurred, delayed>>
        BY <3>2 DEF TryScheduleQueuePump
      <4>2. PICK hide \in BOOLEAN : ScheduleQueuePump(hide)
        BY <3>2 DEF TryScheduleQueuePump
      <4>3. /\ Append(pump, hide) \in Seq(BOOLEAN)
            /\ Len(Append(pump, hide)) = Len(pump) + 1
        BY <2>7, AppendProperties
      <4> QED
        BY <2>7, <4>1, <4>2, <4>3 DEF ScheduleQueuePump
    <3> QED
      BY <2>6, <3>1, <3>2
  <2>9. /\ exceptions' \in SUBSET Name /\ exceptions \subseteq exceptions'
        /\ Exceptions(url) \subseteq exceptions'
    BY <2>2, <2>3 DEF IInv, TypeOK, HandlerTypeOK
  <2>10. applied' \subseteq Url /\ applied' \subseteq {url}
    BY <2>1, <2>3 DEF IInv, RulesOfTheirDocument
  <2>11. /\ generichide' \in BOOLEAN /\ injected' \in BOOLEAN /\ world' \in BOOLEAN
        /\ loaded' \in BOOLEAN /\ procedural' \in BOOLEAN /\ ccGeneric' \in SUBSET BOOLEAN
    BY <2>2, <2>3, <2>7, <2>4, <2>5
  <2> QED
    BY <1>1, <2>1, <2>3, <2>8, <2>9, <2>10, <2>11, FrameKeeps
<1> QED
  BY <1>2, <1>3

LEMMA DocumentStartKeeps ==
  ASSUME IInv, RunScriptsAtDocumentStart \/ RunApplyRules \/ LaunchContentPicker
  PROVE  IInv'
<1>1. waiting \in Nat /\ waiting <= MaxWaiting /\ MaxWaiting \in Nat
  BY ConstantsAssumption DEF IInv, TypeOK, HandlerTypeOK
<1>2. CASE ready /\ ApplyRules /\ ApplyRulesKeeps /\ waiting' \in {waiting, waiting - 1} /\ waiting' >= 0
  BY <1>1, <1>2, ApplyRulesKeep
<1>3. CASE /\ waiting < MaxWaiting /\ waiting' = waiting + 1
           /\ UNCHANGED <<handlerVars, applied, startVars>> /\ ApplyRulesKeeps
  <2>1. waiting' \in 0..MaxWaiting
    BY <1>1, <1>3
  <2> QED
    BY <1>3, <2>1, FrameKeeps
       DEF ApplyRulesKeeps, handlerVars, startVars, IInv, TypeOK, HandlerTypeOK, ScriptTypeOK,
           RulesOfTheirDocument
<1>4. CASE LaunchContentPicker
  <2>1. /\ UNCHANGED <<resources, generichide, exceptions, frameVars, pipeVars, history, scriptVars>>
        /\ world' \in BOOLEAN /\ injected' \in BOOLEAN
    BY <1>4 DEF LaunchContentPicker, AddJavaScriptObjectToFrame
  <2> QED
    BY <2>1, FrameKeeps
       DEF frameVars, history, scriptVars, startVars, IInv, TypeOK, HandlerTypeOK, ScriptTypeOK,
           RulesOfTheirDocument
<1>5. RunScriptsAtDocumentStart => \/ ready /\ ApplyRules /\ ApplyRulesKeeps /\ waiting' = waiting
                                   \/ /\ waiting < MaxWaiting /\ waiting' = waiting + 1
                                      /\ UNCHANGED <<handlerVars, applied, startVars>>
                                      /\ ApplyRulesKeeps
  BY DEF RunScriptsAtDocumentStart
<1>6. RunApplyRules => ready /\ ApplyRules /\ ApplyRulesKeeps /\ waiting > 0 /\ waiting' = waiting - 1
  BY DEF RunApplyRules
<1> QED
  BY <1>1, <1>2, <1>3, <1>4, <1>5, <1>6

\* With the next document all questions are of earlier ones, but for the one that
\* is asked for it.
LEMMA NavigationKeeps ==
  ASSUME IInv, ReadyToCommitNavigation
  PROVE  IInv'
<1>1. /\ load < MaxLoads /\ load' = load + 1 /\ waiting' = 0
      /\ world' = FALSE /\ applied' = {} /\ inserted' = {}
      /\ UNCHANGED <<generichide, exceptions, injected, sync, connected>>
      /\ NewDocument
  BY DEF ReadyToCommitNavigation
<1>2. url' \in Url \cup {None}
  BY DEF ReadyToCommitNavigation, IInv, TypeOK, HandlerTypeOK
<1>3. IF url' # None
      THEN ready' = sync /\ ProcessURL(url', load')
      ELSE ready' = FALSE /\ UNCHANGED <<resources, calls>>
  BY DEF ReadyToCommitNavigation, SchemeIsHTTPOrHTTPS
<1>4. load \in Nat /\ load' \in 1..MaxLoads /\ load' > 0 /\ 0 \in 0..MaxWaiting
  BY <1>1, ConstantsAssumption DEF IInv, TypeOK, HandlerTypeOK
<1>5. /\ sync \in BOOLEAN /\ resources \in Url \cup {None} /\ calls \in Seq(Call)
      /\ sync => UrlCalls = {}
  BY DEF IInv, TypeOK, HandlerTypeOK, CallsInv
<1>6. /\ resources' \in Url \cup {None} /\ ready' \in BOOLEAN
      /\ ready' => sync /\ url' \in Url /\ resources' \in {None, url'}
  BY <1>2, <1>3, <1>5 DEF ProcessURL
<1>7. \/ calls' = calls /\ (ready' => UrlCalls = {})
      \/ /\ ~sync /\ ~ready' /\ url' \in Url
         /\ calls' = Append(calls, [op |-> "url", load |-> load', url |-> url'])
  BY <1>2, <1>3, <1>5 DEF ProcessURL, Send
<1>8. \A i \in DOMAIN calls : calls[i].load \in Nat /\ calls[i].load < load' /\ i \in Nat
  BY <1>1, <1>4, QueuedCalls
<1>9. /\ calls' \in Seq(Call)
      /\ \A i \in DOMAIN calls' :
           \/ i \in DOMAIN calls /\ calls'[i] = calls[i]
           \/ /\ ~sync /\ ~ready' /\ \A j \in DOMAIN calls' : i >= j /\ i \in Nat
              /\ calls'[i].op = "url" /\ calls'[i].load = load' /\ calls'[i].url = url'
      /\ \A i \in DOMAIN calls' : calls'[i].load \in Nat /\ i \in Nat
  <2>1. CASE calls' = calls
    BY <1>5, <1>8, <2>1
  <2>2. CASE /\ ~sync /\ ~ready' /\ url' \in Url
             /\ calls' = Append(calls, [op |-> "url", load |-> load', url |-> url'])
    <3>1. PICK c \in Call : /\ c = [op |-> "url", load |-> load', url |-> url']
                            /\ calls' = Append(calls, c)
      BY <1>4, <2>2 DEF Call
    <3>2. c.op = "url" /\ c.load = load' /\ c.url = url'
      BY <3>1
    <3>3. /\ calls' \in Seq(Call)
          /\ \A i \in DOMAIN calls' :
               \/ i \in DOMAIN calls /\ calls'[i] = calls[i] /\ i < Len(calls) + 1
               \/ i = Len(calls) + 1 /\ calls'[i] = c
      BY <3>1, OneCallMore
    <3>4. Len(calls) \in Nat
      BY QueuedCalls
    <3>5. \A i \in DOMAIN calls' : calls'[i].load \in Nat /\ i \in Nat /\ i <= Len(calls) + 1
      BY <1>4, <1>8, <3>2, <3>3, <3>4
    <3>6. \A i \in DOMAIN calls' : i = Len(calls) + 1 => \A j \in DOMAIN calls' : i >= j /\ i \in Nat
      BY <3>4, <3>5
    <3> QED
      BY <2>2, <3>2, <3>3, <3>5, <3>6
  <2> QED
    BY <1>7, <2>1, <2>2
<1>10. TypeOK'
  <2>1. HandlerTypeOK'
    <3>1. /\ sync' \in BOOLEAN /\ generichide' \in BOOLEAN /\ exceptions' \subseteq Name
          /\ injected' \in BOOLEAN /\ world' \in BOOLEAN /\ connected' \in BOOLEAN
          /\ applied' \subseteq Url /\ inserted' \subseteq [load : 1..load', hides : Name]
      BY <1>1 DEF IInv, TypeOK, HandlerTypeOK
    <3>2. load' \in 0..MaxLoads /\ waiting' \in 0..MaxWaiting
      BY <1>1, <1>4, ConstantsAssumption
    <3> QED
      BY <1>2, <1>6, <1>9, <3>1, <3>2 DEF HandlerTypeOK
  <2>2. ScriptTypeOK'
    <3>1. pump' \in Seq(BOOLEAN) /\ delayed' \in Nat /\ observers' \in Nat
      BY <1>1, EmptySeq DEF NewDocument
    <3> QED
      BY <1>1, <3>1 DEF NewDocument, ScriptTypeOK
  <2> QED
    BY <2>1, <2>2 DEF TypeOK
<1>11. CallsInv'
  <2>1. \A i \in DOMAIN calls' : calls'[i].load <= load'
    BY <1>4, <1>8, <1>9
  <2>2. \A i \in UrlCalls' :
          ~sync' /\ ~ready' /\ (calls'[i].load = load' => calls'[i].url = url')
    <3>1. ASSUME NEW i \in UrlCalls'
          PROVE  i \in UrlCalls \/ (~sync /\ ~ready')
      <4>1. i \in DOMAIN calls' /\ calls'[i].op = "url"
        BY DEF UrlCalls
      <4>2. CASE i \in DOMAIN calls /\ calls'[i] = calls[i]
        BY <4>1, <4>2 DEF UrlCalls
      <4> QED
        BY <1>9, <4>1, <4>2, Zenon
    <3>2. ASSUME NEW i \in UrlCalls PROVE ~sync /\ ~ready'
      BY <1>5, <1>6
    <3>3. \A i \in UrlCalls' : calls'[i].load = load' => calls'[i].url = url'
      BY <1>4, <1>8, <1>9 DEF UrlCalls
    <3> QED
      BY <1>1, <3>1, <3>2, <3>3
  <2>3. ASSUME NEW i \in UrlCalls', NEW j \in UrlCalls', i < j
        PROVE  calls'[i].load < calls'[j].load
    <3>1. i \in DOMAIN calls' /\ j \in DOMAIN calls' /\ i \in Nat /\ j \in Nat /\ ~(i >= j)
      BY <1>9, <2>3 DEF UrlCalls
    <3>2. i \in UrlCalls /\ calls'[i] = calls[i]
      BY <1>9, <2>3, <3>1 DEF UrlCalls
    <3>3. CASE j \in DOMAIN calls /\ calls'[j] = calls[j]
      BY <2>3, <3>2, <3>3 DEF UrlCalls, IInv, CallsInv
    <3>4. CASE calls'[j].load = load'
      BY <1>8, <3>2, <3>4 DEF UrlCalls
    <3> QED
      BY <1>9, <3>1, <3>3, <3>4
  <2> QED
    BY <2>1, <2>2, <2>3 DEF CallsInv
<1>12. ReadyInv'
  BY <1>4, <1>6 DEF ReadyInv
<1>13. StartInv'
  <2>1. /\ pump' = <<>> /\ delayed' = 0 /\ observers' = 0 /\ Polls' = 0
        /\ checking' = FALSE /\ timeout' = FALSE
    BY <1>1 DEF NewDocument, Polls
  <2>2. Watches' = 0
    BY <2>1 DEF Watches
  <2> QED
    BY <2>1, <2>2 DEF StartInv
<1>14. AskedInv'
  <2>1. \A i \in HideCalls' : calls'[i].load # load'
    BY <1>4, <1>8, <1>9 DEF HideCalls
  <2> QED
    BY <1>1, <2>1 DEF AskedInv
<1>15. RulesOfTheirDocument'
  BY <1>1 DEF RulesOfTheirDocument
<1> QED
  BY <1>10, <1>11, <1>12, <1>13, <1>14, <1>15 DEF IInv
-----------------------------------------------------------------------------
(* The specification.                                                      *)

LEMMA Start ==
  ASSUME Init
  PROVE  IInv
<1> USE DEF Init, HandlerInit, ScriptInit
<1>1. TypeOK
  <2>1. HandlerTypeOK
    <3>1. load \in 0..MaxLoads /\ waiting \in 0..MaxWaiting
      BY ConstantsAssumption
    <3>2. calls \in Seq(Call)
      BY EmptySeq
    <3> QED
      BY <3>1, <3>2 DEF HandlerTypeOK
  <2>2. ScriptTypeOK
    <3>1. pump \in Seq(BOOLEAN) /\ delayed \in Nat /\ observers \in Nat
      BY EmptySeq
    <3> QED
      BY <3>1 DEF ScriptTypeOK
  <2> QED
    BY <2>1, <2>2 DEF TypeOK
<1>2. UrlCalls = {} /\ HideCalls = {} /\ DOMAIN calls = {}
  BY DEF UrlCalls, HideCalls
<1>3. Watches = 0
  BY DEF Watches, Polls
<1>4. CallsInv /\ ReadyInv /\ AskedInv /\ RulesOfTheirDocument
  BY <1>2 DEF CallsInv, ReadyInv, AskedInv, RulesOfTheirDocument
<1>5. StartInv
  BY <1>3 DEF StartInv
<1> QED
  BY <1>1, <1>4, <1>5 DEF IInv

LEMMA Inductive ==
  ASSUME IInv, [Next]_vars
  PROVE  IInv'
<1>1. CASE ReadyToCommitNavigation
  BY <1>1, NavigationKeeps
<1>2. CASE RunScriptsAtDocumentStart \/ RunApplyRules \/ LaunchContentPicker
  BY <1>2, DocumentStartKeeps
<1>3. CASE (FromBrowser \/ Disconnect) /\ UNCHANGED scriptVars
  BY <1>3, UrlAnswerKeeps, HideAnswerKeeps, DisconnectKeeps DEF FromBrowser
<1>4. CASE Appear \/ Disappear
  BY <1>4, PageKeeps
<1>5. CASE OnMutations
  BY <1>5, MutationsKeep
<1>6. CASE OnThrottleTimeout \/ OnInterval
  BY <1>6, TimersKeep
<1>7. CASE OnIdle \/ OnFirstSelectors
  BY <1>7, StartKeeps
<1>8. CASE UNCHANGED vars
  BY <1>8, DisconnectKeeps DEF vars
<1> QED
  BY <1>1, <1>2, <1>3, <1>4, <1>5, <1>6, <1>7, <1>8 DEF Next

LEMMA Invariance == Spec => []IInv
BY Start, Inductive, PTL DEF Spec
-----------------------------------------------------------------------------
\* Every variable of a frame, of its pipe and of its script stays within its type.
THEOREM TypeCorrect == Spec => []TypeOK
<1>1. IInv => TypeOK
  BY DEF IInv
<1> QED
  BY <1>1, Invariance, PTL

\* A document gets no rules but those of its own URL: replies come in the order of
\* their questions, and OnProcessURL signals ready_ for the present load alone.
THEOREM OwnRules == Spec => []RulesOfTheirDocument
<1>1. IInv => RulesOfTheirDocument
  BY DEF IInv
<1> QED
  BY <1>1, Invariance, PTL

\* A document has one observer or one interval, and not both: the start is
\* scheduled once, and each of usePolling and useMutationObserver ends the other.
THEOREM OneWatch == Spec => []WatchedOnce
<1>1. ASSUME IInv PROVE WatchedOnce
  <2>1. observers + Polls <= 1
    BY <1>1, Counts
  <2> QED
    BY <2>1 DEF WatchedOnce, Polls
<1> QED
  BY <1>1, Invariance, PTL

\* The answers of the default engine have the keys of a Dict.  Where they have none,
\* MergeResourcesInto merges into nothing, and the additional engine's are lost too.
DefaultParses == \A u \in Url : DOMAIN Default[u] # {}

\* Questions are asked only by a script that is started, and it is started only
\* with the exceptions of its URL, so the answers never hide what is excepted.
THEOREM ExceptionsHold ==
  ASSUME DefaultParses
  PROVE  Spec => []ExceptionsKept
<1>1. ASSUME IInv PROVE ExceptionsKept
  <2>1. ASSUME NEW s \in inserted, s.load = load
        PROVE  s.hides \notin List(Default[url], "exceptions") \cup List(Additional[url], "exceptions")
    <3>1. url \in Url /\ s.hides \notin Exceptions(url)
      BY <1>1, <2>1 DEF IInv, AskedInv
    <3> QED
      BY <3>1, ExceptionsOfBoth DEF DefaultParses
  <2> QED
    BY <2>1 DEF ExceptionsKept
<1> QED
  BY <1>1, Invariance, PTL
=============================================================================
