------------------------- MODULE MessageLoaderProofs -------------------------
(***************************************************************************)
(* What holds of MessageLoader for any number of messages, views, workers   *)
(* and collections, and any batch size: its inductive invariant, and with   *)
(* it that a promise which a view holds is carried either by the timer of   *)
(* the waiting worker or by exactly one GET, until an answer is cut short   *)
(* or lost.                                                                 *)
(***************************************************************************)
EXTENDS MessageLoader, NatSetLemmas, SequenceTheorems

-----------------------------------------------------------------------------
(* Types of the store *)

LEMMA ModelTypes ==
  /\ 0 \in Versions
  /\ Absent \in Model
  /\ \A ver \in Versions : Full(ver) \in Model
  /\ [m \in Messages |-> Absent] \in [Messages -> Model]
  /\ [m \in Messages |-> 0] \in Heads
<1>1. 0 \in Versions
  BY BoundsAssumption DEF Versions
<1>2. Absent \in Model /\ \A ver \in Versions : Full(ver) \in Model
  BY <1>1 DEF Absent, Full, Model, Views
<1> QED
  BY <1>1, <1>2 DEF Heads

LEMMA UpdateType ==
  ASSUME NEW model \in Model, NEW item \in Item
  PROVE  UpdateFromSocket(model, item) \in Model
BY ModelTypes DEF UpdateFromSocket, Model, Views, Item, Absent, In

LEMMA SetFetchedType ==
  ASSUME NEW models \in [Messages -> Model], NEW heads \in Heads
  PROVE  SetFetched(models, heads) \in [Messages -> Model]
<1>1. ASSUME NEW m \in Messages, heads[m] # 0
      PROVE  [view |-> "id_only", head |-> heads[m], body |-> models[m].body] \in Model
  BY DEF Model, Views, Heads
<1> QED
  BY <1>1, ModelTypes DEF SetFetched

\* The last of the items of m that wait for the collection decides its model.
LEMMA LastItem ==
  ASSUME deferred \in Seq(Item), NEW models, NEW m \in Messages,
         {i \in DOMAIN deferred : deferred[i].msg = m} # {}
  PROVE  \E last \in DOMAIN deferred :
            /\ deferred[last] \in Item /\ deferred[last].msg = m
            /\ \A j \in DOMAIN deferred : deferred[j].msg = m => j <= last
            /\ RunDeferred(models)[m] = UpdateFromSocket(models[m], deferred[last])
<1> DEFINE mine == {i \in DOMAIN deferred : deferred[i].msg = m}
           last == CHOOSE i \in mine : \A j \in mine : j <= i
<1>1. DOMAIN deferred = 1 .. Len(deferred) /\ Len(deferred) \in Nat
  BY LenProperties
<1>2. mine \in SUBSET (1 .. Len(deferred)) /\ 1 \in Int /\ Len(deferred) \in Int
  BY <1>1
<1>3. \E i \in mine : \A j \in mine : j <= i
  <2> mine # {}
    OBVIOUS
  <2> HIDE DEF mine
  <2> QED
    BY <1>2, GreatestOf, Zenon
<1>4. last \in mine /\ \A j \in mine : j <= last
  <2> HIDE DEF mine
  <2> QED
    BY <1>3
<1>5. RunDeferred(models)[m] = UpdateFromSocket(models[m], deferred[last])
  BY DEF RunDeferred
<1>6. deferred[last] \in Item
  <2> HIDE DEF last
  <2> QED
    BY <1>1, <1>4, ElementOfSeq
<1>7. /\ last \in DOMAIN deferred /\ deferred[last].msg = m
      /\ \A j \in DOMAIN deferred : deferred[j].msg = m => j <= last
  <2> HIDE DEF last
  <2> QED
    BY <1>4
<1> HIDE DEF last, mine
<1> QED
  BY <1>5, <1>6, <1>7

LEMMA RunDeferredType ==
  ASSUME NEW models \in [Messages -> Model], deferred \in Seq(Item)
  PROVE  RunDeferred(models) \in [Messages -> Model]
<1>1. RunDeferred(models) = [m \in Messages |-> RunDeferred(models)[m]]
  BY DEF RunDeferred
<1>2. ASSUME NEW m \in Messages
      PROVE  RunDeferred(models)[m] \in Model
  <2>1. CASE {i \in DOMAIN deferred : deferred[i].msg = m} = {}
    BY <2>1 DEF RunDeferred
  <2>2. CASE {i \in DOMAIN deferred : deferred[i].msg = m} # {}
    BY <2>2, LastItem, UpdateType
  <2> QED
    BY <2>1, <2>2
<1> QED
  BY <1>1, <1>2

-----------------------------------------------------------------------------
(* Initial states *)

LEMMA InitLoaderIInv == Init => LoaderIInv
<1> SUFFICES ASSUME Init PROVE LoaderIInv
  OBVIOUS
<1> USE DEF Init, StoreInit, LoaderInit
<1>1. StoreTypeOK
  <2>1. server \in [Messages -> Record] /\ raced \in [Messages -> BOOLEAN]
    BY ModelTypes DEF Record
  <2>2. fetches \in Seq(Fetch)
    <3>1. [status |-> "sent", heads |-> [m \in Messages |-> 0]] \in Fetch
      BY ModelTypes DEF Fetch
    <3> QED
      BY <3>1
  <2>3. opens \in 0 .. MaxOpens /\ failures \in 0 .. MaxFailures
    BY BoundsAssumption
  <2>4. channel \in Seq(Item \cup {Connection}) /\ deferred \in Seq(Item)
    OBVIOUS
  <2>5. coll \in [Messages -> Model]
    BY ModelTypes
  <2> QED
    BY <2>1, <2>2, <2>3, <2>4, <2>5 DEF StoreTypeOK
<1>2. LoaderTypeOK
  <2>1. listed \in [Messages -> Model]
    BY ModelTypes
  <2>2. caller \in [Callers -> [ask : Ask \cup {NoAsk},
                     got : {"nothing", "promise", "rejected", "all", "deleted"}]]
    OBVIOUS
  <2>3. requests \in [Messages -> RequestState]
    BY DEF RequestState
  <2> QED
    BY <1>1, <2>1, <2>2, <2>3 DEF LoaderTypeOK
<1>3. WaitingWorkerRuns
  BY DEF WaitingWorkerRuns, Unserviced
<1>4. OneFlightPerMessage
  BY DEF OneFlightPerMessage
<1>5. RequestsHaveFlights
  BY DEF RequestsHaveFlights
<1> QED
  BY <1>2, <1>3, <1>4, <1>5 DEF LoaderIInv

-----------------------------------------------------------------------------
(* Steps of the store *)

\* The parts of the invariant about requests are not touched by the store.
LEMMA LoaderUntouched ==
  ASSUME LoaderIInv, UNCHANGED loaderVars, StoreTypeOK'
  PROVE  LoaderIInv'
BY DEF LoaderIInv, LoaderTypeOK, WaitingWorkerRuns, OneFlightPerMessage,
       RequestsHaveFlights, Unserviced, loaderVars

LEMMA WriteType ==
  ASSUME StoreTypeOK, NEW m \in Messages, NEW s \in {"listed", "hidden", "purged"},
         NEW answered \in BOOLEAN, Write(m, s, answered)
  PROVE  StoreTypeOK'
<1> USE DEF StoreTypeOK
<1>1. server[m].ver \in Versions /\ server[m].ver < MaxVersion
  BY DEF Record, Write
<1>2. server[m].ver + 1 \in Versions
  BY <1>1, BoundsAssumption DEF Versions
<1>3. server' \in [Messages -> Record]
  <2>1. server' = [server EXCEPT ![m] = [status |-> s, ver |-> server[m].ver + 1]]
    BY DEF Write
  <2> QED
    BY <1>2, <2>1 DEF Record
<1>4. channel' \in Seq(Item \cup {Connection})
  <2> DEFINE item == [msg |-> m, ver |-> server[m].ver + 1, gone |-> s = "purged"]
  <2>1. item \in Item
    BY <1>2 DEF Item
  <2>2. channel' = IF subscribed THEN Append(channel, item) ELSE channel
    BY DEF Write
  <2> HIDE DEF item
  <2> QED
    BY <2>1, <2>2
<1>5. raced' \in [Messages -> BOOLEAN]
  BY DEF Write
<1>6. UNCHANGED <<socket, subscribed, opens, modelVars, fetches, failures>>
  BY DEF Write
<1> QED
  BY <1>3, <1>4, <1>5, <1>6 DEF modelVars

LEMMA FetchTypes ==
  ASSUME StoreTypeOK, NEW k \in DOMAIN fetches
  PROVE  /\ fetches[k] \in Fetch
         /\ \A status \in {"sent", "answered", "done", "failed"} :
               [fetches EXCEPT ![k].status = status] \in Seq(Fetch)
         /\ \A heads \in Heads :
               [fetches EXCEPT ![k] = [status |-> "answered", heads |-> heads]] \in Seq(Fetch)
<1>1. fetches \in Seq(Fetch) /\ k \in 1 .. Len(fetches)
  BY LenProperties DEF StoreTypeOK
<1>2. fetches[k] \in Fetch
  BY <1>1, ElementOfSeq
<1>3. ASSUME NEW status \in {"sent", "answered", "done", "failed"}
      PROVE  [fetches EXCEPT ![k].status = status] \in Seq(Fetch)
  <2>1. [fetches[k] EXCEPT !.status = status] \in Fetch
    BY <1>2 DEF Fetch
  <2> QED
    BY <1>1, <2>1, ExceptSeq
<1>4. ASSUME NEW heads \in Heads
      PROVE  [fetches EXCEPT ![k] = [status |-> "answered", heads |-> heads]] \in Seq(Fetch)
  <2>1. [status |-> "answered", heads |-> heads] \in Fetch
    BY DEF Fetch
  <2> QED
    BY <1>1, <2>1, ExceptSeq
<1> QED
  BY <1>2, <1>3, <1>4

LEMMA AnswerFetchType ==
  ASSUME StoreTypeOK, NEW k \in DOMAIN fetches, NEW answered, AnswerFetch(k, answered)
  PROVE  StoreTypeOK'
<1>1. Listing \in Heads
  BY ModelTypes DEF Listing, Heads, StoreTypeOK, Record
<1>2. fetches' \in Seq(Fetch)
  BY <1>1, FetchTypes DEF AnswerFetch
<1>3. raced' \in [Messages -> BOOLEAN]
  BY DEF AnswerFetch, StoreTypeOK
<1>4. UNCHANGED <<server, netVars, modelVars, failures>>
  BY DEF AnswerFetch
<1> QED
  BY <1>2, <1>3, <1>4 DEF StoreTypeOK, netVars, modelVars

LEMMA ReceiveFetchType ==
  ASSUME StoreTypeOK, NEW k \in DOMAIN fetches, ReceiveFetch(k)
  PROVE  StoreTypeOK'
<1>1. fetches' \in Seq(Fetch)
  BY FetchTypes DEF ReceiveFetch
<1>2. coll' \in [Messages -> Model]
  <2>1. fetches[k].heads \in Heads /\ coll \in [Messages -> Model] /\ deferred \in Seq(Item)
    BY FetchTypes DEF StoreTypeOK, Fetch
  <2>2. SetFetched(coll, fetches[k].heads) \in [Messages -> Model]
    BY <2>1, SetFetchedType
  <2>3. RunDeferred(SetFetched(coll, fetches[k].heads)) \in [Messages -> Model]
    BY <2>1, <2>2, RunDeferredType
  <2> QED
    BY <2>2, <2>3 DEF ReceiveFetch
<1>3. structure' \in {"pending", "ready", "failed"} /\ deferred' \in Seq(Item)
  <2>1. CASE k = 1
    <3>1. structure' = "ready" /\ deferred' = <<>>
      BY <2>1 DEF ReceiveFetch
    <3> QED
      BY <3>1
  <2>2. CASE k # 1
    <3>1. UNCHANGED <<structure, deferred>>
      BY <2>2 DEF ReceiveFetch
    <3> QED
      BY <3>1 DEF StoreTypeOK
  <2> QED
    BY <2>1, <2>2
<1>4. raced' \in [Messages -> BOOLEAN]
  BY DEF ReceiveFetch, StoreTypeOK
<1>5. UNCHANGED <<server, netVars, failures>>
  BY DEF ReceiveFetch
<1> QED
  BY <1>1, <1>2, <1>3, <1>4, <1>5 DEF StoreTypeOK, netVars

LEMMA FailFetchType ==
  ASSUME StoreTypeOK, NEW k \in DOMAIN fetches, FailFetch(k)
  PROVE  StoreTypeOK'
<1>1. fetches' \in Seq(Fetch)
  BY FetchTypes DEF FailFetch
<1>2. failures' \in 0 .. MaxFailures
  BY BoundsAssumption DEF FailFetch, StoreTypeOK
<1>3. structure' \in {"pending", "ready", "failed"} /\ deferred' \in Seq(Item)
  <2>1. CASE k = 1
    <3>1. structure' = "failed" /\ deferred' = <<>>
      BY <2>1 DEF FailFetch
    <3> QED
      BY <3>1
  <2>2. CASE k # 1
    <3>1. UNCHANGED <<structure, deferred>>
      BY <2>2 DEF FailFetch
    <3> QED
      BY <3>1 DEF StoreTypeOK
  <2> QED
    BY <2>1, <2>2
<1>4. UNCHANGED <<server, netVars, coll, raced>>
  BY DEF FailFetch
<1> QED
  BY <1>1, <1>2, <1>3, <1>4 DEF StoreTypeOK, netVars

LEMMA SocketTypes ==
  ASSUME StoreTypeOK, Subscribe \/ OnOpen \/ OnClose
  PROVE  StoreTypeOK'
<1>1. CASE Subscribe
  <2>1. channel' \in Seq(Item \cup {Connection})
    BY <1>1 DEF Subscribe, StoreTypeOK
  <2> QED
    BY <1>1, <2>1 DEF Subscribe, StoreTypeOK, modelVars
<1>2. CASE OnOpen
  <2>1. opens' \in 0 .. MaxOpens
    BY <1>2, BoundsAssumption DEF OnOpen, StoreTypeOK
  <2> QED
    BY <1>2, <2>1 DEF OnOpen, StoreTypeOK, modelVars
<1>3. CASE OnClose
  <2>1. channel' \in Seq(Item \cup {Connection})
    BY <1>3 DEF OnClose
  <2> QED
    BY <1>3, <2>1 DEF OnClose, StoreTypeOK, modelVars
<1> QED
  BY <1>1, <1>2, <1>3

LEMMA OnMessageType ==
  ASSUME StoreTypeOK, OnMessage
  PROVE  StoreTypeOK'
<1> DEFINE item == Head(channel)
<1>1. item \in Item \cup {Connection} /\ Tail(channel) \in Seq(Item \cup {Connection})
  BY HeadTailProperties DEF OnMessage, StoreTypeOK
<1>2. channel' = Tail(channel) /\ socket' = "open"
  BY DEF OnMessage
<1>3. fetches' \in Seq(Fetch)
  <2> DEFINE fetch == [status |-> "sent", heads |-> [m \in Messages |-> 0]]
  <2>1. fetch \in Fetch
    BY ModelTypes DEF Fetch
  <2>2. fetches' = Append(fetches, fetch) \/ fetches' = fetches
    BY DEF OnMessage, FetchAgain
  <2> HIDE DEF fetch
  <2>3. fetches \in Seq(Fetch) /\ Append(fetches, fetch) \in Seq(Fetch)
    BY <2>1 DEF StoreTypeOK
  <2> QED
    BY <2>2, <2>3
<1>4. coll' \in [Messages -> Model]
  <2>1. CASE item # Connection /\ structure = "ready"
    <3>1. item \in Item /\ coll \in [Messages -> Model]
      BY <1>1, <2>1 DEF StoreTypeOK
    <3>2. item.msg \in Messages
      BY <3>1 DEF Item
    <3>3. UpdateFromSocket(coll[item.msg], item) \in Model
      BY <3>1, <3>2, UpdateType
    <3>4. coll' = [coll EXCEPT ![item.msg] = UpdateFromSocket(coll[item.msg], item)]
      BY <2>1 DEF OnMessage
    <3> HIDE DEF item
    <3> QED
      BY <3>1, <3>2, <3>3, <3>4
  <2>2. CASE ~(item # Connection /\ structure = "ready")
    BY <2>2 DEF OnMessage, StoreTypeOK
  <2> QED
    BY <2>1, <2>2
<1>5. deferred' \in Seq(Item)
  <2>1. CASE item # Connection /\ structure = "pending"
    <3>1. item \in Item /\ deferred' = Append(deferred, item)
      BY <1>1, <2>1 DEF OnMessage
    <3> HIDE DEF item
    <3> QED
      BY <3>1 DEF StoreTypeOK
  <2>2. CASE ~(item # Connection /\ structure = "pending")
    BY <2>2 DEF OnMessage, StoreTypeOK
  <2> QED
    BY <2>1, <2>2
<1>6. UNCHANGED <<server, subscribed, opens, structure, raced, failures>>
  BY DEF OnMessage
<1> QED
  BY <1>1, <1>2, <1>3, <1>4, <1>5, <1>6 DEF StoreTypeOK

LEMMA StoreKeeps == LoaderIInv /\ StoreNext /\ UNCHANGED loaderVars => LoaderIInv'
<1> SUFFICES ASSUME LoaderIInv, StoreNext, UNCHANGED loaderVars PROVE LoaderIInv'
  OBVIOUS
<1>1. StoreTypeOK
  BY DEF LoaderIInv, LoaderTypeOK
<1>2. ASSUME NEW m \in Messages, NEW s \in {"listed", "hidden", "purged"},
             Write(m, s, Outstanding # {} \/ \E f \in AnsweredFlights : m \in f.ids)
      PROVE  StoreTypeOK'
  BY <1>1, <1>2, WriteType
<1>3. ASSUME NEW k \in DOMAIN fetches,
             \/ AnswerFetch(k, Outstanding # {} \/ AnsweredFlights # {})
             \/ ReceiveFetch(k) \/ FailFetch(k)
      PROVE  StoreTypeOK'
  BY <1>1, <1>3, AnswerFetchType, ReceiveFetchType, FailFetchType
<1>4. ASSUME Subscribe \/ OnOpen \/ OnMessage \/ OnClose PROVE StoreTypeOK'
  BY <1>1, <1>4, SocketTypes, OnMessageType
<1>5. StoreTypeOK'
  BY <1>2, <1>3, <1>4 DEF StoreNext
<1> QED
  BY <1>5, LoaderUntouched
-----------------------------------------------------------------------------
(* Steps of the loader *)

LEMMA GetType ==
  ASSUME LoaderTypeOK, NEW c, NEW m \in Messages
  PROVE  Get(c, m) \in Model
BY DEF LoaderTypeOK, StoreTypeOK, Get

\* A request that leaves takes all that waits, and what it takes is in no other GET.
LEMMA ExecuteKeeps ==
  ASSUME LoaderIInv, NEW w, NEW waiting \in SUBSET Messages,
         Unserviced \subseteq waiting,
         \A m \in waiting : requests[m] # "inProgress",
         NEW coll_w \in {"all", "deleted"}, ExecuteRequest(w, waiting, coll_w)
  PROVE  /\ waitingWorker' = NoWorker
         /\ requests' \in [Messages -> RequestState]
         /\ flights' \subseteq Flight
         /\ \A m \in Messages : requests[m] # "none" \/ m \in waiting => requests'[m] # "none"
         /\ Unserviced' = {}
         /\ OneFlightPerMessage'
         /\ \A m \in Messages : requests'[m] = "inProgress" =>
               dropped \/ \E f \in flights' : m \in f.ids
<1> USE DEF LoaderIInv, LoaderTypeOK
<1> DEFINE f == [coll |-> coll_w, ids |-> waiting, status |-> "sent",
                 answer |-> [m \in Messages |-> 0]]
<1>1. /\ waitingWorker' = NoWorker
      /\ requests' = [m \in Messages |-> IF m \in waiting THEN "inProgress" ELSE requests[m]]
      /\ flights' = IF waiting = {} THEN flights ELSE flights \cup {f}
  BY DEF ExecuteRequest
<1>2. f \in Flight /\ f.ids = waiting
  BY ModelTypes DEF Flight
<1> HIDE DEF f
<1>3. requests' \in [Messages -> RequestState] /\ flights' \subseteq Flight
  BY <1>1, <1>2 DEF RequestState
<1>4. Unserviced' = {}
  BY <1>1 DEF Unserviced
<1>5. OneFlightPerMessage'
  <2>1. ASSUME NEW g \in flights PROVE g.ids \cap waiting = {} /\ g.ids \subseteq Messages
    BY DEF OneFlightPerMessage, Flight
  <2>2. ASSUME NEW g \in flights', NEW h \in flights', g # h PROVE g.ids \cap h.ids = {}
    BY <1>1, <1>2, <2>1, <2>2 DEF OneFlightPerMessage
  <2>3. ASSUME NEW g \in flights', NEW m \in g.ids PROVE requests'[m] = "inProgress"
    <3>1. CASE g \in flights
      BY <1>1, <2>1, <3>1 DEF OneFlightPerMessage
    <3>2. CASE g = f
      BY <1>1, <1>2, <3>2
    <3> QED
      BY <1>1, <3>1, <3>2
  <2> QED
    BY <2>2, <2>3 DEF OneFlightPerMessage
<1>6. ASSUME NEW m \in Messages, requests'[m] = "inProgress"
      PROVE  dropped \/ \E g \in flights' : m \in g.ids
  <2>1. CASE m \in waiting
    BY <1>1, <1>2, <2>1
  <2>2. CASE m \notin waiting
    BY <1>1, <1>6, <2>2 DEF RequestsHaveFlights
  <2> QED
    BY <2>1, <2>2
<1>7. \A m \in Messages : requests[m] # "none" \/ m \in waiting => requests'[m] # "none"
  BY <1>1
<1> QED
  BY <1>1, <1>3, <1>4, <1>5, <1>6, <1>7

LEMMA FetchListedKeeps == LoaderIInv /\ FetchListed => LoaderIInv'
<1> SUFFICES ASSUME LoaderIInv, FetchListed PROVE LoaderIInv'
  OBVIOUS
<1>1. UNCHANGED <<server, socket, subscribed, channel, opens, coll, structure, deferred,
                  fetches, raced, failures, requests, worker, waitingWorker, flights,
                  caller, dropped>>
  BY DEF FetchListed, storeVars, netVars, modelVars
<1>2. listed' \in [Messages -> Model]
  <2>1. \A m \in Messages : server[m].ver \in Versions
    BY DEF LoaderIInv, LoaderTypeOK, StoreTypeOK, Record
  <2>2. \A m \in Messages :
           [view |-> "id_only", head |-> server[m].ver, body |-> 0] \in Model
    BY <2>1, ModelTypes DEF Model, Views
  <2> QED
    BY <2>2, ModelTypes DEF FetchListed
<1>3. StoreTypeOK'
  BY <1>1 DEF LoaderIInv, LoaderTypeOK, StoreTypeOK
<1> QED
  BY <1>1, <1>2, <1>3
     DEF LoaderIInv, LoaderTypeOK, WaitingWorkerRuns, OneFlightPerMessage,
         RequestsHaveFlights, Unserviced

\* A caller that asks or has its answer, while the requests stay as they are.
LEMMA CallerKeeps ==
  ASSUME LoaderIInv, NEW v \in Callers,
         NEW answer \in [ask : Ask \cup {NoAsk},
                        got : {"nothing", "rejected", "all", "deleted"}],
         caller' = [caller EXCEPT ![v] = answer],
         UNCHANGED <<storeVars, listed, requests, worker, waitingWorker, flights, dropped>>
  PROVE  LoaderIInv'
<1>1. UNCHANGED <<server, socket, subscribed, channel, opens, coll, structure, deferred,
                  fetches, raced, failures>>
  BY DEF storeVars, netVars, modelVars
<1>2. StoreTypeOK'
  BY <1>1 DEF LoaderIInv, LoaderTypeOK, StoreTypeOK
<1>3. caller' \in [Callers -> [ask : Ask \cup {NoAsk},
                     got : {"nothing", "promise", "rejected", "all", "deleted"}]]
  BY DEF LoaderIInv, LoaderTypeOK
<1>4. ASSUME NEW u \in Callers, caller'[u].got = "promise"
      PROVE  caller'[u] = caller[u]
  BY <1>4 DEF LoaderIInv, LoaderTypeOK
<1>5. RequestsHaveFlights'
  BY <1>4 DEF LoaderIInv, RequestsHaveFlights
<1> QED
  BY <1>2, <1>3, <1>5
     DEF LoaderIInv, LoaderTypeOK, WaitingWorkerRuns, OneFlightPerMessage, Unserviced

LEMMA AskLoadedKeeps ==
  ASSUME LoaderIInv, NEW v \in Callers, NEW c \in Collections, NEW m \in Messages,
         AskLoaded(v, c, m)
  PROVE  LoaderIInv'
<1> DEFINE answer == [ask |-> [coll |-> c, msg |-> m],
                      got |-> IF In(Get(c, m)) THEN c ELSE "rejected"]
<1>1. answer \in [ask : Ask \cup {NoAsk}, got : {"nothing", "rejected", "all", "deleted"}]
  BY CollectionsAssumption DEF Ask
<1>2. /\ caller' = [caller EXCEPT ![v] = answer]
      /\ UNCHANGED <<storeVars, listed, requests, worker, waitingWorker, flights, dropped>>
  BY DEF AskLoaded
<1> HIDE DEF answer
<1> QED
  BY <1>1, <1>2, CallerKeeps

LEMMA AskAgainKeeps ==
  ASSUME LoaderIInv, NEW v \in Callers, AskAgain(v)
  PROVE  LoaderIInv'
<1> DEFINE answer == [ask |-> NoAsk, got |-> "nothing"]
<1>1. answer \in [ask : Ask \cup {NoAsk}, got : {"nothing", "rejected", "all", "deleted"}]
  OBVIOUS
<1>2. /\ caller' = [caller EXCEPT ![v] = answer]
      /\ UNCHANGED <<storeVars, listed, requests, worker, waitingWorker, flights, dropped>>
  BY DEF AskAgain
<1> HIDE DEF answer
<1> QED
  BY <1>1, <1>2, CallerKeeps

LEMMA AskMissingKeeps ==
  ASSUME LoaderIInv, NEW v \in Callers, NEW c \in Collections, NEW m \in Messages,
         NEW w \in Workers, AskMissing(v, c, m, w)
  PROVE  LoaderIInv'
<1> DEFINE waiting == Unserviced \cup (IF requests[m] = "none" THEN {m} ELSE {})
           coll_w  == IF waitingWorker = NoWorker THEN c ELSE worker[w].coll
           full    == Cardinality(waiting) >= BatchSize
<1>1. /\ UNCHANGED <<storeVars, listed, dropped>>
      /\ IF waitingWorker = NoWorker THEN ~worker[w].timer ELSE w = waitingWorker
      /\ worker' = IF waitingWorker = NoWorker
                   THEN [worker EXCEPT ![w] = [timer |-> TRUE, coll |-> c]] ELSE worker
      /\ caller' = [caller EXCEPT ![v] = [ask |-> [coll |-> c, msg |-> m], got |-> "promise"]]
      /\ IF full THEN ExecuteRequest(w, waiting, coll_w)
         ELSE /\ waitingWorker' = w
              /\ requests' = [requests EXCEPT ![m] = IF @ = "none" THEN "unserviced" ELSE @]
              /\ UNCHANGED flights
  BY DEF AskMissing
<1>2. /\ requests \in [Messages -> RequestState]
      /\ worker \in [Workers -> [timer : BOOLEAN, coll : {"all", "deleted"}]]
      /\ waiting \in SUBSET Messages /\ coll_w \in {"all", "deleted"}
      /\ \A n \in waiting : requests[n] # "inProgress"
  BY CollectionsAssumption DEF LoaderIInv, LoaderTypeOK, Unserviced
<1>3. /\ worker' \in [Workers -> [timer : BOOLEAN, coll : {"all", "deleted"}]]
      /\ worker'[w].timer
  BY <1>1, <1>2, CollectionsAssumption DEF LoaderIInv, WaitingWorkerRuns
<1>4. caller' \in [Callers -> [ask : Ask \cup {NoAsk},
                     got : {"nothing", "promise", "rejected", "all", "deleted"}]]
  BY <1>1, CollectionsAssumption DEF LoaderIInv, LoaderTypeOK, Ask
<1>5. StoreTypeOK'
  BY <1>1 DEF LoaderIInv, LoaderTypeOK, StoreTypeOK, storeVars, netVars, modelVars
<1> HIDE DEF full
<1>6. /\ waitingWorker' \in Workers \cup {NoWorker}
      /\ requests' \in [Messages -> RequestState] /\ flights' \subseteq Flight
      /\ WaitingWorkerRuns' /\ OneFlightPerMessage'
      /\ requests'[m] # "none"
      /\ \A n \in Messages : requests[n] # "none" => requests'[n] # "none"
      /\ \A n \in Messages : requests'[n] = "inProgress" =>
            dropped \/ \E f \in flights' : n \in f.ids
  <2>1. CASE full
    <3>1. ExecuteRequest(w, waiting, coll_w)
      BY <1>1, <2>1
    <3>2. Unserviced \subseteq waiting
      OBVIOUS
    <3>3. m \in waiting \/ requests[m] # "none"
      OBVIOUS
    <3> HIDE DEF waiting, coll_w
    <3>4. /\ waitingWorker' = NoWorker
          /\ requests' \in [Messages -> RequestState]
          /\ flights' \subseteq Flight
          /\ \A n \in Messages : requests[n] # "none" \/ n \in waiting => requests'[n] # "none"
          /\ Unserviced' = {}
          /\ OneFlightPerMessage'
          /\ \A n \in Messages : requests'[n] = "inProgress" =>
                dropped \/ \E f \in flights' : n \in f.ids
      BY <1>2, <3>1, <3>2, ExecuteKeeps
    <3> QED
      BY <3>3, <3>4 DEF WaitingWorkerRuns
  <2>2. CASE ~full
    <3>1. /\ waitingWorker' = w
          /\ requests' = [requests EXCEPT ![m] = IF @ = "none" THEN "unserviced" ELSE @]
          /\ flights' = flights
      BY <1>1, <2>2
    <3>2. w # NoWorker
      BY WorkersAssumption
    <3>3. WaitingWorkerRuns'
      BY <1>3, <3>1, <3>2 DEF WaitingWorkerRuns
    <3>4. requests' \in [Messages -> RequestState] /\ flights' \subseteq Flight
      BY <1>2, <3>1 DEF RequestState, LoaderIInv, LoaderTypeOK
    <3>5. \A n \in Messages : requests[n] = "inProgress" <=> requests'[n] = "inProgress"
      BY <1>2, <3>1
    <3>6. OneFlightPerMessage'
      <4>1. \A f \in flights : f.ids \subseteq Messages
        BY DEF LoaderIInv, LoaderTypeOK, Flight
      <4> QED
        BY <3>1, <3>5, <4>1 DEF LoaderIInv, OneFlightPerMessage
    <3>7. /\ requests'[m] # "none"
          /\ \A n \in Messages : requests[n] # "none" => requests'[n] # "none"
      BY <1>2, <3>1
    <3>8. \A n \in Messages : requests'[n] = "inProgress" =>
            dropped \/ \E f \in flights' : n \in f.ids
      BY <3>1, <3>5 DEF LoaderIInv, RequestsHaveFlights
    <3> QED
      BY <3>1, <3>3, <3>4, <3>6, <3>7, <3>8
  <2> QED
    BY <2>1, <2>2
<1>7. RequestsHaveFlights'
  <2>1. ASSUME NEW u \in Callers, caller'[u].got = "promise"
        PROVE  caller'[u].ask \in Ask /\ requests'[caller'[u].ask.msg] # "none"
    <3>1. CASE u = v
      <4>1. caller'[u].ask = [coll |-> c, msg |-> m]
        BY <1>1, <3>1 DEF LoaderIInv, LoaderTypeOK
      <4> QED
        BY <1>6, <4>1, CollectionsAssumption DEF Ask
    <3>2. CASE u # v
      <4>1. caller'[u] = caller[u]
        BY <1>1, <3>2 DEF LoaderIInv, LoaderTypeOK
      <4>2. caller[u].ask \in Ask /\ requests[caller[u].ask.msg] # "none"
        BY <2>1, <4>1 DEF LoaderIInv, RequestsHaveFlights
      <4> QED
        BY <1>6, <4>1, <4>2 DEF Ask
    <3> QED
      BY <3>1, <3>2
  <2> QED
    BY <1>1, <1>6, <2>1 DEF RequestsHaveFlights
<1>8. LoaderTypeOK'
  BY <1>1, <1>3, <1>4, <1>5, <1>6 DEF LoaderIInv, LoaderTypeOK
<1> QED
  BY <1>6, <1>7, <1>8 DEF LoaderIInv

LEMMA TimeoutKeeps ==
  ASSUME LoaderIInv, NEW w \in Workers, Timeout(w)
  PROVE  LoaderIInv'
<1> DEFINE coll_w == worker[w].coll
<1>1. /\ worker' = [worker EXCEPT ![w].timer = FALSE]
      /\ ExecuteRequest(w, Unserviced, coll_w)
      /\ UNCHANGED <<storeVars, listed, caller, dropped>>
  BY DEF Timeout
<1>2. /\ coll_w \in {"all", "deleted"} /\ Unserviced \in SUBSET Messages
      /\ \A m \in Unserviced : requests[m] # "inProgress"
      /\ Unserviced \subseteq Unserviced
  BY DEF LoaderIInv, LoaderTypeOK, Unserviced
<1> HIDE DEF coll_w
<1>3. /\ waitingWorker' = NoWorker
      /\ requests' \in [Messages -> RequestState]
      /\ flights' \subseteq Flight
      /\ \A m \in Messages : requests[m] # "none" => requests'[m] # "none"
      /\ Unserviced' = {}
      /\ OneFlightPerMessage'
      /\ \A m \in Messages : requests'[m] = "inProgress" =>
            dropped \/ \E f \in flights' : m \in f.ids
  BY <1>1, <1>2, ExecuteKeeps
<1>4. StoreTypeOK'
  BY <1>1 DEF LoaderIInv, LoaderTypeOK, StoreTypeOK, storeVars, netVars, modelVars
<1>5. worker' \in [Workers -> [timer : BOOLEAN, coll : {"all", "deleted"}]]
  BY <1>1 DEF LoaderIInv, LoaderTypeOK
<1>6. LoaderTypeOK'
  BY <1>1, <1>3, <1>4, <1>5 DEF LoaderIInv, LoaderTypeOK
<1>7. WaitingWorkerRuns'
  BY <1>3 DEF WaitingWorkerRuns
<1>8. RequestsHaveFlights'
  BY <1>1, <1>3 DEF LoaderIInv, RequestsHaveFlights, Ask
<1> QED
  BY <1>3, <1>6, <1>7, <1>8 DEF LoaderIInv

LEMMA AnswerFlightKeeps ==
  ASSUME LoaderIInv, NEW f \in flights, AnswerFlight(f)
  PROVE  LoaderIInv'
<1> DEFINE g == [f EXCEPT !.status = "answered",
                    !.answer = [m \in Messages |->
                                  IF m \in f.ids /\ server[m].status # "purged"
                                  THEN server[m].ver ELSE 0]]
<1>1. /\ flights' = (flights \ {f}) \cup {g}
      /\ UNCHANGED <<storeVars, listed, requests, worker, waitingWorker, caller, dropped>>
  BY DEF AnswerFlight
<1>2. g \in Flight /\ g.ids = f.ids
  <2>1. \A m \in Messages : server[m].ver \in Versions
    BY DEF LoaderIInv, LoaderTypeOK, StoreTypeOK, Record
  <2>2. f \in Flight
    BY DEF LoaderIInv, LoaderTypeOK
  <2> QED
    BY <2>1, <2>2, ModelTypes DEF Flight
<1> HIDE DEF g
<1>3. StoreTypeOK'
  BY <1>1 DEF LoaderIInv, LoaderTypeOK, StoreTypeOK, storeVars, netVars, modelVars
<1>4. LoaderTypeOK'
  BY <1>1, <1>2, <1>3 DEF LoaderIInv, LoaderTypeOK
<1>5. WaitingWorkerRuns'
  BY <1>1 DEF LoaderIInv, WaitingWorkerRuns, Unserviced
<1>6. OneFlightPerMessage'
  BY <1>1, <1>2 DEF LoaderIInv, OneFlightPerMessage
<1>7. RequestsHaveFlights'
  BY <1>1, <1>2 DEF LoaderIInv, RequestsHaveFlights
<1> QED
  BY <1>4, <1>5, <1>6, <1>7 DEF LoaderIInv

LEMMA ReceiveFlightKeeps ==
  ASSUME LoaderIInv, NEW f \in flights, ReceiveFlight(f)
  PROVE  LoaderIInv'
<1>1. /\ flights' = flights \ {f}
      /\ requests' = [m \in Messages |-> IF m \in Served(f) THEN "none" ELSE requests[m]]
      /\ caller' = [v \in Callers |->
                      IF caller[v].got = "promise" /\ caller[v].ask.msg \in Served(f)
                      THEN [caller[v] EXCEPT !.got = f.coll] ELSE caller[v]]
      /\ dropped' = (dropped \/ Served(f) # f.ids)
      /\ UNCHANGED <<server, netVars, structure, deferred, fetches, raced, failures,
                     worker, waitingWorker>>
  BY DEF ReceiveFlight
<1>2. f \in Flight /\ Served(f) \subseteq f.ids /\ f.ids \subseteq Messages
  BY DEF LoaderIInv, LoaderTypeOK, Flight, Served
<1>3. coll' \in [Messages -> Model] /\ listed' \in [Messages -> Model]
  <2> DEFINE filled == [m \in Messages |-> IF m \in Served(f) THEN Full(f.answer[m])
                                           ELSE Get(f.coll, m)]
  <2>1. filled \in [Messages -> Model]
    <3>1. \A m \in Messages : f.answer[m] \in Versions
      BY <1>2 DEF Flight
    <3>2. \A m \in Messages : Full(f.answer[m]) \in Model /\ Get(f.coll, m) \in Model
      BY <3>1, ModelTypes, GetType DEF LoaderIInv
    <3> QED
      BY <3>2
  <2>2. \/ coll' = filled /\ listed' = listed
        \/ coll' = coll /\ listed' = filled
    BY DEF ReceiveFlight
  <2> HIDE DEF filled
  <2> QED
    BY <2>1, <2>2 DEF LoaderIInv, LoaderTypeOK, StoreTypeOK
<1>4. StoreTypeOK'
  BY <1>1, <1>3 DEF LoaderIInv, LoaderTypeOK, StoreTypeOK, netVars
<1>5. caller' \in [Callers -> [ask : Ask \cup {NoAsk},
                     got : {"nothing", "promise", "rejected", "all", "deleted"}]]
  <2>1. f.coll \in {"all", "deleted"}
    BY <1>2 DEF Flight
  <2> QED
    BY <1>1, <2>1 DEF LoaderIInv, LoaderTypeOK
<1>6. LoaderTypeOK'
  <2>1. requests' \in [Messages -> RequestState]
    BY <1>1 DEF LoaderIInv, LoaderTypeOK, RequestState
  <2>2. dropped' \in BOOLEAN
    BY <1>1 DEF LoaderIInv, LoaderTypeOK
  <2> QED
    BY <1>1, <1>3, <1>4, <1>5, <2>1, <2>2 DEF LoaderIInv, LoaderTypeOK
<1>7. WaitingWorkerRuns'
  BY <1>1 DEF LoaderIInv, WaitingWorkerRuns, Unserviced
<1>8. OneFlightPerMessage'
  <2>1. ASSUME NEW g \in flights', NEW m \in g.ids PROVE requests'[m] = "inProgress"
    <3>1. g \in flights /\ g # f
      BY <1>1
    <3>2. m \notin Served(f) /\ requests[m] = "inProgress" /\ m \in Messages
      BY <1>2, <3>1 DEF LoaderIInv, LoaderTypeOK, Flight, OneFlightPerMessage
    <3> QED
      BY <1>1, <3>2
  <2> QED
    BY <1>1, <2>1 DEF LoaderIInv, OneFlightPerMessage
<1>9. RequestsHaveFlights'
  <2>1. ASSUME NEW v \in Callers, caller'[v].got = "promise"
        PROVE  caller'[v].ask \in Ask /\ requests'[caller'[v].ask.msg] # "none"
    <3>1. caller'[v] = caller[v] /\ caller[v].ask.msg \notin Served(f)
      <4>1. f.coll # "promise"
        BY <1>2 DEF Flight
      <4> QED
        BY <1>1, <2>1, <4>1 DEF LoaderIInv, LoaderTypeOK
    <3>2. caller[v].ask \in Ask /\ requests[caller[v].ask.msg] # "none"
      BY <2>1, <3>1 DEF LoaderIInv, RequestsHaveFlights
    <3> QED
      BY <1>1, <3>1, <3>2 DEF Ask
  <2>2. ASSUME NEW m \in Messages, requests'[m] = "inProgress"
        PROVE  dropped' \/ \E g \in flights' : m \in g.ids
    <3>1. m \notin Served(f) /\ requests[m] = "inProgress"
      BY <1>1, <2>2
    <3>2. dropped \/ \E g \in flights : m \in g.ids
      BY <3>1 DEF LoaderIInv, RequestsHaveFlights
    <3> QED
      BY <1>1, <3>1, <3>2
  <2> QED
    BY <2>1, <2>2 DEF RequestsHaveFlights
<1> QED
  BY <1>6, <1>7, <1>8, <1>9 DEF LoaderIInv

LEMMA FailFlightKeeps ==
  ASSUME LoaderIInv, NEW f \in flights, FailFlight(f)
  PROVE  LoaderIInv'
<1>1. /\ failures < MaxFailures /\ failures' = failures + 1
      /\ flights' = flights \ {f} /\ dropped' = TRUE
      /\ UNCHANGED <<server, netVars, modelVars, fetches, raced, listed, requests,
                     worker, waitingWorker, caller>>
  BY DEF FailFlight
<1>2. failures' \in 0 .. MaxFailures
  BY <1>1, BoundsAssumption DEF LoaderIInv, LoaderTypeOK, StoreTypeOK
<1>3. StoreTypeOK'
  BY <1>1, <1>2 DEF LoaderIInv, LoaderTypeOK, StoreTypeOK, netVars, modelVars
<1>4. LoaderTypeOK'
  BY <1>1, <1>3 DEF LoaderIInv, LoaderTypeOK
<1> QED
  BY <1>1, <1>4 DEF LoaderIInv, WaitingWorkerRuns, Unserviced, OneFlightPerMessage,
                    RequestsHaveFlights

-----------------------------------------------------------------------------
(* Sequences of pushed items *)

Pushed == Item \cup {Connection}

LEMMA PushedTypes ==
  ASSUME NEW item \in Pushed
  PROVE  /\ item.ver \in Nat
         /\ item.msg \in Messages => item \in Item
         /\ item \in Item => item.msg \in Messages /\ item # Connection
BY MessagesAssumption, BoundsAssumption DEF Pushed, Item, Connection, Versions

LEMMA AppendItem ==
  ASSUME NEW S, NEW s \in Seq(S), NEW e \in S
  PROVE  /\ Len(s) \in Nat /\ DOMAIN s = 1 .. Len(s)
         /\ DOMAIN Append(s, e) = 1 .. Len(s) + 1
         /\ \A i \in 1 .. Len(s) : Append(s, e)[i] = s[i] /\ s[i] \in S
         /\ Append(s, e)[Len(s) + 1] = e
<1>1. Append(s, e) \in Seq(S) /\ Len(Append(s, e)) = Len(s) + 1
  BY AppendProperties
<1>2. DOMAIN Append(s, e) = 1 .. Len(s) + 1 /\ Len(s) \in Nat /\ DOMAIN s = 1 .. Len(s)
  BY <1>1, LenProperties
<1> QED
  BY <1>2, AppendProperties, ElementOfSeq

LEMMA TailItem ==
  ASSUME NEW S, NEW s \in Seq(S), s # <<>>
  PROVE  /\ 1 \in DOMAIN s /\ Head(s) = s[1] /\ Head(s) \in S
         /\ \A i \in DOMAIN Tail(s) : i \in Nat \ {0} /\ i + 1 \in DOMAIN s /\ Tail(s)[i] = s[i + 1]
         /\ \A i \in DOMAIN s : i = 1 \/ i - 1 \in DOMAIN Tail(s)
<1>1. /\ Len(s) \in Nat /\ DOMAIN s = 1 .. Len(s) /\ Len(s) # 0
      /\ Tail(s) \in Seq(S) /\ Len(Tail(s)) = Len(s) - 1 /\ Head(s) \in S
      /\ \A i \in 1 .. Len(Tail(s)) : Tail(s)[i] = s[i + 1]
  BY LenProperties, HeadTailProperties, EmptySeq
<1>2. DOMAIN Tail(s) = 1 .. Len(s) - 1
  BY <1>1, LenProperties
<1>3. Head(s) = s[1]
  OBVIOUS
<1> QED
  BY <1>1, <1>2, <1>3

\* A later item of its message goes to the end of the sequence.
LEMMA OrderAppend ==
  ASSUME NEW s \in Seq(Pushed), NEW e \in Pushed, InOrder(s),
         \A i \in DOMAIN s : s[i].msg = e.msg => s[i].ver < e.ver
  PROVE  InOrder(Append(s, e))
<1>1. /\ Len(s) \in Nat /\ DOMAIN s = 1 .. Len(s)
      /\ DOMAIN Append(s, e) = 1 .. Len(s) + 1
      /\ \A i \in 1 .. Len(s) : Append(s, e)[i] = s[i]
      /\ Append(s, e)[Len(s) + 1] = e
  BY AppendItem
<1> QED
  BY <1>1 DEF InOrder

LEMMA BeforeAppend ==
  ASSUME NEW S, NEW T, NEW s \in Seq(S), NEW t \in Seq(T), NEW e \in T, Before(s, t),
         \A i \in DOMAIN s : s[i].msg = e.msg => s[i].ver < e.ver
  PROVE  Before(s, Append(t, e))
<1>1. /\ Len(t) \in Nat /\ DOMAIN t = 1 .. Len(t)
      /\ DOMAIN Append(t, e) = 1 .. Len(t) + 1
      /\ \A i \in 1 .. Len(t) : Append(t, e)[i] = t[i]
      /\ Append(t, e)[Len(t) + 1] = e
  BY AppendItem
<1> QED
  BY <1>1 DEF Before

LEMMA WritesAppend ==
  ASSUME NEW s \in Seq(Pushed), NEW e \in Pushed, AreWrites(s),
         \A m \in Messages : e.msg = m =>
            /\ e.ver <= server[m].ver
            /\ e.ver = server[m].ver => (e.gone <=> server[m].status = "purged")
  PROVE  AreWrites(Append(s, e))
<1>1. /\ Len(s) \in Nat /\ DOMAIN s = 1 .. Len(s)
      /\ DOMAIN Append(s, e) = 1 .. Len(s) + 1
      /\ \A i \in 1 .. Len(s) : Append(s, e)[i] = s[i]
      /\ Append(s, e)[Len(s) + 1] = e
  BY AppendItem
<1> QED
  BY <1>1 DEF AreWrites

\* The first item moves from one sequence to the end of the one before it.
LEMMA OrderMove ==
  ASSUME NEW s \in Seq(Item), NEW t \in Seq(Pushed), t # <<>>, Head(t) \in Item,
         InOrder(s), InOrder(t), Before(s, t), AreWrites(s), AreWrites(t)
  PROVE  /\ InOrder(Tail(t)) /\ Before(s, Tail(t)) /\ AreWrites(Tail(t))
         /\ InOrder(Append(s, Head(t))) /\ Before(Append(s, Head(t)), Tail(t))
         /\ AreWrites(Append(s, Head(t)))
<1>1. /\ 1 \in DOMAIN t /\ Head(t) = t[1]
      /\ \A i \in DOMAIN Tail(t) : i \in Nat \ {0} /\ i + 1 \in DOMAIN t /\ Tail(t)[i] = t[i + 1]
  BY TailItem
<1>2. s \in Seq(Pushed) /\ Head(t) \in Pushed
  <2>1. Item \subseteq Pushed
    BY DEF Pushed
  <2>2. \A i \in 1 .. Len(s) : s[i] \in Pushed
    BY <2>1, ElementOfSeq
  <2>3. s \in [1 .. Len(s) -> Pushed] /\ Len(s) \in Nat
    BY <2>2, LenProperties
  <2> QED
    BY <2>1, <2>3
<1>3. \A i \in DOMAIN s : s[i].msg = Head(t).msg => s[i].ver < Head(t).ver
  BY <1>1 DEF Before
<1>4. InOrder(Tail(t)) /\ Before(s, Tail(t)) /\ AreWrites(Tail(t))
  BY <1>1 DEF InOrder, Before, AreWrites
<1>5. InOrder(Append(s, Head(t)))
  BY <1>2, <1>3, OrderAppend
<1>6. AreWrites(Append(s, Head(t)))
  BY <1>1, <1>2, WritesAppend DEF AreWrites
<1>7. Before(Append(s, Head(t)), Tail(t))
  <2>1. /\ Len(s) \in Nat /\ DOMAIN s = 1 .. Len(s)
        /\ DOMAIN Append(s, Head(t)) = 1 .. Len(s) + 1
        /\ \A i \in 1 .. Len(s) : Append(s, Head(t))[i] = s[i]
        /\ Append(s, Head(t))[Len(s) + 1] = Head(t)
    BY AppendItem
  <2>2. \A j \in DOMAIN Tail(t) : Head(t).msg = Tail(t)[j].msg => Head(t).ver < Tail(t)[j].ver
    BY <1>1 DEF InOrder
  <2> QED
    BY <1>4, <2>1, <2>2 DEF Before
<1> QED
  BY <1>4, <1>5, <1>6, <1>7

LEMMA OrderTail ==
  ASSUME NEW S, NEW s, NEW t \in Seq(S), t # <<>>,
         InOrder(t), Before(s, t), AreWrites(t)
  PROVE  InOrder(Tail(t)) /\ Before(s, Tail(t)) /\ AreWrites(Tail(t))
<1>1. \A i \in DOMAIN Tail(t) : i \in Nat \ {0} /\ i + 1 \in DOMAIN t /\ Tail(t)[i] = t[i + 1]
  BY TailItem
<1> QED
  BY <1>1 DEF InOrder, Before, AreWrites

-----------------------------------------------------------------------------
(* What is pushed *)

PushIInv == WrittenHaveVersion /\ PushesInOrder /\ ChannelIsComplete

\* Steps that neither write, push nor receive.
LEMMA PushFrame ==
  ASSUME PushIInv, UNCHANGED <<server, channel, deferred, subscribed>>,
         socket' = "open" => socket = "open"
  PROVE  PushIInv'
BY DEF PushIInv, WrittenHaveVersion, PushesInOrder, ChannelIsComplete, InOrder, Before, AreWrites

\* Items that wait for the collection are handled, or dropped with it.
LEMMA PushHandled ==
  ASSUME PushIInv, UNCHANGED <<server, netVars>>, deferred' \in {deferred, <<>>}
  PROVE  PushIInv'
BY DEF PushIInv, WrittenHaveVersion, PushesInOrder, ChannelIsComplete, InOrder, Before,
       AreWrites, netVars

LEMMA PushWrite ==
  ASSUME LoaderTypeOK, PushIInv, NEW m \in Messages, NEW s \in {"listed", "hidden", "purged"},
         NEW answered \in BOOLEAN, Write(m, s, answered)
  PROVE  PushIInv'
<1> DEFINE item == [msg |-> m, ver |-> server[m].ver + 1, gone |-> s = "purged"]
<1>1. /\ server' = [server EXCEPT ![m] = [status |-> s, ver |-> server[m].ver + 1]]
      /\ channel' = IF subscribed THEN Append(channel, item) ELSE channel
      /\ UNCHANGED <<socket, subscribed, deferred>>
  BY DEF Write, modelVars
<1>2. /\ server[m].ver \in Nat /\ server[m].ver + 1 \in Versions
      /\ channel \in Seq(Pushed) /\ deferred \in Seq(Item)
  <2>1. server[m].ver \in Versions /\ server[m].ver < MaxVersion
    BY DEF LoaderTypeOK, StoreTypeOK, Record, Write
  <2> QED
    BY <2>1, BoundsAssumption DEF LoaderTypeOK, StoreTypeOK, Versions, Pushed
<1>3. /\ server'[m].ver = server[m].ver + 1 /\ server'[m].status = s
      /\ \A n \in Messages \ {m} : server'[n] = server[n]
  BY <1>1 DEF LoaderTypeOK, StoreTypeOK
<1>4. item \in Item /\ item \in Pushed
  BY <1>2 DEF Item, Pushed
<1>5. WrittenHaveVersion'
  BY <1>2, <1>3 DEF PushIInv, WrittenHaveVersion
<1>6. ASSUME NEW t, AreWrites(t), \A i \in DOMAIN t : t[i].ver \in Nat
      PROVE  /\ \A i \in DOMAIN t : t[i].msg = m => t[i].ver < server[m].ver + 1
             /\ \A i \in DOMAIN t, n \in Messages : t[i].msg = n =>
                   /\ t[i].ver <= server'[n].ver
                   /\ t[i].ver = server'[n].ver => (t[i].gone <=> server'[n].status = "purged")
  <2>1. \A i \in DOMAIN t : t[i].msg = m => t[i].ver < server[m].ver + 1
    BY <1>2, <1>6 DEF AreWrites
  <2>2. ASSUME NEW i \in DOMAIN t, NEW n \in Messages, t[i].msg = n
        PROVE  /\ t[i].ver <= server'[n].ver
               /\ t[i].ver = server'[n].ver => (t[i].gone <=> server'[n].status = "purged")
    <3>1. CASE n = m
      <4>1. t[i].ver < server'[m].ver /\ t[i].ver \in Nat /\ server'[m].ver \in Nat
        BY <1>2, <1>3, <1>6, <2>1, <2>2, <3>1
      <4> QED
        BY <3>1, <4>1
    <3>2. CASE n # m
      BY <1>3, <1>6, <2>2, <3>2 DEF AreWrites
    <3> QED
      BY <3>1, <3>2
  <2> QED
    BY <2>1, <2>2
<1>7. /\ \A i \in DOMAIN channel : channel[i].ver \in Nat
      /\ \A i \in DOMAIN deferred : deferred[i].ver \in Nat
  <2>1. \A i \in DOMAIN channel : channel[i] \in Pushed
    BY <1>2, ElementOfSeq, LenProperties
  <2>2. \A i \in DOMAIN deferred : deferred[i] \in Pushed
    BY <1>2, ElementOfSeq, LenProperties DEF Pushed
  <2> QED
    BY <2>1, <2>2, PushedTypes
<1>8. AreWrites(deferred)'
  BY <1>1, <1>6, <1>7 DEF PushIInv, PushesInOrder, AreWrites
<1>9. CASE ~subscribed
  <2>1. channel' = channel /\ channel = <<>>
    BY <1>1, <1>9 DEF PushIInv, ChannelIsComplete
  <2> QED
    BY <1>1, <1>5, <1>8, <1>9, <2>1
    DEF PushIInv, PushesInOrder, ChannelIsComplete, AreWrites, InOrder, Before
<1>10. CASE subscribed
  <2>1. channel' = Append(channel, item) /\ item.msg = m /\ item.ver = server[m].ver + 1
    BY <1>1, <1>10
  <2>2. item.gone <=> s = "purged"
    OBVIOUS
  <2> HIDE DEF item
  <2>3. /\ Len(channel) \in Nat /\ DOMAIN channel = 1 .. Len(channel)
        /\ DOMAIN channel' = 1 .. Len(channel) + 1
        /\ \A i \in 1 .. Len(channel) : channel'[i] = channel[i]
        /\ channel'[Len(channel) + 1] = item
    BY <1>2, <1>4, <2>1, AppendItem
  <2>4. InOrder(channel')
    BY <1>2, <1>4, <1>6, <1>7, <2>1, OrderAppend DEF PushIInv, PushesInOrder
  <2>5. Before(deferred, channel')
    BY <1>2, <1>4, <1>6, <1>7, <2>1, BeforeAppend DEF PushIInv, PushesInOrder
  <2>6. AreWrites(channel)'
    <3>1. \A i \in 1 .. Len(channel), n \in Messages : channel[i].msg = n =>
             /\ channel[i].ver <= server'[n].ver
             /\ channel[i].ver = server'[n].ver => (channel[i].gone <=> server'[n].status = "purged")
      BY <1>6, <1>7, <2>3 DEF PushIInv, PushesInOrder
    <3>2. \A n \in Messages : item.msg = n =>
             /\ item.ver <= server'[n].ver
             /\ item.gone <=> server'[n].status = "purged"
      BY <1>2, <1>3, <2>1, <2>2
    <3> QED
      BY <2>3, <3>1, <3>2 DEF AreWrites
  <2>7. ChannelIsComplete'
    <3>1. ASSUME NEW i \in DOMAIN channel', NEW n \in Messages, channel'[i].msg = n,
                 \A j \in DOMAIN channel' : j > i => channel'[j].msg # n
          PROVE  channel'[i].ver = server'[n].ver
      <4>1. CASE i = Len(channel) + 1
        BY <1>3, <2>1, <2>3, <3>1, <4>1
      <4>2. CASE i \in 1 .. Len(channel)
        <5>1. n # m
          BY <2>1, <2>3, <3>1, <4>2
        <5>2. \A j \in DOMAIN channel : j > i => channel[j].msg # n
          BY <2>3, <3>1, <4>2
        <5> QED
          BY <1>3, <2>3, <3>1, <4>2, <5>1, <5>2 DEF PushIInv, ChannelIsComplete
      <4> QED
        BY <2>3, <4>1, <4>2
    <3> QED
      BY <1>1, <1>10, <3>1 DEF PushIInv, ChannelIsComplete
  <2> QED
    BY <1>1, <1>5, <1>8, <2>4, <2>5, <2>6, <2>7 DEF PushIInv, PushesInOrder
<1> QED
  BY <1>9, <1>10

LEMMA PushSubscribe ==
  ASSUME LoaderTypeOK, PushIInv, Subscribe
  PROVE  PushIInv'
<1>1. /\ channel = <<>> /\ channel' = <<Connection>> /\ socket = "connecting" /\ subscribed'
      /\ UNCHANGED <<server, socket, deferred>>
  <2>1. channel = <<>> /\ channel' = Append(channel, Connection)
    BY DEF Subscribe, PushIInv, ChannelIsComplete
  <2> QED
    BY <2>1 DEF Subscribe, modelVars
<1>2. DOMAIN channel' = {1} /\ channel'[1] = Connection /\ Connection.msg = 0
  BY <1>1 DEF Connection
<1>3. \A i \in DOMAIN deferred : deferred[i].msg # 0
  <2>1. \A i \in DOMAIN deferred : deferred[i] \in Item
    BY ElementOfSeq, LenProperties DEF LoaderTypeOK, StoreTypeOK
  <2> QED
    BY <2>1, MessagesAssumption DEF Item
<1> QED
  BY <1>1, <1>2, <1>3, MessagesAssumption
  DEF PushIInv, WrittenHaveVersion, PushesInOrder, ChannelIsComplete, InOrder, Before, AreWrites

LEMMA PushClose ==
  ASSUME PushIInv, OnClose
  PROVE  PushIInv'
BY DEF PushIInv, WrittenHaveVersion, PushesInOrder, ChannelIsComplete, InOrder, Before, AreWrites,
       OnClose, modelVars

\* What the head of the channel is.
LEMMA HeadOfChannel ==
  ASSUME LoaderTypeOK, PushIInv, OnMessage
  PROVE  /\ channel \in Seq(Pushed) /\ channel # <<>> /\ channel' = Tail(channel) /\ subscribed
         /\ 1 \in DOMAIN channel /\ Head(channel) = channel[1] /\ Head(channel) \in Pushed
         /\ Head(channel) # Connection =>
               Head(channel) \in Item /\ Head(channel).msg \in Messages
         /\ Head(channel) = Connection => Head(channel).msg \notin Messages
         /\ \A i \in DOMAIN Tail(channel) :
               i \in Nat \ {0} /\ i + 1 \in DOMAIN channel /\ Tail(channel)[i] = channel[i + 1]
         /\ \A i \in DOMAIN channel : i \in Nat /\ (i = 1 \/ i - 1 \in DOMAIN Tail(channel))
<1>1. channel \in Seq(Pushed) /\ channel # <<>> /\ channel' = Tail(channel)
  BY DEF LoaderTypeOK, StoreTypeOK, Pushed, OnMessage
<1>2. subscribed
  BY <1>1 DEF PushIInv, ChannelIsComplete
<1>3. Connection.msg \notin Messages
  BY MessagesAssumption DEF Connection
<1>4. DOMAIN channel \subseteq Nat
  BY <1>1, LenProperties
<1>5. Head(channel) # Connection /\ Head(channel) \in Pushed => Head(channel) \in Item
  BY DEF Pushed
<1> QED
  BY <1>1, <1>2, <1>3, <1>4, <1>5, TailItem, PushedTypes

LEMMA PushMessage ==
  ASSUME LoaderTypeOK, PushIInv, OnMessage
  PROVE  PushIInv'
<1>1. /\ channel \in Seq(Pushed) /\ channel # <<>> /\ channel' = Tail(channel) /\ subscribed
      /\ Head(channel) # Connection => Head(channel) \in Item
      /\ \A i \in DOMAIN channel' :
               i \in Nat \ {0} /\ i + 1 \in DOMAIN channel /\ channel'[i] = channel[i + 1]
      /\ \A i \in DOMAIN channel : i \in Nat /\ (i = 1 \/ i - 1 \in DOMAIN channel')
  BY HeadOfChannel
<1>2. server' = server /\ subscribed' = subscribed /\ deferred \in Seq(Item)
  BY DEF OnMessage, LoaderTypeOK, StoreTypeOK
<1>3. deferred' = deferred \/ (Head(channel) \in Item /\ deferred' = Append(deferred, Head(channel)))
  BY <1>1 DEF OnMessage
<1>4. /\ InOrder(deferred') /\ InOrder(channel') /\ Before(deferred', channel')
      /\ AreWrites(deferred') /\ AreWrites(channel')
  <2>1. CASE deferred' = deferred
    BY <1>1, <2>1, OrderTail DEF PushIInv, PushesInOrder
  <2>2. CASE Head(channel) \in Item /\ deferred' = Append(deferred, Head(channel))
    BY <1>1, <1>2, <2>2, OrderMove DEF PushIInv, PushesInOrder
  <2> QED
    BY <1>3, <2>1, <2>2
<1>5. PushesInOrder'
  BY <1>2, <1>4 DEF PushesInOrder, AreWrites
<1>6. ASSUME NEW i \in DOMAIN channel', NEW n \in Messages, channel'[i].msg = n,
             \A j \in DOMAIN channel' : j > i => channel'[j].msg # n
      PROVE  channel'[i].ver = server[n].ver
  <2>1. \A j \in DOMAIN channel : j > i + 1 => channel[j].msg # n
    <3>1. ASSUME NEW j \in DOMAIN channel, j > i + 1
          PROVE  channel[j].msg # n
      <4>1. j \in Nat /\ i \in Nat \ {0} /\ j - 1 \in DOMAIN channel' /\ j - 1 > i
        BY <1>1, <3>1
      <4>2. channel'[j - 1] = channel[(j - 1) + 1] /\ (j - 1) + 1 = j
        BY <1>1, <4>1
      <4> QED
        BY <1>6, <4>1, <4>2
    <3> QED
      BY <3>1
  <2> QED
    <3>1. i + 1 \in DOMAIN channel /\ channel[i + 1] = channel'[i] /\ channel[i + 1].msg = n
      BY <1>1, <1>6
    <3> QED
      BY <2>1, <3>1 DEF PushIInv, ChannelIsComplete
<1> QED
  BY <1>1, <1>2, <1>5, <1>6 DEF PushIInv, WrittenHaveVersion, ChannelIsComplete

\* The loader writes nothing of the store but models of the collection.
LEMMA LoaderFrame ==
  ASSUME UNCHANGED vars \/ LoaderNext
  PROVE  /\ UNCHANGED <<server, socket, subscribed, channel, structure, deferred, fetches, raced>>
         /\ coll' = coll \/ \E f \in flights : ReceiveFlight(f)
<1> DEFINE Same ==
      /\ UNCHANGED <<server, socket, subscribed, channel, structure, deferred, fetches, raced>>
      /\ coll' = coll \/ \E f \in flights : ReceiveFlight(f)
<1>1. ASSUME UNCHANGED storeVars
      PROVE  Same
  BY <1>1 DEF storeVars, netVars, modelVars
<1>2. CASE UNCHANGED vars \/ FetchListed
  BY <1>1, <1>2 DEF vars, FetchListed
<1>3. ASSUME NEW v \in Callers, AskAgain(v)
      PROVE  Same
  BY <1>1, <1>3 DEF AskAgain
<1>4. ASSUME NEW v \in Callers, NEW c \in Collections, NEW m \in Messages,
             AskLoaded(v, c, m)
      PROVE  Same
  BY <1>1, <1>4 DEF AskLoaded
<1>5. ASSUME NEW v \in Callers, NEW c \in Collections, NEW m \in Messages, NEW w \in Workers,
             AskMissing(v, c, m, w)
      PROVE  Same
  BY <1>1, <1>5 DEF AskMissing
<1>6. ASSUME NEW w \in Workers, Timeout(w)
      PROVE  Same
  BY <1>1, <1>6 DEF Timeout
<1>7. ASSUME NEW f \in flights, AnswerFlight(f)
      PROVE  Same
  BY <1>1, <1>7 DEF AnswerFlight
<1>8. ASSUME NEW f \in flights, FailFlight(f)
      PROVE  Same
  BY <1>8 DEF FailFlight, netVars, modelVars
<1>9. ASSUME NEW f \in flights, ReceiveFlight(f)
      PROVE  Same
  <2>1. UNCHANGED <<server, socket, subscribed, channel, structure, deferred, fetches, raced>>
    BY <1>9 DEF ReceiveFlight, netVars
  <2> QED
    BY <1>9, <2>1
<1> QED
  BY <1>2, <1>3, <1>4, <1>5, <1>6, <1>7, <1>8, <1>9 DEF LoaderNext

LEMMA PushStep ==
  ASSUME LoaderTypeOK, PushIInv, [Next]_vars
  PROVE  PushIInv'
<1>1. CASE UNCHANGED vars \/ LoaderNext
  BY <1>1, LoaderFrame, PushFrame
<1>2. ASSUME NEW m \in Messages, NEW s \in {"listed", "hidden", "purged"},
             Write(m, s, Outstanding # {} \/ \E f \in AnsweredFlights : m \in f.ids)
      PROVE  PushIInv'
  BY <1>2, PushWrite
<1>3. ASSUME NEW k \in DOMAIN fetches, AnswerFetch(k, Outstanding # {} \/ AnsweredFlights # {})
      PROVE  PushIInv'
  BY <1>3, PushFrame DEF AnswerFetch, netVars, modelVars
<1>4. ASSUME NEW k \in DOMAIN fetches, ReceiveFetch(k) \/ FailFetch(k)
      PROVE  PushIInv'
  BY <1>4, PushHandled DEF ReceiveFetch, FailFetch
<1>5. CASE OnOpen
  BY <1>5, PushFrame DEF OnOpen, modelVars
<1> QED
  BY <1>1, <1>2, <1>3, <1>4, <1>5, PushSubscribe, PushMessage, PushClose DEF Next, StoreNext

-----------------------------------------------------------------------------
(* Answers on their way *)

\* The loader puts no answer on its way but by AnswerFlight.
LEMMA LoaderAnswers ==
  ASSUME UNCHANGED vars \/ LoaderNext
  PROVE  AnsweredFlights' \subseteq AnsweredFlights \/ \E f \in flights : AnswerFlight(f)
<1> DEFINE None == AnsweredFlights' \subseteq AnsweredFlights \/ \E f \in flights : AnswerFlight(f)
<1>1. ASSUME flights' \subseteq flights
      PROVE  None
  BY <1>1 DEF AnsweredFlights
<1>2. ASSUME NEW w, NEW waiting, NEW coll_w, ExecuteRequest(w, waiting, coll_w)
      PROVE  None
  <2> DEFINE g == [coll |-> coll_w, ids |-> waiting, status |-> "sent",
                   answer |-> [m \in Messages |-> 0]]
  <2>1. flights' \subseteq flights \cup {g} /\ g.status = "sent"
    BY <1>2 DEF ExecuteRequest
  <2> HIDE DEF g
  <2> QED
    BY <2>1 DEF AnsweredFlights
<1>3. CASE UNCHANGED vars \/ FetchListed
  BY <1>1, <1>3 DEF vars, loaderVars, FetchListed
<1>4. ASSUME NEW v \in Callers, AskAgain(v)
      PROVE  None
  BY <1>1, <1>4 DEF AskAgain
<1>5. ASSUME NEW v \in Callers, NEW c \in Collections, NEW m \in Messages, AskLoaded(v, c, m)
      PROVE  None
  BY <1>1, <1>5 DEF AskLoaded
<1>6. ASSUME NEW v \in Callers, NEW c \in Collections, NEW m \in Messages, NEW w \in Workers,
             AskMissing(v, c, m, w)
      PROVE  None
  <2>1. flights' = flights \/ \E waiting, coll_w : ExecuteRequest(w, waiting, coll_w)
    BY <1>6 DEF AskMissing
  <2> QED
    BY <1>1, <1>2, <2>1
<1>7. ASSUME NEW w \in Workers, Timeout(w)
      PROVE  None
  BY <1>2, <1>7 DEF Timeout
<1>8. ASSUME NEW f \in flights, ReceiveFlight(f) \/ FailFlight(f)
      PROVE  None
  BY <1>1, <1>8 DEF ReceiveFlight, FailFlight
<1>9. ASSUME NEW f \in flights, AnswerFlight(f)
      PROVE  None
  BY <1>9
<1> QED
  BY <1>3, <1>4, <1>5, <1>6, <1>7, <1>8, <1>9 DEF LoaderNext

\* Steps that add no answer and write nothing.
LEMMA AnswersFrame ==
  ASSUME AnswersAreCurrent, server' = server, \A m \in Messages : raced[m] => raced'[m],
         \A k \in Outstanding' : k \in Outstanding /\ fetches'[k].heads = fetches[k].heads,
         AnsweredFlights' \subseteq AnsweredFlights
  PROVE  AnswersAreCurrent'
<1>1. Listing' = Listing
  BY DEF Listing
<1> QED
  BY <1>1 DEF AnswersAreCurrent

LEMMA AnswersWrite ==
  ASSUME LoaderTypeOK, AnswersAreCurrent, UNCHANGED loaderVars,
         NEW m \in Messages, NEW s \in {"listed", "hidden", "purged"},
         Write(m, s, Outstanding # {} \/ \E f \in AnsweredFlights : m \in f.ids)
  PROVE  AnswersAreCurrent'
<1>1. /\ fetches' = fetches /\ flights' = flights
      /\ raced'[m] = (raced[m] \/ Outstanding # {} \/ \E f \in AnsweredFlights : m \in f.ids)
      /\ \A n \in Messages \ {m} : raced'[n] = raced[n] /\ server'[n] = server[n]
  BY DEF LoaderTypeOK, StoreTypeOK, Write, loaderVars
<1>2. Outstanding' = Outstanding /\ AnsweredFlights' = AnsweredFlights
  BY <1>1 DEF Outstanding, AnsweredFlights
<1>3. \A n \in Messages \ {m} : Listing'[n] = Listing[n]
  BY <1>1 DEF Listing
<1>4. ASSUME NEW n \in Messages \ {m}, ~raced'[n]
      PROVE  /\ \A k \in Outstanding' : fetches'[k].heads[n] = Listing'[n]
             /\ \A f \in AnsweredFlights' : n \in f.ids =>
                   f.answer[n] = IF server'[n].status = "purged" THEN 0 ELSE server'[n].ver
  BY <1>1, <1>2, <1>3, <1>4 DEF AnswersAreCurrent
<1>5. ~raced'[m] => Outstanding' = {} /\ \A f \in AnsweredFlights' : m \notin f.ids
  BY <1>1, <1>2
<1> QED
  BY <1>4, <1>5 DEF AnswersAreCurrent

LEMMA AnswersAnswerFetch ==
  ASSUME LoaderTypeOK, AnswersAreCurrent, UNCHANGED loaderVars, NEW k \in DOMAIN fetches,
         AnswerFetch(k, Outstanding # {} \/ AnsweredFlights # {})
  PROVE  AnswersAreCurrent' /\ k \in Outstanding'
<1>1. /\ server' = server /\ flights' = flights
      /\ fetches' = [fetches EXCEPT ![k] = [status |-> "answered", heads |-> Listing]]
      /\ raced' = raced \/ (Outstanding = {} /\ AnsweredFlights = {})
  BY DEF AnswerFetch, loaderVars
<1>2. /\ DOMAIN fetches' = DOMAIN fetches
      /\ fetches'[k].status = "answered" /\ fetches'[k].heads = Listing
      /\ \A j \in DOMAIN fetches \ {k} : fetches'[j] = fetches[j]
  BY <1>1 DEF LoaderTypeOK, StoreTypeOK
<1>3. Outstanding' = Outstanding \cup {k}
  BY <1>2 DEF Outstanding
<1>4. AnsweredFlights' = AnsweredFlights /\ Listing' = Listing
  BY <1>1 DEF AnsweredFlights, Listing
<1>5. CASE raced' = raced
  BY <1>1, <1>2, <1>3, <1>4, <1>5 DEF AnswersAreCurrent, Outstanding
<1>6. CASE Outstanding = {} /\ AnsweredFlights = {}
  BY <1>2, <1>3, <1>4, <1>6 DEF AnswersAreCurrent
<1> QED
  BY <1>1, <1>3, <1>5, <1>6

LEMMA AnswersAnswerFlight ==
  ASSUME LoaderTypeOK, AnswersAreCurrent, NEW f \in flights, AnswerFlight(f)
  PROVE  AnswersAreCurrent'
<1> DEFINE g == [f EXCEPT !.status = "answered",
                    !.answer = [m \in Messages |->
                                  IF m \in f.ids /\ server[m].status # "purged"
                                  THEN server[m].ver ELSE 0]]
<1>1. /\ flights' = (flights \ {f}) \cup {g}
      /\ UNCHANGED storeVars
  BY DEF AnswerFlight
<1>2. g.ids = f.ids /\ \A m \in Messages : m \in g.ids =>
          g.answer[m] = IF server[m].status = "purged" THEN 0 ELSE server[m].ver
  <2>1. f \in Flight
    BY DEF LoaderTypeOK
  <2> QED
    BY <2>1 DEF Flight
<1>3. AnsweredFlights' \subseteq AnsweredFlights \cup {g}
  <2> HIDE DEF g
  <2> QED
    BY <1>1 DEF AnsweredFlights
<1>4. Outstanding' = Outstanding /\ Listing' = Listing /\ UNCHANGED <<server, raced, fetches>>
  BY <1>1 DEF storeVars, Outstanding, Listing
<1> HIDE DEF g
<1> QED
  BY <1>2, <1>3, <1>4 DEF AnswersAreCurrent

LEMMA AnswersStep ==
  ASSUME LoaderTypeOK, AnswersAreCurrent, [Next]_vars
  PROVE  AnswersAreCurrent'
<1>1. CASE UNCHANGED vars \/ LoaderNext
  <2>1. UNCHANGED <<server, raced, fetches>>
    BY <1>1, LoaderFrame
  <2>2. Outstanding' = Outstanding
    BY <2>1 DEF Outstanding
  <2> QED
    BY <1>1, <2>1, <2>2, LoaderAnswers, AnswersFrame, AnswersAnswerFlight
<1>2. CASE StoreNext /\ UNCHANGED loaderVars
  <2>0. AnsweredFlights' = AnsweredFlights
    BY <1>2 DEF loaderVars, AnsweredFlights
  <2>1. ASSUME NEW k \in DOMAIN fetches, ReceiveFetch(k) \/ FailFetch(k)
        PROVE  AnswersAreCurrent'
    <3>1. /\ server' = server /\ \A m \in Messages : raced[m] => raced'[m]
          /\ \E st \in {"done", "failed"} : fetches' = [fetches EXCEPT ![k].status = st]
      BY <2>1 DEF ReceiveFetch, FailFetch
    <3>2. fetches[k] \in Fetch
      BY FetchTypes DEF LoaderTypeOK
    <3>3. \A j \in Outstanding' : j \in Outstanding /\ fetches'[j].heads = fetches[j].heads
      BY <3>1, <3>2 DEF Outstanding, Fetch
    <3> QED
      BY <2>0, <3>1, <3>3, AnswersFrame
  <2>2. CASE Subscribe \/ OnOpen \/ OnClose
    <3>1. UNCHANGED <<server, raced, fetches>>
      BY <2>2 DEF Subscribe, OnOpen, OnClose
    <3> QED
      BY <2>0, <3>1, AnswersFrame DEF Outstanding
  <2>3. CASE OnMessage
    <3> DEFINE fetch == [status |-> "sent", heads |-> [m \in Messages |-> 0]]
    <3>1. fetches \in Seq(Fetch) /\ fetch \in Fetch /\ fetch.status = "sent"
      BY ModelTypes DEF LoaderTypeOK, StoreTypeOK, Fetch
    <3>2. UNCHANGED <<server, raced>> /\ (fetches' = fetches \/ fetches' = Append(fetches, fetch))
      BY <2>3 DEF OnMessage, FetchAgain
    <3> HIDE DEF fetch
    <3>3. \A j \in Outstanding' : j \in Outstanding /\ fetches'[j].heads = fetches[j].heads
      BY <3>1, <3>2, AppendItem DEF Outstanding
    <3> QED
      BY <2>0, <3>2, <3>3, AnswersFrame
  <2> QED
    BY <1>2, <2>1, <2>2, <2>3, AnswersWrite, AnswersAnswerFetch DEF StoreNext
<1> QED
  BY <1>1, <1>2 DEF Next

-----------------------------------------------------------------------------
(* Models that agree with the database *)

LEMMA FetchAgrees ==
  ASSUME WrittenHaveVersion, NEW m \in Messages, NEW models, NEW heads,
         heads[m] = Listing[m], server' = server, coll'[m] = SetFetched(models, heads)[m]
  PROVE  Agrees(m)'
<1>1. heads[m] = IF server[m].status = "listed" THEN server[m].ver ELSE 0
  BY DEF Listing
<1>2. server[m].status = "listed" => server[m].ver # 0
  BY DEF WrittenHaveVersion
<1>3. coll'[m] = IF heads[m] = 0 THEN Absent
                 ELSE [view |-> "id_only", head |-> heads[m], body |-> models[m].body]
  BY DEF SetFetched
<1> QED
  BY <1>1, <1>2, <1>3 DEF Agrees, In, Absent

LEMMA UpdateAgrees ==
  ASSUME NEW m \in Messages, NEW model, NEW item,
         item.ver = server[m].ver, item.gone <=> server[m].status = "purged",
         server' = server, coll'[m] = UpdateFromSocket(model, item)
  PROVE  Agrees(m)'
BY DEF Agrees, UpdateFromSocket, In, Absent

LEMMA FullAgrees ==
  ASSUME NEW m \in Messages, NEW answer,
         answer = IF server[m].status = "purged" THEN 0 ELSE server[m].ver, answer # 0,
         server' = server, coll'[m] = Full(answer)
  PROVE  Agrees(m)'
BY DEF Agrees, Full, In

LEMMA AgreesFrame ==
  ASSUME NEW m \in Messages, Agrees(m), server'[m] = server[m], coll'[m] = coll[m]
  PROVE  Agrees(m)'
BY DEF Agrees, In

\* The answer of a GET of the collection makes good what was missed; the items
\* that waited for it do not undo that, unless they are all older.
LEMMA ReceiveFetchAgrees ==
  ASSUME LoaderTypeOK, PushIInv, AnswersAreCurrent, NEW k \in DOMAIN fetches, ReceiveFetch(k),
         NEW m \in Messages, ~raced'[m]
  PROVE  Agrees(m)'
<1> DEFINE fetched == SetFetched(coll, fetches[k].heads)
<1>1. k \in Outstanding /\ server' = server /\ ~raced[m]
  BY DEF ReceiveFetch, Outstanding
<1>2. fetches[k].heads[m] = Listing[m]
  BY <1>1 DEF AnswersAreCurrent
<1>3. coll' = IF k = 1 THEN RunDeferred(fetched) ELSE fetched
  BY DEF ReceiveFetch
<1>4. CASE coll'[m] = fetched[m]
  BY <1>1, <1>2, <1>4, FetchAgrees DEF PushIInv
<1>5. CASE k = 1 /\ {i \in DOMAIN deferred : deferred[i].msg = m} # {}
  <2> HIDE DEF fetched
  <2>1. PICK last \in DOMAIN deferred :
          /\ deferred[last] \in Item /\ deferred[last].msg = m
          /\ \A j \in DOMAIN deferred : deferred[j].msg = m => j <= last
          /\ RunDeferred(fetched)[m] = UpdateFromSocket(fetched[m], deferred[last])
    <3>1. deferred \in Seq(Item)
      BY DEF LoaderTypeOK, StoreTypeOK
    <3> QED
      BY <1>5, <3>1, LastItem
  <2>2. PICK i \in DOMAIN deferred : deferred[i].msg = m /\ ~(deferred[i].ver < server[m].ver)
    BY <1>5 DEF ReceiveFetch
  <2>3. /\ deferred[i].ver <= server[m].ver /\ deferred[last].ver <= server[m].ver
        /\ deferred[last].ver = server[m].ver => (deferred[last].gone <=> server[m].status = "purged")
        /\ i < last => deferred[i].ver < deferred[last].ver
    BY <2>1, <2>2 DEF PushIInv, PushesInOrder, AreWrites, InOrder
  <2>4. /\ deferred[i].ver \in Nat /\ deferred[last].ver \in Nat /\ server[m].ver \in Nat
        /\ i \in Nat /\ last \in Nat /\ i <= last
    <3>1. deferred[i] \in Item
      BY ElementOfSeq, LenProperties DEF LoaderTypeOK, StoreTypeOK
    <3>2. DOMAIN deferred \subseteq Nat
      BY LenProperties DEF LoaderTypeOK, StoreTypeOK
    <3> QED
      BY <2>1, <2>2, <3>1, <3>2, BoundsAssumption
      DEF Item, Versions, LoaderTypeOK, StoreTypeOK, Record
  <2>5. deferred[last].ver = server[m].ver
    BY <2>2, <2>3, <2>4
  <2> QED
    BY <1>1, <1>3, <1>5, <2>1, <2>3, <2>5, UpdateAgrees
<1>6. CASE k # 1 \/ {i \in DOMAIN deferred : deferred[i].msg = m} = {}
  <2>1. coll'[m] = fetched[m]
    <3> HIDE DEF fetched
    <3> QED
      BY <1>3, <1>6 DEF RunDeferred
  <2> QED
    BY <1>4, <2>1
<1> QED
  BY <1>5, <1>6

-----------------------------------------------------------------------------
(* The copy is current *)

\* Nothing more is to come than what the channel holds.
CaughtUp ==
  /\ structure = "ready" /\ socket = "open"
  /\ Outstanding = {} /\ fetches[Len(fetches)].status = "done"

Copied(m) == raced[m] \/ Agrees(m) \/ \E i \in DOMAIN channel : channel[i].msg = m

LEMMA CopySplit == CopyIsCurrent <=> (CaughtUp => \A m \in Messages : Copied(m))
BY DEF CopyIsCurrent, CaughtUp, Copied

LEMMA CopyWrite ==
  ASSUME LoaderTypeOK, PushIInv, CopyIsCurrent, NEW m \in Messages,
         NEW s \in {"listed", "hidden", "purged"}, NEW answered \in BOOLEAN, Write(m, s, answered)
  PROVE  CopyIsCurrent'
<1> DEFINE item == [msg |-> m, ver |-> server[m].ver + 1, gone |-> s = "purged"]
<1>1. /\ UNCHANGED <<socket, fetches, structure, coll>>
      /\ channel' = IF subscribed THEN Append(channel, item) ELSE channel
      /\ \A n \in Messages \ {m} : raced'[n] = raced[n] /\ server'[n] = server[n]
  BY DEF LoaderTypeOK, StoreTypeOK, Write, modelVars
<1>2. SUFFICES ASSUME CaughtUp', NEW n \in Messages
               PROVE  Copied(n)'
  BY DEF CopyIsCurrent, CaughtUp, Copied
<1>3. CaughtUp
  BY <1>1, <1>2 DEF CaughtUp, Outstanding
<1>4. subscribed /\ Copied(n)
  BY <1>3, CopySplit DEF CaughtUp, PushIInv, ChannelIsComplete
<1>5. /\ Len(channel) \in Nat /\ DOMAIN channel = 1 .. Len(channel)
      /\ DOMAIN channel' = 1 .. Len(channel) + 1
      /\ \A i \in 1 .. Len(channel) : channel'[i] = channel[i]
      /\ channel'[Len(channel) + 1].msg = m
  <2>1. item \in Pushed /\ item.msg = m
    <3>1. server[m].ver \in Versions /\ server[m].ver < MaxVersion
      BY DEF LoaderTypeOK, StoreTypeOK, Record, Write
    <3> QED
      BY <3>1, BoundsAssumption DEF Pushed, Item, Versions
  <2>2. channel \in Seq(Pushed)
    BY DEF LoaderTypeOK, StoreTypeOK, Pushed
  <2> HIDE DEF item
  <2> QED
    BY <1>1, <1>4, <2>1, <2>2, AppendItem
<1>6. CASE n = m
  <2>1. Len(channel) + 1 \in DOMAIN channel'
    BY <1>5
  <2> QED
    BY <1>5, <1>6, <2>1 DEF Copied
<1>7. CASE n # m
  <2>1. DOMAIN channel \subseteq DOMAIN channel'
    BY <1>5
  <2> QED
    BY <1>1, <1>4, <1>5, <1>7, <2>1, AgreesFrame DEF Copied
<1> QED
  BY <1>6, <1>7

LEMMA CopyFailFetch ==
  ASSUME LoaderTypeOK, CopyIsCurrent, NEW k \in DOMAIN fetches, FailFetch(k)
  PROVE  CopyIsCurrent'
<1>1. /\ UNCHANGED <<server, socket, channel, coll, raced>>
      /\ fetches' = [fetches EXCEPT ![k].status = "failed"] /\ fetches[k].status = "sent"
      /\ structure' = structure \/ structure' = "failed"
  BY DEF FailFetch, netVars
<1>2. /\ DOMAIN fetches' = DOMAIN fetches /\ Len(fetches') = Len(fetches)
      /\ fetches'[k].status = "failed"
      /\ \A j \in DOMAIN fetches \ {k} : fetches'[j] = fetches[j]
      /\ Len(fetches) \in DOMAIN fetches
  <2>1. fetches \in Seq(Fetch) /\ fetches[k] \in Fetch /\ [fetches[k] EXCEPT !.status = "failed"] \in Fetch
    BY FetchTypes DEF LoaderTypeOK, StoreTypeOK, Fetch
  <2>2. fetches' = [fetches EXCEPT ![k] = [fetches[k] EXCEPT !.status = "failed"]]
    BY <1>1
  <2>3. DOMAIN fetches = 1 .. Len(fetches) /\ Len(fetches) \in Nat
    BY <2>1, LenProperties
  <2>4. Len(fetches') = Len(fetches)
    BY <2>1, <2>2, <2>3, ExceptSeq
  <2>5. [fetches[k] EXCEPT !.status = "failed"].status = "failed"
    BY <2>1 DEF Fetch
  <2> QED
    BY <2>2, <2>3, <2>4, <2>5
<1>3. CaughtUp' => CaughtUp
  BY <1>1, <1>2 DEF CaughtUp, Outstanding
<1>4. \A m \in Messages : Copied(m) => Copied(m)'
  BY <1>1, AgreesFrame DEF Copied
<1> QED
  BY <1>3, <1>4, CopySplit DEF CopyIsCurrent, CaughtUp, Copied

LEMMA CopyMessage ==
  ASSUME LoaderTypeOK, PushIInv, CopyIsCurrent, OnMessage
  PROVE  CopyIsCurrent'
<1> DEFINE item == Head(channel)
<1>1. SUFFICES ASSUME CaughtUp', NEW m \in Messages
               PROVE  Copied(m)'
  BY DEF CopyIsCurrent, CaughtUp, Copied
<1>2. /\ UNCHANGED <<server, structure, raced>> /\ structure = "ready"
      /\ fetches' = FetchAgain
  BY <1>1 DEF OnMessage, CaughtUp
<1>3. fetches' = fetches /\ socket = "open"
  <2> DEFINE fetch == [status |-> "sent", heads |-> [n \in Messages |-> 0]]
  <2>1. fetches \in Seq(Fetch) /\ fetch \in Fetch /\ fetch.status = "sent"
    BY ModelTypes DEF LoaderTypeOK, StoreTypeOK, Fetch
  <2>2. CASE socket = "connecting"
    <3>1. fetches' = Append(fetches, fetch)
      BY <1>2, <2>2 DEF FetchAgain
    <3> HIDE DEF fetch
    <3>2. Len(fetches') = Len(fetches) + 1 /\ fetches'[Len(fetches) + 1] = fetch
      BY <2>1, <3>1, AppendProperties
    <3> QED
      BY <1>1, <2>1, <3>2 DEF CaughtUp
  <2>3. CASE socket = "open"
    BY <1>2, <2>3 DEF FetchAgain
  <2> QED
    BY <2>2, <2>3 DEF OnMessage
<1>4. CaughtUp /\ Copied(m)
  BY <1>1, <1>2, <1>3, CopySplit DEF CaughtUp, Outstanding
<1>5. /\ channel' = Tail(channel) /\ 1 \in DOMAIN channel /\ item = channel[1]
      /\ item # Connection => item \in Item /\ item.msg \in Messages
      /\ item = Connection => item.msg \notin Messages
      /\ \A i \in DOMAIN channel' :
               i \in Nat \ {0} /\ i + 1 \in DOMAIN channel /\ channel'[i] = channel[i + 1]
      /\ \A i \in DOMAIN channel : i \in Nat /\ (i = 1 \/ i - 1 \in DOMAIN channel')
  BY HeadOfChannel
<1>6. coll' = IF item # Connection THEN [coll EXCEPT ![item.msg] = UpdateFromSocket(@, item)] ELSE coll
  BY <1>2 DEF OnMessage
<1> HIDE DEF item
<1>7. ASSUME NEW i \in DOMAIN channel, i # 1
      PROVE  i - 1 \in DOMAIN channel' /\ channel'[i - 1] = channel[i]
  <2>1. i - 1 \in DOMAIN channel' /\ i \in Nat
    BY <1>5, <1>7
  <2>2. channel'[i - 1] = channel[(i - 1) + 1] /\ (i - 1) + 1 = i
    BY <1>5, <2>1
  <2> QED
    BY <2>1, <2>2
<1>8. CASE item.msg # m
  <2>1. coll'[m] = coll[m]
    BY <1>5, <1>6, <1>8 DEF LoaderTypeOK, StoreTypeOK
  <2> QED
    BY <1>2, <1>4, <1>5, <1>7, <1>8, <2>1, AgreesFrame DEF Copied
<1>9. CASE item.msg = m /\ \E i \in DOMAIN channel : i # 1 /\ channel[i].msg = m
  BY <1>7, <1>9 DEF Copied
<1>10. CASE item.msg = m /\ \A i \in DOMAIN channel : i # 1 => channel[i].msg # m
  <2>1. item.ver = server[m].ver
    <3>1. \A j \in DOMAIN channel : j > 1 => channel[j].msg # m
      BY <1>10
    <3>2. 1 \in DOMAIN channel /\ channel[1] = item /\ channel[1].msg = m
      BY <1>5, <1>10
    <3> QED
      BY <3>1, <3>2 DEF PushIInv, ChannelIsComplete
  <2>2. item.gone <=> server[m].status = "purged"
    BY <1>5, <1>10, <2>1 DEF PushIInv, PushesInOrder, AreWrites
  <2>3. coll'[m] = UpdateFromSocket(coll[m], item)
    BY <1>5, <1>6, <1>10 DEF LoaderTypeOK, StoreTypeOK
  <2> QED
    BY <1>2, <2>1, <2>2, <2>3, UpdateAgrees DEF Copied
<1> QED
  BY <1>8, <1>9, <1>10

LEMMA CopyLoader ==
  ASSUME LoaderTypeOK, AnswersAreCurrent, CopyIsCurrent, UNCHANGED vars \/ LoaderNext
  PROVE  CopyIsCurrent'
<1>1. UNCHANGED <<server, socket, channel, structure, fetches, raced>>
      /\ (coll' = coll \/ \E f \in flights : ReceiveFlight(f))
  BY LoaderFrame
<1>2. CaughtUp' = CaughtUp
  BY <1>1 DEF CaughtUp, Outstanding
<1>3. ASSUME NEW m \in Messages, Copied(m)
      PROVE  Copied(m)'
  <2>1. CASE coll'[m] = coll[m]
    BY <1>1, <1>3, <2>1, AgreesFrame DEF Copied
  <2>2. ASSUME NEW f \in flights, ReceiveFlight(f), coll'[m] # coll[m]
        PROVE  Copied(m)'
    <3>1. /\ f \in AnsweredFlights /\ m \in Served(f)
          /\ coll'[m] = Full(f.answer[m])
      <4>1. f.status = "answered" /\ f.coll = "all"
        BY <2>2 DEF ReceiveFlight
      <4>2. coll'[m] = IF m \in Served(f) THEN Full(f.answer[m]) ELSE coll[m]
        BY <2>2, <4>1 DEF ReceiveFlight, Get
      <4> QED
        BY <2>2, <4>1, <4>2 DEF AnsweredFlights
    <3>2. m \in f.ids /\ f.answer[m] # 0
      BY <3>1 DEF Served
    <3>3. CASE raced[m]
      BY <1>1, <3>3 DEF Copied
    <3>4. CASE ~raced[m]
      <4>1. f.answer[m] = IF server[m].status = "purged" THEN 0 ELSE server[m].ver
        BY <3>1, <3>2, <3>4 DEF AnswersAreCurrent
      <4> QED
        BY <1>1, <3>1, <3>2, <4>1, FullAgrees DEF Copied
    <3> QED
      BY <3>3, <3>4
  <2> QED
    BY <1>1, <2>1, <2>2
<1> QED
  BY <1>2, <1>3, CopySplit DEF CopyIsCurrent, CaughtUp, Copied

LEMMA CopyStep ==
  ASSUME LoaderTypeOK, PushIInv, AnswersAreCurrent, CopyIsCurrent, [Next]_vars
  PROVE  CopyIsCurrent'
<1>1. CASE UNCHANGED vars \/ LoaderNext
  BY <1>1, CopyLoader
<1>2. ASSUME NEW m \in Messages, NEW s \in {"listed", "hidden", "purged"},
             Write(m, s, Outstanding # {} \/ \E f \in AnsweredFlights : m \in f.ids)
      PROVE  CopyIsCurrent'
  BY <1>2, CopyWrite
<1>3. ASSUME NEW k \in DOMAIN fetches, UNCHANGED loaderVars,
             AnswerFetch(k, Outstanding # {} \/ AnsweredFlights # {})
      PROVE  CopyIsCurrent'
  BY <1>3, AnswersAnswerFetch DEF CopyIsCurrent
<1>4. ASSUME NEW k \in DOMAIN fetches, ReceiveFetch(k)
      PROVE  CopyIsCurrent'
  BY <1>4, ReceiveFetchAgrees DEF CopyIsCurrent
<1>5. ASSUME NEW k \in DOMAIN fetches, FailFetch(k)
      PROVE  CopyIsCurrent'
  BY <1>5, CopyFailFetch
<1>6. CASE Subscribe \/ OnOpen \/ OnClose
  <2>1. socket' # "open"
    BY <1>6 DEF Subscribe, OnOpen, OnClose
  <2> QED
    BY <2>1 DEF CopyIsCurrent
<1> QED
  BY <1>1, <1>2, <1>3, <1>4, <1>5, <1>6, CopyMessage DEF Next, StoreNext

LEMMA InitCopyIInv == Init => CopyIInv
<1> SUFFICES ASSUME Init PROVE CopyIInv
  OBVIOUS
<1>1. /\ \A m \in Messages : server[m].status = "new" /\ server[m].ver = 0
      /\ DOMAIN channel = {} /\ DOMAIN deferred = {} /\ socket = "closed" /\ channel = <<>>
      /\ Outstanding = {} /\ AnsweredFlights = {}
  BY DEF Init, StoreInit, LoaderInit, Outstanding, AnsweredFlights
<1> QED
  BY <1>1 DEF CopyIInv, WrittenHaveVersion, PushesInOrder, ChannelIsComplete, AnswersAreCurrent,
              CopyIsCurrent, InOrder, Before, AreWrites

LEMMA NextCopyIInv == LoaderIInv /\ CopyIInv /\ [Next]_vars => CopyIInv'
<1> SUFFICES ASSUME LoaderIInv, CopyIInv, [Next]_vars PROVE CopyIInv'
  OBVIOUS
<1>1. LoaderTypeOK /\ PushIInv
  BY DEF LoaderIInv, CopyIInv, PushIInv
<1> QED
  BY <1>1, PushStep, AnswersStep, CopyStep DEF CopyIInv, PushIInv

-----------------------------------------------------------------------------
(* The theorems *)

LEMMA NextLoaderIInv == LoaderIInv /\ [Next]_vars => LoaderIInv'
<1> SUFFICES ASSUME LoaderIInv, [Next]_vars PROVE LoaderIInv'
  OBVIOUS
<1>1. CASE UNCHANGED vars
  <2>1. UNCHANGED loaderVars /\ UNCHANGED storeVars
    BY <1>1 DEF vars
  <2>2. StoreTypeOK'
    BY <2>1 DEF LoaderIInv, LoaderTypeOK, StoreTypeOK, storeVars, netVars, modelVars
  <2> QED
    BY <2>1, <2>2, LoaderUntouched
<1>2. CASE StoreNext /\ UNCHANGED loaderVars
  BY <1>2, StoreKeeps
<1>3. CASE LoaderNext
  <2>1. CASE FetchListed
    BY <2>1, FetchListedKeeps
  <2>2. ASSUME NEW v \in Callers, AskAgain(v) PROVE LoaderIInv'
    BY <2>2, AskAgainKeeps
  <2>3. ASSUME NEW v \in Callers, NEW c \in Collections, NEW m \in Messages,
               AskLoaded(v, c, m)
        PROVE  LoaderIInv'
    BY <2>3, AskLoadedKeeps
  <2>4. ASSUME NEW v \in Callers, NEW c \in Collections, NEW m \in Messages,
               NEW w \in Workers, AskMissing(v, c, m, w)
        PROVE  LoaderIInv'
    BY <2>4, AskMissingKeeps
  <2>5. ASSUME NEW w \in Workers, Timeout(w) PROVE LoaderIInv'
    BY <2>5, TimeoutKeeps
  <2>6. ASSUME NEW f \in flights, AnswerFlight(f) \/ ReceiveFlight(f) \/ FailFlight(f)
        PROVE  LoaderIInv'
    BY <2>6, AnswerFlightKeeps, ReceiveFlightKeeps, FailFlightKeeps
  <2> QED
    BY <1>3, <2>1, <2>2, <2>3, <2>4, <2>5, <2>6 DEF LoaderNext
<1> QED
  BY <1>1, <1>2, <1>3 DEF Next

\* Requests wait only while a worker's timer runs for them, no message is in two
\* GETs, and a promise that is held has a request.
THEOREM LoaderInvariant == Spec => []LoaderIInv
<1>1. Init => LoaderIInv
  BY InitLoaderIInv
<1>2. LoaderIInv /\ [Next]_vars => LoaderIInv'
  BY NextLoaderIInv
<1> QED
  BY <1>1, <1>2, PTL DEF Spec

\* Whoever holds a promise of a message will be served by the timer of the waiting
\* worker or by the one GET that has the message, unless an answer was cut short
\* or lost.
THEOREM PromisesAreCarried == Spec => []PromiseHasCarrier
<1>1. LoaderIInv => PromiseHasCarrier
  <2> SUFFICES ASSUME LoaderIInv, NEW v \in Callers, caller[v].got = "promise", ~dropped
               PROVE  LET m == caller[v].ask.msg IN
                      \/ /\ requests[m] = "unserviced"
                         /\ \E w \in Workers : w = waitingWorker /\ worker[w].timer
                         /\ \A f \in flights : m \notin f.ids
                      \/ \E f \in flights : m \in f.ids
                                        /\ \A g \in flights \ {f} : m \notin g.ids
    BY DEF PromiseHasCarrier
  <2> DEFINE m == caller[v].ask.msg
  <2>1. m \in Messages /\ requests[m] # "none" /\ requests[m] \in RequestState
    BY DEF LoaderIInv, LoaderTypeOK, RequestsHaveFlights, Ask
  <2>2. CASE requests[m] = "unserviced"
    <3>1. m \in Unserviced
      BY <2>1, <2>2 DEF Unserviced
    <3>2. waitingWorker \in Workers /\ worker[waitingWorker].timer
      BY <3>1 DEF LoaderIInv, LoaderTypeOK, WaitingWorkerRuns
    <3>3. \A f \in flights : m \notin f.ids
      BY <2>2 DEF LoaderIInv, OneFlightPerMessage
    <3> QED
      BY <2>2, <3>2, <3>3
  <2>3. CASE requests[m] = "inProgress"
    <3>1. PICK f \in flights : m \in f.ids
      BY <2>1, <2>3 DEF LoaderIInv, RequestsHaveFlights
    <3>2. \A g \in flights \ {f} : m \notin g.ids
      BY <3>1 DEF LoaderIInv, OneFlightPerMessage
    <3> QED
      BY <3>1, <3>2
  <2> QED
    BY <2>1, <2>2, <2>3 DEF RequestState
<1> QED
  BY <1>1, LoaderInvariant, PTL

\* Pushes come in order, answers on their way are those of the server unless the
\* message was written since, and a copy that has caught up is current.
THEOREM CopyInvariant == Spec => []CopyIInv
<1> QED
  BY InitCopyIInv, NextCopyIInv, LoaderInvariant, PTL DEF Spec

\* Whatever the closed websocket lost, and in whatever order the answers of the
\* collection, the pushes and the full messages arrived: when nothing is on its
\* way, each model of the browser agrees with the database, unless an older
\* answer was on its way when its message was last written.
THEOREM SettledAgrees == Spec => []SettledUnlessRaced
<1>1. CopyIInv => SettledUnlessRaced
  <2> SUFFICES ASSUME CopyIInv, Settled
               PROVE  \A m \in Messages : raced[m] \/ Agrees(m)
    BY DEF SettledUnlessRaced
  <2>1. Outstanding = {} /\ DOMAIN channel = {}
    BY DEF Settled, Outstanding
  <2> QED
    BY <2>1 DEF CopyIInv, CopyIsCurrent, Settled
<1> QED
  BY <1>1, CopyInvariant, PTL
===============================================================================
