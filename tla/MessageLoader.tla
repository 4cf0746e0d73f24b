---------------------------- MODULE MessageLoader ----------------------------
(***************************************************************************)
(* How the text of messages reaches the views that show them:               *)
(* getMessageFullModelPromise and getMessageFullModelRequestWorker of       *)
(* collectionManager.js, beside the MessageStore whose models they fill.    *)
(*                                                                          *)
(* A view asks for one message of one collection and gets a promise.  The   *)
(* ids asked for within the life of a worker are sent in one GET; whoever   *)
(* asks for an id that is already asked for gets the promise of the first.  *)
(* Besides the collection of all messages there is the one a message list   *)
(* fetches for itself when it shows deleted messages.                       *)
(***************************************************************************)
EXTENDS MessageStore

CONSTANTS
    Callers,      \* the views that ask for a message
    Workers,      \* request workers
    NoWorker,     \* _waitingWorker is undefined
    Collections,  \* the collections callers use: "all", "deleted"
    BatchSize     \* 50 in the code: at so many ids the request leaves at once

ASSUME CollectionsAssumption == Collections \subseteq {"all", "deleted"}
ASSUME WorkersAssumption == NoWorker \notin Workers
ASSUME BatchAssumption == BatchSize \in Nat \ {0}

VARIABLES
    listed,         \* the list's own collection, fetched with deleted messages
    requests,       \* _messageFullModelRequests
    worker,         \* each worker: is its timer set, and its collection
    waitingWorker,  \* _waitingWorker
    flights,        \* GETs of full models
    caller,         \* what each caller asked for and what became of it
    dropped         \* history: was an answer cut short, or a request lost?

loaderVars == <<listed, requests, worker, waitingWorker, flights, caller, dropped>>
vars == <<storeVars, loaderVars>>

\* An id of _messageFullModelRequests: there is none, it waits for a worker, or
\* serverRequestInProgress.
RequestState == {"none", "unserviced", "inProgress"}
Flight == [coll : {"all", "deleted"}, ids : SUBSET Messages,
           answer : [Messages -> Versions], status : {"sent", "answered"}]
Ask == [coll : {"all", "deleted"}, msg : Messages]
NoAsk == [coll |-> "none", msg |-> 0]

\* What allMessageStructureCollection.get(m) returns in the collection c.
Get(c, m) == IF c = "all" THEN coll[m] ELSE listed[m]

Unserviced == {m \in Messages : requests[m] = "unserviced"}

Full(ver) == [view |-> "default", head |-> ver, body |-> ver]

-------------------------------------------------------------------------------
LoaderInit ==
    /\ listed = [m \in Messages |-> Absent]
    /\ requests = [m \in Messages |-> "none"]
    /\ worker = [w \in Workers |-> [timer |-> FALSE, coll |-> "all"]]
    /\ waitingWorker = NoWorker
    /\ flights = {}
    /\ caller = [c \in Callers |-> [ask |-> NoAsk, got |-> "nothing"]]
    /\ dropped = FALSE

(* The browser ------------------------------------------------------------ *)

\* Mutants of ExecuteRequest: the manager keeps its waiting worker; the requests
\* are not marked as in progress.
ExecuteKeepsWorker(w, waiting, coll_w) ==
    /\ waitingWorker' = w
    /\ requests' = [m \in Messages |->
                       IF m \in waiting THEN "inProgress" ELSE requests[m]]
    /\ flights' = IF waiting = {} THEN flights
                  ELSE flights \cup
                         {[coll |-> coll_w, ids |-> waiting, status |-> "sent",
                           answer |-> [m \in Messages |-> 0]]}

ExecuteUnmarked(w, waiting, coll_w) ==
    /\ waitingWorker' = NoWorker
    /\ requests' = [m \in Messages |->
                       IF m \in waiting THEN "unserviced" ELSE requests[m]]
    /\ flights' = IF waiting = {} THEN flights
                  ELSE flights \cup
                         {[coll |-> coll_w, ids |-> waiting, status |-> "sent",
                           answer |-> [m \in Messages |-> 0]]}

\* executeRequest of worker w: whatever waits leaves in one GET, and the
\* collection manager forgets its waiting worker, w or another.
ExecuteRequest(w, waiting, coll_w) ==
    /\ waitingWorker' = NoWorker
    /\ requests' = [m \in Messages |->
                       IF m \in waiting THEN "inProgress" ELSE requests[m]]
    /\ flights' = IF waiting = {} THEN flights
                  ELSE flights \cup
                         {[coll |-> coll_w, ids |-> waiting, status |-> "sent",
                           answer |-> [m \in Messages |-> 0]]}

\* A list that shows deleted messages fetches its own collection.
FetchListed ==
    /\ "deleted" \in Collections
    /\ \A m \in Messages : ~In(listed[m])
    /\ listed' = [m \in Messages |->
                    IF server[m].status \in {"listed", "hidden"}
                    THEN [view |-> "id_only", head |-> server[m].ver, body |-> 0]
                    ELSE Absent]
    /\ UNCHANGED <<storeVars, requests, worker, waitingWorker, flights, caller,
                   dropped>>

\* getMessageFullModelPromise(m, collection c) by a view, when the model is not
\* in the collection or already has its full view.
AskLoaded(v, c, m) ==
    /\ caller[v].ask = NoAsk
    /\ c = "all" => structure = "ready"
    /\ Get(c, m).view \in {"absent", "default"}
    /\ caller' = [caller EXCEPT ![v] =
                    [ask |-> [coll |-> c, msg |-> m],
                     got |-> IF In(Get(c, m)) THEN c ELSE "rejected"]]
    /\ UNCHANGED <<storeVars, listed, requests, worker, waitingWorker, flights,
                   dropped>>

\* The same when the text has to be fetched: a worker is created if none waits,
\* with the collection of this caller; addRequest joins the request for m or
\* makes one, and sends what waits when it is a full batch.
AskMissing(v, c, m, w) ==
    LET waiting == Unserviced \cup (IF requests[m] = "none" THEN {m} ELSE {})
        coll_w  == IF waitingWorker = NoWorker THEN c ELSE worker[w].coll
    IN
    /\ caller[v].ask = NoAsk
    /\ c = "all" => structure = "ready"
    /\ Get(c, m).view \in {"none", "id_only"}
    /\ IF waitingWorker = NoWorker THEN ~worker[w].timer ELSE w = waitingWorker
    /\ worker' = IF waitingWorker = NoWorker
                 THEN [worker EXCEPT ![w] = [timer |-> TRUE, coll |-> c]]
                 ELSE worker
    /\ caller' = [caller EXCEPT ![v] =
                    [ask |-> [coll |-> c, msg |-> m], got |-> "promise"]]
    /\ IF Cardinality(waiting) >= BatchSize
       THEN ExecuteRequest(w, waiting, coll_w)
       ELSE /\ waitingWorker' = w
            /\ requests' = [requests EXCEPT
                              ![m] = IF @ = "none" THEN "unserviced" ELSE @]
            /\ UNCHANGED flights
    /\ UNCHANGED <<storeVars, listed, dropped>>

\* The timer of worker w, which nothing ever clears.
Timeout(w) ==
    /\ worker[w].timer
    /\ worker' = [worker EXCEPT ![w].timer = FALSE]
    /\ ExecuteRequest(w, Unserviced, worker[w].coll)
    /\ UNCHANGED <<storeVars, listed, caller, dropped>>

\* The server answers a GET of full models; a purged message is not in the answer.
AnswerFlight(f) ==
    /\ f.status = "sent"
    /\ flights' = (flights \ {f}) \cup
         {[f EXCEPT !.status = "answered",
                    !.answer = [m \in Messages |->
                                  IF m \in f.ids /\ server[m].status # "purged"
                                  THEN server[m].ver ELSE 0]]}
    /\ UNCHANGED <<storeVars, listed, requests, worker, waitingWorker, caller,
                   dropped>>

\* The answer is put in the models of the collection of the worker that sent the
\* GET, oldest message first, and each promise is resolved with that model.  A
\* message that has no model there raises an error, and the rest of the answer
\* is dropped: its requests stay in progress.
Served(f) ==
    {m \in f.ids : /\ f.answer[m] # 0
                   /\ \A n \in f.ids : n <= m /\ f.answer[n] # 0
                                         => In(Get(f.coll, n))}

ReceiveFlight(f) ==
    /\ f.status = "answered"
    /\ flights' = flights \ {f}
    /\ requests' = [m \in Messages |->
                      IF m \in Served(f) THEN "none" ELSE requests[m]]
    /\ caller' = [v \in Callers |->
                    IF caller[v].got = "promise" /\ caller[v].ask.msg \in Served(f)
                    THEN [caller[v] EXCEPT !.got = f.coll]
                    ELSE caller[v]]
    /\ LET filled == [m \in Messages |->
                        IF m \in Served(f) THEN Full(f.answer[m])
                        ELSE Get(f.coll, m)]
       IN  IF f.coll = "all" THEN coll' = filled /\ UNCHANGED listed
                             ELSE listed' = filled /\ UNCHANGED coll
    /\ dropped' = (dropped \/ Served(f) # f.ids)
    /\ UNCHANGED <<server, netVars, structure, deferred, fetches, raced, failures,
                   worker, waitingWorker>>

\* The GET fails: nothing handles it, and its requests stay in progress.
FailFlight(f) ==
    /\ f.status = "sent"
    /\ failures < MaxFailures
    /\ failures' = failures + 1
    /\ flights' = flights \ {f}
    /\ dropped' = TRUE
    /\ UNCHANGED <<server, netVars, modelVars, fetches, raced, listed, requests,
                   worker, waitingWorker, caller>>

\* A view that was answered shows something else and may ask again.
AskAgain(v) ==
    /\ caller[v].got \in {"all", "deleted", "rejected"}
    /\ caller' = [caller EXCEPT ![v] = [ask |-> NoAsk, got |-> "nothing"]]
    /\ UNCHANGED <<storeVars, listed, requests, worker, waitingWorker, flights,
                   dropped>>

-------------------------------------------------------------------------------
(* The loader and the store together                                        *)

\* Answers on their way that the collection of all messages will take.
AnsweredFlights == {f \in flights : f.status = "answered" /\ f.coll = "all"}

StoreNext ==
    \/ \E m \in Messages, s \in {"listed", "hidden", "purged"} :
          Write(m, s, Outstanding # {} \/ \E f \in AnsweredFlights : m \in f.ids)
    \/ \E k \in DOMAIN fetches :
          \/ AnswerFetch(k, Outstanding # {} \/ AnsweredFlights # {})
          \/ ReceiveFetch(k)
          \/ FailFetch(k)
    \/ Subscribe
    \/ OnOpen
    \/ OnMessage
    \/ OnClose

LoaderNext ==
    \/ FetchListed
    \/ \E v \in Callers :
          \/ AskAgain(v)
          \/ \E c \in Collections, m \in Messages :
                \/ AskLoaded(v, c, m)
                \/ \E w \in Workers : AskMissing(v, c, m, w)
    \/ \E w \in Workers : Timeout(w)
    \/ \E f \in flights : AnswerFlight(f) \/ ReceiveFlight(f) \/ FailFlight(f)

Init == StoreInit /\ LoaderInit
Next == (StoreNext /\ UNCHANGED loaderVars) \/ LoaderNext

\* Timers fire, the server answers, and the connection is opened again; nothing
\* makes a view ask.
Fairness ==
    /\ WF_vars(OnOpen /\ UNCHANGED loaderVars)
    /\ WF_vars(Subscribe /\ UNCHANGED loaderVars)
    /\ WF_vars(OnMessage /\ UNCHANGED loaderVars)
    /\ WF_vars(/\ \E k \in DOMAIN fetches :
                    \/ AnswerFetch(k, Outstanding # {} \/ AnsweredFlights # {})
                    \/ ReceiveFetch(k)
               /\ UNCHANGED loaderVars)
    /\ \A w \in Workers : WF_vars(Timeout(w))
    /\ WF_vars(\E f \in flights : AnswerFlight(f) \/ ReceiveFlight(f))

Spec == Init /\ [][Next]_vars /\ Fairness

-------------------------------------------------------------------------------
LoaderTypeOK ==
    /\ StoreTypeOK
    /\ listed \in [Messages -> Model]
    /\ requests \in [Messages -> RequestState]
    /\ worker \in [Workers -> [timer : BOOLEAN, coll : {"all", "deleted"}]]
    /\ waitingWorker \in Workers \cup {NoWorker}
    /\ flights \subseteq Flight
    /\ caller \in [Callers -> [ask : Ask \cup {NoAsk},
                               got : {"nothing", "promise", "rejected", "all", "deleted"}]]
    /\ dropped \in BOOLEAN

\* The inductive invariant, in parts.  The worker that takes requests has its
\* timer set, and requests wait only while there is such a worker.
WaitingWorkerRuns ==
    /\ waitingWorker # NoWorker => worker[waitingWorker].timer
    /\ Unserviced # {} => waitingWorker # NoWorker

\* No message is in two GETs, and what a GET carries is marked in progress.
OneFlightPerMessage ==
    /\ \A f, g \in flights : f # g => f.ids \cap g.ids = {}
    /\ \A f \in flights : \A m \in f.ids : requests[m] = "inProgress"

\* Whoever holds a promise has a request for its message, and a request in
\* progress has its GET, unless an answer was cut short or lost.
RequestsHaveFlights ==
    /\ \A v \in Callers : caller[v].got = "promise" =>
          caller[v].ask \in Ask /\ requests[caller[v].ask.msg] # "none"
    /\ \A m \in Messages : requests[m] = "inProgress" =>
          dropped \/ \E f \in flights : m \in f.ids

LoaderIInv ==
    LoaderTypeOK /\ WaitingWorkerRuns /\ OneFlightPerMessage /\ RequestsHaveFlights

\* The inductive invariant behind SettledUnlessRaced, with those of the store.  An
\* answer on its way is still what the server says of each message that was not
\* written since.
AnswersAreCurrent ==
    \A m \in Messages : ~raced[m] =>
        /\ \A k \in Outstanding : fetches[k].heads[m] = Listing[m]
        /\ \A f \in AnsweredFlights : m \in f.ids =>
              f.answer[m] = IF server[m].status = "purged" THEN 0 ELSE server[m].ver

\* Once the last GET of the collection has been received, and no older one is on
\* its way, a model is current or its last change is on the connection.
CopyIsCurrent ==
    /\ structure = "ready" /\ socket = "open"
    /\ Outstanding = {} /\ fetches[Len(fetches)].status = "done"
    => \A m \in Messages :
          raced[m] \/ Agrees(m) \/ \E i \in DOMAIN channel : channel[i].msg = m

CopyIInv ==
    /\ WrittenHaveVersion /\ PushesInOrder /\ ChannelIsComplete
    /\ AnswersAreCurrent /\ CopyIsCurrent

\* A promise that a view holds has exactly one carrier: the message waits and
\* the timer of the waiting worker will send it, or one GET carries it.  Only
\* an answer cut short or a failed GET leaves it with none.
PromiseHasCarrier ==
    \A v \in Callers : caller[v].got = "promise" =>
        LET m == caller[v].ask.msg IN
        \/ /\ requests[m] = "unserviced"
           /\ \E w \in Workers : w = waitingWorker /\ worker[w].timer
           /\ \A f \in flights : m \notin f.ids
        \/ \E f \in flights : m \in f.ids /\ \A g \in flights \ {f} : m \notin g.ids
        \/ dropped

\* When nothing is on its way, the browser's copy agrees with the database,
\* whatever was lost while the websocket was closed, except for a message that
\* was written while an older answer was on its way.
SettledUnlessRaced ==
    Settled /\ AnsweredFlights = {} => \A m \in Messages : raced[m] \/ Agrees(m)

\* Every promise of a message's text is settled in the end, unless an answer
\* was cut short or lost.
PromisesSettle ==
    \A v \in Callers : caller[v].got = "promise" ~> caller[v].got # "promise" \/ dropped

\* If the connection stays open in the end, the browser's copy of each message
\* agrees with the database in the end, unless a request of it failed or an
\* older answer came last.
EventuallyAgrees ==
    <>[](socket = "open") =>
        \A m \in Messages : <>[](Agrees(m) \/ raced[m] \/ failures > 0)
===============================================================================
