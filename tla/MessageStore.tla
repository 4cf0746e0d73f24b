----------------------------- MODULE MessageStore -----------------------------
(***************************************************************************)
(* The browser's copy of the messages of a discussion: the collection of    *)
(* message structures that collectionManager.js fetches once, and that      *)
(* socket.js and models/base.js then keep up to date from the websocket.    *)
(*                                                                          *)
(* Three deliveries run side by side and nothing orders them: the answer    *)
(* of a GET of the structures (sent at start, and again each time the       *)
(* websocket opens), the changes the server pushes, and the close of the    *)
(* websocket, which loses what was pushed.  A model of the collection has   *)
(* a view: the structures are fetched with "id_only", which has no body;    *)
(* MessageLoader brings the "default" view when a message is shown.         *)
(*                                                                          *)
(* Content is abstracted to a version: head is the version of the           *)
(* structural attributes a model holds (parent, publication state), body    *)
(* the version of its subject and body, 0 when it has none.                 *)
(***************************************************************************)
EXTENDS Integers, Sequences, FiniteSets

CONSTANTS
    Messages,     \* the messages of the discussion: 1 .. n, oldest first
    MaxVersion,   \* bound: the writes of one message
    MaxOpens,     \* bound: how often the websocket opens
    MaxFailures   \* bound: how many requests of the browser fail

ASSUME MessagesAssumption == Messages \subseteq Nat \ {0}
ASSUME BoundsAssumption ==
    MaxVersion \in Nat \ {0} /\ MaxOpens \in Nat /\ MaxFailures \in Nat

VARIABLES
    server,       \* the database: status and version of each message
    socket,       \* Socket.state: STATE_CLOSED, STATE_CONNECTING, STATE_OPEN
    subscribed,   \* the changes router has subscribed this connection
    channel,      \* what was pushed on the connection and not yet received
    coll,         \* _allMessageStructureCollection: the model of each message
    structure,    \* _allMessageStructureCollectionPromise
    deferred,     \* items whose handler waits for that promise
    fetches,      \* the GETs of the collection, in the order they were sent
    raced,        \* history: did something older come after the last write?
    opens,        \* count: openings of the websocket
    failures      \* count: failed requests

netVars   == <<socket, subscribed, channel, opens>>
modelVars == <<coll, structure, deferred>>
storeVars == <<server, netVars, modelVars, fetches, raced, failures>>

Versions == 0 .. MaxVersion
Views    == {"absent", "none", "id_only", "default"}
Model    == [view : Views, head : Versions, body : Versions]
Record   == [status : {"new", "listed", "hidden", "purged"}, ver : Versions]
Item     == [msg : Messages, ver : Versions, gone : BOOLEAN]
Heads    == [Messages -> Versions]
Fetch    == [status : {"sent", "answered", "done", "failed"}, heads : Heads]

\* A model that is not in the collection.
Absent == [view |-> "absent", head |-> 0, body |-> 0]
In(model) == model.view # "absent"

\* The answer to the first message on a connection; it changes no model.
Connection == [msg |-> 0, ver |-> 0, gone |-> FALSE]

-------------------------------------------------------------------------------
(* What the two kinds of answer do to a model                               *)

\* updateFromSocket: a tombstone removes the model, any other item is added
\* or merged.  The view "changes" carries no "@view": a new model has none,
\* a merged one keeps its own.
UpdateFromSocket(model, item) ==
    IF item.gone THEN Absent
    ELSE [view |-> IF In(model) THEN model.view ELSE "none",
          head |-> item.ver, body |-> item.ver]

\* Mutant of SetFetched: a model keeps the view it had.
SetKeepsView(models, heads) ==
    [m \in Messages |->
        IF heads[m] = 0 THEN Absent
        ELSE [view |-> IF In(models[m]) THEN models[m].view ELSE "id_only",
              head |-> heads[m], body |-> models[m].body]]

\* Backbone's set() of a fetched collection: adds, merges, and removes the
\* models that the answer does not list.  Merging sets "@view" to id_only and
\* keeps the body.
SetFetched(models, heads) ==
    [m \in Messages |->
        IF heads[m] = 0 THEN Absent
        ELSE [view |-> "id_only", head |-> heads[m], body |-> models[m].body]]

\* The handlers that waited for the collection run in order: of the items of a
\* message only the last one shows, and a tombstone is always the last.
RunDeferred(models) ==
    [m \in Messages |->
        LET mine == {i \in DOMAIN deferred : deferred[i].msg = m}
            last == CHOOSE i \in mine : \A j \in mine : j <= i
        IN  IF mine = {} THEN models[m]
            ELSE UpdateFromSocket(models[m], deferred[last])]

\* The listing of posts?view=id_only: every message but the tombstones.
Listing ==
    [m \in Messages |->
        IF server[m].status = "listed" THEN server[m].ver ELSE 0]

\* Mutant of FetchAgain: the listener of socket:open is missing.
NeverFetchAgain == fetches

\* The first message of a connection triggers socket:open: the collection, if it
\* already listens to that event, is fetched again.
FetchAgain ==
    IF socket = "connecting" /\ structure = "ready"
    THEN Append(fetches, [status |-> "sent", heads |-> [m \in Messages |-> 0]])
    ELSE fetches

Outstanding == {k \in DOMAIN fetches : fetches[k].status = "answered"}

-------------------------------------------------------------------------------
StoreInit ==
    /\ server = [m \in Messages |-> [status |-> "new", ver |-> 0]]
    /\ socket = "closed" /\ subscribed = FALSE /\ channel = <<>>
    /\ coll = [m \in Messages |-> Absent]
    /\ structure = "pending"
    /\ deferred = <<>>
    /\ fetches = <<[status |-> "sent", heads |-> [m \in Messages |-> 0]]>>
    /\ raced = [m \in Messages |-> FALSE]
    /\ opens = 0
    /\ failures = 0

(* The server ------------------------------------------------------------- *)

\* A transaction writes message m: it is posted, edited, deleted (a tombstone
\* that is still there, pushed as an update) or its row is purged.  The change
\* is pushed to the connections that are subscribed when it commits.
\* answered says whether an answer with an older version is on its way.
Write(m, status, answered) ==
    /\ server[m].ver < MaxVersion
    /\ <<server[m].status, status>> \in
          {<<"new", "listed">>, <<"listed", "listed">>, <<"listed", "hidden">>,
           <<"listed", "purged">>, <<"hidden", "purged">>}
    /\ server' = [server EXCEPT ![m] = [status |-> status, ver |-> @.ver + 1]]
    /\ channel' = IF subscribed
                  THEN Append(channel, [msg  |-> m, ver |-> server[m].ver + 1,
                                        gone |-> status = "purged"])
                  ELSE channel
    /\ raced' = [raced EXCEPT ![m] = @ \/ answered]
    /\ UNCHANGED <<socket, subscribed, opens, modelVars, fetches, failures>>

\* The server has read the discussion and answers the k-th GET.  A snapshot
\* that is alone on its way makes good what was missed before it.
AnswerFetch(k, answered) ==
    /\ fetches[k].status = "sent"
    /\ fetches' = [fetches EXCEPT ![k] = [status |-> "answered",
                                          heads  |-> Listing]]
    /\ raced' = IF answered THEN raced ELSE [m \in Messages |-> FALSE]
    /\ UNCHANGED <<server, netVars, modelVars, failures>>

\* The router checks the token and the discussion, subscribes the connection
\* and sends it a Connection object.
Subscribe ==
    /\ socket = "connecting"
    /\ ~subscribed
    /\ subscribed' = TRUE
    /\ channel' = Append(channel, Connection)
    /\ UNCHANGED <<server, socket, opens, modelVars, fetches, raced, failures>>

(* The browser ------------------------------------------------------------ *)

\* Socket.init and onOpen: the token and the discussion are sent.
OnOpen ==
    /\ socket = "closed"
    /\ opens < MaxOpens
    /\ opens' = opens + 1
    /\ socket' = "connecting"
    /\ UNCHANGED <<server, subscribed, channel, modelVars, fetches,
                   raced, failures>>

\* onMessage: socket:open on the first message of a connection; then processData
\* hands the item to the collection, or queues the handler.
OnMessage ==
    /\ socket \in {"connecting", "open"}
    /\ channel # <<>>
    /\ LET item == Head(channel) IN
       /\ channel' = Tail(channel)
       /\ socket' = "open"
       /\ fetches' = FetchAgain
       /\ coll' = IF item # Connection /\ structure = "ready"
                  THEN [coll EXCEPT ![item.msg] = UpdateFromSocket(@, item)]
                  ELSE coll
       /\ deferred' = IF item # Connection /\ structure = "pending"
                      THEN Append(deferred, item)
                      ELSE deferred
    /\ UNCHANGED <<server, subscribed, opens, structure, raced, failures>>

\* onClose: what was on the connection is lost; it is opened again later.
OnClose ==
    /\ socket \in {"connecting", "open"}
    /\ socket' = "closed" /\ subscribed' = FALSE /\ channel' = <<>>
    /\ UNCHANGED <<server, opens, modelVars, fetches, raced, failures>>

\* The answer of the k-th GET is put in the collection.  The first one resolves
\* the promise: the collection listens to socket:open from now on, and the
\* handlers of the items received so far run.
ReceiveFetch(k) ==
    /\ fetches[k].status = "answered"
    /\ fetches' = [fetches EXCEPT ![k].status = "done"]
    /\ LET fetched == SetFetched(coll, fetches[k].heads) IN
       coll' = IF k = 1 THEN RunDeferred(fetched) ELSE fetched
    /\ IF k = 1 THEN structure' = "ready" /\ deferred' = <<>>
                ELSE UNCHANGED <<structure, deferred>>
    /\ raced' = [m \in Messages |->
                   \/ raced[m]
                   \/ /\ k = 1
                      /\ \E i \in DOMAIN deferred : deferred[i].msg = m
                      /\ \A i \in DOMAIN deferred :
                            deferred[i].msg = m => deferred[i].ver < server[m].ver]
    /\ UNCHANGED <<server, netVars, failures>>

\* A GET fails.  Nothing asks again; after the first one the promise resolves
\* to no collection, for good.
FailFetch(k) ==
    /\ fetches[k].status = "sent"
    /\ failures < MaxFailures
    /\ failures' = failures + 1
    /\ fetches' = [fetches EXCEPT ![k].status = "failed"]
    /\ IF k = 1 THEN structure' = "failed" /\ deferred' = <<>>
                ELSE UNCHANGED <<structure, deferred>>
    /\ UNCHANGED <<server, netVars, coll, raced>>

-------------------------------------------------------------------------------
StoreTypeOK ==
    /\ server \in [Messages -> Record]
    /\ socket \in {"closed", "connecting", "open"}
    /\ subscribed \in BOOLEAN
    /\ channel \in Seq(Item \cup {Connection})
    /\ coll \in [Messages -> Model]
    /\ structure \in {"pending", "ready", "failed"}
    /\ deferred \in Seq(Item)
    /\ fetches \in Seq(Fetch)
    /\ raced \in [Messages -> BOOLEAN]
    /\ opens \in 0 .. MaxOpens
    /\ failures \in 0 .. MaxFailures

\* The model of m says what the database says: a listed message is there with
\* its current structure, a purged one is not, a deleted one only as deleted;
\* and what a model of the full view shows is the current text.
Agrees(m) ==
    /\ server[m].status = "listed" => In(coll[m])
    /\ server[m].status = "purged" => ~In(coll[m])
    /\ In(coll[m]) => coll[m].head = server[m].ver
    /\ coll[m].view = "default" => coll[m].body = server[m].ver

\* Nothing is on its way: the connection is open and read to its end, no GET is
\* outstanding, and the last one did not fail.
Settled ==
    /\ socket = "open" /\ channel = <<>>
    /\ structure = "ready"
    /\ \A k \in DOMAIN fetches : fetches[k].status \in {"done", "failed"}
    /\ fetches[Len(fetches)].status = "done"

-------------------------------------------------------------------------------
(* The inductive invariant of the store, in parts                           *)

\* A row that was ever written has a version.
WrittenHaveVersion ==
    \A m \in Messages : server[m].status = "new" <=> server[m].ver = 0

InOrder(s) ==
    \A i, j \in DOMAIN s : i < j /\ s[i].msg = s[j].msg => s[i].ver < s[j].ver

Before(s, t) ==
    \A i \in DOMAIN s, j \in DOMAIN t : s[i].msg = t[j].msg => s[i].ver < t[j].ver

\* A pushed version is one of the row, and its last one says whether it is purged.
AreWrites(s) ==
    \A i \in DOMAIN s, m \in Messages : s[i].msg = m =>
        /\ s[i].ver <= server[m].ver
        /\ s[i].ver = server[m].ver => (s[i].gone <=> server[m].status = "purged")

\* What was pushed of a message comes in the order of its writes, the items that
\* wait for the collection before those still on the connection.
PushesInOrder ==
    /\ InOrder(deferred) /\ InOrder(channel) /\ Before(deferred, channel)
    /\ AreWrites(deferred) /\ AreWrites(channel)

\* The connection carries every write since the subscription: the last item of a
\* message on it is its last write.
ChannelIsComplete ==
    /\ socket = "open" => subscribed
    /\ channel # <<>> => subscribed
    /\ \A i \in DOMAIN channel, m \in Messages :
          channel[i].msg = m /\ (\A j \in DOMAIN channel : j > i => channel[j].msg # m)
              => channel[i].ver = server[m].ver
===============================================================================
