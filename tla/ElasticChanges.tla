--------------------------- MODULE ElasticChanges ---------------------------
(***************************************************************************)
(* The search index that follows the database: the Elasticsearch data      *)
(* manager of assembl/indexing/changes.py, the listeners that feed it      *)
(* (assembl/indexing/reindex.py, assembl/lib/sqla.py), the request         *)
(* subscriber that joins it to the transaction                             *)
(* (assembl/indexing/__init__.py) and the full reindexing script.          *)
(*                                                                         *)
(* Threads run transactions against one database and one index.  A post is *)
(* reduced to what decides its place in the index: its text (a number that *)
(* a new edit never reuses), whether it is shown (published, not hidden,   *)
(* not tombstoned, not a fiction) and whether an idea whose posts are      *)
(* indexed is linked to it.                                                *)
(***************************************************************************)
EXTENDS Integers

CONSTANTS
    Thread,      \* threads that run transactions
    Web,         \* those that run a Pyramid request per transaction
    Script,      \* those that run the full reindexing script
    Post,        \* posts
    Columns,     \* what the transactions of this instance modify
    MaxText,     \* bound: texts are numbered 1..MaxText
    MaxOutages   \* bound: how often Elasticsearch fails to answer

ASSUME ThreadAssumption == Web \subseteq Thread /\ Script \subseteq Thread
ASSUME ColumnsAssumption == Columns \subseteq {"text", "shown", "link", "unlink"}
ASSUME BoundAssumption == MaxText \in Nat \ {0} /\ MaxOutages \in Nat

VARIABLES
    db,          \* committed rows of Postgres
    es,          \* text under which the index holds a post, Nothing if it does not
    phase,       \* where each thread's transaction stands
    loaded,      \* posts in the identity map of the thread's session
    seen,        \* their rows as the session sees them
    dirty,       \* modification not flushed yet: {} or one <<post, column>>
    written,     \* modifications flushed to Postgres, not committed
    joined,      \* is the data manager among the transaction's resources?
    activated,   \* the manager's _activated
    index,       \* the manager's _index: text to index, Nothing for no entry
    unindex,     \* the manager's _unindex
    lastText,    \* the last text given to a post
    outages,     \* failures of Elasticsearch so far
    flushed,     \* history: the texts the running transactions have flushed
    committed,   \* history: the texts that transactions which committed had flushed
    quiet        \* history: has the script run alone since it started?

session == <<loaded, seen, dirty, written, flushed>>
manager == <<joined, activated, index, unindex>>
vars == <<db, es, phase, session, manager, lastText, outages, committed, quiet>>

Nothing == 0
Text == 1..MaxText
Row == [text : Text, shown : BOOLEAN, linked : BOOLEAN]
Column == {"text", "shown", "linked"}
PostColumn == {"text", "shown"}     \* the columns of the post's own row

TypeOK ==
    /\ db \in [Post -> Row]
    /\ es \in [Post -> Text \cup {Nothing}]
    /\ phase \in [Thread -> {"idle", "active", "committing", "finishing", "reindexing"}]
    /\ loaded \in [Thread -> SUBSET Post]
    /\ seen \in [Thread -> [Post -> Row]]
    /\ dirty \in [Thread -> SUBSET (Post \X Column)]
    /\ written \in [Thread -> SUBSET (Post \X Column)]
    /\ joined \in [Thread -> BOOLEAN]
    /\ activated \in [Thread -> BOOLEAN]
    /\ index \in [Thread -> [Post -> Text \cup {Nothing}]]
    /\ unindex \in [Thread -> SUBSET Post]
    /\ lastText \in Text
    /\ outages \in 0..MaxOutages
    /\ flushed \in [Thread -> SUBSET (Post \X Text)]
    /\ committed \in SUBSET (Post \X Text)
    /\ quiet \in BOOLEAN

FirstRow == [text |-> 1, shown |-> TRUE, linked |-> FALSE]

\* Posts as they are just after their creation: shown, linked to no idea yet,
\* so that get_data gives nothing for them and the index does not hold them.
Init ==
    /\ db = [p \in Post |-> FirstRow]
    /\ es = [p \in Post |-> Nothing]
    /\ phase = [t \in Thread |-> "idle"]
    /\ loaded = [t \in Thread |-> {}]
    /\ seen = [t \in Thread |-> [p \in Post |-> FirstRow]]
    /\ dirty = [t \in Thread |-> {}]
    /\ written = [t \in Thread |-> {}]
    /\ joined = [t \in Thread |-> FALSE]
    /\ activated = [t \in Thread |-> FALSE]
    /\ index = [t \in Thread |-> [p \in Post |-> Nothing]]
    /\ unindex = [t \in Thread |-> {}]
    /\ lastText = 1
    /\ outages = 0
    /\ flushed = [t \in Thread |-> {}]
    /\ committed = Post \X {1}
    /\ quiet = FALSE

-----------------------------------------------------------------------------
(* The data manager *)

\* Mutants of Clear: the queues, or _activated, survive the transaction.
ClearKeepsQueues(t) ==
    activated' = [activated EXCEPT ![t] = FALSE] /\ UNCHANGED <<index, unindex>>

ClearKeepsActivated(t) ==
    /\ index' = [index EXCEPT ![t] = [p \in Post |-> Nothing]]
    /\ unindex' = [unindex EXCEPT ![t] = {}]
    /\ UNCHANGED activated

Clear(t) ==
    /\ index' = [index EXCEPT ![t] = [p \in Post |-> Nothing]]
    /\ unindex' = [unindex EXCEPT ![t] = {}]
    /\ activated' = [activated EXCEPT ![t] = FALSE]

\* A transaction that is committing takes no new resource: join raises.
CanJoin(t) == activated[t] \/ phase[t] # "committing"

Join(t) ==
    /\ joined' = [joined EXCEPT ![t] = @ \/ ~activated[t]]
    /\ activated' = [activated EXCEPT ![t] = TRUE]

\* Mutant of IndexContent: an earlier unindexing of the post stays queued.
IndexKeepsUnindex(t, p, row) ==
    IF row.linked
    THEN /\ Join(t)
         /\ index' = [index EXCEPT ![t][p] = row.text]
         /\ UNCHANGED unindex
    ELSE UNCHANGED manager

\* get_data gives no uid for a post that no idea indexes: index_content then
\* does nothing, and unindex_content returns before it notes anything.
IndexContent(t, p, row) ==
    IF row.linked
    THEN /\ Join(t)
         /\ unindex' = [unindex EXCEPT ![t] = @ \ {p}]
         /\ index' = [index EXCEPT ![t][p] = row.text]
    ELSE UNCHANGED manager

UnindexContent(t, p, row) ==
    /\ Join(t)
    /\ IF row.linked
       THEN /\ index' = [index EXCEPT ![t][p] = Nothing]
            /\ unindex' = [unindex EXCEPT ![t] = @ \cup {p}]
       ELSE UNCHANGED <<index, unindex>>

\* reindex_content of a post, and of a link, which hands on its post.
ReindexContent(t, p, row) ==
    IF row.shown THEN IndexContent(t, p, row) ELSE UnindexContent(t, p, row)

JoinsFor(row) == ~row.shown \/ row.linked

\* The index after the bulk request of t, of which only the actions on the
\* posts of `done` were executed.  The deletions follow the indexations.
AfterBulk(t, done) ==
    [p \in Post |->
        IF p \notin done THEN es[p]
        ELSE IF p \in unindex[t] THEN Nothing
        ELSE IF index[t][p] # Nothing THEN index[t][p] ELSE es[p]]

HasPending(t) == unindex[t] # {} \/ \E p \in Post : index[t][p] # Nothing

-----------------------------------------------------------------------------
(* Transactions *)

\* pyramid_tm begins the transaction, then the NewRequest event joins the
\* manager to it.  A Celery task or a command-line script fires no such event.
Begin(t) ==
    /\ phase[t] = "idle"
    /\ t \notin Script
    /\ phase' = [phase EXCEPT ![t] = "active"]
    /\ IF t \in Web THEN Join(t) ELSE UNCHANGED <<joined, activated>>
    /\ quiet' = FALSE
    /\ UNCHANGED <<db, es, session, index, unindex, lastText, outages, committed>>

\* The row of p in the session of t: the identity map keeps what it loaded.
\* Links are not read there but by a query, at each indexation.
Loaded(t, p) == IF p \in loaded[t] THEN seen[t][p] ELSE db[p]

Linked(t, p) ==
    IF <<p, "linked">> \in dirty[t] \cup written[t] THEN seen[t][p].linked ELSE db[p].linked

\* One mutation of one object, left in the session until the next flush.  The
\* next mutation queries first, which flushes this one.
Modify(t, p) ==
    /\ phase[t] = "active"
    /\ dirty[t] = {}
    /\ loaded' = [loaded EXCEPT ![t] = @ \cup {p}]
    /\ \/ /\ "text" \in Columns
          /\ lastText < MaxText
          /\ lastText' = lastText + 1
          /\ seen' = [seen EXCEPT ![t][p] = [Loaded(t, p) EXCEPT !.text = lastText + 1]]
          /\ dirty' = [dirty EXCEPT ![t] = {<<p, "text">>}]
       \/ /\ "shown" \in Columns
          /\ seen' = [seen EXCEPT ![t][p] = [Loaded(t, p) EXCEPT !.shown = ~@]]
          /\ dirty' = [dirty EXCEPT ![t] = {<<p, "shown">>}]
          /\ UNCHANGED lastText
       \/ /\ IF Linked(t, p) THEN "unlink" \in Columns ELSE "link" \in Columns
          /\ seen' = [seen EXCEPT ![t][p] = [Loaded(t, p) EXCEPT !.linked = ~Linked(t, p)]]
          /\ dirty' = [dirty EXCEPT ![t] = {<<p, "linked">>}]
          /\ UNCHANGED lastText
    /\ UNCHANGED <<db, es, phase, written, flushed, manager, outages, committed, quiet>>

\* The UPDATE of a post waits while another transaction holds its row.
RowFree(t, p) ==
    \A u \in Thread \ {t} : \A c \in PostColumn : <<p, c>> \notin written[u]

\* What the listener of a flushed modification sees of its post.
Flushed(t, p) == [seen[t][p] EXCEPT !.linked = Linked(t, p)]

CanFlush(t, p, c) ==
    /\ phase[t] \in {"active", "committing"}
    /\ <<p, c>> \in dirty[t]
    /\ c \in PostColumn => RowFree(t, p)

\* A flush, by a query or by tpc_begin of the SQLAlchemy manager.
Flush(t) ==
    /\ \E p \in Post, c \in Column :
        /\ CanFlush(t, p, c)
        /\ JoinsFor(Flushed(t, p)) => CanJoin(t)
        /\ ReindexContent(t, p, Flushed(t, p))
    /\ written' = [written EXCEPT ![t] = @ \cup dirty[t]]
    /\ flushed' = [flushed EXCEPT
            ![t] = @ \cup {<<p, seen[t][p].text>> : p \in {q \in Post : <<q, "text">> \in dirty[t]}}]
    /\ dirty' = [dirty EXCEPT ![t] = {}]
    /\ UNCHANGED <<db, es, phase, loaded, seen, lastText, outages, committed, quiet>>

\* The transaction ends, in success or not: the session forgets everything.
EndSession(t) ==
    /\ loaded' = [loaded EXCEPT ![t] = {}]
    /\ seen' = [seen EXCEPT ![t] = [p \in Post |-> FirstRow]]
    /\ dirty' = [dirty EXCEPT ![t] = {}]
    /\ written' = [written EXCEPT ![t] = {}]
    /\ flushed' = [flushed EXCEPT ![t] = {}]

\* Mutant of Discard: no abort reaches the manager.
DiscardSkipsManager(t) ==
    /\ EndSession(t)
    /\ joined' = [joined EXCEPT ![t] = FALSE]
    /\ UNCHANGED <<activated, index, unindex>>
    /\ UNCHANGED <<db, es, lastText, outages, committed, quiet>>

\* abort and tpc_abort reach the manager only as a resource of the transaction.
Discard(t) ==
    /\ EndSession(t)
    /\ joined' = [joined EXCEPT ![t] = FALSE]
    /\ IF joined[t] THEN Clear(t) ELSE UNCHANGED <<activated, index, unindex>>
    /\ UNCHANGED <<db, es, lastText, outages, committed, quiet>>

\* The listener joins the manager to a transaction that is already committing:
\* join raises, in the flush, and the commit fails.
LateJoin(t) ==
    /\ phase[t] = "committing"
    /\ \E p \in Post, c \in Column :
        CanFlush(t, p, c) /\ JoinsFor(Flushed(t, p)) /\ ~CanJoin(t)

JoinRefused(t) ==
    /\ LateJoin(t)
    /\ phase' = [phase EXCEPT ![t] = "idle"]
    /\ Discard(t)

\* The transaction is aborted, or the database refuses a flush or the commit.
Rollback(t) ==
    /\ phase[t] \in {"active", "committing"}
    /\ phase' = [phase EXCEPT ![t] = "idle"]
    /\ Discard(t)

\* A GraphQL mutation raises: it aborts the transaction, and the rest of the
\* request goes on in a new one, to which nothing has joined the manager.
AbortMutation(t) ==
    /\ t \in Web
    /\ phase[t] = "active"
    /\ UNCHANGED phase
    /\ Discard(t)

StartCommit(t) ==
    /\ phase[t] = "active"
    /\ phase' = [phase EXCEPT ![t] = "committing"]
    /\ UNCHANGED <<db, es, session, manager, lastText, outages, committed, quiet>>

\* The row of p in Postgres as the transaction of t sees it there: what t has
\* flushed, over what was committed.
Written(t, p) ==
    [text   |-> IF <<p, "text">> \in written[t] THEN seen[t][p].text ELSE db[p].text,
     shown  |-> IF <<p, "shown">> \in written[t] THEN seen[t][p].shown ELSE db[p].shown,
     linked |-> IF <<p, "linked">> \in written[t] THEN seen[t][p].linked ELSE db[p].linked]

\* tpc_vote of the SQLAlchemy manager commits to Postgres.
Vote(t) ==
    /\ phase[t] = "committing"
    /\ dirty[t] = {}
    /\ phase' = [phase EXCEPT ![t] = "finishing"]
    /\ db' = [p \in Post |-> Written(t, p)]
    /\ committed' = committed \cup flushed[t]
    /\ EndSession(t)
    /\ UNCHANGED <<es, manager, lastText, outages, quiet>>

\* tpc_finish sends one bulk request, and clears.
Finish(t) ==
    /\ phase[t] = "finishing"
    /\ phase' = [phase EXCEPT ![t] = "idle"]
    /\ joined' = [joined EXCEPT ![t] = FALSE]
    /\ IF joined[t]
       THEN es' = AfterBulk(t, Post) /\ Clear(t)
       ELSE UNCHANGED <<es, activated, index, unindex>>
    /\ UNCHANGED <<db, session, lastText, outages, committed, quiet>>

\* Elasticsearch does not answer: bulk raises after some of its chunks, and
\* tpc_abort clears what could not be sent.  Postgres has already committed.
FinishFails(t) ==
    /\ phase[t] = "finishing"
    /\ joined[t]
    /\ HasPending(t)
    /\ outages < MaxOutages
    /\ outages' = outages + 1
    /\ \E done \in SUBSET Post : es' = AfterBulk(t, done)
    /\ phase' = [phase EXCEPT ![t] = "idle"]
    /\ joined' = [joined EXCEPT ![t] = FALSE]
    /\ Clear(t)
    /\ UNCHANGED <<db, session, lastText, committed, quiet>>

-----------------------------------------------------------------------------
(* The full reindexing script *)

Others(t) == Thread \ {t}

\* The index is deleted and created again; one query loads the shown posts.
StartReindex(t) ==
    /\ t \in Script
    /\ phase[t] = "idle"
    /\ phase' = [phase EXCEPT ![t] = "reindexing"]
    /\ es' = [p \in Post |-> Nothing]
    /\ loaded' = [loaded EXCEPT ![t] = {p \in Post : db[p].shown}]
    /\ seen' = [seen EXCEPT ![t] = db]
    /\ quiet' = \A u \in Others(t) : phase[u] = "idle"
    /\ UNCHANGED <<db, dirty, written, flushed, manager, lastText, outages, committed>>

\* The generator yields one more post; links are queried at that moment.
ReindexOne(t) ==
    /\ phase[t] = "reindexing"
    /\ \E p \in loaded[t] :
        /\ IndexContent(t, p, Flushed(t, p))
        /\ loaded' = [loaded EXCEPT ![t] = @ \ {p}]
    /\ UNCHANGED <<db, es, phase, seen, dirty, written, flushed, lastText, outages, committed, quiet>>

\* Every 500 items the script calls tpc_finish itself: the manager forgets that
\* it is activated, and the transaction keeps it.
IntermediateCommit(t) ==
    /\ phase[t] = "reindexing"
    /\ HasPending(t)
    /\ es' = AfterBulk(t, Post)
    /\ Clear(t)
    /\ UNCHANGED <<db, phase, session, joined, lastText, outages, committed, quiet>>

\* Mutant of EndReindex: what follows the last full batch of 500 is not sent.
EndReindexDropsRest(t) ==
    /\ phase[t] = "reindexing"
    /\ loaded[t] = {}
    /\ Clear(t)
    /\ joined' = [joined EXCEPT ![t] = FALSE]
    /\ phase' = [phase EXCEPT ![t] = "idle"]
    /\ EndSession(t)
    /\ UNCHANGED <<db, es, lastText, outages, committed, quiet>>

\* The generator is consumed: a last tpc_finish, then a commit with nothing left.
EndReindex(t) ==
    /\ phase[t] = "reindexing"
    /\ loaded[t] = {}
    /\ es' = AfterBulk(t, Post)
    /\ Clear(t)
    /\ joined' = [joined EXCEPT ![t] = FALSE]
    /\ phase' = [phase EXCEPT ![t] = "idle"]
    /\ EndSession(t)
    /\ UNCHANGED <<db, lastText, outages, committed, quiet>>

\* A bulk request of the script raises: the script ends there.
ReindexFails(t) ==
    /\ phase[t] = "reindexing"
    /\ HasPending(t)
    /\ outages < MaxOutages
    /\ outages' = outages + 1
    /\ \E done \in SUBSET Post : es' = AfterBulk(t, done)
    /\ Clear(t)
    /\ joined' = [joined EXCEPT ![t] = FALSE]
    /\ phase' = [phase EXCEPT ![t] = "idle"]
    /\ EndSession(t)
    /\ UNCHANGED <<db, lastText, committed, quiet>>

Next ==
    \E t \in Thread :
        \/ Begin(t)
        \/ \E p \in Post : Modify(t, p)
        \/ Flush(t)
        \/ JoinRefused(t)
        \/ Rollback(t)
        \/ AbortMutation(t)
        \/ StartCommit(t)
        \/ Vote(t)
        \/ Finish(t)
        \/ FinishFails(t)
        \/ StartReindex(t)
        \/ ReindexOne(t)
        \/ IntermediateCommit(t)
        \/ EndReindex(t)
        \/ ReindexFails(t)

Spec == Init /\ [][Next]_vars

-----------------------------------------------------------------------------
(* Properties *)

\* The text a full and correct index holds for a row.
IndexedText(row) == IF row.shown /\ row.linked THEN row.text ELSE Nothing

AtRest == \A t \in Thread : phase[t] = "idle"

\* "only put the changes to elasticsearch if postgres successfully committed"
\* (changes.py 7-8): whatever is rolled back, refused or aborted within a
\* request, and whichever thread writes, the index only ever holds a text that
\* a transaction which committed gave the post.
OnlyCommittedText ==
    \A p \in Post : es[p] # Nothing => <<p, es[p]>> \in committed

\* The manager is one thread-local object for all transactions of a thread.
\* What it has queued always belongs to the transaction that will flush or
\* discard it, and a transaction leaves nothing to the next: neither changes nor
\* an _activated that would keep the next one from joining.
NothingLeftOver ==
    \A t \in Thread :
        /\ HasPending(t) \/ activated[t] => joined[t]
        /\ phase[t] = "idle" => ~joined[t] /\ ~activated[t] /\ ~HasPending(t)

\* "If by any bad luck, the elasticsearch is not responding, the postgres
\* database and elasticsearch will be out of sync" (changes.py 39-40): as long
\* as it responds, the index is what the database says when nothing is running.
SyncedUnlessOutage ==
    AtRest /\ outages = 0 => \A p \in Post : es[p] = IndexedText(db[p])

\* "We can always reindex completely the elasticsearch index to sync it again"
\* (changes.py 40-41): a full reindexing that no transaction overlaps leaves the
\* index in sync, whatever failed before it.
ReindexHeals ==
    [][\A t \in Thread : EndReindex(t) /\ quiet =>
            \A p \in Post : es'[p] = IndexedText(db'[p])]_vars

-----------------------------------------------------------------------------
(* The inductive invariant *)

\* A thread outside a transaction of its own has nothing unflushed, flushed or
\* written.
SessionEnds ==
    \A t \in Thread : phase[t] \notin {"active", "committing"} =>
        dirty[t] = {} /\ written[t] = {} /\ flushed[t] = {}

\* Every text a thread can queue or write comes from a commit, or from a flush
\* of its own transaction.
TextsHaveOrigin ==
    /\ \A p \in Post : <<p, db[p].text>> \in committed
    /\ \A t \in Thread, p \in Post :
        /\ index[t][p] # Nothing => <<p, index[t][p]>> \in committed \cup flushed[t]
        /\ p \in loaded[t] /\ <<p, "text">> \notin dirty[t] =>
                <<p, seen[t][p].text>> \in committed \cup flushed[t]
        /\ \A c \in Column : <<p, c>> \in dirty[t] \cup written[t] => p \in loaded[t]

\* A thread that has queued something has joined its transaction.
QueuesAreJoined ==
    \A t \in Thread :
        /\ HasPending(t) => activated[t]
        /\ activated[t] => joined[t]
        /\ joined[t] => phase[t] # "idle"

\* While the script runs alone, what it has sent and queued is in sync for the
\* posts it is done with, and nothing for those it has still to read.
AloneIsExact ==
    \A t \in Thread : phase[t] = "reindexing" /\ quiet =>
        /\ \A u \in Others(t) : phase[u] = "idle"
        /\ \A p \in loaded[t] : seen[t][p] = db[p] /\ db[p].shown
        /\ \A p \in Post :
            AfterBulk(t, Post)[p] = IF p \in loaded[t] THEN Nothing ELSE IndexedText(db[p])

IInv == TypeOK /\ SessionEnds /\ TextsHaveOrigin /\ QueuesAreJoined /\ OnlyCommittedText /\ AloneIsExact

-----------------------------------------------------------------------------
(* What keeps the index in sync when there is one thread *)

\* Between two flushes, bulk would put in the index what Postgres has of p for
\* the transaction of t: the queue has followed every flush.  A post with an
\* unflushed modification is only known to be queued for nothing as long as no
\* idea is linked to it; its row in the session is otherwise the one of Postgres.
InStep(t, p) ==
    /\ (\A c \in Column : <<p, c>> \notin dirty[t]) =>
            AfterBulk(t, Post)[p] = IndexedText(Written(t, p))
    /\ ~Linked(t, p) => AfterBulk(t, Post)[p] = Nothing
    /\ <<p, "linked">> \in dirty[t] \cup written[t] => seen[t][p].linked
    /\ p \in loaded[t] =>
        /\ <<p, "text">> \in dirty[t] \cup written[t] \/ seen[t][p].text = db[p].text
        /\ <<p, "shown">> \in dirty[t] \cup written[t] \/ seen[t][p].shown = db[p].shown

\* One thread, no link removed and no failure of Elasticsearch: what the thread
\* has queued is in step with Postgres, and the index with what was committed
\* until the bulk request is due.
InSync ==
    outages = 0 => \A t \in Thread :
        /\ \A x, y \in dirty[t] : x = y
        /\ phase[t] = "reindexing" => quiet
        /\ phase[t] # "reindexing" => \A p \in Post : InStep(t, p)
        /\ phase[t] \in {"idle", "active", "committing"} =>
                \A p \in Post : es[p] = IndexedText(db[p])
=============================================================================
