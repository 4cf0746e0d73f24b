# TLA+ models of Assembl

Assembl is a web application for large online debates: a Pyramid/SQLAlchemy
back end in Python 2 (`assembl/`), two browser front ends (`static/`, a
Marionette application, and `static2/`, a React one), and a set of processes
beside the web server: celery workers, a process that reads external sources of
posts (mail boxes, feeds, Facebook), a router of change messages, an
Elasticsearch index.  This directory models the parts where threads, processes,
promises, messages and failures meet: two in the back end (the source readers,
the search index) and three in the browsers (the copy of the messages that the
websocket keeps up to date, the message list, the administration of votes).

## Inventory

| component | state | operations | hard behaviour | correct when |
|---|---|---|---|---|
| reader thread (`tasks/source_reader.py`, `imaplib2_source_reader.py`) | status, error count, backoff, event, mailbox; the row's `connection_error`, `error_backoff_until` | `run` and what it calls | network errors anywhere, its status is changed by another thread, its row outlives it | it uses a mailbox it has, retries with bounded backoff, stops on an irrecoverable error, ends disconnected |
| source dispatcher (same file; `views/api2/content_source.py`) | the reader of each source, the broker's queue | `callback`, `read`, `shutdown`, the reader's `wake` and `shutdown` | no lock between dispatcher and readers; exceptions in a callback; redelivery; the request commits after it has published | a wake of an idle source is served; a reader that was shut down stays down |
| IMAP import | `last_imported_email_uid`, stored messages, `reimporting` | `do_read`, `import_email` | crash between imports, deleted messages, flag set by another thread | every message stored once |
| notification delivery (`tasks/notify.py`) | delivery state of each notification, mail sent | sweep, `notify`, retries | crash after sending, two sweeps at once | no mail lost, few sent twice, final states final |
| notification creation (`models/notification.py`, `tasks/notification_dispatch.py`) | subscriptions, notifications | post created or modified | handled in a celery task or a thread, before or after commit | one notification for a subscription and a post |
| search index (`indexing/changes.py`) | pending changes of a transaction, the index | `index_content`, `unindex_content`, two-phase commit, full reindexing | failure between database and index, threads that finish in another order than they committed | the index holds only what was committed; a reindexing repairs it |
| model event watchers (`lib/model_watcher.py`, `tasks/threaded_model_watcher.py`) | queue of events | post and idea events | thread hand-over | each event handled once, in order |
| changes router (`tasks/changes_router.py`, `lib/zmqlib.py`) | sockets, permissions of tokens | publish, subscribe, filter | slow or late subscribers | nobody sees what he may not read |
| translation (`tasks/translate.py`, `nlp/translation_service.py`, `models/langstrings.py`) | lang-string entries with error counts | translate, retry, confirm a locale | concurrent translations, errors by severity | at most one machine translation per target |
| publication states (`models/post.py`) | state of a post and of its replies | publish, moderate, delete a thread | deletion of a thread under replies | no visible reply under hidden text it depends on |
| votes, history (`models/votes.py`, `lib/history_mixin.py`) | live rows and tombstones | vote, revote, delete | two requests of one voter | one live vote per voter and specification |
| ideas and paths (`models/idea.py`, `path_utils.py`) | links, counts of posts | add, move, tombstone | counts over a tree | counts equal their definition |
| browser message store (`static/js/app/common/collectionManager.js`, `utils/socket.js`, `models/base.js`) | the collection of message structures, its promise, items deferred until it resolves, the websocket | fetch, fetch again, item from the socket, open, close | answers, pushes and closes come in any order | the copy agrees with the database once nothing is on its way |
| loader of full messages (same `collectionManager.js`) | requests by id, the waiting worker, its timer, GETs under way | ask, send a batch, answer, failure | a timer races a full batch, two collections, answers that lack a message | each promise has one carrier and is settled |
| message list (`views/baseMessageList.js`, `messageList.js`, `messageListPostQuery.js`) | filter, style, results, page offsets, views shown, jumps in progress | render, show a page, turn it, jump, change filter or style | continuations of a former render, answers of a former query, a jump that waits for a render | what is displayed is one page of what is selected; a jump ends at its message |
| threads (`models/message.js`, `views/visitors/`) | the traversal's tables | visit, sort, render a page | replies whose parent the query or the moderation leaves out | each listed message is rendered once, in its thread |
| vote session administration (`static2/js/app`, the reducer, the page, `saveButton.jsx`) | the redux store of the form, Apollo's cache | edits of templates, proposals and their modules; save | chains of mutations beside one another, a refill of the form while they run, rejections | the server has what the form said at the click |
| preferences, permissions, widgets, timeline, attachments, REST traversal, GraphQL layer, views | rows | create, read, update, delete | what the database decides | queries; not modelled |
| the rest of the front ends, migrations, scripts, locales | | | | not modelled |

The web server and the celery workers share the database and publish messages
through a broker; the source dispatcher consumes one queue and starts one
thread per source; a reader writes posts, whose commit feeds the index, the
watchers (which create notifications) and the router.  The router pushes
changes to the browsers over a websocket; a browser reads the rest over REST
(the Marionette application) or GraphQL (the React one).  In the message list the
store holds the models, the loader fills them with their text, the query says
which of them are listed, the visitor puts them in threads, and the list displays
a page of those.

## Plan

1. (done) `ReaderLifecycle`, `SourceReader`, `ReaderAlone`, `SourceDispatcher`, with proofs.
2. (done for posts) `ElasticChanges`: the data manager, the commit with the
   database, the reindexing script, with proofs.
3. (done) `MessageStore` and `MessageLoader`, which extends it: the data of the
   message list, with the proofs of the copy's and the loader's invariants.
4. (done) `MessagePages`, the arithmetic of pages, and `MessageList`, the panel,
   with every safety property proved; `MessageThreads`, which pages are made of.
5. (done) `VoteSessionAdmin`: the store, the save, the server and the cache, with the
   proof of the orders of the proposals.
6. Left, in this order: proofs of `CleanMeansSaved` and `SavedAsSubmitted`, which
   need the plan of `OrderIInv` for modules as well; token votes and the first
   creation of a session; the import of messages refined into `SourceReader`'s step;
   the delivery of notifications.

## Modules

| module | what it is |
|---|---|
| `ReaderLifecycle` | abstract: a status that moves along `known_transitions` |
| `SourceReader` | the reader thread; no `Init`, the two modules below give one |
| `ReaderAlone` | reader threads that no message reaches |
| `SourceDispatcher` | readers, dispatcher, queue, web requests, restart of the process |
| `ReaderProofs` | what one step of a reader thread keeps, for the two modules of proofs below |
| `ReaderAloneProofs` | readers without a dispatcher: the inductive invariant, the refinement, proved |
| `SourceDispatcherProofs` | the inductive invariant with a dispatcher and its consequences, proved |
| `ElasticChanges` | the search index: listeners, data manager, two-phase commit, reindexing script |
| `MCElasticChanges` | symmetry of the posts, for TLC |
| `ElasticChangesProofs` | its inductive invariant and consequences, proved |
| `MessageStore` | the browser's copy of the messages, the websocket, the server; no `Next` of its own |
| `MessageLoader` | extends it: requests for the text of messages, workers, GETs |
| `MessageLoaderProofs` | the inductive invariants of the loader and of the copy, proved |
| `MessagePages` | what is displayed of a listing: offsets, roots, next, previous, the window of a jump |
| `MessageList` | extends it: the panel's state, its continuations, the user, the server's answers |
| `MCMessageList` | the listings of three queries, for TLC |
| `MessageListProofs` | what pages promise, that those of the panel start at roots, what becomes of a page or a jump on its way and of a page turned, proved |
| `MessageThreads` | extends `MessagePages`: from a forest of messages to the views of a page |
| `NatSetLemmas` | a set of naturals has a least member, a bounded one a greatest |
| `VoteSessionAdmin` | the form, the save, the mutations, the server and Apollo's cache |
| `VoteSessionAdminProofs` | the inductive invariant of the orders of the proposals, and that they stay distinct, proved |

### The reader thread

`rd[r]` is the Python object of one reader with the place where its thread is;
`row` is the row of the source.  A step runs from one point where the thread may
block (the database, the network, `Event.wait`) to the next one:

| place (`pc`) | where the code is | steps that leave it |
|---|---|---|
| `setup` | before `ContentSource.get` | `Setup` |
| `backoff` | `event.wait(interval)` | `BackoffWait` |
| `login` | `login()` | `LoginOk`, `LoginFails` |
| `read` | in the inner loop after the test of SHUTDOWN | `Read` |
| `importing` | in `do_read` | `Imported`, `ImportFails` |
| `readdone` | IMAP: before `successful_read` of `do_read` | `ReadDone` |
| `readend` | before `successful_read` of `read` | `ReadEnd` |
| `pause` | `event.wait(time_between_reads)` | `Pause` |
| `idle` | in `wait_for_push` | `IdleTimeout`, `IdleEnds`, `IdleFails` |
| `pushread` | after the test of WAIT_FOR_PUSH, before `do_read` | `PushRead` |
| `except` | before `new_error` of an except clause | `HandleError` |
| `tryclose` | `try_close` | `TryClose` |
| `closed` | the rest of `close()` of an idle reader | `FinishClose` |
| `done`, `crashed` | `run()` has returned, or an exception left it | |

The loop heads and tests of `run()` between two such places are the operators
`OuterHead`, `InnerHead`, `AfterLogin`, `Cycle` and `AfterExcept`; the methods
that compute are `NewError`, `ResetErrors`, `AfterClose`.  `Imap` chooses the
subclass: a `PullSourceReader` has no mailbox and its login cannot fail.

Time is abstracted: `backoff` says that `error_backoff_until` is in the future
(`BackoffElapses` ends it), `late` that the last read started longer ago than
`reading_takes_too_long` (`ReadGetsLate`).  `last_read_started` is the epoch in
`__init__` and a read started by a push does not set it, so `late` is TRUE until
`read()` clears it.  The other comparisons of dates are left open both ways.

### The dispatcher

A callback is a sequence of steps at `disp.pc`; the message stays at the head of
the queue until the callback acknowledges it.  `shutdown()` of a reader is
`BeginShutdown`, then, if the reader is connected, `EndPush`, `SetClosed`,
`DoClose`, `FinishShutdown`: the reader thread runs between them, for there is no
lock.  An exception that is no `ReaderError` ends the dispatcher (`dead`) and
leaves the message; the threads go on, because `deamon` (line 132) is not the
attribute `daemon`.  `RestartProcess` kills everything but the queue and the row.
`ForceRestart` publishes and `CommitReset` commits what the request did to the
row, in this order, as `fetch_posts` does inside its transaction.

### The search index

`db` and `es` are the two stores.  A thread runs one transaction at a time; its
`phase` follows `transaction.commit()`: `active`, `committing` (the flush of
`tpc_begin`, then `tpc_vote`, which commits to Postgres), `finishing` (the
`tpc_finish` that writes to Elasticsearch), or `reindexing` for the script.

| state | code |
|---|---|
| `loaded`, `seen` | the identity map of the session: rows as they were when first read, with the thread's own changes |
| `dirty`, `written` | modifications not flushed yet; flushed, so that their row is locked |
| `index`, `unindex`, `activated` | `_index`, `_unindex`, `_activated` of the thread-local `ElasticChanges` |
| `joined` | whether the transaction has the manager among its resources |

A mutation (`Modify`) changes one object and stays in the session until the
next query or the commit flushes it (`Flush`), when the listener calls
`reindex_content` with the row as the session sees it; links of a post to ideas
are not in the identity map but queried (`Linked`).  A post's text is a number
that no other edit gets, so that a text says which edit it comes from.
`Discard` is what `abort` and `tpc_abort` do, which reach the manager only if it
was joined: this is why `NothingLeftOver` is worth checking.  `AbortMutation` is
`abort_transaction_on_exception`: the request goes on in a new transaction that
nothing has joined.  Celery tasks and scripts are threads outside `Web`.

`transaction` calls the managers in the order of their sort keys.  The header of
`changes.py` says that SQLAlchemy ("~sqlalchemy") comes before Elasticsearch
("ZZZ"); `~` sorts after `Z`, so it is the other way round.  This changes nothing:
every `tpc_vote` precedes every `tpc_finish`.

`Written(t, p)` is the row of a post as the transaction of `t` sees it in Postgres:
what it has flushed over what was committed.  `Flush` tests it and `Vote` commits it.

`flushed`, `committed` and `quiet` are history variables, read by no action:
the texts flushed by running transactions, those of transactions that committed,
and whether the script has run alone since it began.

### The messages in the browser

`MessageStore` has the collection of message structures (`coll`), its promise
(`structure`), the GETs of it (`fetches`), the connection (`socket`, `subscribed`,
`channel`) and the database (`server`).  A model is a view (absent, none, id_only,
default) with the version of its structure (`head`) and of its text (`body`).

| action | code |
|---|---|
| `OnOpen`, `OnMessage`, `OnClose` | `Socket.onOpen`, `onMessage` with `processData` and `updateFromSocket`, `onClose` |
| `ReceiveFetch`, `FailFetch` | the answer of the fetch in `getAllMessageStructureCollectionPromise`; the first one resolves the promise |
| `Write`, `AnswerFetch`, `Subscribe` | the server: a transaction with its push, a snapshot, the subscription |

Two simplifications: a commit and its push are one step, and of the attributes of a
message only the two versions are kept.  `raced` is a history variable: after the
last write of the message an older answer was on its way, or an older deferred
item was applied.

`MessageLoader` extends the store.  A view (`caller`) asks for a message of one of
two collections: it gets the model (`AskLoaded`) or a promise (`AskMissing`).
`worker` has the timer that each worker sets when it is created and that nothing
clears; `waitingWorker` is the one that new requests join; `flights` are the GETs.
`ExecuteRequest` is the method of that name: `Timeout` and a full batch call it.
The collection of the list with deleted messages is fetched with one filter for
both kinds; no version of it arrives over the websocket.

### The message list

The browser has one thread, and what follows a promise runs when it is resolved.
A continuation is a record: its kind, whether its `renderId` is still the present
one (`fresh`), what it requests.  It is in `jobs` when it is ready, in `waiting`
when it waits for the server, in `held` when it waits for the announcements, in
`listeners` when it waits for `messageList:render_complete`.

| kind | the code that runs |
|---|---|
| `rendered` | `MessageList.onRender` after the results |
| `real` | `render_real` |
| `show`, `append` | `showMessages` after the results; after the views and the announcement |
| `all` | `showAllMessagesAtOnce` after the results |
| `find`, `ask` | `showMessageById` after the results; its call at the end of a render |

Jobs run in order before anything else (`RunJob`); the server answers (`Answer`) or
fails (`Fail`) and the user acts only when none is ready.  The user's acts are
`Select` (another idea or filter), `SetViewStyle`, `TurnTo`, `ShowAllAtOnce`,
`Jump` and `JumpInStyle`.  `shown` is the sequence of blocks of views in the panel,
`orphans` those appended after their views were destroyed.  `ShowAll`, the call of
`showAllMessages` that a jump makes for a message the query does not list, renders
like any other change of the query; `ShowAllAtOnce` asks for one long page and does
not render.

Three history variables name what `ListIsCurrent`, `JumpLands` and
`PagingSkipsNothing` except, and nothing else is excepted: after such a history the
code may display something else (see Disagreements).

* `misled`: a step took the ids that are valid, and these are of another query than
  the selected one, left by an answer that came late (`Await`).
* `tangled`: a page was turned while a page or a jump was under way; a jump was begun
  while a page was under way, or another jump in progress; a page request or
  `showAllMessagesAtOnce` of a former render was answered after it (`RunShow`,
  `RunAll`); or a page of a former render was appended, and so ended the new one
  early, while a jump was in progress (`RunAppend`).
* `threw`: a request failed or a continuation was cut short by an error
  (`PagingSkipsNothing` does not except it).

What is not excepted: ids and structures of former renders that come late,
announcements that hold pages of former renders while new ones are displayed,
renders over jumps and over page turns whose answers have come.  Two mutants of
`ListIsCurrent` show that the run meets them: a continuation that does not compare its
`renderId` (`NeverLate`), and held views that are not destroyed (`Spared`).

`MessagePages` has the arithmetic: a listing is a length with the offsets of the
roots of threads, a window is a first and a last offset, and
`NextRequest`, `PreviousRequest`, `RequestFor`, `AllAtOnce` are what is asked for.

Simplifications: several GETs that one step sends at once are one; in a flat style
the structures of an uncached query are waited for once, not twice;
`_previousScrollTarget` is unset; the first unread message is the target of the
jumps; the paging buttons are not used while the offsets are undefined.  The data
of the visitor that `getVisitorDataPromise` keeps, and the order of the messages
within a page that depends on it, are not in `MessageList`: a block says which ids
and which window it displays, not how they are sorted (see Disagreements for what
this leaves out).

`MessageThreads` starts from every forest of `Size` messages, their dates in any
order, some of them hidden, each subset of them in the results and each style, and
takes the one step `Generate`: the traversal (`Visits`), `Visit` of each message,
`ReSort`.  `Rendered` says which views a page gets, `OutOfContext` how many messages
a view says are missing above and below it: in a threaded style only when the test
of messageFamily.js:93 holds, which looks above the view of a root only, in a flat
one always.  `is_last_sibling`, the lists of authors and messages with equal dates
are left out.

### The administration of a vote session

`form` is the part of the redux store that reducers/adminReducer/voteSession.js
keeps, `cache` the query's result that Apollo holds, `db` the server.  The
administrator's operations are `EditPage`, `CreateTemplate`, `DeleteTemplates`,
`UndeleteTemplates`, `EditTemplate`, `CreateVoteProposalAndModules`, `EditProposal`,
`DeleteProposal`, `MoveProposal` and `EditModules` (associate, deassociate,
reactivate, customize, apply to all, cancel).  `Save` is `saveAction`: it
starts chains of mutations, which run beside one another; `SpecTask` is
`getMutationsPromises`, `Chain` is `runSerial` with the refetch of `runMutations`,
`Nested` the chain of the modules of a proposal just created.  `Mutate`, `Reject`,
`Read` and `Receive` are the server and Apollo.  Any change of the result fills the
form again (`Holds`), in the middle of a save as well.

An id is a pair: the server gives `<<0, n>>`, and what `createRandomId` draws is a
pair that no other change of the form draws, so that the proofs deal with sets of
pairs of numbers.  `Ordered` lists a set by rank, which is what a sort of distinct keys
does; `Pieces` is the concatenation of what each element contributes, in that order.

Simplifications: `text` is all that a module or a proposal says; the session exists;
two random numbers never coincide; all modules are gauges; a mutation and its answer are one step; a mutation fails
only because the server refuses it; the form is filled again only when the result
has changed.  `intent` (what the form said at the click) and `troubles` (what may
excuse a save) are history variables.

## Runs

The readers, the message list, the threads and the votes are checked with
`CHECK_DEADLOCK FALSE`: all threads may have ended and all messages been published,
the user may have done all that the bound allows, the tables are generated once.

| run | instance | shows |
|---|---|---|
| `alone_imap` | one IMAP reader, limits 2 and 2, every row an earlier process can leave | the inductive invariant; no login to an irrecoverable source; a mailbox on which a severe error was seen is not used before the next login; CLIENT_ERROR is retried |
| `alone_pull` | one pull reader, limits 2 and 2, clean row | the status refines `ReaderLifecycle`; a source that only fails severely ends up irrecoverable |
| `dispatcher_imap` | one IMAP reader, limits 1 and 1, 3 messages, 1 restart | the inductive invariant, `MailboxBeforeUse`, `EndedThreadIsDisconnected` |
| `dispatcher_pull` | two pull readers, limits 2 and 1, 2 messages, no restart, fairness | the error count stays bounded with two threads on the row; a wake is served |
| `elastic_reindex` | a web thread and the script, two posts, 2 texts, 1 outage, symmetry of the posts | the index holds only what was committed; nothing is left in the manager; a reindexing that runs alone repairs the index |
| `elastic_alone` | a web thread, two posts, 3 texts, no outage, no unlinking | index and database agree between transactions; the queue is in step with every flush |
| `message_store` | one message of 3 versions, 2 openings of the websocket, 1 failure, one view | once nothing is on its way the browser agrees with the database unless the message raced, with the inductive invariant behind this; with the connection open in the end it gets there |
| `message_loader` | two messages, two views, two workers, two collections, batches of 2, 1 failure | the inductive invariant; each promise has one carrier and is settled |
| `message_list` | listings of 6, 3 and 2 messages, pages of 1, at most 2 displayed, a flat and a threaded style, 3 acts, 1 failure | what is displayed in the end is one page of the selection, whatever of former renders comes late, with the exceptions named above; jumps end at their message; pages start at roots and skip nothing; the inductive invariant behind these, in its two parts; renders and jumps end |
| `message_threads` | all forests of 4 messages, one of which may be hidden, 3 orders, pages of 2, at most 3 displayed | each listed message is in its thread, by date, rendered once, with right counts |
| `vote_admin` | 3 proposals with a module each, 1 template, 2 texts, 3 edits, 4 edits and clicks together | a save stores what the form said; a form without changes shows what is stored; orders differ, with the inductive invariant behind this; a save ends |
| `vote_delete` | the same | VIOLATION: a deleted proposal stays |

`vote_delete` states the comment of `pages/voteSessionAdmin.jsx:435`, "delete all
modules and then delete the proposal".  Line 437 calls `deleteVoteSpecification` at
once where a function that calls it was meant, so the tasks begin with a promise and
`runSerial` throws (`saveButton.jsx:45-47`).  The modules are deleted, the proposal
stays, and no mutation of any proposal of that save is sent.

### Bounds

Readers.  The limits on errors are small because only "below", "at" and "above" the
limit differ; 2 allows a count that is neither the first nor the last.  Three
messages are what it takes to start a reader, act on it and act on its
successor; one restart is enough to find a row that another process left.  Two
readers suffice: the dispatcher knows one, and the others are threads it has
replaced, which act on the row alone.

Index.  One post is enough to order two threads, and two posts are enough for a bulk
request of which one part is lost and for a batch of the script that is sent before
the other post is read.  Two texts tell the old from the new, three allow an edit of
each thread.  Two web threads that modify one post are in the proofs, which hold for
any threads.

Messages.  Messages of the store do not touch each other, so one is enough; three
versions are a post, an edit and a deletion, or two edits across a reconnection, for
which the socket must open twice.  The loader needs two messages to fill a batch
and to have an answer lack one, two workers for a timer that outlives its batch,
and two collections.

List.  A page of 1 and a maximum of 2 make every cut of the paging arithmetic happen
in listings of 6; three acts are a render, another one before its answer, and a
jump or a turned page in the midst of it.  Forests of four messages have two
siblings under a hidden or unlisted parent with a grandparent.

Votes.  Three proposals are needed for an order that skips one; three edits make a
template, a proposal and a module of both, or an edit before, between and after two
clicks.  The inductive invariant was also checked once on two proposals with two more
acts (822 242 states).

### Fairness

A thread that can run runs; the mail server or feed answers or the call fails
(sockets have timeouts, and `LoginFails`, `ImportFails` are always possible); the
clock runs, so a backoff ends; a web request commits.  A prod, a message and a
restart may never come.  The browser's event loop runs what is ready and its timers
fire; the server subscribes a connection and answers each request or it fails; what
was pushed on an open connection is received.  Neither the user, nor a write, nor
the opening of a websocket is fair: `EventuallyAgrees` is about behaviours in which
the connection stays open in the end.

### Disagreements met

Each of these is a trace of the models that contradicts a comment, an assertion or
a table of the code.  One trace says all there is to say of each, so no run is kept
for them.

Readers.
* `known_transitions` (source_reader.py:78-82) lets IRRECOVERABLE_ERROR be followed
  only by itself, READING or SHUTDOWN.  A lost connection is recorded as
  irrecoverable; `try_close` then fails on the dead connection and line 405 records
  CLIENT_ERROR over it, so the reader retries for ever.  Hence `LifecycleRefined` and
  `EscalationEnds` are stated for pull readers.
* `assert False` (source_reader.py:213) says that a second irrecoverable error in a
  row does not happen.  `wake()` closes the connection of a reader that reads for
  too long (270-277); both threads report the loss, and the second report fails.
  A read that a push starts does not set `last_read_started`
  (imaplib2_source_reader.py:68), so a healthy reader is closed like that.
* "transient backoff escalation can be cancelled by wake" (source_reader.py:268):
  line 266 compares a date with a status, so the wake of a reader whose row recorded
  TRANSIENT_ERROR raises in the callback and ends the dispatcher.
* doc/sourcereader.dot:14 has a forced restart out of IRRECOVERABLE_ERROR.
  `fetch_posts` (content_source.py:63-67) publishes the message before its
  transaction commits; a quicker dispatcher starts a reader that still loads the
  error and ends.
* A `shutdown()` between the test of SHUTDOWN and `read()` leaves the reader READING,
  with SHUTDOWN in the row, which every later reader then obeys (line 166).

Search index.
* "If by any bad luck, the elasticsearch is not responding" (changes.py:39-40) is not
  the only way out of sync: `tpc_finish` writes what was read at flush time, after
  the row lock is gone, with neither version nor order, so two requests on one post
  may commit in one order and reach the index in the other.  The reindexing script
  overwrites a newer text in the same way.
* "be sure to reindex content.content if we have a IdeaContentLink"
  (reindex.py:120-121): when the last link of a post is deleted, `get_data` gives
  nothing and `if data` (changes.py:102) keeps the post in the index; hiding it later
  does not remove it either.
* A task, or the rest of a request after an aborted mutation, whose only change is
  flushed by its commit joins the data manager too late (`LateJoin`) and is rolled
  back (`JoinRefused`).

Store and loader.
* The text of a message is put in the model of the collection of the worker that
  happened to wait (collectionManager.js:513 says "a member of the proper
  collection", line 365 that the parameter chooses it): a list with deleted messages
  and another view that ask at the same time share one worker, and one of them gets
  a model of the other collection.
* A change that commits after the snapshot of the first fetch and before the
  subscription of the connection is not seen until the next opening, unless the
  first message arrives when the collection already listens.
* `msg` is undefined in the rejection of `getMessageFullModelPromise` (line 557).
* A message missing from an answer's collection, or a failed GET, leaves requests
  that nothing sends again.  `PromisesSettle` excepts them (`dropped`).

Message list.
* A jump to a message that no list has (a permalink to a deleted post,
  routeManager.js:274) never ends: `showAllMessages` renders anew, so line 2118
  starts the search again, with a fresh budget; the error of line 2166 is not
  reached.  `JumpEnds` is stated for a target that the whole discussion lists.
* The ids that `getMessageIdsToShow` returns are "in the order they are shown
  onscreen" (baseMessageList.js:578), which is not so for a sorted thread whose
  children were not sorted in the tables; and lines 497-498 say "stop just before
  it" of the next root, which is included.
* "collections arrived too late ... Aborting" (baseMessageList.js:1079,
  messageList.js:378) stops the continuation, but the late answer has been stored
  by then, as valid, for whatever query is selected now (messageListPostQuery.js:
  376-378).  Select an idea, then another before the ids of the first have come; the
  answer of the second comes first and its page is displayed, then that of the
  first.  `getResultMessageIdCollectionPromise` now gives the ids of the first idea,
  so that the next page, or a change between the threaded styles, displays the
  messages of the first under the second.  `misled` excepts this.
* `_generateVisitorData` sorts for the style, but `getVisitorDataPromise` makes its
  data anew only when the ids differ (baseMessageList.js:1237-1249).  The threaded
  styles ask for the same order, hence the same ids: after a change between them the
  threads are sorted as in the style before.
* An append does not test the `renderId`.  Two page turns, or a jump and a page turn,
  append a page twice or one that is not that of the offsets.  A page request that
  is answered after a new render has begun sets the offsets of a list that
  `render_real` then leaves blank, or displays the former page.  A page of a former
  render that was held is not displayed, but `messageList:render_complete` follows
  it: a jump that waits goes on before the new render has a page.  `tangled` excepts
  these.
* The visible replies of a hidden or missing message are in the ids of a query but
  are not visited (message.js:440-444, a TODO), so they are counted and never shown.

Votes.
* A template and modules made after it in one save: the modules' mutations carry the
  template's made-up id and are refused, if the chains run in that order; a second
  click creates the template again.
* An answer of an update fills the form again and resets what has changed; edits
  typed during a save are lost, and a later failure of the same save goes unnoticed:
  `runMutations` has no `catch`.
* With an invalid proposal the templates are saved and the proposals are not; the
  refill drops the marks of the modules made after them.
* The first proposal of a session gets the order `undefined + 1`; `UNDELETE_MODULE`
  does not mark the form as changed; deleting a proposal with a new module creates
  that module on the deleted proposal.

## Proofs

`SourceDispatcherProofs` proves, for any set of readers, any positive limits, any
bounds on messages and restarts, both kinds of readers:

* `Invariance`: `Spec => []IInv`;
* `TypeCorrect`, `ErrorCountBounded`, `MailboxIsThere`, `EndedIsDisconnected`:
  its consequences.

`MailboxBeforeUse` is not inductive: the `except` clauses and `pause` lead back
to a read, so `MailboxInv` says that the mailbox is there in those as well unless
the exception came out of a login.  `EndedThreadIsDisconnected` needs to know
that a thread on its way out of an unexpected failure of login is disconnected
already (`EndedInv`), that this is not undone by `try_close`, and that no step of
the dispatcher connects a reader: `end_wait_for_push` may set PAUSED, but only
from READING or WAIT_FOR_PUSH.  `CallbackInv` ties the dispatcher's place to the
message and the reader it works on.  The proof goes through a predicate on one
reader, `Good`: each step of a thread or of the dispatcher replaces one reader by
one that is good again (`GotoGood`, `UpdateGood`).

Those steps of a thread are in `ReaderProofs`, because `ReaderAloneProofs` needs them
as well.  It proves, for any set of readers, any positive limits, both kinds of
readers and every row that an earlier process may have left:

* `AloneInvariance`: `Spec => []AloneIInv`;
* `IrrecoverableIsLeft` (`IrrecoverableNotContacted`) and `MailboxIsOpen`
  (`ReadsOpenMailbox`), its consequences;
* `LifecycleRefinement`: a pull reader that is the only one of its source and finds
  nothing recorded implements `ReaderLifecycle`.

`ReadsOpenMailbox` holds because `try_close` is only reached by a reader whose error
has disconnected it (`GivenUpInv`), and a disconnected reader leaves both loops, so
the mailbox it closed is not met again before a login (`OpenInv`).  With the
dispatcher this is false, since it closes a mailbox under the thread: only
`MailboxBeforeUse` is left of it there.  The refinement needs the statuses a reader
may have at each of its places (`PullInv`), as `known_transitions` says what may
follow a status and the code says what may follow a place.  It is stated for one
reader because two of them share the row: the second finds in `connection_error` the
status that the first has left, and takes it from CREATED.

`ElasticChangesProofs` proves, for any set of threads (requests, tasks, scripts),
any posts and any bounds:

* `ElasticInvariance`: `Spec => []IInv`, and `ElasticTypes`;
* `IndexIsCommitted`: nothing of a transaction that was rolled back is ever in
  the index;
* `ManagerIsClean`: the manager is empty and can join when a transaction begins;
* `ReindexingHeals`: a reindexing that runs alone leaves the index in sync.

`OnlyCommittedText` is not inductive: `TextsHaveOrigin` follows a text from the
session to the queue, saying at each place that it was committed or flushed by
the thread itself; `SessionEnds` makes the second case impossible when the queue
is written, and `QueuesAreJoined` makes a rollback reach every queue.
`ReindexHeals` is an action property; `AloneIsExact` is what holds half-way: the
index as it would be if the queue were written now is right for every post the
script has read and empty for the others.  The assumptions are
`ThreadAssumption`, `ColumnsAssumption` and `BoundAssumption` of the module.

Two more are about one thread, of whatever kind, that removes no link from a post to
an idea.  Both are hypotheses of the theorems, and necessary: with two threads, or a
last link deleted, the index may differ for good (see the disagreements).

* `ElasticInSync`: `OneThread`, `NoUnlink` give `Spec => []InSync`;
* `IndexIsInSync`: likewise `SyncedUnlessOutage`, which follows.

`SyncedUnlessOutage` speaks of rest, between transactions.  `InSync` says what leads
there: at each point of a transaction with no modification pending, the index as the
bulk request would leave it is that of the rows flushed so far (`InStep`), and
before that request the index is that of the rows committed.  A flush reads the row
of the session, so `InStep` says that this agrees with `Written` wherever it was not
modified; a post that no idea links to is queued for nothing.

For the readers, the assumptions are `LimitAssumption` (the limits are positive) and
`BoundAssumption`.

`MessageLoaderProofs` proves, for any messages (numbers), views, workers, collections
among the two, batch size and bounds:

* `LoaderInvariant`: `Spec => []LoaderIInv`;
* `PromisesAreCarried`: `PromiseHasCarrier` follows;
* `CopyInvariant`: `Spec => []CopyIInv`;
* `SettledAgrees`: `SettledUnlessRaced` follows.

`PromiseHasCarrier` is not inductive: that a request waits does not say that a
worker will send it.  `WaitingWorkerRuns` says that the waiting worker's timer is set
and that requests wait only while there is such a worker; `OneFlightPerMessage`
keeps two GETs from carrying one message; `RequestsHaveFlights` ties a promise to a
request and a request in progress to its GET, unless one was dropped.

`SettledUnlessRaced` needs to know where the last change of a message is when the
model has not got it.  `CopyIsCurrent` says that it is still on the connection, once
the last GET of the collection has come and no older one is on its way;
`AnswersAreCurrent` that an answer on its way is still right about each message that
was not written since, which is what `raced` excepts; `ChannelIsComplete` that a
connection carries everything since its subscription, and `PushesInOrder` that
nothing on it is overtaken, neither there nor among the items deferred until the
structures are there.  Messages are positive numbers (`MessagesAssumption`), because
`Connection`, the first item a subscribed connection carries, has number 0.

`MessageListProofs` has three parts.  The first proves, for any page size and maximum with `PageAssumption`,
any listing and any request: what a threaded page displays (`ThreadedPage`,
`RootsDisplayed`), that the next and the previous page leave no gap (`NextPageJoins`,
`PreviousPageJoins`), and that the page of a jump has its target in it
(`JumpRequestsTarget`, `JumpDisplaysTarget`).  They rest on `LeastOf` and
`GreatestOf` of `NatSetLemmas`, which say that the roots a search looks for exist.
The two about jumps hold from an empty page as well (`start - 1 <= end`), which a
flat list at its end has.  The second part proves, for any filters, listings, styles,
page sizes and bounds:

* `ListInvariant`: `Spec => []ListIInv`;
* `RootsAreDisplayed`: `ThreadsFromRoot` follows.

A page on the screen starts at a root because the continuation that appended it had
such a page, because `showMessages` calculated it in the style of that render:
`QueuesKept` says so of every continuation in `jobs`, `held`, `waiting` and
`listeners` (`MayRun`, `MayHold`, `MayWait`, `MayListen`), `PagesFromRoot` of what is
shown, `ResultsKnown` of the ids they rest on.  A page of a former render is excused
(`fresh`): the style may have changed, and it goes with the next one.

The third part proves, for the same constants:

* `FlowInvariant`: `Spec => []FlowIInv`, and `PanelInvariant`: both together,
  `Spec => []PanelIInv`, which the run checks;
* `ListBecomesCurrent` (`ListIsCurrent`), `JumpsLand` (`JumpLands`) and `PagesJoin`
  (`PagingSkipsNothing`, an action property), which follow.

All three speak of what holds when nothing is on its way, or between two pages, and
several continuations lead there.  `FlowIInv` says of a list that is neither
tangled nor misled: `OneOfEach`, one page of the present render is on its way at
most, and one jump (`LastCounts`: in each queue the pages before the last are of
former renders, their views destroyed); `PageThenJump`, a jump acts only when no page
is on its way, so that the page it looks at is the one displayed;
`OfThisQuery`, ids and offsets that are fresh belong to the filter and style of now,
so that windows fit the listing; `LeftBehind`, a page of a former render whose views
are alive comes before the new render has displayed anything, which will clear it
away; and with no error `Landing`, a page on its way or a
jump in progress is carried by a continuation that will go on, and the page displayed
is that of the offsets; `TargetComes`, a jump that has used up its budget waits for a
page with the target in it.  The last one meets `JumpRequestsTarget` and
`JumpDisplaysTarget`; `PagesJoin` meets `NextPageJoins` and `PreviousPageJoins`.  The
proof has one lemma per continuation, answer and act; each says which continuation
the step leaves (`Leaves`) and the lemmas before them what this does to the parts of
`FlowIInv`.  The theorems except what `tangled`, `misled` and `threw` except, no
more: the late continuations and the held pages of former renders are in the proof
(`OutdatedGone`, `OldPageAppended`).

`VoteSessionAdminProofs` proves, for any finite set of proposals (numbers above 1,
which is the template's), any texts but the empty one, and any bounds on edits and
acts (`ProposalsAssumption`, `TextsAssumption`, `BoundsAssumption`):

* `OrderInvariant`: `Spec => []OrderIInv`;
* `OrdersStayDistinct`: `OrdersDistinct` follows.

`OrdersDistinct` is about a form that nothing is under way for, but a click sends
that form to the server and the answers make another one of it, so its invariant is
about the whole save.  `NextOrder` is one more than the greatest order of the
proposals that are kept, which is new when those of the form are distinct
(`FormInOrder`, which also says that one is kept: the greatest of none would be
anything); a refill replaces them by those of a result.  Half-way through a save
the orders of the server need not be distinct: of two proposals that have exchanged
theirs, one is updated first.  What holds then is the plan (`PlannedInOrder`): the
mutations of proposals that are due (`Due`), run to their end, leave proposals
(`Survivors` and `Creations`) with distinct orders (`Planned`).  A mutation that runs
moves from what is due to what is stored, and the plan is what it was
(`PlanCreation`, `PlanUpdate`, `PlanDeletion`), because each is in one chain only, and
each creation there once (`OneChain`).  A click with nothing under way makes the form
the plan: the proposals that the form has and the server has not are new, and those
whose order differs have changed (`FormFollowsCache`).  `AnswerComes` says that the
client will hear of what the server has: the last refetch that was asked for brings
it, or a chain with mutations left will ask for another (`WillRead`).  `Shapes` says
which fields the records have.

`Excused` leaves out what the disagreements describe: a second click while a save
runs sends the creations twice, so two proposals may have one order; after a chain
that threw or was refused by the server the client may not hear of what the server
has.  A save that was refused for an invalid proposal is not excused.

The proof needs to know what is in the sequences of the save, and they are made with
`FlattenSeq`, a recursive function: `FlattenSeqExists` and the lemmas after it show, by
a least counterexample, that there is such a function and which elements it gives.
A set is listed by the ranks of its elements; `RankIs` shows that they are distinct
and without gaps.  Both sorts of the program follow: ids, and proposals by order and
then by id.

Only model-checked:

* every liveness property (`ErrorIsRetried`, `EscalationEnds`, `WakeIsServed`,
  `EventuallyAgrees`, `PromisesSettle`, `RenderEnds`, `JumpEnds`, `SaveSettles`): the
  prover has neither fairness nor ENABLED;
* the four invariants of `MessageThreads`: its tables are recursive functions and folds
  over the forest, so that they are inductions over data, and the induction theorems
  of the library cannot be used.  The way round of `FlattenSeqExists`, a least
  counterexample for each fact, would have to be gone for every table, sort and fold;
  TLC has checked every forest of the instance instead;
* `SavedAsSubmitted` and `CleanMeansSaved` of `VoteSessionAdmin`: they compare every
  text and every module with the form, and the modules of a new proposal are sent
  when it has an id, so their invariant is a plan like that of `OrderIInv` for the
  modules and their names, across four kinds of chains.

## Not modelled

Of the index: savepoints (no code takes one), physical deletion, the documents of
ideas, users and extracts, and what decides the other fields of a document (a
reply's subject follows its parent's through a shared lang-string, which no listener
indexes).  Of the readers: several sources in one dispatcher (they share only its
thread), the contents of a read (which messages are stored, `reimporting`, a crash
between two imports), lost connections to the broker, the SIGTERM handler (it calls
the same `shutdown`), exceptions of the database, the kombu retry of a connection.

Of the Marionette front end: scrolling, highlighting, the read state, the annotator,
the reply box, the panels' layout, and the collections that follow the code of the
messages' one (ideas, links, extracts, users).  Most of the files under `static/` and
`static2/` are markup, styles, translations, generated types and vendored libraries,
or components that render their properties and send one request; a model of them
would restate the code and say nothing a test does not.  `annotator-full.js` and
the widgets under `static/widget` are other programs.

Of the vote administration: token votes and their categories, the first creation of
a session, the windows that ask for confirmation; of the React pages, the others that
use the same `runSerial`.

Of the back end: notifications (a mail is sent before the transaction that records it
commits, notify.py:75, so a crash sends it again: no property of the code says
otherwise), translation, the publication states, votes and history, ideas and paths,
preferences, permissions, attachments.  They are queries and checks within one
transaction of the database; what two of them do to each other is the database's
isolation, which the code leaves at its default, and the ORM's flush order, of which
`ElasticChanges` has the part that the index depends on.
