----------------------------- MODULE MessageList -----------------------------
(***************************************************************************)
(* The message list panel: views/baseMessageList.js, views/messageList.js   *)
(* and the query of views/messageListPostQuery.js.                          *)
(*                                                                          *)
(* Everything runs in the one thread of the browser, but in pieces: what    *)
(* follows a promise runs later, and when the promise waits for the server  *)
(* the user may meanwhile choose another filter or style (the panel is      *)
(* rendered again), turn the page, or jump to a message.  A continuation    *)
(* whose promise is resolved is a job; jobs run in order before the browser *)
(* handles anything else.  One that waits for the server is in waiting,     *)
(* where several requests that one step sends at once count as one.         *)
(*                                                                          *)
(* The ids of a result are named by the filter and the order that the       *)
(* server was asked for; what the filters give does not change meanwhile.   *)
(* showMessageById is followed for one message, the target.                 *)
(***************************************************************************)
EXTENDS MessagePages, Sequences, Functions

CONSTANTS
    Filters,     \* the queries the user may choose; "all" has no filter
    Uncached,    \* those whose message structures are fetched each time
    Announcing,  \* those on the current idea, which may have an announcement
    ListingOf,   \* what each query lists, and the offset of the target there
    Styles,      \* view styles: "threads", "recent", "unread", "newest"
    MaxActs,     \* bound: what the user does
    MaxFailures  \* bound: requests that fail

ASSUME FiltersAssumption ==
    "all" \in Filters /\ Uncached \subseteq Filters /\ Announcing \subseteq Filters
ASSUME StylesAssumption ==
    Styles # {} /\ Styles \subseteq {"threads", "recent", "unread", "newest"}
ASSUME ListingAssumption ==
    \A f \in Filters :
        /\ IsListing(ListingOf[f])
        /\ ListingOf[f].target \in -1 .. ListingOf[f].n - 1
ASSUME BoundsAssumption == MaxActs \in Nat /\ MaxFailures \in Nat

VARIABLES
    filter,      \* the filters of currentQuery
    style,       \* currentViewStyle
    valid,       \* _resultsAreValid
    results,     \* _resultIds
    complete,    \* renderIsComplete
    offsets,     \* _offsetStart, _offsetEnd
    inProgress,  \* showMessageByIdInProgress
    shown,       \* messageFamilyList: the blocks of views appended to it
    orphans,     \* those appended to it after their views were destroyed
    buttons,     \* the paging buttons on screen: "next", "previous"
    announced,   \* _allAnnouncementCollectionPromise
    jobs,        \* continuations ready to run
    waiting,     \* continuations that wait for the server
    held,        \* blocks of views that wait for the announcements
    listeners,   \* showMessageById calls waiting for messageList:render_complete
    acts,        \* count: what the user did
    failures,    \* count: requests that failed
    tangled,     \* history: did pages cross each other, or a jump?
    misled,      \* history: was something asked for with another query's ids?
    threw        \* history: was a continuation cut short by an error?

queryVars == <<filter, style, valid, results>>
viewVars  == <<offsets, shown, orphans, buttons>>
loopVars  == <<jobs, waiting, held, listeners, announced>>
vars == <<queryVars, viewVars, complete, inProgress, loopVars, acts, failures,
          tangled, misled, threw>>

Threaded(s) == s # "newest"

\* The order the server is asked for in a style: setView.
Order(s) == IF Threaded(s) THEN "chronological" ELSE "reverse"

\* The ids of a result, named by what they answer.
Ids(f, s) == [of |-> f, order |-> Order(s)]
NoIds == [of |-> "none", order |-> "none"]
AllIds == [of : Filters, order : {"chronological", "reverse"}]

\* The offset of the target, -1 when the ids do not have it: in the traversal of
\* the threads, or among the ids, which the reverse order lists from the last.
TargetOffset(ids, threaded) ==
    LET l == ListingOf[ids.of] IN
    IF l.target = -1 \/ threaded \/ ids.order = "chronological" THEN l.target
    ELSE l.n - 1 - l.target

HasTarget(ids) == ListingOf[ids.of].target # -1

\* The block of views of a showMessages, live until clearRenderedMessages has
\* destroyed it, fresh while no render has followed.
Block(ids, window) ==
    [ids |-> ids, window |-> window, live |-> TRUE, fresh |-> TRUE]
NoBlock == Block(NoIds, NoWindow)

NextJob(kind) == jobs # <<>> /\ Head(jobs).kind = kind

\* A continuation: fresh says that the _renderId it remembers is the present
\* one; window is what it requests, budget what a showMessageById may still do,
\* asked the ids that the server was asked for, got those its promise gives.
Job(kind, window, budget) ==
    [kind |-> kind, fresh |-> TRUE, window |-> window, budget |-> budget,
     asked |-> NoIds, got |-> NoIds, block |-> NoBlock]

\* Mutant of Destroyed: the views of a page that is not displayed yet survive.
Spared(seq) == seq

\* Of an earlier render; with destroyed views.
Outdated(seq) ==
    [i \in DOMAIN seq |-> [seq[i] EXCEPT !.fresh = FALSE, !.block.fresh = FALSE]]
Destroyed(seq) == [i \in DOMAIN seq |-> [seq[i] EXCEPT !.block.live = FALSE]]

-------------------------------------------------------------------------------
(* What the handlers are made of                                            *)

\* A continuation of getResultMessageIdCollectionPromise, joined with the
\* message structures: ready at once when the results are valid.  They are when
\* any answer has come since, the late one of another query too: it misleads
\* what takes its ids then, unless what asks for them, no jump, was given the same.
Await(job, ready, wait, f, s, isValid) ==
    LET now   == [job EXCEPT !.got = results]
        given == IF jobs = <<>> \/ NextJob("ask") \/ NextJob("find") THEN NoIds
                 ELSE Head(jobs).got
    IN
    /\ IF isValid /\ f \notin Uncached
       THEN jobs' = Append(ready, now) /\ waiting' = wait
       ELSE /\ jobs' = ready
            /\ waiting' = Append(wait, IF isValid THEN now
                                       ELSE [job EXCEPT !.asked = Ids(f, s)])
    /\ misled' = (misled \/ ( /\ job.fresh /\ isValid
                              /\ results \notin {Ids(f, s), given}))

\* render and onRender: the template is rendered anew, with nothing in it.
Render(ready, f, s, isValid) ==
    /\ complete' = FALSE
    /\ offsets' = NoWindow
    /\ shown' = <<>> /\ orphans' = <<>> /\ buttons' = {}
    /\ held' = Outdated(held)
    /\ Await(Job("rendered", NoWindow, 0), Outdated(ready), Outdated(waiting),
             f, s, isValid)

\* showMessages
ShowMessages(request, ready) ==
    /\ complete' = FALSE
    /\ Await(Job("show", request, 0), ready, waiting, filter, style, valid)

\* Mutant of TriggerComplete: the waiting calls are not made.
TriggerNothing(ready) ==
    /\ complete' = TRUE
    /\ jobs' = ready
    /\ listeners' = <<>>

\* The render is complete, and who listens to render_complete runs at once.
TriggerComplete(ready) ==
    /\ complete' = TRUE
    /\ jobs' = listeners \o ready
    /\ listeners' = <<>>

\* showMessageById of a call that may go on: later if a render is in progress.
Find(budget, fresh, ready, isComplete) ==
    LET call(kind, b) == [Job(kind, NoWindow, b) EXCEPT !.fresh = fresh] IN
    IF isComplete
    THEN /\ Await(call("find", budget), ready, waiting, filter, style, valid)
         /\ UNCHANGED listeners
    ELSE /\ listeners' = Append(listeners, call("ask", budget - 1))
         /\ jobs' = ready /\ UNCHANGED <<waiting, misled>>

\* isMessageOnscreen, which raises an error when the first offset on screen is
\* none of the listing.
OutOfRange(ids) ==
    offsets # NoWindow /\ ~CanDisplay(ListingOf[ids.of], offsets, Threaded(style))

OnScreen(ids) ==
    /\ offsets # NoWindow
    /\ TargetOffset(ids, Threaded(style)) \in
          Displayed(ListingOf[ids.of],
                    MessagesOffsets(ListingOf[ids.of], offsets, Threaded(style)))

-------------------------------------------------------------------------------
(* The browser runs the continuations that are ready                        *)

\* Mutants of Late: no render is too late; the number is taken before onRender
\* counts, so that each one is.
NeverLate(job) == FALSE
AlwaysLate(job) == TRUE

\* renderId != that._renderId
Late(job) == ~job.fresh

\* onRender of the message list, when the results are there: what was displayed
\* is cleared and render_real starts.
RunRendered ==
    /\ NextJob("rendered")
    /\ IF Late(Head(jobs))
       THEN jobs' = Tail(jobs) /\ UNCHANGED <<waiting, held, shown, orphans, misled>>
       ELSE /\ shown' = <<>> /\ orphans' = <<>>
            /\ held' = Destroyed(held)
            /\ Await(Job("real", NoWindow, 0), Destroyed(Tail(jobs)), waiting,
                     filter, style, valid)
    /\ UNCHANGED <<queryVars, offsets, buttons, complete, inProgress,
                   listeners, announced, acts, failures, tangled, threw>>

\* render_real: jump to the first unread message, or display the first page, or
\* leave it to the showMessageById in progress.
RunReal ==
    /\ NextJob("real")
    /\ LET job == Head(jobs) IN
       IF Late(job)
       THEN /\ jobs' = Tail(jobs)
            /\ UNCHANGED <<waiting, listeners, complete, inProgress, misled>>
       ELSE \/ /\ ~inProgress /\ style = "unread" /\ HasTarget(job.got)
                  /\ complete' = TRUE /\ inProgress' = TRUE
                  /\ Find(3, TRUE, Tail(jobs), TRUE)
               \/ /\ ~inProgress /\ offsets = NoWindow
                  /\ ~(style = "unread" /\ HasTarget(job.got))
                  /\ ShowMessages(FirstPage, Tail(jobs))
                  /\ UNCHANGED <<inProgress, listeners>>
               \/ /\ inProgress \/ ( /\ offsets # NoWindow
                                     /\ ~(style = "unread" /\ HasTarget(job.got)))
                  /\ TriggerComplete(Tail(jobs))
                  /\ UNCHANGED <<inProgress, waiting, misled>>
    /\ UNCHANGED <<queryVars, offsets, shown, orphans, buttons, held, announced,
                   acts, failures, tangled, threw>>

\* showMessages, when the results are there: the views of the former page are
\* destroyed, the new ones created, and the announcement waited for; if the
\* announcements could not be fetched, an error is raised there.  A page that an
\* earlier render requested is not told from one of now.
RunShow ==
    /\ NextJob("show")
    /\ LET job     == Head(jobs)
           listing == ListingOf[job.got.of]
       IN
       /\ IF CanDisplay(listing, job.window, Threaded(style))
          THEN LET window == MessagesOffsets(listing, job.window, Threaded(style))
                   next   == [job EXCEPT !.kind = "append",
                                         !.block = [Block(job.got, window)
                                                      EXCEPT !.fresh = job.fresh]]
               IN  /\ offsets' = window
                   /\ shown' = <<>>
                   /\ IF filter \in Announcing /\ announced # "loaded"
                      THEN /\ jobs' = Destroyed(Tail(jobs))
                           /\ held' = IF announced = "failed" THEN held
                                      ELSE Append(Destroyed(held), next)
                      ELSE /\ jobs' = Append(Destroyed(Tail(jobs)), next)
                           /\ held' = Destroyed(held)
                   /\ UNCHANGED threw
          ELSE /\ jobs' = Tail(jobs) /\ threw' = TRUE
               /\ UNCHANGED <<held, offsets, shown>>
    /\ tangled' = (tangled \/ ~Head(jobs).fresh)
    /\ UNCHANGED <<queryVars, orphans, buttons, complete, inProgress, waiting,
                   listeners, announced, acts, failures, misled>>

\* showAllMessagesAtOnce, when the results are there.
RunAll ==
    /\ NextJob("all")
    /\ ShowMessages(AllAtOnce(ListingOf[Head(jobs).got.of]), Tail(jobs))
    /\ tangled' = (tangled \/ ~Head(jobs).fresh)
    /\ UNCHANGED <<queryVars, viewVars, inProgress, held, listeners, announced, acts,
                   failures, threw>>

\* Then the views are appended, whatever was rendered since, and the paging
\* buttons follow the offsets of now.
RunAppend ==
    /\ NextJob("append")
    /\ LET job == Head(jobs) IN
       /\ IF job.block.live
          THEN shown' = Append(shown, job.block) /\ UNCHANGED orphans
          ELSE orphans' = Append(orphans, job.block) /\ UNCHANGED shown
       /\ buttons' =
             (IF offsets = NoWindow \/ offsets.start > 0 THEN {"previous"} ELSE {})
             \cup (IF \/ offsets = NoWindow
                      \/ offsets.end < ListingOf[job.got.of].n - 1
                   THEN {"next"} ELSE {})
       /\ TriggerComplete(Tail(jobs))
       /\ tangled' = (tangled \/ (~job.fresh /\ ~complete /\ inProgress))
    /\ UNCHANGED <<queryVars, offsets, inProgress, waiting, held,
                   announced, acts, failures, misled, threw>>

\* A showMessageById that waited for the end of a render is called again.
RunAsk ==
    /\ NextJob("ask")
    /\ Find(Head(jobs).budget, Head(jobs).fresh, Tail(jobs), complete)
    /\ UNCHANGED <<queryVars, viewVars, complete, inProgress, held, announced, acts,
                   failures, tangled, threw>>

\* The query or the render has changed meanwhile: from scratch.
Restart(job) ==
    /\ inProgress' = TRUE
    /\ Find(3, TRUE, Tail(jobs), complete)
    /\ UNCHANGED <<queryVars, complete, offsets, shown, orphans, buttons, held,
                   tangled>>

\* Listed but not on screen: its page is requested, and one more call is made.
TurnPage(job) ==
    /\ listeners' = Append(listeners, [Job("ask", NoWindow, 0)
                                         EXCEPT !.fresh = job.fresh])
    /\ ShowMessages(RequestFor(offsets, TargetOffset(job.got, Threaded(style))),
                    Tail(jobs))
    /\ UNCHANGED <<queryVars, inProgress, offsets, shown, orphans, buttons, held,
                   tangled>>

\* Not listed: showAllMessages, and one more call with what it remembers.
ShowAll(job) ==
    /\ filter' = "all" /\ valid' = FALSE
    /\ Render(Tail(jobs), "all", style, FALSE)
    /\ listeners' = Append(Outdated(listeners),
                           [Job("ask", NoWindow, job.budget - 1) EXCEPT !.fresh = FALSE])
    /\ UNCHANGED <<style, results, inProgress, tangled>>

\* It is on screen and scrollToMessage takes over, or the budget is exhausted.
EndJump ==
    /\ inProgress' = FALSE
    /\ jobs' = Tail(jobs)
    /\ UNCHANGED <<queryVars, complete, offsets, shown, orphans, buttons, waiting,
                   held, listeners, tangled, misled>>

\* An error nobody handles: the jump stays in progress.
CutShort ==
    /\ jobs' = Tail(jobs)
    /\ UNCHANGED <<queryVars, inProgress, complete, offsets, shown, orphans, buttons,
                   waiting, held, listeners, tangled, misled>>

\* showMessageById, when the results are there.
RunFind ==
    /\ NextJob("find")
    /\ LET job == Head(jobs) IN
       /\ threw' = (threw \/ (job.fresh /\ HasTarget(job.got) /\ OutOfRange(job.got)))
       /\ \/ ~job.fresh /\ Restart(job)
          \/ /\ job.fresh /\ HasTarget(job.got)
             /\ \/ OutOfRange(job.got) /\ CutShort
                \/ /\ ~OutOfRange(job.got) /\ ~OnScreen(job.got)
                   /\ IF job.budget > 0 THEN TurnPage(job) ELSE EndJump
                \/ ~OutOfRange(job.got) /\ OnScreen(job.got) /\ EndJump
          \/ /\ job.fresh /\ ~HasTarget(job.got)
             /\ IF job.budget > 0 THEN ShowAll(job) ELSE EndJump
    /\ UNCHANGED <<announced, acts, failures>>

RunJob ==
    RunRendered \/ RunReal \/ RunShow \/ RunAll \/ RunAppend \/ RunAsk \/ RunFind

-------------------------------------------------------------------------------
(* The server answers                                                       *)

Without(seq, k) == SubSeq(seq, 1, k - 1) \o SubSeq(seq, k + 1, Len(seq))

\* The ids, or the structures of an uncached query, have come.  Of what filter
\* and order they are is not looked at.
AnswerQuery(k) ==
    /\ waiting' = Without(waiting, k)
    /\ IF waiting[k].asked = NoIds
       THEN jobs' = <<waiting[k]>> /\ UNCHANGED <<valid, results>>
       ELSE /\ jobs' = <<[waiting[k] EXCEPT !.got = waiting[k].asked]>>
            /\ results' = waiting[k].asked /\ valid' = TRUE
    /\ UNCHANGED <<announced, held>>

\* The announcements have come; from now on they are there.
AnswerAnnouncements ==
    /\ held # <<>>
    /\ announced' = "loaded"
    /\ jobs' = held /\ held' = <<>>
    /\ UNCHANGED <<waiting, valid, results>>

Answer ==
    /\ jobs = <<>>
    /\ \/ \E k \in DOMAIN waiting : AnswerQuery(k)
       \/ AnswerAnnouncements
    /\ UNCHANGED <<filter, style, viewVars, complete, inProgress, listeners, acts,
                   failures, tangled, misled, threw>>

\* A request fails: what waited for it never runs.  The promise of the
\* announcements is kept, and gives nothing from now on.
Fail ==
    /\ jobs = <<>>
    /\ failures < MaxFailures
    /\ failures' = failures + 1 /\ threw' = TRUE
    /\ \/ /\ \E k \in DOMAIN waiting : waiting' = Without(waiting, k)
          /\ UNCHANGED <<held, announced>>
       \/ /\ held # <<>>
          /\ held' = <<>> /\ announced' = "failed"
          /\ UNCHANGED waiting
    /\ UNCHANGED <<queryVars, viewVars, complete, inProgress, jobs, listeners, acts,
                   tangled, misled>>

-------------------------------------------------------------------------------
(* The user                                                                 *)

Act ==
    /\ jobs = <<>>
    /\ acts < MaxActs
    /\ acts' = acts + 1
    /\ UNCHANGED <<results, announced, failures, threw>>

\* Something of the present render is on its way: a page turned meanwhile may
\* come before it or after it.
Busy == \E job \in Range(waiting) \cup Range(held) : job.fresh

\* Another idea or filter is selected, or all messages: syncWithCurrentIdea,
\* onAddFilter, showAllMessages; or the pending messages are loaded.
Select(f) ==
    /\ Act
    /\ filter' = f /\ valid' = FALSE
    /\ Render(<<>>, f, style, FALSE)
    /\ listeners' = Outdated(listeners)
    /\ UNCHANGED <<style, inProgress, tangled>>

\* onSelectMessageListViewStyle: only another order makes the results invalid.
SetViewStyle(s) ==
    /\ Act
    /\ style' = s /\ valid' = (valid /\ Order(s) = Order(style))
    /\ Render(<<>>, filter, s, valid')
    /\ listeners' = Outdated(listeners)
    /\ UNCHANGED <<filter, inProgress, tangled>>

\* showNextMessages, showPreviousMessages
TurnTo(button, request) ==
    /\ Act
    /\ button \in buttons /\ offsets # NoWindow
    /\ buttons' = buttons \ {button}
    /\ ShowMessages(request, <<>>)
    /\ tangled' = (tangled \/ Busy)
    /\ UNCHANGED <<filter, style, valid, offsets, shown, orphans, inProgress, held,
                   listeners>>

\* showAllMessagesAtOnce, the button below the list.
ShowAllAtOnce ==
    /\ Act
    /\ "next" \in buttons
    /\ buttons' = buttons \ {"next"}
    /\ Await(Job("all", NoWindow, 0), <<>>, waiting, filter, style, valid)
    /\ tangled' = (tangled \/ Busy \/ \E k \in DOMAIN waiting : waiting[k].kind = "find")
    /\ UNCHANGED <<filter, style, valid, complete, offsets, shown, orphans,
                   inProgress, held, listeners>>

\* showMessageById(target): a second call ends the one in progress.
Jump ==
    /\ Act
    /\ IF inProgress
       THEN inProgress' = FALSE /\ UNCHANGED <<jobs, waiting, listeners, misled>>
       ELSE inProgress' = TRUE /\ Find(3, TRUE, <<>>, complete)
    /\ tangled' = (tangled \/ inProgress \/ (complete /\ Busy))
    /\ UNCHANGED <<filter, style, valid, offsets, shown, orphans, buttons, complete,
                   held>>

\* onMessageJumpToMessageInThreadClick and its like: all filters are cleared,
\* the style is set, and the panel rendered before the jump.
JumpInStyle(s) ==
    /\ Act
    /\ filter' = "all" /\ style' = s /\ valid' = FALSE
    /\ Render(<<>>, "all", s, FALSE)
    /\ IF inProgress
       THEN inProgress' = FALSE /\ listeners' = Outdated(listeners)
       ELSE /\ inProgress' = TRUE
            /\ listeners' = Append(Outdated(listeners), Job("ask", NoWindow, 2))
    /\ tangled' = (tangled \/ inProgress)

-------------------------------------------------------------------------------
Init ==
    /\ filter = "all" /\ style \in Styles
    /\ valid = FALSE /\ results = NoIds
    /\ complete = FALSE /\ offsets = NoWindow /\ inProgress = FALSE
    /\ shown = <<>> /\ orphans = <<>> /\ buttons = {}
    /\ announced = "none" /\ held = <<>>
    /\ jobs = <<>>
    /\ waiting = <<[Job("rendered", NoWindow, 0) EXCEPT !.asked = Ids("all", style)]>>
    /\ listeners = <<>>
    /\ acts = 0 /\ failures = 0 /\ tangled = FALSE /\ misled = FALSE
    /\ threw = FALSE

User ==
    \/ \E f \in Filters : Select(f)
    \/ \E s \in Styles : SetViewStyle(s) \/ JumpInStyle(s)
    \/ TurnTo("next", NextRequest(offsets))
    \/ TurnTo("previous", PreviousRequest(offsets))
    \/ ShowAllAtOnce \/ Jump

Next == RunJob \/ Answer \/ Fail \/ User

\* The browser runs what is ready and the server answers; nothing makes the user
\* act.
Fairness == WF_vars(RunJob) /\ WF_vars(Answer)

Spec == Init /\ [][Next]_vars /\ Fairness

-------------------------------------------------------------------------------
MaybeIds == AllIds \cup {NoIds}
BlockType == [ids : MaybeIds, window : Window, live : BOOLEAN, fresh : BOOLEAN]
JobType == [kind : {"rendered", "real", "show", "all", "append", "ask", "find"},
            fresh : BOOLEAN, window : Window, budget : Int, asked : MaybeIds,
            got : MaybeIds, block : BlockType]

TypeOK ==
    /\ filter \in Filters /\ style \in Styles /\ valid \in BOOLEAN
    /\ results \in MaybeIds
    /\ complete \in BOOLEAN /\ inProgress \in BOOLEAN
    /\ announced \in {"none", "loaded", "failed"}
    /\ offsets \in Window
    /\ buttons \subseteq {"next", "previous"}
    /\ shown \in Seq(BlockType) /\ orphans \in Seq(BlockType)
    /\ acts \in 0 .. MaxActs /\ failures \in 0 .. MaxFailures
    /\ tangled \in BOOLEAN /\ misled \in BOOLEAN /\ threw \in BOOLEAN

\* A page that no render has followed starts at a root, in the style s, of what
\* it lists.
FromRoot(block, s) ==
    block.fresh /\ Threaded(s) =>
        /\ block.ids \in AllIds
        /\ ListingOf[block.ids.of].n > 0
              => block.window.start \in ListingOf[block.ids.of].roots

\* What may be ready: a continuation of the results has them, one that appends
\* views has a page from a root, and a listener is a showMessageById.
MayRun(s) ==
    {job \in JobType : /\ job.kind # "ask" => job.got \in AllIds
                       /\ job.kind = "append" => FromRoot(job.block, s)}
MayHold(s) == {job \in MayRun(s) : job.kind = "append"}
MayWait == {job \in JobType : /\ job.kind \notin {"ask", "append"}
                              /\ job.asked = NoIds => job.got \in AllIds}
MayListen == {job \in JobType : job.kind = "ask"}

\* The inductive invariant, in parts.
ResultsKnown == valid => results \in AllIds
QueuesKept ==
    /\ jobs \in Seq(MayRun(style)) /\ held \in Seq(MayHold(style))
    /\ waiting \in Seq(MayWait) /\ listeners \in Seq(MayListen)
PagesFromRoot == \A i \in DOMAIN shown : FromRoot(shown[i], style)

ListIInv == TypeOK /\ ResultsKnown /\ QueuesKept /\ PagesFromRoot

\* What is ready or waits for the server; what of it brings a page to the list,
\* what belongs to a jump, and what of a jump will act on the list.
Flow == jobs \o waiting
BringsPage(job) ==
    job.fresh /\ job.kind \in {"rendered", "real", "show", "all", "append"}
Seeks(job) == job.kind \in {"ask", "find"}
Lands(job) == job.kind = "ask" \/ (job.kind = "find" /\ job.fresh)

Pages   == {job \in JobType : BringsPage(job)}
Seekers == {job \in JobType : Seeks(job)}

NoPage   == \A job \in Range(Flow) : ~BringsPage(job)
NoneHeld == \A job \in Range(held) : ~job.fresh
NoSeeker == \A job \in Range(Flow) : ~Seeks(job)

Single(seq, S) ==
    \A i, k \in DOMAIN seq : seq[i] \in S /\ seq[k] \in S => i = k

\* A page of an earlier render, its views destroyed.
Superseded(job) ==
    job.kind = "append" /\ ~job.fresh /\ ~job.block.fresh /\ ~job.block.live

LastCounts(seq) == \A i \in DOMAIN seq : i < Len(seq) => Superseded(seq[i])

\* One page at most is on its way, and one jump in progress.
OneOfEach ==
    /\ LastCounts(jobs) /\ LastCounts(held) /\ Len(listeners) <= 1
    /\ Single(Flow, Pages) /\ Single(Flow, Seekers)
    /\ NoneHeld \/ NoPage
    /\ listeners # <<>> => NoSeeker
    /\ ~inProgress => NoSeeker /\ listeners = <<>>

\* A jump acts between two pages, and a complete render awaits no page but that of
\* all messages.
PageThenJump ==
    /\ \A job \in Range(Flow) : Lands(job) => NoPage /\ NoneHeld
    /\ \A job \in Range(Flow) : job.fresh /\ job.kind = "all" => NoSeeker
    /\ complete => listeners = <<>>
    /\ complete /\ inProgress
          => NoneHeld /\ \A job \in Range(Flow) : BringsPage(job) => job.kind = "all"

Cur == Ids(filter, style)

\* The window starts within the listing and does not end before it starts.
Fits(window) ==
    /\ 0 <= window.start /\ window.start <= ListingOf[filter].n
    /\ window.start - 1 <= window.end

\* What is on its way is about what is selected, unless it is outdated.
OfThisQuery ==
    /\ \A job \in Range(waiting) :
          job.fresh => job.asked = Cur \/ (job.asked = NoIds /\ job.got = Cur)
    /\ \A job \in Range(jobs) : job.fresh /\ job.kind # "ask" => job.got = Cur
    /\ \A job \in Range(held) : job.fresh => job.got = Cur
    /\ \A job \in Range(Flow) :
          /\ job.fresh /\ job.kind = "show" => Fits(job.window)
          /\ job.fresh /\ job.kind \in {"rendered", "real"} => offsets = NoWindow
    /\ offsets # NoWindow => Fits(offsets) /\ offsets.end <= ListingOf[filter].n

\* A page of an earlier render whose views are not destroyed comes before the
\* new render has displayed anything, and onRender will clear it away; one that is
\* held has not been displayed either.
LeftBehind ==
    /\ \A job \in Range(jobs) \cup Range(held) :
          job.kind = "append" /\ ~job.fresh =>
             /\ ~job.block.fresh
             /\ job.block.live =>
                   /\ ~threw => ~NoPage
                   /\ \A other \in Range(Flow) :
                         other.fresh => other.kind \in {"rendered", "ask"}
    /\ \A job \in Range(held) :
          ~job.fresh /\ job.block.live =>
             /\ ~complete /\ buttons = {}
             /\ \A other \in Range(jobs) : other.kind # "append"

\* The list displays one page of what is selected, the page of its offsets.
PageShown ==
    /\ offsets # NoWindow
    /\ Len(shown) = 1 /\ shown[1].ids = Cur /\ shown[1].window = offsets

\* A block that will be that page.
WillBeShown(block) ==
    /\ offsets # NoWindow /\ shown = <<>>
    /\ block.live /\ block.ids = Cur /\ block.window = offsets

PageOf(request) == MessagesOffsets(ListingOf[filter], request, Threaded(style))

\* The target is in the window, when it is listed.
Covers(window) ==
    HasTarget(Cur) => TargetOffset(Cur, Threaded(style))
                         \in Displayed(ListingOf[filter], window)

\* A jump that turned the page and may not do so again.
LastCall(job) == job.fresh /\ job.budget <= 0

\* With no error, a jump in progress will go on and a page on its way arrive;
\* when none is, one is displayed, or the jump is about to request it.
Landing ==
    /\ announced # "failed"
    /\ \A i \in DOMAIN orphans : ~orphans[i].fresh
    /\ inProgress => ~NoSeeker \/ listeners # <<>>
    /\ NoPage /\ NoneHeld
          => /\ complete /\ listeners = <<>>
             /\ PageShown \/ (offsets = NoWindow /\ shown = <<>> /\ ~NoSeeker)
    /\ offsets # NoWindow
          => Displayed(ListingOf[filter], PageOf(offsets))
                = Displayed(ListingOf[filter], offsets)
    /\ \A job \in Range(Flow) :
          /\ job.fresh /\ job.kind = "real" => shown = <<>>
          /\ job.fresh /\ job.kind = "append" => WillBeShown(job.block)
    /\ \A job \in Range(held) : job.fresh => WillBeShown(job.block)

\* The page that a last call waits for, or has, displays the target.
TargetComes ==
    /\ \A job \in Range(Flow) :
          Seeks(job) /\ LastCall(job) => PageShown /\ Covers(offsets)
    /\ \A call \in Range(listeners), job \in Range(Flow) :
          LastCall(call) /\ BringsPage(job)
             => \/ job.kind = "show" /\ Covers(PageOf(job.window))
                \/ job.kind = "append" /\ Covers(offsets)
    /\ \A call \in Range(listeners) :
          LastCall(call) /\ ~NoneHeld => Covers(offsets)

\* The inductive invariant of what is neither tangled nor misled.
FlowIInv ==
    ~tangled /\ ~misled
        => /\ OneOfEach /\ PageThenJump /\ OfThisQuery /\ LeftBehind
           /\ ~threw => Landing /\ TargetComes

\* Both together: what is on the screen and on its way is what the renders of the
\* selected query, the turning of pages and the jumps have made of it.
PanelIInv == ListIInv /\ FlowIInv

Quiet == jobs = <<>> /\ waiting = <<>> /\ held = <<>>

\* Once everything has come that was asked for, in whatever order, the list
\* displays one page of what is selected, the page of its offsets, and nothing of
\* an earlier render has found its way there: ids, structures and announcements
\* of earlier renders may come late, fill the results again, or be held.
\* Excepted are what was displayed with the ids that a late answer had left
\* (misled), pages turned or jumps made while others were under way, an outdated
\* page that is made up in the midst of a render (tangled), and errors.
ListIsCurrent ==
    Quiet /\ ~tangled /\ ~misled /\ ~threw =>
        /\ Len(shown) = 1
        /\ shown[1].ids = Ids(filter, style)
        /\ shown[1].window = offsets
        /\ \A i \in DOMAIN orphans : ~orphans[i].fresh

\* A jump whose message is listed ends, to hand over to scrollToMessage or to give
\* up, with the message displayed, with the same exceptions.
JumpLands ==
    LET job == Head(jobs) IN
    NextJob("find") /\ ~tangled /\ ~misled /\ ~threw =>
        \/ ~job.fresh \/ ~HasTarget(job.got) \/ OutOfRange(job.got)
        \/ job.budget > 0 /\ ~OnScreen(job.got)
        \/ \E i \in DOMAIN shown :
              TargetOffset(shown[i].ids, Threaded(style)) \in
                  Displayed(ListingOf[shown[i].ids.of], shown[i].window)

\* Whatever page is requested, no reply is displayed without the root of its
\* thread, which would leave it and its replies out: what is displayed in a
\* threaded style is displayed with its root.
ThreadsFromRoot ==
    \A i \in DOMAIN shown :
        LET listing == ListingOf[shown[i].ids.of]
            roots   == listing.roots
        IN  shown[i].fresh /\ Threaded(style) /\ listing.n > 0
                => \A m \in Displayed(listing, shown[i].window) :
                      \E r \in roots \cap Displayed(listing, shown[i].window) :
                         r <= m /\ \A q \in roots : q <= m => q <= r

\* Turning the page leaves no message out between what was and what will be
\* displayed, and displays one that was not, with the same exceptions.
PagingSkipsNothing ==
    [][\A dir \in {"next", "previous"} :
         LET request == IF dir = "next" THEN NextRequest(offsets)
                                        ELSE PreviousRequest(offsets)
             listing == ListingOf[Head(jobs).got.of]
         IN  /\ RunShow /\ ~tangled' /\ ~misled
             /\ offsets # NoWindow /\ Head(jobs).window = request
             => /\ offsets'.start <= offsets.end + 1
                /\ offsets'.end >= offsets.start - 1
                /\ dir = "next" /\ offsets.end < listing.n - 1
                      => offsets'.end > offsets.end
                /\ dir = "previous" /\ offsets.start > 0
                      => offsets'.start < offsets.start]_vars

\* Every render is completed, and every jump to a message that the whole
\* discussion lists ends, unless an error cut it short.
RenderEnds == ~complete ~> (complete \/ threw)
JumpEnds == inProgress ~> (~inProgress \/ threw)

=============================================================================
