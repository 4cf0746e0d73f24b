-------------------------- MODULE MessageListProofs --------------------------
(***************************************************************************)
(* What the arithmetic of a message list's pages guarantees for every page  *)
(* size, every limit of the display and every listing: a threaded page      *)
(* starts at a root, so that each message displayed has its thread's root;  *)
(* turning the page leaves no gap and moves on; a jump requests a page with *)
(* its message, and no request is longer than the display.                  *)
(*                                                                          *)
(* And what holds of MessageList for any page size, filters, styles and     *)
(* listings, and whatever the user does while the server is asked: of its   *)
(* inductive invariant PanelIInv, first ListIInv, and with it that a        *)
(* threaded style displays each message with the root of its thread; then   *)
(* FlowIInv, what becomes of a page or a jump that is on its way as long as *)
(* pages and jumps do not cross each other and nothing is asked for with    *)
(* the ids of another query (Flows, while nothing is tangled or misled),    *)
(* and with it that the list ends up with the page of what is selected,     *)
(* that a jump ends with its message displayed, and that turning the page   *)
(* leaves no message out.  Answers to former queries, and the pages of      *)
(* former renders that the announcements hold, may come at any time.  Each  *)
(* step leaves one continuation at most beside those that wait; the lemma   *)
(* of an action says which, and that each part of Flows goes on to hold.    *)
(***************************************************************************)
EXTENDS MessageList, NatSetLemmas, SequenceTheorems

-----------------------------------------------------------------------------
(* Roots and offsets *)

\* The root before an offset, and the root after it when there is one.
LEMMA PrecedingRootIs ==
  ASSUME NEW listing, IsListing(listing), NEW i \in 0 .. listing.n - 1
  PROVE  /\ PrecedingRoot(listing, i) \in listing.roots
         /\ PrecedingRoot(listing, i) \in 0 .. i
         /\ \A r \in listing.roots : r <= i => r <= PrecedingRoot(listing, i)
<1> DEFINE S == RootsUpTo(listing, i)
<1>1. S \in SUBSET (0 .. i) /\ S # {} /\ 0 \in Int /\ i \in Int
  BY DEF RootsUpTo, IsListing
<1>2. \E r \in S : \A s \in S : s <= r
  <2> HIDE DEF S
  <2> QED
    BY <1>1, GreatestOf, Zenon
<1>3. /\ PrecedingRoot(listing, i) \in S
      /\ \A s \in S : s <= PrecedingRoot(listing, i)
  <2> HIDE DEF S
  <2> QED
    BY <1>2 DEF PrecedingRoot, S
<1> QED
  BY <1>1, <1>3 DEF RootsUpTo

LEMMA NextRootIs ==
  ASSUME NEW listing, IsListing(listing), NEW i \in Int,
         RootsFrom(listing, i) # {}
  PROVE  NextRoot(listing, i) \in listing.roots /\ NextRoot(listing, i) >= i
<1> DEFINE S == RootsFrom(listing, i)
<1>1. S \in SUBSET Nat /\ S # {}
  BY DEF RootsFrom, IsListing
<1>2. \E r \in S : \A s \in S : r <= s
  <2> HIDE DEF S
  <2> QED
    BY <1>1, LeastOf, Zenon
<1>3. NextRoot(listing, i) \in S
  <2> HIDE DEF S
  <2> QED
    BY <1>2 DEF NextRoot, S
<1> QED
  BY <1>3 DEF RootsFrom

\* A root is the first one from itself.
LEMMA NextRootLeast ==
  ASSUME NEW listing, IsListing(listing), NEW i, i \in RootsFrom(listing, i)
  PROVE  NextRoot(listing, i) = i
BY DEF NextRoot, RootsFrom, IsListing

-----------------------------------------------------------------------------
(* The page displayed *)

\* What _calculateThreadedMessagesOffsets makes of a request that starts in the
\* listing: the page starts at a root, and it covers the request.
THEOREM ThreadedPage ==
  ASSUME NEW listing, IsListing(listing), NEW request \in Window,
         request.start \in 0 .. listing.n - 1
  PROVE  LET page == ThreadedOffsets(listing, request) IN
         /\ page \in Window
         /\ page.start \in listing.roots /\ page.start <= request.start
         /\ \A i \in 0 .. listing.n - 1 :
               request.start <= i /\ i <= request.end => i \in Displayed(listing, page)
<1> DEFINE page == ThreadedOffsets(listing, request)
<1>1. listing.n \in Nat /\ listing.n # 0
  BY DEF IsListing
<1>2. page = [start |-> PrecedingRoot(listing, request.start), end |-> page.end]
  BY <1>1 DEF ThreadedOffsets
<1>3. /\ page.start = PrecedingRoot(listing, request.start)
      /\ page.start \in listing.roots /\ page.start \in 0 .. request.start
  BY <1>2, PrecedingRootIs
<1>4. page.end \in Int /\ (page.end >= request.end \/ page.end >= listing.n - 1)
  <2>1. CASE request.end > listing.n - 1
    BY <1>1, <2>1 DEF ThreadedOffsets, Window
  <2>2. CASE ~(request.end > listing.n - 1) /\ RootsFrom(listing, request.end) # {}
    <3>1. page.end = NextRoot(listing, request.end)
      BY <1>1, <2>2 DEF ThreadedOffsets
    <3>2. request.end \in Int
      BY DEF Window
    <3>3. page.end \in listing.roots /\ page.end >= request.end
      BY <2>2, <3>1, <3>2, NextRootIs
    <3> QED
      BY <3>3 DEF IsListing
  <2>3. CASE ~(request.end > listing.n - 1) /\ RootsFrom(listing, request.end) = {}
    <3>1. page.end = listing.n
      BY <1>1, <2>3 DEF ThreadedOffsets
    <3> QED
      BY <3>1, <1>1
  <2> QED
    BY <2>1, <2>2, <2>3
<1>5. page \in Window
  <2>1. page.start \in Int
    BY <1>3
  <2> QED
    BY <2>1, <1>2, <1>4 DEF Window
<1>6. ASSUME NEW i \in 0 .. listing.n - 1, request.start <= i, i <= request.end
      PROVE  i \in Displayed(listing, page)
  <2>1. page.start <= i /\ i <= page.end
    BY <1>1, <1>3, <1>4, <1>6 DEF Window
  <2> QED
    BY <2>1 DEF Displayed
<1> QED
  BY <1>3, <1>5, <1>6

\* Each message of such a page has the root of its thread in the page too.
THEOREM RootsDisplayed ==
  ASSUME NEW listing, IsListing(listing), NEW request \in Window,
         request.start \in 0 .. listing.n - 1,
         NEW i \in Displayed(listing, ThreadedOffsets(listing, request))
  PROVE  PrecedingRoot(listing, i)
            \in Displayed(listing, ThreadedOffsets(listing, request))
<1> DEFINE page == ThreadedOffsets(listing, request)
<1>1. page.start \in listing.roots /\ page \in Window
  BY ThreadedPage
<1>2. i \in 0 .. listing.n - 1 /\ page.start <= i /\ i <= page.end
  BY DEF Displayed
<1>3. /\ PrecedingRoot(listing, i) \in 0 .. i
      /\ page.start <= PrecedingRoot(listing, i)
  BY <1>1, <1>2, PrecedingRootIs
<1> HIDE DEF page
<1>4. PrecedingRoot(listing, i) \in 0 .. listing.n - 1
  BY <1>2, <1>3 DEF IsListing
<1>5. PrecedingRoot(listing, i) <= page.end
  BY <1>1, <1>2, <1>3 DEF Window
<1> QED
  BY <1>3, <1>4, <1>5 DEF Displayed, page

-----------------------------------------------------------------------------
(* The page requested *)

\* Turning to the next page: the request joins the page displayed, goes a page
\* further, and is no longer than the display.
THEOREM NextPageJoins ==
  ASSUME NEW window \in Window, window.start >= 0, window.start <= window.end,
         window.end - window.start <= MaxDisplay
  PROVE  LET request == NextRequest(window) IN
         /\ request \in Window
         /\ window.start <= request.start /\ request.start <= window.end
         /\ request.end = window.end + PageSize /\ request.end > window.end
         /\ request.end - request.start <= MaxDisplay
BY PageAssumption DEF NextRequest, Window

\* Turning to the previous one: the request joins the page displayed, goes a
\* page back or to the first message, and is no longer than the display.
THEOREM PreviousPageJoins ==
  ASSUME NEW window \in Window, window.start >= 0, window.start <= window.end
  PROVE  LET request == PreviousRequest(window) IN
         /\ request \in Window
         /\ request.start = 0 \/ request.start = window.start - PageSize
         /\ request.start >= 0 /\ request.start <= window.start
         /\ window.start <= request.end /\ request.end <= window.end
         /\ request.end - request.start <= MaxDisplay
BY PageAssumption DEF PreviousRequest, Window

\* A jump requests a page that has the message, and whose first offset can be
\* looked up.
THEOREM JumpRequestsTarget ==
  ASSUME NEW window \in Window, NEW offset \in Nat,
         window = NoWindow \/ (window.start >= 0 /\ window.start - 1 <= window.end)
  PROVE  LET request == RequestFor(window, offset) IN
         /\ request \in Window
         /\ 0 <= request.start /\ request.start <= offset
         /\ offset <= request.end
         /\ request.end - request.start <= MaxDisplay
BY PageAssumption DEF RequestFor, Window, NoWindow

\* And what is then displayed has the message, in a threaded or a flat style.
THEOREM JumpDisplaysTarget ==
  ASSUME NEW listing, IsListing(listing), NEW offset \in 0 .. listing.n - 1,
         NEW window \in Window, NEW threaded \in BOOLEAN,
         window = NoWindow \/ (window.start >= 0 /\ window.start - 1 <= window.end)
  PROVE  offset \in Displayed(listing,
                     MessagesOffsets(listing, RequestFor(window, offset), threaded))
<1> DEFINE request == RequestFor(window, offset)
<1>1. listing.n \in Nat /\ offset \in Nat
  BY DEF IsListing
<1>2. /\ request \in Window
      /\ request.start \in 0 .. listing.n - 1
      /\ request.start <= offset /\ offset <= request.end
  <2>1. /\ request \in Window /\ 0 <= request.start /\ request.start <= offset
        /\ offset <= request.end
    BY <1>1, JumpRequestsTarget
  <2> QED
    BY <1>1, <2>1 DEF Window
<1> HIDE DEF request
<1>3. offset \in Displayed(listing, ThreadedOffsets(listing, request))
  BY <1>2, ThreadedPage
<1>4. offset \in Displayed(listing, FlatOffsets(listing, request))
  BY <1>1, <1>2 DEF Displayed, FlatOffsets, Window
<1> QED
  BY <1>3, <1>4 DEF MessagesOffsets, request

-----------------------------------------------------------------------------
(* The page of a request *)

\* The page of a request that starts in the listing does too, goes no further
\* than it, and is the page of itself.
LEMMA PageSettles ==
  ASSUME NEW listing, IsListing(listing), NEW request \in Window, NEW threaded \in BOOLEAN,
         0 <= request.start, request.start <= listing.n,
         request.start - 1 <= request.end, CanDisplay(listing, request, threaded)
  PROVE  LET page == MessagesOffsets(listing, request, threaded) IN
         /\ page \in Window /\ page # NoWindow
         /\ 0 <= page.start /\ page.start <= listing.n
         /\ page.start - 1 <= page.end /\ page.end <= listing.n
         /\ Displayed(listing, MessagesOffsets(listing, page, threaded))
               = Displayed(listing, page)
<1> DEFINE page == MessagesOffsets(listing, request, threaded)
<1>1. listing.n \in Nat /\ listing.roots \subseteq 0 .. listing.n - 1
  BY DEF IsListing
<1>2. CASE ~threaded
  <2>1. /\ page.start = request.start
        /\ page.end = IF request.end < listing.n THEN request.end ELSE listing.n - 1
        /\ page = [start |-> page.start, end |-> page.end]
    BY <1>2 DEF MessagesOffsets, FlatOffsets
  <2>2. /\ page \in Window /\ page # NoWindow /\ page.end < listing.n
        /\ page.start - 1 <= page.end /\ page.end <= listing.n
    BY <1>1, <2>1 DEF Window, NoWindow
  <2> HIDE DEF page
  <2>3. MessagesOffsets(listing, page, threaded) = page
    BY <1>2, <2>1, <2>2 DEF MessagesOffsets, FlatOffsets
  <2> QED
    BY <2>1, <2>2, <2>3 DEF page
<1>3. CASE threaded /\ listing.n = 0
  <2>1. page = [start |-> 0, end |-> 0]
    BY <1>3 DEF MessagesOffsets, ThreadedOffsets
  <2>2. \A window : Displayed(listing, window) = {}
    BY <1>3 DEF Displayed
  <2> QED
    <3> HIDE DEF page
    <3>1. /\ page \in Window /\ page # NoWindow /\ page.start = 0 /\ page.end = 0
          /\ Displayed(listing, MessagesOffsets(listing, page, threaded))
                = Displayed(listing, page)
      BY <2>1, <2>2 DEF Window, NoWindow
    <3>2. /\ 0 <= page.start /\ page.start <= listing.n
          /\ page.start - 1 <= page.end /\ page.end <= listing.n
      BY <1>3, <3>1
    <3> QED
      BY <3>1, <3>2 DEF page
<1>4. CASE threaded /\ listing.n # 0
  <2>1. request.start \in 0 .. listing.n - 1
    BY <1>1, <1>4 DEF CanDisplay
  <2>2. page = ThreadedOffsets(listing, request)
    BY <1>4 DEF MessagesOffsets
  <2>3. /\ page \in Window /\ page.start \in listing.roots
        /\ page.start <= request.start
    BY <2>1, <2>2, ThreadedPage
  <2>4. /\ page.start = PrecedingRoot(listing, request.start)
        /\ page.end = IF request.end > listing.n - 1 THEN listing.n - 1
                      ELSE IF RootsFrom(listing, request.end) # {}
                           THEN NextRoot(listing, request.end)
                           ELSE listing.n
    <3> DEFINE end == IF request.end > listing.n - 1 THEN listing.n - 1
                      ELSE IF RootsFrom(listing, request.end) # {}
                           THEN NextRoot(listing, request.end)
                           ELSE listing.n
    <3>1. ThreadedOffsets(listing, request)
             = [start |-> PrecedingRoot(listing, request.start), end |-> end]
      BY <1>4 DEF ThreadedOffsets
    <3> HIDE DEF page, end
    <3>2. page.start = PrecedingRoot(listing, request.start) /\ page.end = end
      BY <2>2, <3>1
    <3> QED
      BY <3>2 DEF end
  <2>5. /\ page.end >= request.end \/ page.end = listing.n - 1
        /\ page.end \in listing.roots \/ page.end \in {listing.n - 1, listing.n}
    <3>1. CASE request.end > listing.n - 1
      BY <2>4, <3>1
    <3>2. CASE ~(request.end > listing.n - 1) /\ RootsFrom(listing, request.end) # {}
      <4>1. request.end \in Int
        BY DEF Window
      <4> QED
        BY <2>4, <3>2, <4>1, NextRootIs
    <3>3. CASE ~(request.end > listing.n - 1) /\ RootsFrom(listing, request.end) = {}
      BY <1>1, <2>4, <3>3 DEF Window
    <3> QED
      BY <3>1, <3>2, <3>3
  <2> HIDE DEF page
  <2>6. /\ page.start \in 0 .. listing.n - 1 /\ page.end \in Int
        /\ page.start - 1 <= page.end /\ page.end <= listing.n /\ page # NoWindow
    BY <1>1, <2>1, <2>3, <2>5 DEF Window, NoWindow
  <2> DEFINE again == ThreadedOffsets(listing, page)
  <2>7. /\ again.start = PrecedingRoot(listing, page.start)
        /\ again.end = IF page.end > listing.n - 1 THEN listing.n - 1
                       ELSE IF RootsFrom(listing, page.end) # {}
                            THEN NextRoot(listing, page.end)
                            ELSE listing.n
    BY <1>4 DEF ThreadedOffsets
  <2> HIDE DEF again
  <2>8. again.start = page.start
    <3>1. /\ PrecedingRoot(listing, page.start) \in 0 .. page.start
          /\ \A r \in listing.roots : r <= page.start => r <= PrecedingRoot(listing, page.start)
      BY <2>6, PrecedingRootIs
    <3>2. page.start <= PrecedingRoot(listing, page.start)
      BY <2>3, <2>6, <3>1
    <3> QED
      BY <2>6, <2>7, <3>1, <3>2
  <2>9. again.end = page.end \/ (again.end >= listing.n - 1 /\ page.end >= listing.n - 1)
    <3>1. CASE page.end > listing.n - 1
      BY <1>1, <2>6, <2>7, <3>1
    <3>2. CASE ~(page.end > listing.n - 1) /\ page.end \in listing.roots
      <4>1. page.end \in RootsFrom(listing, page.end)
        BY <2>6, <3>2 DEF RootsFrom
      <4>2. again.end = NextRoot(listing, page.end)
        BY <2>7, <3>2, <4>1
      <4>3. NextRoot(listing, page.end) = page.end
        BY <2>6, <4>1, NextRootLeast
      <4> QED
        BY <4>2, <4>3
    <3>3. CASE ~(page.end > listing.n - 1) /\ page.end \notin listing.roots
      <4>1. page.end = listing.n - 1
        BY <1>1, <2>5, <2>6, <3>3
      <4>2. RootsFrom(listing, page.end) = {}
        BY <1>1, <2>6, <3>3, <4>1 DEF RootsFrom
      <4> QED
        BY <1>1, <2>7, <4>1, <4>2
    <3> QED
      BY <3>1, <3>2, <3>3
  <2>10. again.end \in Int
    BY <1>1, <2>6, <2>9, <2>7, NextRootIs
  <2>11. Displayed(listing, again) = Displayed(listing, page)
    BY <1>1, <2>6, <2>8, <2>9, <2>10 DEF Displayed
  <2>12. MessagesOffsets(listing, page, threaded) = again
    BY <1>4 DEF MessagesOffsets, again
  <2> QED
    <3>1. page.start <= listing.n
      BY <1>1, <2>6
    <3>2. Displayed(listing, MessagesOffsets(listing, page, threaded)) = Displayed(listing, page)
      BY <2>11, <2>12
    <3> QED
      BY <2>3, <2>6, <3>1, <3>2 DEF page
<1> QED
  BY <1>1, <1>2, <1>3, <1>4

\* How far the page of a request reaches.
LEMMA PageReaches ==
  ASSUME NEW listing, IsListing(listing), NEW request \in Window, NEW threaded \in BOOLEAN,
         0 <= request.start, CanDisplay(listing, request, threaded)
  PROVE  LET page == MessagesOffsets(listing, request, threaded) IN
         /\ page.start \in Int /\ page.end \in Int
         /\ page.start <= request.start
         /\ page.end >= request.end \/ page.end >= listing.n - 1
<1> DEFINE page == MessagesOffsets(listing, request, threaded)
<1>1. listing.n \in Nat /\ request.start \in Int /\ request.end \in Int
  BY DEF IsListing, Window
<1>2. CASE ~threaded
  BY <1>1, <1>2 DEF MessagesOffsets, FlatOffsets
<1>3. CASE threaded /\ listing.n = 0
  BY <1>1, <1>3 DEF MessagesOffsets, ThreadedOffsets
<1>4. CASE threaded /\ listing.n # 0
  <2>1. request.start \in 0 .. listing.n - 1
    BY <1>1, <1>4 DEF CanDisplay
  <2>2. page = ThreadedOffsets(listing, request)
    BY <1>4 DEF MessagesOffsets
  <2>3. page \in Window /\ page.start <= request.start
    BY <2>1, <2>2, ThreadedPage
  <2> DEFINE end == IF request.end > listing.n - 1 THEN listing.n - 1
                    ELSE IF RootsFrom(listing, request.end) # {}
                         THEN NextRoot(listing, request.end)
                         ELSE listing.n
  <2>4. ThreadedOffsets(listing, request)
           = [start |-> PrecedingRoot(listing, request.start), end |-> end]
    BY <1>4 DEF ThreadedOffsets
  <2> HIDE DEF page, end
  <2>5. page.end = end
    BY <2>2, <2>4
  <2>6. RootsFrom(listing, request.end) # {} => NextRoot(listing, request.end) >= request.end
    BY <1>1, NextRootIs
  <2> QED
    BY <1>1, <2>3, <2>5, <2>6 DEF Window, page, end
<1> QED
  BY <1>2, <1>3, <1>4


-----------------------------------------------------------------------------
(* Continuations and queues *)

LEMMA IdsType ==
  ASSUME NEW f \in Filters, NEW s \in Styles
  PROVE  Ids(f, s) \in AllIds
BY DEF Ids, AllIds, Order

LEMMA JobIs ==
  ASSUME NEW kind \in {"rendered", "real", "show", "all", "append", "ask", "find"},
         NEW window \in Window, NEW budget \in Int
  PROVE  /\ Job(kind, window, budget) \in JobType
         /\ Job(kind, window, budget).kind = kind
         /\ Job(kind, window, budget).asked = NoIds
<1>1. NoWindow \in Window
  BY DEF NoWindow, Window
<1>2. NoBlock \in BlockType
  BY <1>1 DEF NoBlock, Block, BlockType, MaybeIds
<1> QED
  BY <1>2 DEF Job, JobType, MaybeIds

LEMMA NoWindowType == NoWindow \in Window
BY DEF NoWindow, Window

\* A continuation of an earlier render may run in whatever style follows.
LEMMA OutdatedJob ==
  ASSUME NEW job \in JobType
  PROVE  LET late == [job EXCEPT !.fresh = FALSE, !.block.fresh = FALSE] IN
         /\ late \in JobType
         /\ late.kind = job.kind /\ late.asked = job.asked /\ late.got = job.got
         /\ \A s : FromRoot(late.block, s)
BY DEF JobType, BlockType, FromRoot

LEMMA DestroyedJob ==
  ASSUME NEW job \in JobType
  PROVE  LET gone == [job EXCEPT !.block.live = FALSE] IN
         /\ gone \in JobType
         /\ gone.kind = job.kind /\ gone.asked = job.asked /\ gone.got = job.got
         /\ \A s : FromRoot(job.block, s) => FromRoot(gone.block, s)
BY DEF JobType, BlockType, FromRoot

\* Mapping the elements of a sequence.
LEMMA OutdatedSeq ==
  ASSUME NEW s, NEW r
  PROVE  /\ \A seq \in Seq(MayRun(s)) : Outdated(seq) \in Seq(MayRun(r))
         /\ \A seq \in Seq(MayHold(s)) : Outdated(seq) \in Seq(MayHold(r))
         /\ \A seq \in Seq(MayWait) : Outdated(seq) \in Seq(MayWait)
         /\ \A seq \in Seq(MayListen) : Outdated(seq) \in Seq(MayListen)
<1>1. ASSUME NEW S, NEW T, NEW seq \in Seq(S),
             \A job \in S : [job EXCEPT !.fresh = FALSE, !.block.fresh = FALSE] \in T
      PROVE  Outdated(seq) \in Seq(T)
  <2>1. \A i \in 1 .. Len(seq) : seq[i] \in S
    BY ElementOfSeq
  <2>2. \A i \in 1 .. Len(seq) :
           [seq[i] EXCEPT !.fresh = FALSE, !.block.fresh = FALSE] \in T
    BY <1>1, <2>1
  <2>3. DOMAIN seq = 1 .. Len(seq) /\ Len(seq) \in Nat
    BY LenProperties
  <2>4. Outdated(seq) \in [1 .. Len(seq) -> T]
    BY <2>2, <2>3 DEF Outdated
  <2> QED
    BY <2>3, <2>4, SeqDef
<1>2. ASSUME NEW job \in MayRun(s)
      PROVE  [job EXCEPT !.fresh = FALSE, !.block.fresh = FALSE] \in MayRun(r)
  BY OutdatedJob DEF MayRun
<1>3. ASSUME NEW job \in MayHold(s)
      PROVE  [job EXCEPT !.fresh = FALSE, !.block.fresh = FALSE] \in MayHold(r)
  BY OutdatedJob DEF MayHold, MayRun
<1>4. ASSUME NEW job \in MayWait
      PROVE  [job EXCEPT !.fresh = FALSE, !.block.fresh = FALSE] \in MayWait
  BY OutdatedJob DEF MayWait
<1>5. ASSUME NEW job \in MayListen
      PROVE  [job EXCEPT !.fresh = FALSE, !.block.fresh = FALSE] \in MayListen
  BY OutdatedJob DEF MayListen
<1> QED
  BY <1>1, <1>2, <1>3, <1>4, <1>5

LEMMA DestroyedSeq ==
  ASSUME NEW s
  PROVE  /\ \A seq \in Seq(MayRun(s)) : Destroyed(seq) \in Seq(MayRun(s))
         /\ \A seq \in Seq(MayHold(s)) : Destroyed(seq) \in Seq(MayHold(s))
<1>1. ASSUME NEW S, NEW seq \in Seq(S),
             \A job \in S : [job EXCEPT !.block.live = FALSE] \in S
      PROVE  Destroyed(seq) \in Seq(S)
  <2>1. \A i \in 1 .. Len(seq) : seq[i] \in S
    BY ElementOfSeq
  <2>2. \A i \in 1 .. Len(seq) : [seq[i] EXCEPT !.block.live = FALSE] \in S
    BY <1>1, <2>1
  <2>3. DOMAIN seq = 1 .. Len(seq) /\ Len(seq) \in Nat
    BY LenProperties
  <2>4. Destroyed(seq) \in [1 .. Len(seq) -> S]
    BY <2>2, <2>3 DEF Destroyed
  <2> QED
    BY <2>3, <2>4, SeqDef
<1>2. ASSUME NEW job \in MayRun(s)
      PROVE  [job EXCEPT !.block.live = FALSE] \in MayRun(s)
  BY DestroyedJob DEF MayRun
<1>3. ASSUME NEW job \in MayHold(s)
      PROVE  [job EXCEPT !.block.live = FALSE] \in MayHold(s)
  BY DestroyedJob DEF MayHold, MayRun
<1> QED
  BY <1>1, <1>2, <1>3

\* The continuation that a handler leaves to run or to wait.
LEMMA AwaitKeeps ==
  ASSUME TypeOK, NEW r, NEW job \in JobType, NEW ready \in Seq(MayRun(r)),
         NEW wait \in Seq(MayWait), NEW f \in Filters, NEW s \in Styles,
         NEW isValid, isValid => results \in AllIds,
         job.kind \notin {"ask", "append"}, job.asked = NoIds,
         Await(job, ready, wait, f, s, isValid)
  PROVE  jobs' \in Seq(MayRun(r)) /\ waiting' \in Seq(MayWait) /\ misled' \in BOOLEAN
<1> DEFINE now == [job EXCEPT !.got = results]
           asking == [job EXCEPT !.asked = Ids(f, s)]
<1>1. now \in JobType /\ now.kind = job.kind /\ now.got = results
  BY DEF JobType, TypeOK
<1>2. asking \in JobType /\ asking.kind = job.kind /\ asking.asked = Ids(f, s)
  BY IdsType DEF JobType, MaybeIds
<1>3. Ids(f, s) # NoIds
  BY DEF Ids, NoIds, Order
<1>4. asking \in MayWait
  BY <1>2, <1>3 DEF MayWait
<1>5. isValid => now \in MayRun(r) /\ now \in MayWait
  BY <1>1 DEF MayRun, MayWait
<1>6. misled' \in BOOLEAN
  BY DEF Await, TypeOK
<1>7. CASE isValid /\ f \notin Uncached
  BY <1>5, <1>6, <1>7 DEF Await
<1>8. CASE ~(isValid /\ f \notin Uncached)
  <2>1. jobs' = ready /\ waiting' = Append(wait, IF isValid THEN now ELSE asking)
    BY <1>8 DEF Await
  <2> QED
    BY <2>1, <1>4, <1>5, <1>6
<1> QED
  BY <1>7, <1>8

\* The same for the present query.
LEMMA AwaitNow ==
  ASSUME TypeOK, ResultsKnown, QueuesKept, NEW job \in JobType,
         NEW ready \in Seq(MayRun(style)),
         job.kind \notin {"ask", "append"}, job.asked = NoIds,
         Await(job, ready, waiting, filter, style, valid)
  PROVE  /\ jobs' \in Seq(MayRun(style)) /\ waiting' \in Seq(MayWait)
         /\ misled' \in BOOLEAN
<1>1. /\ filter \in Filters /\ style \in Styles /\ waiting \in Seq(MayWait)
      /\ (valid => results \in AllIds)
  BY DEF TypeOK, ResultsKnown, QueuesKept
<1> QED
  BY <1>1, AwaitKeeps

LEMMA RenderKeeps ==
  ASSUME TypeOK, QueuesKept, NEW ready \in Seq(MayRun(style)), NEW f \in Filters,
         NEW s \in Styles, NEW isValid, isValid => results \in AllIds,
         Render(ready, f, s, isValid)
  PROVE  /\ jobs' \in Seq(MayRun(s)) /\ held' \in Seq(MayHold(s))
         /\ waiting' \in Seq(MayWait) /\ misled' \in BOOLEAN
         /\ shown' = <<>> /\ orphans' = <<>> /\ buttons' = {}
         /\ complete' = FALSE /\ offsets' = NoWindow
<1> DEFINE job == Job("rendered", NoWindow, 0)
<1>1. job \in JobType /\ job.kind = "rendered" /\ job.asked = NoIds
  BY JobIs, NoWindowType
<1>2. /\ Outdated(ready) \in Seq(MayRun(s)) /\ Outdated(held) \in Seq(MayHold(s))
      /\ Outdated(waiting) \in Seq(MayWait)
  BY OutdatedSeq DEF QueuesKept
<1>3. Await(job, Outdated(ready), Outdated(waiting), f, s, isValid)
  BY DEF Render
<1> HIDE DEF job
<1>4. /\ jobs' \in Seq(MayRun(s)) /\ waiting' \in Seq(MayWait)
      /\ misled' \in BOOLEAN
  BY <1>1, <1>2, <1>3, AwaitKeeps
<1> QED
  BY <1>2, <1>4 DEF Render

LEMMA ShowMessagesKeeps ==
  ASSUME TypeOK, ResultsKnown, QueuesKept, NEW ready \in Seq(MayRun(style)),
         NEW request \in Window, ShowMessages(request, ready)
  PROVE  /\ jobs' \in Seq(MayRun(style)) /\ waiting' \in Seq(MayWait)
         /\ complete' = FALSE /\ misled' \in BOOLEAN
<1> DEFINE job == Job("show", request, 0)
<1>1. job \in JobType /\ job.kind = "show" /\ job.asked = NoIds
  BY JobIs
<1>2. Await(job, ready, waiting, filter, style, valid)
  BY DEF ShowMessages
<1> HIDE DEF job
<1>3. /\ jobs' \in Seq(MayRun(style)) /\ waiting' \in Seq(MayWait)
      /\ misled' \in BOOLEAN
  BY <1>1, <1>2, AwaitNow
<1> QED
  BY <1>3 DEF ShowMessages

LEMMA FindKeeps ==
  ASSUME TypeOK, ResultsKnown, QueuesKept, NEW ready \in Seq(MayRun(style)),
         NEW budget \in Int, NEW fresh \in BOOLEAN, NEW isComplete \in BOOLEAN,
         Find(budget, fresh, ready, isComplete)
  PROVE  /\ jobs' \in Seq(MayRun(style)) /\ waiting' \in Seq(MayWait)
         /\ listeners' \in Seq(MayListen) /\ misled' \in BOOLEAN
<1> DEFINE find == [Job("find", NoWindow, budget) EXCEPT !.fresh = fresh]
           ask  == [Job("ask", NoWindow, budget - 1) EXCEPT !.fresh = fresh]
<1>1. find \in JobType /\ find.kind = "find" /\ find.asked = NoIds
  BY JobIs, NoWindowType DEF JobType
<1>2. ask \in MayListen
  BY JobIs, NoWindowType DEF JobType, MayListen
<1>3. CASE isComplete
  <2>1. Await(find, ready, waiting, filter, style, valid) /\ listeners' = listeners
    BY <1>3 DEF Find
  <2> HIDE DEF find
  <2>2. /\ jobs' \in Seq(MayRun(style)) /\ waiting' \in Seq(MayWait)
        /\ misled' \in BOOLEAN
    BY <1>1, <2>1, AwaitNow
  <2> QED
    BY <2>1, <2>2 DEF QueuesKept
<1>4. CASE ~isComplete
  <2>1. /\ listeners' = Append(listeners, ask)
        /\ jobs' = ready /\ waiting' = waiting /\ misled' = misled
    BY <1>4 DEF Find
  <2> HIDE DEF ask
  <2> QED
    BY <1>2, <2>1 DEF QueuesKept, TypeOK
<1> QED
  BY <1>3, <1>4

LEMMA CompleteKeeps ==
  ASSUME QueuesKept, NEW ready \in Seq(MayRun(style)), TriggerComplete(ready)
  PROVE  /\ jobs' \in Seq(MayRun(style)) /\ listeners' \in Seq(MayListen)
         /\ complete' = TRUE
<1>1. MayListen \subseteq MayRun(style)
  BY DEF MayListen, MayRun
<1>2. listeners \in Seq(MayRun(style))
  BY <1>1, SeqMonotonic DEF QueuesKept
<1>3. listeners \o ready \in Seq(MayRun(style))
  BY <1>2, ConcatProperties
<1> QED
  BY <1>3 DEF TriggerComplete

\* What is at the head of the jobs, and what remains.
LEMMA NextJobIs ==
  ASSUME QueuesKept, NEW kind, NextJob(kind)
  PROVE  /\ Head(jobs) \in MayRun(style) /\ Head(jobs) \in JobType
         /\ Head(jobs).kind = kind
         /\ Tail(jobs) \in Seq(MayRun(style))
BY HeadTailProperties DEF QueuesKept, NextJob, MayRun

LEMMA WithoutType ==
  ASSUME NEW S, NEW seq \in Seq(S), NEW k \in DOMAIN seq
  PROVE  Without(seq, k) \in Seq(S) /\ seq[k] \in S
BY DEF Without

-----------------------------------------------------------------------------
(* The invariant and the continuations *)

\* What is displayed and what has been decided, kept by a step that changes only
\* queues, flags and buttons.
LEMMA ShownKept ==
  ASSUME PagesFromRoot, UNCHANGED <<style, shown>>
  PROVE  PagesFromRoot'
BY DEF PagesFromRoot, FromRoot

LEMMA ShownEmptied == shown' = <<>> => PagesFromRoot'
BY DEF PagesFromRoot

LEMMA InitListIInv == Init => ListIInv
<1> SUFFICES ASSUME Init PROVE ListIInv
  OBVIOUS
<1>1. "all" \in Filters /\ style \in Styles
  BY FiltersAssumption DEF Init
<1>2. Ids("all", style) \in AllIds /\ NoIds \notin AllIds
  BY <1>1, IdsType DEF NoIds, AllIds
<1>3. [Job("rendered", NoWindow, 0) EXCEPT !.asked = Ids("all", style)] \in MayWait
  BY <1>2, JobIs, NoWindowType DEF JobType, MaybeIds, MayWait
<1>4. TypeOK
  <2>1. results \in MaybeIds
    BY DEF Init, MaybeIds
  <2>2. acts \in 0 .. MaxActs /\ failures \in 0 .. MaxFailures
    BY BoundsAssumption DEF Init
  <2>3. offsets \in Window /\ shown \in Seq(BlockType) /\ orphans \in Seq(BlockType)
    BY NoWindowType DEF Init
  <2> QED
    BY <1>1, <2>1, <2>2, <2>3 DEF Init, TypeOK
<1>5. QueuesKept
  BY <1>3 DEF Init, QueuesKept
<1> QED
  BY <1>4, <1>5 DEF Init, ListIInv, ResultsKnown, PagesFromRoot

LEMMA RunRenderedKeeps == ListIInv /\ RunRendered => ListIInv'
<1> SUFFICES ASSUME ListIInv, RunRendered PROVE ListIInv'
  OBVIOUS
<1> USE DEF ListIInv
<1>1. Tail(jobs) \in Seq(MayRun(style))
  BY NextJobIs DEF RunRendered
<1>2. UNCHANGED <<filter, style, valid, results, offsets, buttons, complete,
                  inProgress, listeners, announced, acts, failures, tangled, threw>>
  BY DEF RunRendered, queryVars
<1>3. CASE Late(Head(jobs))
  <2>1. jobs' = Tail(jobs) /\ UNCHANGED <<waiting, held, shown, orphans, misled>>
    BY <1>3 DEF RunRendered
  <2>2. QueuesKept'
    BY <1>1, <1>2, <2>1 DEF QueuesKept
  <2>3. TypeOK' /\ ResultsKnown'
    BY <1>2, <2>1 DEF TypeOK, ResultsKnown
  <2> QED
    BY <1>2, <2>1, <2>2, <2>3, ShownKept
<1>4. CASE ~Late(Head(jobs))
  <2> DEFINE job == Job("real", NoWindow, 0)
  <2>1. /\ shown' = <<>> /\ orphans' = <<>> /\ held' = Destroyed(held)
        /\ Await(job, Destroyed(Tail(jobs)), waiting, filter, style, valid)
    BY <1>4 DEF RunRendered
  <2>2. job \in JobType /\ job.kind = "real" /\ job.asked = NoIds
    BY JobIs, NoWindowType
  <2> HIDE DEF job
  <2>3. /\ Destroyed(Tail(jobs)) \in Seq(MayRun(style))
        /\ Destroyed(held) \in Seq(MayHold(style))
    BY <1>1, DestroyedSeq DEF QueuesKept
  <2>4. /\ jobs' \in Seq(MayRun(style)) /\ waiting' \in Seq(MayWait)
        /\ misled' \in BOOLEAN
    BY <2>1, <2>2, <2>3, AwaitNow
  <2>5. QueuesKept'
    BY <1>2, <2>1, <2>3, <2>4 DEF QueuesKept
  <2>6. TypeOK' /\ ResultsKnown'
    BY <1>2, <2>1, <2>4 DEF TypeOK, ResultsKnown
  <2> QED
    BY <2>1, <2>5, <2>6, ShownEmptied
<1> QED
  BY <1>3, <1>4

LEMMA RunRealKeeps == ListIInv /\ RunReal => ListIInv'
<1> SUFFICES ASSUME ListIInv, RunReal PROVE ListIInv'
  OBVIOUS
<1> USE DEF ListIInv
<1>1. /\ Tail(jobs) \in Seq(MayRun(style))
      /\ Head(jobs) \in MayRun(style) /\ Head(jobs).kind = "real"
  BY NextJobIs DEF RunReal
<1>2. UNCHANGED <<filter, style, valid, results, offsets, shown, orphans, buttons, held,
                  announced, acts, failures, tangled, threw>>
  BY DEF RunReal, queryVars
<1>3. /\ complete' \in BOOLEAN /\ inProgress' \in BOOLEAN /\ misled' \in BOOLEAN
      /\ jobs' \in Seq(MayRun(style)) /\ waiting' \in Seq(MayWait)
      /\ listeners' \in Seq(MayListen)
  <2>1. CASE Late(Head(jobs))
    BY <1>1, <2>1 DEF RunReal, TypeOK, QueuesKept
  <2>2. CASE /\ complete' = TRUE /\ inProgress' = TRUE
             /\ Find(3, TRUE, Tail(jobs), TRUE)
    <3>1. 3 \in Int /\ TRUE \in BOOLEAN
      OBVIOUS
    <3>2. /\ jobs' \in Seq(MayRun(style)) /\ waiting' \in Seq(MayWait)
          /\ listeners' \in Seq(MayListen) /\ misled' \in BOOLEAN
      BY <1>1, <2>2, <3>1, FindKeeps
    <3> QED
      BY <2>2, <3>2
  <2>3. CASE /\ ShowMessages(FirstPage, Tail(jobs))
             /\ UNCHANGED <<inProgress, listeners>>
    <3>1. FirstPage \in Window
      BY PageAssumption DEF FirstPage, Window
    <3>2. /\ jobs' \in Seq(MayRun(style)) /\ waiting' \in Seq(MayWait)
          /\ complete' = FALSE /\ misled' \in BOOLEAN
      BY <1>1, <2>3, <3>1, ShowMessagesKeeps
    <3> QED
      BY <2>3, <3>2 DEF TypeOK, QueuesKept
  <2>4. CASE TriggerComplete(Tail(jobs)) /\ UNCHANGED <<inProgress, waiting, misled>>
    <3>1. /\ jobs' \in Seq(MayRun(style)) /\ listeners' \in Seq(MayListen)
          /\ complete' = TRUE
      BY <1>1, <2>4, CompleteKeeps
    <3> QED
      BY <2>4, <3>1 DEF TypeOK, QueuesKept
  <2> QED
    BY <2>1, <2>2, <2>3, <2>4 DEF RunReal
<1>4. TypeOK' /\ ResultsKnown'
  BY <1>2, <1>3 DEF TypeOK, ResultsKnown
<1>5. QueuesKept'
  BY <1>2, <1>3 DEF QueuesKept
<1> QED
  BY <1>2, <1>4, <1>5, ShownKept

\* The page of a request that can be displayed.
LEMMA PageIs ==
  ASSUME NEW f \in Filters, NEW request \in Window, NEW threaded \in BOOLEAN,
         CanDisplay(ListingOf[f], request, threaded)
  PROVE  LET page == MessagesOffsets(ListingOf[f], request, threaded) IN
         /\ page \in Window
         /\ threaded /\ ListingOf[f].n > 0 => page.start \in ListingOf[f].roots
<1> DEFINE listing == ListingOf[f]
<1>1. IsListing(listing)
  BY ListingAssumption
<1>2. listing.n \in Nat
  BY <1>1 DEF IsListing
<1> HIDE DEF listing
<1>3. CASE threaded /\ listing.n > 0
  <2>1. request.start \in 0 .. listing.n - 1
    BY <1>3 DEF CanDisplay, listing
  <2>2. /\ ThreadedOffsets(listing, request) \in Window
        /\ ThreadedOffsets(listing, request).start \in listing.roots
    BY <1>1, <2>1, ThreadedPage
  <2> QED
    BY <1>3, <2>2 DEF MessagesOffsets, listing
<1>4. CASE threaded /\ ~(listing.n > 0)
  <2>1. ThreadedOffsets(listing, request) = [start |-> 0, end |-> 0]
    BY <1>2, <1>4 DEF ThreadedOffsets
  <2> QED
    BY <1>4, <2>1 DEF MessagesOffsets, listing, Window
<1>5. CASE ~threaded
  BY <1>2, <1>5 DEF MessagesOffsets, FlatOffsets, listing, Window
<1> QED
  BY <1>3, <1>4, <1>5

LEMMA RunShowKeeps == ListIInv /\ RunShow => ListIInv'
<1> SUFFICES ASSUME ListIInv, RunShow PROVE ListIInv'
  OBVIOUS
<1> USE DEF ListIInv
<1> DEFINE job     == Head(jobs)
           listing == ListingOf[job.got.of]
           window  == MessagesOffsets(listing, job.window, Threaded(style))
           block   == [Block(job.got, window) EXCEPT !.fresh = job.fresh]
           next    == [job EXCEPT !.kind = "append", !.block = block]
<1>1. /\ Tail(jobs) \in Seq(MayRun(style))
      /\ job \in MayRun(style) /\ job \in JobType /\ job.kind = "show"
  BY NextJobIs DEF RunShow
<1>2. job.got \in AllIds /\ job.got.of \in Filters /\ job.got \in MaybeIds
  BY <1>1 DEF MayRun, AllIds, MaybeIds
<1>3. job.window \in Window /\ job.fresh \in BOOLEAN
  BY <1>1 DEF JobType
<1>4. tangled' \in BOOLEAN
  BY DEF RunShow, TypeOK
<1>5. UNCHANGED <<filter, style, valid, results, orphans, buttons, complete,
                  inProgress, waiting, listeners, announced, acts, failures, misled>>
  BY DEF RunShow, queryVars
<1>6. Threaded(style) \in BOOLEAN
  BY DEF Threaded
<1>7. CASE CanDisplay(listing, job.window, Threaded(style))
  <2>1. /\ window \in Window
        /\ Threaded(style) /\ listing.n > 0 => window.start \in listing.roots
    BY <1>2, <1>3, <1>6, <1>7, PageIs
  <2>2. /\ offsets' = window /\ shown' = <<>> /\ threw' = threw
        /\ \/ /\ jobs' = Destroyed(Tail(jobs))
              /\ held' = held \/ held' = Append(Destroyed(held), next)
           \/ /\ jobs' = Append(Destroyed(Tail(jobs)), next)
              /\ held' = Destroyed(held)
    BY <1>7 DEF RunShow
  <2>3. next \in MayHold(style) /\ next \in MayRun(style)
    <3> HIDE DEF window
    <3>1. block \in BlockType /\ block.ids = job.got /\ block.window = window
      BY <1>2, <1>3, <2>1 DEF Block, BlockType
    <3>2. FromRoot(block, style)
      BY <1>2, <2>1, <3>1 DEF FromRoot
    <3> HIDE DEF job, block
    <3>3. next \in JobType /\ next.kind = "append" /\ next.block = block
          /\ next.got = job.got
      BY <1>1, <3>1 DEF JobType
    <3> QED
      BY <1>2, <3>2, <3>3 DEF MayHold, MayRun
  <2>4. /\ Destroyed(Tail(jobs)) \in Seq(MayRun(style))
        /\ Destroyed(held) \in Seq(MayHold(style))
    BY <1>1, DestroyedSeq DEF QueuesKept
  <2> HIDE DEF job, next, window
  <2>5. QueuesKept'
    <3>1. /\ Append(Destroyed(Tail(jobs)), next) \in Seq(MayRun(style))
          /\ Append(Destroyed(held), next) \in Seq(MayHold(style))
      BY <2>3, <2>4
    <3>2. jobs' \in Seq(MayRun(style)) /\ held' \in Seq(MayHold(style))
      BY <2>2, <2>4, <3>1 DEF QueuesKept
    <3> QED
      BY <1>5, <3>2 DEF QueuesKept
  <2>6. TypeOK' /\ ResultsKnown'
    BY <1>4, <1>5, <2>1, <2>2 DEF TypeOK, ResultsKnown
  <2> QED
    BY <2>2, <2>5, <2>6, ShownEmptied
<1>8. CASE ~CanDisplay(listing, job.window, Threaded(style))
  <2>1. /\ jobs' = Tail(jobs) /\ threw' = TRUE
        /\ UNCHANGED <<held, offsets, shown>>
    BY <1>8 DEF RunShow
  <2>2. QueuesKept'
    BY <1>1, <1>5, <2>1 DEF QueuesKept
  <2>3. TypeOK' /\ ResultsKnown'
    BY <1>4, <1>5, <2>1 DEF TypeOK, ResultsKnown
  <2> QED
    BY <1>5, <2>1, <2>2, <2>3, ShownKept
<1> QED
  BY <1>7, <1>8

LEMMA RunAllKeeps == ListIInv /\ RunAll => ListIInv'
<1> SUFFICES ASSUME ListIInv, RunAll PROVE ListIInv'
  OBVIOUS
<1> USE DEF ListIInv
<1> DEFINE request == AllAtOnce(ListingOf[Head(jobs).got.of])
<1>1. /\ Tail(jobs) \in Seq(MayRun(style))
      /\ Head(jobs) \in MayRun(style) /\ Head(jobs).kind = "all"
  BY NextJobIs DEF RunAll
<1>2. Head(jobs).got.of \in Filters
  BY <1>1 DEF MayRun, AllIds
<1>3. request \in Window
  BY <1>2, ListingAssumption DEF AllAtOnce, Window, IsListing
<1>4. /\ ShowMessages(request, Tail(jobs)) /\ tangled' \in BOOLEAN
      /\ UNCHANGED <<filter, style, valid, results, offsets, shown, orphans,
                     buttons, inProgress, held, listeners, announced, acts, failures,
                     threw>>
  BY DEF RunAll, queryVars, viewVars, TypeOK
<1> HIDE DEF request
<1>5. /\ jobs' \in Seq(MayRun(style)) /\ waiting' \in Seq(MayWait)
      /\ complete' = FALSE /\ misled' \in BOOLEAN
  BY <1>1, <1>3, <1>4, ShowMessagesKeeps
<1>6. QueuesKept'
  BY <1>4, <1>5 DEF QueuesKept
<1>7. TypeOK' /\ ResultsKnown'
  BY <1>4, <1>5 DEF TypeOK, ResultsKnown
<1> QED
  BY <1>4, <1>6, <1>7, ShownKept

LEMMA RunAppendKeeps == ListIInv /\ RunAppend => ListIInv'
<1> SUFFICES ASSUME ListIInv, RunAppend PROVE ListIInv'
  OBVIOUS
<1> USE DEF ListIInv
<1> DEFINE block == Head(jobs).block
<1>1. /\ Tail(jobs) \in Seq(MayRun(style))
      /\ Head(jobs) \in MayRun(style) /\ Head(jobs).kind = "append"
  BY NextJobIs DEF RunAppend
<1>2. block \in BlockType /\ FromRoot(block, style)
  BY <1>1 DEF MayRun, JobType
<1>3. /\ TriggerComplete(Tail(jobs))
      /\ \/ shown' = Append(shown, block) /\ orphans' = orphans
         \/ shown' = shown /\ orphans' = Append(orphans, block)
      /\ buttons' \subseteq {"next", "previous"} /\ tangled' \in BOOLEAN
      /\ UNCHANGED <<filter, style, valid, results, offsets, inProgress,
                     waiting, held, announced, acts, failures, misled, threw>>
  BY DEF RunAppend, queryVars, TypeOK
<1> HIDE DEF block
<1>4. /\ jobs' \in Seq(MayRun(style)) /\ listeners' \in Seq(MayListen)
      /\ complete' = TRUE
  BY <1>1, <1>3, CompleteKeeps
<1>5. QueuesKept'
  BY <1>3, <1>4 DEF QueuesKept
<1>6. shown' \in Seq(BlockType) /\ orphans' \in Seq(BlockType)
  <2>1. shown \in Seq(BlockType) /\ orphans \in Seq(BlockType)
    BY DEF TypeOK
  <2>2. Append(shown, block) \in Seq(BlockType) /\ Append(orphans, block) \in Seq(BlockType)
    BY <1>2, <2>1
  <2> QED
    BY <1>3, <2>1, <2>2
<1>7. TypeOK' /\ ResultsKnown'
  BY <1>3, <1>4, <1>6 DEF TypeOK, ResultsKnown
<1>8. PagesFromRoot'
  <2>1. CASE shown' = shown
    BY <1>3, <2>1, ShownKept
  <2>2. CASE shown' = Append(shown, block)
    <3>1. ASSUME NEW k \in DOMAIN shown' PROVE FromRoot(shown'[k], style)
      <4>1. shown \in Seq(BlockType)
        BY DEF TypeOK
      <4>2. DOMAIN shown' = 1 .. Len(shown) + 1
        BY <2>2, <4>1
      <4>3. CASE k = Len(shown) + 1
        BY <1>2, <2>2, <4>1, <4>3
      <4>4. CASE k # Len(shown) + 1
        <5>1. k \in DOMAIN shown /\ shown'[k] = shown[k]
          BY <2>2, <4>1, <4>2, <4>4
        <5> QED
          BY <5>1 DEF PagesFromRoot
      <4> QED
        BY <4>3, <4>4
    <3> QED
      BY <1>3, <3>1 DEF PagesFromRoot, FromRoot
  <2> QED
    BY <1>3, <2>1, <2>2
<1> QED
  BY <1>5, <1>7, <1>8

LEMMA RunAskKeeps == ListIInv /\ RunAsk => ListIInv'
<1> SUFFICES ASSUME ListIInv, RunAsk PROVE ListIInv'
  OBVIOUS
<1> USE DEF ListIInv
<1>1. /\ Tail(jobs) \in Seq(MayRun(style))
      /\ Head(jobs) \in JobType
  BY NextJobIs DEF RunAsk
<1>2. Head(jobs).budget \in Int /\ Head(jobs).fresh \in BOOLEAN
  BY <1>1 DEF JobType
<1>3. /\ Find(Head(jobs).budget, Head(jobs).fresh, Tail(jobs), complete)
      /\ complete \in BOOLEAN
      /\ UNCHANGED <<filter, style, valid, results, offsets, shown, orphans,
                     buttons, complete, inProgress, held, announced, acts, failures,
                     tangled, threw>>
  BY DEF RunAsk, queryVars, viewVars, TypeOK
<1>4. /\ jobs' \in Seq(MayRun(style)) /\ waiting' \in Seq(MayWait)
      /\ listeners' \in Seq(MayListen) /\ misled' \in BOOLEAN
  BY <1>1, <1>2, <1>3, FindKeeps
<1>5. QueuesKept'
  BY <1>3, <1>4 DEF QueuesKept
<1>6. TypeOK' /\ ResultsKnown'
  BY <1>3, <1>4 DEF TypeOK, ResultsKnown
<1> QED
  BY <1>3, <1>5, <1>6, ShownKept

LEMMA RequestsType ==
  ASSUME NEW window \in Window, NEW offset \in Int
  PROVE  /\ RequestFor(window, offset) \in Window
         /\ NextRequest(window) \in Window /\ PreviousRequest(window) \in Window
BY PageAssumption DEF RequestFor, NextRequest, PreviousRequest, Window

LEMMA TargetOffsetType ==
  ASSUME NEW ids \in AllIds, NEW threaded \in BOOLEAN
  PROVE  TargetOffset(ids, threaded) \in Int
<1>1. ids.of \in Filters
  BY DEF AllIds
<1>2. IsListing(ListingOf[ids.of]) /\ ListingOf[ids.of].target \in -1 .. ListingOf[ids.of].n - 1
  BY <1>1, ListingAssumption
<1>3. ListingOf[ids.of].n \in Int /\ ListingOf[ids.of].target \in Int
  BY <1>2 DEF IsListing
<1> QED
  BY <1>3 DEF TargetOffset

LEMMA RunFindKeeps == ListIInv /\ RunFind => ListIInv'
<1> SUFFICES ASSUME ListIInv, RunFind PROVE ListIInv'
  OBVIOUS
<1> USE DEF ListIInv
<1> DEFINE job == Head(jobs)
<1>1. /\ Tail(jobs) \in Seq(MayRun(style))
      /\ job \in MayRun(style) /\ job \in JobType /\ job.kind = "find"
  BY NextJobIs DEF RunFind
<1>2. job.got \in AllIds /\ job.got \in MaybeIds
      /\ job.fresh \in BOOLEAN /\ job.budget \in Int
  BY <1>1 DEF MayRun, MaybeIds, JobType
<1>3. /\ UNCHANGED <<announced, acts, failures>>
      /\ threw' = (threw \/ (job.fresh /\ HasTarget(job.got) /\ OutOfRange(job.got)))
  BY DEF RunFind
<1>4. threw' \in BOOLEAN
  BY <1>2, <1>3 DEF TypeOK
<1> HIDE DEF job
<1>5. CASE Restart(job)
  <2>1. /\ inProgress' = TRUE
        /\ Find(3, TRUE, Tail(jobs), complete)
        /\ UNCHANGED <<filter, style, valid, results, complete, offsets, shown, orphans,
                       buttons, held, tangled>>
    BY <1>5 DEF Restart, queryVars
  <2>2. 3 \in Int /\ TRUE \in BOOLEAN /\ complete \in BOOLEAN
    BY DEF TypeOK
  <2>3. /\ jobs' \in Seq(MayRun(style)) /\ waiting' \in Seq(MayWait)
        /\ listeners' \in Seq(MayListen) /\ misled' \in BOOLEAN
    BY <1>1, <2>1, <2>2, FindKeeps
  <2>4. QueuesKept'
    BY <2>1, <2>3 DEF QueuesKept
  <2>5. TypeOK' /\ ResultsKnown'
    BY <1>3, <1>4, <2>1, <2>3 DEF TypeOK, ResultsKnown
  <2> QED
    BY <2>1, <2>4, <2>5, ShownKept
<1>6. CASE EndJump \/ CutShort
  <2>1. /\ jobs' = Tail(jobs) /\ inProgress' \in BOOLEAN
        /\ UNCHANGED <<filter, style, valid, results, complete, offsets, shown, orphans,
                       buttons, waiting, held, listeners, tangled, misled>>
    BY <1>6 DEF EndJump, CutShort, queryVars, TypeOK
  <2>2. QueuesKept'
    BY <1>1, <2>1 DEF QueuesKept
  <2>3. TypeOK' /\ ResultsKnown'
    BY <1>3, <1>4, <2>1 DEF TypeOK, ResultsKnown
  <2> QED
    BY <2>1, <2>2, <2>3, ShownKept
<1>7. CASE TurnPage(job)
  <2> DEFINE request == RequestFor(offsets, TargetOffset(job.got, Threaded(style)))
             ask == [Job("ask", NoWindow, 0) EXCEPT !.fresh = job.fresh]
  <2>1. /\ listeners' = Append(listeners, ask)
        /\ ShowMessages(request, Tail(jobs))
        /\ UNCHANGED <<filter, style, valid, results, inProgress, offsets, shown,
                       orphans, buttons, held, tangled>>
    BY <1>7 DEF TurnPage, queryVars
  <2>2. request \in Window
    <3>1. TargetOffset(job.got, Threaded(style)) \in Int
      BY <1>2, TargetOffsetType DEF Threaded
    <3> QED
      BY <3>1, RequestsType DEF TypeOK
  <2>3. ask \in MayListen
    BY <1>2, JobIs, NoWindowType DEF JobType, MayListen
  <2> HIDE DEF request, ask
  <2>4. /\ jobs' \in Seq(MayRun(style)) /\ waiting' \in Seq(MayWait)
        /\ complete' = FALSE /\ misled' \in BOOLEAN
    BY <1>1, <2>1, <2>2, ShowMessagesKeeps
  <2>5. listeners' \in Seq(MayListen)
    BY <2>1, <2>3 DEF QueuesKept
  <2>6. QueuesKept'
    BY <2>1, <2>4, <2>5 DEF QueuesKept
  <2>7. TypeOK' /\ ResultsKnown'
    BY <1>3, <1>4, <2>1, <2>4 DEF TypeOK, ResultsKnown
  <2> QED
    BY <2>1, <2>6, <2>7, ShownKept
<1>8. CASE ShowAll(job)
  <2> DEFINE ask == [Job("ask", NoWindow, job.budget - 1) EXCEPT !.fresh = FALSE]
  <2>1. /\ filter' = "all" /\ valid' = FALSE
        /\ Render(Tail(jobs), "all", style, FALSE)
        /\ listeners' = Append(Outdated(listeners), ask)
        /\ tangled' \in BOOLEAN
        /\ UNCHANGED <<style, results, inProgress>>
    BY <1>8 DEF ShowAll, TypeOK
  <2>2. "all" \in Filters /\ style \in Styles
    BY FiltersAssumption DEF TypeOK
  <2>3. /\ jobs' \in Seq(MayRun(style)) /\ held' \in Seq(MayHold(style))
        /\ waiting' \in Seq(MayWait) /\ misled' \in BOOLEAN
        /\ shown' = <<>> /\ orphans' = <<>> /\ buttons' = {}
        /\ complete' = FALSE /\ offsets' = NoWindow
    BY <1>1, <2>1, <2>2, RenderKeeps
  <2>4. ask \in MayListen
    <3>1. job.budget - 1 \in Int
      BY <1>2
    <3>2. /\ Job("ask", NoWindow, job.budget - 1) \in JobType
          /\ Job("ask", NoWindow, job.budget - 1).kind = "ask"
      BY <3>1, JobIs, NoWindowType
    <3> QED
      BY <3>2 DEF JobType, MayListen
  <2> HIDE DEF ask
  <2>5. listeners' \in Seq(MayListen)
    BY <2>1, <2>4, OutdatedSeq DEF QueuesKept
  <2>6. QueuesKept'
    BY <2>1, <2>3, <2>5 DEF QueuesKept
  <2>7. shown' \in Seq(BlockType) /\ orphans' \in Seq(BlockType)
    BY <2>3
  <2>8. TypeOK' /\ ResultsKnown'
    BY <1>3, <1>4, <2>1, <2>2, <2>3, <2>7, NoWindowType DEF TypeOK, ResultsKnown
  <2> QED
    BY <2>3, <2>6, <2>8, ShownEmptied
<1> QED
  BY <1>5, <1>6, <1>7, <1>8 DEF RunFind, job

-----------------------------------------------------------------------------
(* The invariant, the server and the user *)

LEMMA AnswerKeeps == ListIInv /\ Answer => ListIInv'
<1> SUFFICES ASSUME ListIInv, Answer PROVE ListIInv'
  OBVIOUS
<1> USE DEF ListIInv
<1>1. UNCHANGED <<filter, style, offsets, shown, orphans, buttons, complete,
                  inProgress, listeners, acts, failures, tangled, misled, threw>>
  BY DEF Answer, viewVars
<1>2. ASSUME NEW k \in DOMAIN waiting, AnswerQuery(k) PROVE ListIInv'
  <2>1. /\ waiting[k] \in MayWait /\ Without(waiting, k) \in Seq(MayWait)
    BY WithoutType DEF QueuesKept
  <2>2. waiting' = Without(waiting, k) /\ UNCHANGED <<announced, held>>
    BY <1>2 DEF AnswerQuery
  <2>3. CASE waiting[k].asked = NoIds
    <3>1. jobs' = <<waiting[k]>> /\ UNCHANGED <<valid, results>>
      BY <1>2, <2>3 DEF AnswerQuery
    <3>2. waiting[k] \in MayRun(style)
      BY <2>1, <2>3 DEF MayWait, MayRun
    <3>3. jobs' \in Seq(MayRun(style))
      BY <3>1, <3>2
    <3>4. QueuesKept'
      BY <1>1, <2>1, <2>2, <3>3 DEF QueuesKept
    <3>5. TypeOK' /\ ResultsKnown'
      BY <1>1, <2>2, <3>1 DEF TypeOK, ResultsKnown
    <3> QED
      BY <1>1, <3>4, <3>5, ShownKept
  <2>4. CASE waiting[k].asked # NoIds
    <3> DEFINE job == [waiting[k] EXCEPT !.got = waiting[k].asked]
    <3>1. /\ jobs' = <<job>>
          /\ results' = waiting[k].asked /\ valid' = TRUE
      BY <1>2, <2>4 DEF AnswerQuery
    <3>2. waiting[k].asked \in AllIds /\ waiting[k].asked \in MaybeIds
      BY <2>1, <2>4 DEF MayWait, JobType, MaybeIds
    <3>3. job \in MayRun(style)
      BY <2>1, <3>2 DEF MayWait, MayRun, JobType
    <3> HIDE DEF job
    <3>4. jobs' \in Seq(MayRun(style))
      BY <3>1, <3>3
    <3>5. QueuesKept'
      BY <1>1, <2>1, <2>2, <3>4 DEF QueuesKept
    <3>6. TypeOK' /\ ResultsKnown'
      BY <1>1, <2>2, <3>1, <3>2 DEF TypeOK, ResultsKnown
    <3> QED
      BY <1>1, <3>5, <3>6, ShownKept
  <2> QED
    BY <2>3, <2>4
<1>3. ASSUME AnswerAnnouncements PROVE ListIInv'
  <2>1. /\ announced' = "loaded" /\ jobs' = held /\ held' = <<>>
        /\ UNCHANGED <<waiting, valid, results>>
    BY <1>3 DEF AnswerAnnouncements
  <2>2. held \in Seq(MayRun(style))
    <3>1. MayHold(style) \subseteq MayRun(style)
      BY DEF MayHold
    <3> QED
      BY <3>1, SeqMonotonic DEF QueuesKept
  <2>3. QueuesKept'
    BY <1>1, <2>1, <2>2 DEF QueuesKept
  <2>4. TypeOK' /\ ResultsKnown'
    BY <1>1, <2>1 DEF TypeOK, ResultsKnown
  <2> QED
    BY <1>1, <2>3, <2>4, ShownKept
<1> QED
  BY <1>2, <1>3 DEF Answer

LEMMA FailKeeps == ListIInv /\ Fail => ListIInv'
<1> SUFFICES ASSUME ListIInv, Fail PROVE ListIInv'
  OBVIOUS
<1> USE DEF ListIInv
<1>1. /\ UNCHANGED <<filter, style, valid, results, offsets, shown, orphans, buttons,
                     complete, inProgress, jobs, listeners, acts, tangled, misled>>
      /\ failures < MaxFailures /\ failures' = failures + 1 /\ threw' = TRUE
  BY DEF Fail, queryVars, viewVars
<1>2. /\ waiting' \in Seq(MayWait) /\ held' \in Seq(MayHold(style))
      /\ announced' \in {"none", "loaded", "failed"}
  <2>1. ASSUME NEW k \in DOMAIN waiting, waiting' = Without(waiting, k),
               UNCHANGED <<held, announced>>
        PROVE  /\ waiting' \in Seq(MayWait) /\ held' \in Seq(MayHold(style))
               /\ announced' \in {"none", "loaded", "failed"}
    BY <2>1, WithoutType DEF QueuesKept, TypeOK
  <2>2. ASSUME held' = <<>>, announced' = "failed", UNCHANGED waiting
        PROVE  /\ waiting' \in Seq(MayWait) /\ held' \in Seq(MayHold(style))
               /\ announced' \in {"none", "loaded", "failed"}
    BY <2>2 DEF QueuesKept
  <2> QED
    BY <2>1, <2>2 DEF Fail
<1>3. QueuesKept'
  BY <1>1, <1>2 DEF QueuesKept
<1>4. failures' \in 0 .. MaxFailures
  BY <1>1, BoundsAssumption DEF TypeOK
<1>5. TypeOK' /\ ResultsKnown'
  BY <1>1, <1>2, <1>4 DEF TypeOK, ResultsKnown
<1> QED
  BY <1>1, <1>3, <1>5, ShownKept

\* What every act of the user leaves.
LEMMA ActIs ==
  ASSUME TypeOK, Act
  PROVE  /\ acts' \in 0 .. MaxActs
         /\ UNCHANGED <<results, announced, failures, threw>>
         /\ jobs = <<>>
BY BoundsAssumption DEF TypeOK, Act

\* A step of the user that renders the panel for a query and a style.
LEMMA RenderedByUser ==
  ASSUME ListIInv, Act, NEW f \in Filters, NEW s \in Styles, NEW isValid \in BOOLEAN,
         isValid => valid, Render(<<>>, f, s, isValid),
         filter' = f, style' = s, valid' = isValid,
         listeners' \in Seq(MayListen), inProgress' \in BOOLEAN, tangled' \in BOOLEAN
  PROVE  ListIInv'
<1> USE DEF ListIInv
<1>1. /\ acts' \in 0 .. MaxActs
      /\ UNCHANGED <<results, announced, failures, threw>>
  BY ActIs
<1>2. isValid => results \in AllIds
  BY DEF ResultsKnown
<1>3. <<>> \in Seq(MayRun(style))
  OBVIOUS
<1>4. /\ jobs' \in Seq(MayRun(s)) /\ held' \in Seq(MayHold(s))
      /\ waiting' \in Seq(MayWait) /\ misled' \in BOOLEAN
      /\ shown' = <<>> /\ orphans' = <<>> /\ buttons' = {}
      /\ complete' = FALSE /\ offsets' = NoWindow
  BY <1>2, <1>3, RenderKeeps
<1>5. QueuesKept'
  BY <1>4 DEF QueuesKept
<1>6. shown' \in Seq(BlockType) /\ orphans' \in Seq(BlockType)
  BY <1>4
<1>7. TypeOK' /\ ResultsKnown'
  BY <1>1, <1>2, <1>4, <1>6, NoWindowType DEF TypeOK, ResultsKnown
<1> QED
  BY <1>4, <1>5, <1>7, ShownEmptied

LEMMA ListenersOutdated ==
  ASSUME QueuesKept
  PROVE  Outdated(listeners) \in Seq(MayListen)
BY OutdatedSeq DEF QueuesKept

LEMMA SelectKeeps == \A f \in Filters : ListIInv /\ Select(f) => ListIInv'
<1> SUFFICES ASSUME NEW f \in Filters, ListIInv, Select(f) PROVE ListIInv'
  OBVIOUS
<1>1. /\ Act /\ Render(<<>>, f, style, FALSE)
      /\ filter' = f /\ style' = style /\ valid' = FALSE
      /\ listeners' = Outdated(listeners) /\ inProgress' = inProgress
      /\ tangled' = tangled
  BY DEF Select
<1>2. /\ style \in Styles /\ inProgress' \in BOOLEAN /\ tangled' \in BOOLEAN
      /\ listeners' \in Seq(MayListen)
  BY <1>1, ListenersOutdated DEF ListIInv, TypeOK
<1>3. PICK s \in Styles : s = style
  BY <1>2
<1>4. Render(<<>>, f, s, FALSE) /\ style' = s
  BY <1>1, <1>3
<1> QED
  BY <1>1, <1>2, <1>4, RenderedByUser

LEMMA SetViewStyleKeeps == \A s \in Styles : ListIInv /\ SetViewStyle(s) => ListIInv'
<1> SUFFICES ASSUME NEW s \in Styles, ListIInv, SetViewStyle(s) PROVE ListIInv'
  OBVIOUS
<1> DEFINE kept == valid /\ Order(s) = Order(style)
<1>1. /\ Act /\ Render(<<>>, filter, s, valid')
      /\ filter' = filter /\ style' = s /\ valid' = kept
      /\ listeners' = Outdated(listeners) /\ inProgress' = inProgress
      /\ tangled' = tangled
  BY DEF SetViewStyle
<1>2. /\ filter \in Filters /\ inProgress' \in BOOLEAN /\ tangled' \in BOOLEAN
      /\ listeners' \in Seq(MayListen)
  BY <1>1, ListenersOutdated DEF ListIInv, TypeOK
<1>3. PICK f \in Filters : f = filter
  BY <1>2
<1>4. PICK isValid \in BOOLEAN : isValid = kept
  OBVIOUS
<1>5. Render(<<>>, f, s, isValid) /\ filter' = f /\ valid' = isValid
  <2>1. valid' = isValid
    BY <1>1, <1>4
  <2> QED
    BY <1>1, <1>3, <2>1 DEF Render, Await
<1>6. isValid => valid
  BY <1>4
<1> QED
  BY <1>1, <1>2, <1>5, <1>6, RenderedByUser

LEMMA JumpInStyleKeeps == \A s \in Styles : ListIInv /\ JumpInStyle(s) => ListIInv'
<1> SUFFICES ASSUME NEW s \in Styles, ListIInv, JumpInStyle(s) PROVE ListIInv'
  OBVIOUS
<1>1. /\ Act /\ Render(<<>>, "all", s, FALSE)
      /\ filter' = "all" /\ style' = s /\ valid' = FALSE
      /\ inProgress' \in BOOLEAN /\ tangled' \in BOOLEAN
      /\ \/ listeners' = Outdated(listeners)
         \/ listeners' = Append(Outdated(listeners), Job("ask", NoWindow, 2))
  BY DEF JumpInStyle, ListIInv, TypeOK
<1>2. Job("ask", NoWindow, 2) \in MayListen
  BY JobIs, NoWindowType DEF MayListen
<1>3. Outdated(listeners) \in Seq(MayListen)
  BY ListenersOutdated DEF ListIInv
<1>4. listeners' \in Seq(MayListen)
  <2>1. Append(Outdated(listeners), Job("ask", NoWindow, 2)) \in Seq(MayListen)
    BY <1>2, <1>3
  <2> QED
    BY <1>1, <1>3, <2>1
<1>5. "all" \in Filters
  BY FiltersAssumption
<1> QED
  BY <1>1, <1>4, <1>5, RenderedByUser

LEMMA TurnToKeeps ==
  ASSUME NEW button, ListIInv,
         \/ TurnTo(button, NextRequest(offsets))
         \/ TurnTo(button, PreviousRequest(offsets))
  PROVE  ListIInv'
<1> USE DEF ListIInv
<1>1. PICK request \in Window : TurnTo(button, request)
  BY RequestsType DEF TypeOK
<1>2. /\ Act /\ buttons' = buttons \ {button}
      /\ ShowMessages(request, <<>>)
      /\ tangled' \in BOOLEAN
      /\ UNCHANGED <<filter, style, valid, offsets, shown, orphans, inProgress, held,
                     listeners>>
  BY <1>1 DEF TurnTo, TypeOK
<1>3. <<>> \in Seq(MayRun(style))
  OBVIOUS
<1>4. /\ jobs' \in Seq(MayRun(style)) /\ waiting' \in Seq(MayWait)
      /\ complete' = FALSE /\ misled' \in BOOLEAN
  BY <1>2, <1>3, ShowMessagesKeeps
<1>5. QueuesKept'
  BY <1>2, <1>4 DEF QueuesKept
<1>6. acts' \in 0 .. MaxActs /\ UNCHANGED <<results, announced, failures, threw>>
  BY <1>2, ActIs
<1>7. TypeOK' /\ ResultsKnown'
  BY <1>2, <1>4, <1>6 DEF TypeOK, ResultsKnown
<1> QED
  BY <1>2, <1>5, <1>7, ShownKept

LEMMA ShowAllAtOnceKeeps == ListIInv /\ ShowAllAtOnce => ListIInv'
<1> SUFFICES ASSUME ListIInv, ShowAllAtOnce PROVE ListIInv'
  OBVIOUS
<1> USE DEF ListIInv
<1> DEFINE job == Job("all", NoWindow, 0)
<1>1. /\ Act /\ buttons' = buttons \ {"next"}
      /\ Await(job, <<>>, waiting, filter, style, valid)
      /\ tangled' \in BOOLEAN
      /\ UNCHANGED <<filter, style, valid, complete, offsets, shown, orphans,
                     inProgress, held, listeners>>
  BY DEF ShowAllAtOnce, TypeOK
<1>2. job \in JobType /\ job.kind = "all" /\ job.asked = NoIds
  BY JobIs, NoWindowType
<1>3. <<>> \in Seq(MayRun(style))
  OBVIOUS
<1> HIDE DEF job
<1>4. /\ jobs' \in Seq(MayRun(style)) /\ waiting' \in Seq(MayWait)
      /\ misled' \in BOOLEAN
  BY <1>1, <1>2, <1>3, AwaitNow
<1>5. QueuesKept'
  BY <1>1, <1>4 DEF QueuesKept
<1>6. acts' \in 0 .. MaxActs /\ UNCHANGED <<results, announced, failures, threw>>
  BY <1>1, ActIs
<1>7. TypeOK' /\ ResultsKnown'
  BY <1>1, <1>4, <1>6 DEF TypeOK, ResultsKnown
<1> QED
  BY <1>1, <1>5, <1>7, ShownKept

LEMMA JumpKeeps == ListIInv /\ Jump => ListIInv'
<1> SUFFICES ASSUME ListIInv, Jump PROVE ListIInv'
  OBVIOUS
<1> USE DEF ListIInv
<1>1. /\ Act
      /\ tangled' \in BOOLEAN
      /\ UNCHANGED <<filter, style, valid, offsets, shown, orphans, buttons, complete,
                     held>>
  BY DEF Jump, TypeOK
<1>2. 3 \in Int /\ TRUE \in BOOLEAN /\ complete \in BOOLEAN /\ <<>> \in Seq(MayRun(style))
  BY DEF TypeOK
<1>3. /\ jobs' \in Seq(MayRun(style)) /\ waiting' \in Seq(MayWait)
      /\ listeners' \in Seq(MayListen) /\ inProgress' \in BOOLEAN
      /\ misled' \in BOOLEAN
  <2>1. CASE inProgress' = FALSE /\ UNCHANGED <<jobs, waiting, listeners, misled>>
    BY <2>1 DEF QueuesKept, TypeOK
  <2>2. CASE inProgress' = TRUE /\ Find(3, TRUE, <<>>, complete)
    <3>1. /\ jobs' \in Seq(MayRun(style)) /\ waiting' \in Seq(MayWait)
          /\ listeners' \in Seq(MayListen) /\ misled' \in BOOLEAN
      BY <1>2, <2>2, FindKeeps
    <3> QED
      BY <2>2, <3>1
  <2> QED
    BY <2>1, <2>2 DEF Jump
<1>4. QueuesKept'
  BY <1>1, <1>3 DEF QueuesKept
<1>5. acts' \in 0 .. MaxActs /\ UNCHANGED <<results, announced, failures, threw>>
  BY <1>1, ActIs
<1>6. TypeOK' /\ ResultsKnown'
  BY <1>1, <1>3, <1>5 DEF TypeOK, ResultsKnown
<1> QED
  BY <1>1, <1>4, <1>6, ShownKept

-----------------------------------------------------------------------------
(* The theorems *)

LEMMA NextListIInv == ListIInv /\ [Next]_vars => ListIInv'
<1> SUFFICES ASSUME ListIInv, [Next]_vars PROVE ListIInv'
  OBVIOUS
<1>1. CASE UNCHANGED vars
  <2>1. UNCHANGED <<filter, style, valid, results, offsets, shown, orphans,
                    buttons, complete, inProgress, jobs, waiting, held, listeners,
                    announced, acts, failures, tangled, misled, threw>>
    BY <1>1 DEF vars, queryVars, viewVars, loopVars
  <2>2. QueuesKept'
    BY <2>1 DEF ListIInv, QueuesKept
  <2>3. TypeOK' /\ ResultsKnown'
    BY <2>1 DEF ListIInv, TypeOK, ResultsKnown
  <2> QED
    BY <2>1, <2>2, <2>3, ShownKept DEF ListIInv
<1>2. CASE RunJob
  BY <1>2, RunRenderedKeeps, RunRealKeeps, RunShowKeeps, RunAllKeeps, RunAppendKeeps,
     RunAskKeeps, RunFindKeeps DEF RunJob
<1>3. CASE Answer \/ Fail
  BY <1>3, AnswerKeeps, FailKeeps
<1>4. CASE User
  <2>1. ASSUME NEW f \in Filters, Select(f) PROVE ListIInv'
    BY <2>1, SelectKeeps
  <2>2. ASSUME NEW s \in Styles, SetViewStyle(s) \/ JumpInStyle(s) PROVE ListIInv'
    BY <2>2, SetViewStyleKeeps, JumpInStyleKeeps
  <2>3. ASSUME \/ TurnTo("next", NextRequest(offsets))
               \/ TurnTo("previous", PreviousRequest(offsets))
        PROVE  ListIInv'
    BY <2>3, TurnToKeeps
  <2>4. ASSUME ShowAllAtOnce \/ Jump PROVE ListIInv'
    BY <2>4, ShowAllAtOnceKeeps, JumpKeeps
  <2> QED
    BY <1>4, <2>1, <2>2, <2>3, <2>4 DEF User
<1> QED
  BY <1>1, <1>2, <1>3, <1>4 DEF Next

\* The queues of the message list hold what may run, and whatever becomes of the
\* style and the queries meanwhile, what is displayed or waits to be displayed in
\* the present style starts at a root of what it lists.
THEOREM ListInvariant == Spec => []ListIInv
<1>1. Init => ListIInv
  BY InitListIInv
<1>2. ListIInv /\ [Next]_vars => ListIInv'
  BY NextListIInv
<1> QED
  BY <1>1, <1>2, PTL DEF Spec

\* A threaded style never displays a message without the root of its thread.
THEOREM RootsAreDisplayed == Spec => []ThreadsFromRoot
<1>1. ListIInv => ThreadsFromRoot
  <2> SUFFICES ASSUME ListIInv, NEW i \in DOMAIN shown,
                      shown[i].fresh, Threaded(style),
                      ListingOf[shown[i].ids.of].n > 0,
                      NEW m \in Displayed(ListingOf[shown[i].ids.of], shown[i].window)
               PROVE  \E r \in ListingOf[shown[i].ids.of].roots
                              \cap Displayed(ListingOf[shown[i].ids.of], shown[i].window) :
                         /\ r <= m
                         /\ \A q \in ListingOf[shown[i].ids.of].roots : q <= m => q <= r
    BY DEF ThreadsFromRoot
  <2> DEFINE listing == ListingOf[shown[i].ids.of]
             window  == shown[i].window
             root    == PrecedingRoot(listing, m)
  <2>1. shown[i] \in BlockType
    BY DEF ListIInv, TypeOK
  <2>2. window.start \in listing.roots
    BY DEF ListIInv, PagesFromRoot, FromRoot
  <2>3. window \in Window /\ shown[i].ids \in AllIds
    BY <2>1 DEF BlockType, ListIInv, PagesFromRoot, FromRoot
  <2>4. IsListing(listing)
    BY <2>3, ListingAssumption DEF AllIds
  <2>5. m \in 0 .. listing.n - 1 /\ window.start <= m /\ m <= window.end
    BY DEF Displayed
  <2>6. /\ root \in listing.roots /\ root \in 0 .. m
        /\ \A q \in listing.roots : q <= m => q <= root
    BY <2>4, <2>5, PrecedingRootIs
  <2> HIDE DEF listing, window, root
  <2>7. root \in Displayed(listing, window)
    <3>1. listing.n \in Nat /\ window.start <= root
      BY <2>2, <2>4, <2>5, <2>6 DEF IsListing
    <3> QED
      BY <2>3, <2>5, <2>6, <3>1 DEF Displayed, Window
  <2> QED
    BY <2>5, <2>6, <2>7 DEF listing, window, root
<1> QED
  BY <1>1, ListInvariant, PTL

-----------------------------------------------------------------------------
(* What a step leaves on its way *)

\* What holds as long as nothing is tangled or misled.
Flows ==
    /\ OneOfEach /\ PageThenJump /\ OfThisQuery /\ LeftBehind
    /\ ~threw => Landing /\ TargetComes

\* A step leaves at most one continuation beside those that wait; only when the
\* announcements come, several pages become ready at once.
Leaves(N, wait) ==
    \/ N = {} /\ jobs' = <<>> /\ waiting' = wait
    \/ \E j \in N : /\ N = {j}
                    /\ \/ jobs' = <<j>> /\ waiting' = wait
                       \/ jobs' = <<>> /\ waiting' = Append(wait, j)

LEMMA LeavesFlow ==
  ASSUME NEW N \in SUBSET JobType, NEW wait \in Seq(JobType), Leaves(N, wait)
  PROVE  /\ LastCounts(jobs')
         /\ Range(Flow') = N \cup Range(wait)
         /\ Range(jobs') \subseteq N
         /\ Range(waiting') \subseteq N \cup Range(wait)
         /\ \A S : /\ Single(wait, S)
                   /\ \A j \in N : j \in S => \A job \in Range(wait) : job \notin S
                   => Single(Flow', S)
<1>1. CASE N = {} /\ jobs' = <<>> /\ waiting' = wait
  <2>1. Flow' = wait
    BY <1>1 DEF Flow
  <2> QED
    BY <1>1, <2>1 DEF Range, LastCounts
<1>2. ASSUME NEW j \in N, N = {j}, jobs' = <<j>>, waiting' = wait
      PROVE  /\ LastCounts(jobs')
             /\ Range(Flow') = N \cup Range(wait)
             /\ Range(jobs') \subseteq N
             /\ Range(waiting') \subseteq N \cup Range(wait)
             /\ \A S : /\ Single(wait, S)
                       /\ j \in S => \A job \in Range(wait) : job \notin S
                       => Single(Flow', S)
  <2>1. /\ DOMAIN Flow' = 1 .. Len(wait) + 1 /\ Flow'[1] = j
        /\ \A i \in 2 .. Len(wait) + 1 : Flow'[i] = wait[i - 1]
        /\ DOMAIN wait = 1 .. Len(wait) /\ Len(wait) \in Nat
    BY <1>2 DEF Flow
  <2>2. Range(Flow') = N \cup Range(wait)
    <3>1. ASSUME NEW job \in Range(wait) PROVE job \in Range(Flow')
      <4>1. PICK i \in 1 .. Len(wait) : job = wait[i]
        BY <2>1 DEF Range
      <4>2. i + 1 \in DOMAIN Flow' /\ Flow'[i + 1] = job
        BY <2>1, <4>1
      <4> QED
        BY <4>2 DEF Range
    <3>2. ASSUME NEW job \in Range(Flow') PROVE job \in N \cup Range(wait)
      <4>1. PICK i \in 1 .. Len(wait) + 1 : job = Flow'[i]
        BY <2>1 DEF Range
      <4>2. CASE i # 1
        <5>1. i - 1 \in DOMAIN wait /\ job = wait[i - 1]
          BY <2>1, <4>1, <4>2
        <5> QED
          BY <5>1 DEF Range
      <4> QED
        BY <1>2, <2>1, <4>1, <4>2
    <3>3. j \in Range(Flow')
      BY <2>1 DEF Range
    <3> QED
      BY <1>2, <3>1, <3>2, <3>3
  <2>3. ASSUME NEW S, Single(wait, S), j \in S => \A job \in Range(wait) : job \notin S
        PROVE  Single(Flow', S)
    <3>1. \A i \in 2 .. Len(wait) + 1 : i - 1 \in DOMAIN wait /\ wait[i - 1] \in Range(wait)
      BY <2>1 DEF Range
    <3>2. ASSUME NEW i \in 1 .. Len(wait) + 1, NEW k \in 1 .. Len(wait) + 1,
                 Flow'[i] \in S, Flow'[k] \in S
          PROVE  i = k
      <4>1. CASE i = 1 \/ k = 1
        BY <2>1, <2>3, <3>1, <3>2, <4>1
      <4>2. CASE i # 1 /\ k # 1
        <5>1. /\ i - 1 \in DOMAIN wait /\ wait[i - 1] \in S
              /\ k - 1 \in DOMAIN wait /\ wait[k - 1] \in S
          BY <2>1, <3>2, <4>2
        <5>2. i - 1 = k - 1
          BY <2>3, <5>1 DEF Single
        <5> QED
          BY <5>2
      <4> QED
        BY <4>1, <4>2
    <3> QED
      BY <2>1, <3>2 DEF Single
  <2>4. LastCounts(jobs') /\ Range(jobs') \subseteq N
    BY <1>2 DEF Range, LastCounts
  <2> QED
    BY <1>2, <2>2, <2>3, <2>4
<1>3. ASSUME NEW j \in N, N = {j}, jobs' = <<>>, waiting' = Append(wait, j)
      PROVE  /\ LastCounts(jobs')
             /\ Range(Flow') = N \cup Range(wait)
             /\ Range(jobs') \subseteq N
             /\ Range(waiting') \subseteq N \cup Range(wait)
             /\ \A S : /\ Single(wait, S)
                       /\ j \in S => \A job \in Range(wait) : job \notin S
                       => Single(Flow', S)
  <2>1. /\ Flow' = waiting'
        /\ DOMAIN Flow' = 1 .. Len(wait) + 1 /\ Flow'[Len(wait) + 1] = j
        /\ \A i \in 1 .. Len(wait) : Flow'[i] = wait[i]
        /\ DOMAIN wait = 1 .. Len(wait) /\ Len(wait) \in Nat
    BY <1>3 DEF Flow
  <2>2. Range(Flow') = N \cup Range(wait)
    BY <1>3, <2>1 DEF Range
  <2>3. ASSUME NEW S, Single(wait, S), j \in S => \A job \in Range(wait) : job \notin S
        PROVE  Single(Flow', S)
    <3>1. \A i \in 1 .. Len(wait) : wait[i] \in Range(wait)
      BY <2>1 DEF Range
    <3> QED
      BY <2>1, <2>3, <3>1 DEF Single
  <2>4. LastCounts(jobs') /\ Range(jobs') \subseteq N
    BY <1>3 DEF Range, LastCounts
  <2> QED
    BY <1>3, <2>1, <2>2, <2>3, <2>4
<1> QED
  BY <1>1, <1>2, <1>3 DEF Leaves

LEMMA OneElement ==
  ASSUME NEW S, NEW seq \in Seq(S), Len(seq) <= 1, seq # <<>>
  PROVE  /\ Len(seq) = 1 /\ seq = <<Head(seq)>>
         /\ Head(seq) \in S /\ Tail(seq) = <<>>
<1>1. Len(seq) \in Nat \ {0}
  BY EmptySeq
<1>2. Len(seq) = 1
  BY <1>1
<1>3. Head(seq) \in S /\ Tail(seq) \in Seq(S) /\ Len(Tail(seq)) = 0
  BY <1>2, HeadTailProperties
<1>4. Head(seq) = seq[1] /\ <<Head(seq)>> \in Seq(S) /\ Len(<<Head(seq)>>) = 1
  BY <1>2, <1>3
<1>5. seq = <<Head(seq)>>
  BY <1>2, <1>4, SeqEqual
<1>6. Tail(seq) = <<>>
  BY <1>3, EmptySeq
<1> QED
  BY <1>2, <1>3, <1>5, <1>6

\* What is ready, then what waits.
LEMMA SingleParts ==
  ASSUME NEW S, NEW a \in Seq(S), NEW b \in Seq(S)
  PROVE  /\ Range(a \o b) = Range(a) \cup Range(b)
         /\ \A T : Single(a \o b, T) =>
               /\ Single(a, T) /\ Single(b, T)
               /\ \A x \in Range(a), y \in Range(b) : ~(x \in T /\ y \in T)
         /\ \A T : /\ Single(a, T) /\ Single(b, T)
                   /\ \A x \in Range(a), y \in Range(b) : ~(x \in T /\ y \in T)
                   => Single(a \o b, T)
<1> DEFINE ab == a \o b
           m == Len(a)
           n == Len(b)
<1>1. /\ m \in Nat /\ n \in Nat /\ DOMAIN a = 1 .. m /\ DOMAIN b = 1 .. n
      /\ DOMAIN ab = 1 .. m + n
      /\ \A i \in 1 .. m : ab[i] = a[i]
      /\ \A i \in 1 .. n : ab[m + i] = b[i]
  <2>1. /\ ab \in Seq(S) /\ Len(ab) = m + n
        /\ \A i \in 1 .. m + n : ab[i] = IF i <= m THEN a[i] ELSE b[i - m]
    BY ConcatProperties
  <2>2. m \in Nat /\ n \in Nat /\ DOMAIN a = 1 .. m /\ DOMAIN b = 1 .. n
    BY LenProperties
  <2>3. DOMAIN ab = 1 .. m + n
    BY <2>1, LenProperties
  <2> HIDE DEF ab, m, n
  <2>4. \A i \in 1 .. n : m + i \in 1 .. m + n /\ ~(m + i <= m) /\ (m + i) - m = i
    BY <2>2
  <2> QED
    BY <2>1, <2>2, <2>3, <2>4
<1> HIDE DEF ab, m, n
<1>2. \A k \in 1 .. m + n : k \in 1 .. m \/ (k - m \in 1 .. n /\ m + (k - m) = k)
  BY <1>1
<1>3. \A i \in 1 .. m, k \in 1 .. n : i \in 1 .. m + n /\ m + k \in 1 .. m + n /\ i # m + k
  BY <1>1
<1>4. /\ \A i \in 1 .. m : i \in 1 .. m + n
      /\ \A k \in 1 .. n : m + k \in 1 .. m + n
      /\ \A i, k \in 1 .. n : m + i = m + k => i = k
  BY <1>1
<1>5. Range(ab) = Range(a) \cup Range(b)
  <2>1. Range(a) \cup Range(b) \subseteq Range(ab)
    <3>1. ASSUME NEW x \in Range(a) PROVE x \in Range(ab)
      <4>1. PICK i \in 1 .. m : x = a[i]
        BY <1>1, <3>1 DEF Range
      <4>2. i \in DOMAIN ab /\ ab[i] = x
        BY <1>1, <1>4, <4>1
      <4> QED
        BY <4>2 DEF Range
    <3>2. ASSUME NEW x \in Range(b) PROVE x \in Range(ab)
      <4>1. PICK i \in 1 .. n : x = b[i]
        BY <1>1, <3>2 DEF Range
      <4>2. m + i \in DOMAIN ab /\ ab[m + i] = x
        BY <1>1, <1>4, <4>1
      <4> QED
        BY <4>2 DEF Range
    <3> QED
      BY <3>1, <3>2
  <2>2. ASSUME NEW k \in 1 .. m + n PROVE ab[k] \in Range(a) \cup Range(b)
    <3>1. CASE k \in 1 .. m
      BY <1>1, <3>1 DEF Range
    <3>2. CASE k - m \in 1 .. n /\ m + (k - m) = k
      BY <1>1, <3>2 DEF Range
    <3> QED
      BY <1>2, <3>1, <3>2
  <2>3. Range(ab) \subseteq Range(a) \cup Range(b)
    BY <1>1, <2>2 DEF Range
  <2> QED
    BY <2>1, <2>3
<1>6. ASSUME NEW T, Single(ab, T)
      PROVE  /\ Single(a, T) /\ Single(b, T)
             /\ \A x \in Range(a), y \in Range(b) : ~(x \in T /\ y \in T)
  <2>1. Single(a, T)
    BY <1>1, <1>4, <1>6 DEF Single
  <2>2. Single(b, T)
    BY <1>1, <1>4, <1>6 DEF Single
  <2>3. ASSUME NEW i \in 1 .. m, NEW k \in 1 .. n, a[i] \in T, b[k] \in T PROVE FALSE
    BY <1>1, <1>3, <1>6, <2>3 DEF Single
  <2> QED
    BY <1>1, <2>1, <2>2, <2>3 DEF Range
<1>7. ASSUME NEW T, Single(a, T), Single(b, T),
             \A x \in Range(a), y \in Range(b) : ~(x \in T /\ y \in T)
      PROVE  Single(ab, T)
  <2>1. \A i \in 1 .. m, k \in 1 .. n : ~(a[i] \in T /\ b[k] \in T)
    BY <1>1, <1>7 DEF Range
  <2>2. ASSUME NEW i \in 1 .. m + n, NEW k \in 1 .. m + n, ab[i] \in T, ab[k] \in T
        PROVE  i = k
    <3>1. CASE i \in 1 .. m /\ k \in 1 .. m
      BY <1>1, <1>7, <2>2, <3>1 DEF Single
    <3>2. CASE ~(i \in 1 .. m) /\ ~(k \in 1 .. m)
      <4>1. /\ i - m \in 1 .. n /\ m + (i - m) = i
            /\ k - m \in 1 .. n /\ m + (k - m) = k
        BY <1>2, <3>2
      <4>2. b[i - m] \in T /\ b[k - m] \in T
        BY <1>1, <2>2, <4>1
      <4>3. i - m = k - m
        BY <1>1, <1>7, <4>1, <4>2 DEF Single
      <4> QED
        BY <4>1, <4>3
    <3>3. CASE i \in 1 .. m /\ ~(k \in 1 .. m)
      BY <1>1, <1>2, <2>1, <2>2, <3>3
    <3>4. CASE ~(i \in 1 .. m) /\ k \in 1 .. m
      BY <1>1, <1>2, <2>1, <2>2, <3>4
    <3> QED
      BY <3>1, <3>2, <3>3, <3>4
  <2> QED
    BY <1>1, <2>2 DEF Single
<1> QED
  BY <1>5, <1>6, <1>7 DEF ab

\* A queue of which only the last may count: it has one page at most, and so has
\* what remains of it.
LEMMA LastIs ==
  ASSUME NEW seq \in Seq(JobType), LastCounts(seq)
  PROVE  /\ Single(seq, Pages)
         /\ seq # <<>> => /\ Tail(seq) \in Seq(JobType) /\ LastCounts(Tail(seq))
                          /\ Range(seq) = {Head(seq)} \cup Range(Tail(seq))
                          /\ \A T : Single(seq, T) => Single(Tail(seq), T)
         /\ \A job, other \in Range(seq) :
               ~Superseded(job) /\ ~Superseded(other) => job = other
<1> DEFINE n == Len(seq)
<1>1. n \in Nat /\ DOMAIN seq = 1 .. n /\ \A i \in 1 .. n : i < n => Superseded(seq[i])
  BY LenProperties DEF LastCounts
<1>2. \A job \in Pages : ~Superseded(job)
  BY DEF Pages, BringsPage, Superseded
<1> HIDE DEF n
<1>3. ASSUME NEW i \in 1 .. n, NEW k \in 1 .. n, ~Superseded(seq[i]), ~Superseded(seq[k])
      PROVE  i = k
  BY <1>1, <1>3
<1>4. Single(seq, Pages)
  BY <1>1, <1>2, <1>3 DEF Single
<1>5. ASSUME NEW job \in Range(seq), NEW other \in Range(seq),
             ~Superseded(job), ~Superseded(other)
      PROVE  job = other
  BY <1>1, <1>3, <1>5 DEF Range
<1>6. ASSUME seq # <<>>
      PROVE  /\ Tail(seq) \in Seq(JobType) /\ LastCounts(Tail(seq))
             /\ Range(seq) = {Head(seq)} \cup Range(Tail(seq))
             /\ \A T : Single(seq, T) => Single(Tail(seq), T)
  <2> DEFINE rest == Tail(seq)
  <2>1. n # 0
    BY <1>6, EmptySeq DEF n
  <2>2. /\ rest \in Seq(JobType) /\ Len(rest) = n - 1 /\ Head(seq) = seq[1]
        /\ \A i \in 1 .. Len(rest) : rest[i] = seq[i + 1]
    BY <1>6, HeadTailProperties DEF n
  <2>3. DOMAIN rest = 1 .. Len(rest)
    BY <2>2, LenProperties
  <2> HIDE DEF rest
  <2>4. \A i \in 1 .. n - 1 : i + 1 \in 1 .. n /\ (i < n - 1 => i + 1 < n)
    BY <1>1
  <2>5. LastCounts(rest)
    BY <1>1, <2>2, <2>3, <2>4 DEF LastCounts
  <2>6. Range(seq) = {Head(seq)} \cup Range(rest)
    <3>1. ASSUME NEW k \in 1 .. n PROVE seq[k] \in {Head(seq)} \cup Range(rest)
      <4>1. CASE k # 1
        <5>1. k - 1 \in 1 .. n - 1 /\ (k - 1) + 1 = k
          BY <1>1, <4>1
        <5>2. rest[k - 1] = seq[k] /\ k - 1 \in DOMAIN rest
          BY <2>2, <2>3, <5>1
        <5> QED
          BY <5>2 DEF Range
      <4> QED
        BY <2>2, <4>1
    <3>2. 1 \in 1 .. n
      BY <1>1, <2>1
    <3>3. \A job \in Range(seq) : job \in {Head(seq)} \cup Range(rest)
      BY <1>1, <3>1 DEF Range
    <3>4. Head(seq) \in Range(seq)
      BY <1>1, <2>2, <3>2 DEF Range
    <3>5. ASSUME NEW job \in Range(rest) PROVE job \in Range(seq)
      <4>1. PICK i \in 1 .. n - 1 : job = rest[i]
        BY <2>2, <2>3, <3>5 DEF Range
      <4>2. job = seq[i + 1] /\ i + 1 \in DOMAIN seq
        BY <1>1, <2>2, <2>4, <4>1
      <4> QED
        BY <4>2 DEF Range
    <3> QED
      BY <3>3, <3>4, <3>5
  <2>7. ASSUME NEW T, Single(seq, T) PROVE Single(rest, T)
    <3>1. DOMAIN rest = 1 .. n - 1
      BY <2>2, <2>3
    <3>2. ASSUME NEW i \in 1 .. n - 1, NEW k \in 1 .. n - 1, rest[i] \in T, rest[k] \in T
          PROVE  i = k
      <4>1. i + 1 \in DOMAIN seq /\ k + 1 \in DOMAIN seq
        BY <1>1, <2>4
      <4>2. seq[i + 1] \in T /\ seq[k + 1] \in T
        BY <2>2, <3>2
      <4>3. i + 1 = k + 1
        BY <2>7, <4>1, <4>2 DEF Single
      <4> QED
        BY <1>1, <4>3
    <3> QED
      BY <3>1, <3>2 DEF Single
  <2> QED
    BY <2>2, <2>5, <2>6, <2>7 DEF rest
<1> QED
  BY <1>4, <1>5, <1>6

\* The continuation at the head of the jobs is the only one that is ready, unless it
\* is a page of an earlier render.
LEMMA FlowIs ==
  ASSUME ListIInv, OneOfEach
  PROVE  /\ waiting \in Seq(JobType) /\ Range(waiting) \subseteq MayWait
         /\ Single(waiting, Pages) /\ Single(waiting, Seekers)
         /\ Range(waiting) \subseteq Range(Flow)
         /\ jobs \in Seq(JobType)
         /\ jobs = <<>> => Range(Flow) = Range(waiting)
         /\ jobs # <<>> /\ (Head(jobs).kind # "append" \/ Head(jobs).fresh) =>
               /\ Tail(jobs) = <<>> /\ Destroyed(Tail(jobs)) = <<>>
               /\ Outdated(Tail(jobs)) = <<>>
               /\ Head(jobs) \in JobType /\ Range(jobs) = {Head(jobs)}
               /\ Range(Flow) = {Head(jobs)} \cup Range(waiting)
               /\ BringsPage(Head(jobs)) => \A job \in Range(waiting) : ~BringsPage(job)
               /\ Seeks(Head(jobs)) => \A job \in Range(waiting) : ~Seeks(job)
<1>1. waiting \in Seq(JobType) /\ Range(waiting) \subseteq MayWait
  <2>1. waiting \in Seq(MayWait) /\ MayWait \subseteq JobType
    BY DEF ListIInv, QueuesKept, MayWait
  <2>2. waiting \in Seq(JobType)
    BY <2>1, SeqMonotonic
  <2> QED
    BY <2>1, <2>2, ElementOfSeq DEF Range
<1>2. jobs \in Seq(JobType) /\ LastCounts(jobs)
  <2>1. jobs \in Seq(MayRun(style)) /\ MayRun(style) \subseteq JobType
    BY DEF ListIInv, QueuesKept, MayRun
  <2> QED
    BY <2>1, SeqMonotonic DEF OneOfEach
<1>5. /\ Single(Flow, Pages) => Single(waiting, Pages)
      /\ Single(Flow, Seekers) => Single(waiting, Seekers)
      /\ Range(waiting) \subseteq Range(Flow)
  BY <1>1, <1>2, SingleParts DEF Flow
<1>3. CASE jobs = <<>>
  <2>1. Flow = waiting
    BY <1>1, <1>3 DEF Flow
  <2> QED
    BY <1>1, <1>2, <1>3, <1>5, <2>1 DEF OneOfEach
<1>4. CASE jobs # <<>> /\ (Head(jobs).kind # "append" \/ Head(jobs).fresh)
  <2> DEFINE h == Head(jobs)
  <2>0. Len(jobs) <= 1
    <3>1. jobs[1] = h /\ DOMAIN jobs = 1 .. Len(jobs) /\ Len(jobs) \in Nat
      BY <1>2, <1>4, LenProperties
    <3>2. Len(jobs) > 1 => Superseded(h)
      BY <1>2, <3>1 DEF LastCounts
    <3> QED
      BY <1>4, <3>1, <3>2 DEF Superseded
  <2>1. Len(jobs) = 1 /\ jobs = <<h>> /\ h \in JobType /\ Tail(jobs) = <<>>
    BY <1>2, <1>4, <2>0, OneElement
  <2> HIDE DEF h
  <2>2. Destroyed(Tail(jobs)) = <<>> /\ Outdated(Tail(jobs)) = <<>>
    BY <2>1 DEF Destroyed, Outdated
  <2>3. Range(jobs) = {h}
    BY <2>1 DEF Range
  <2>4. /\ DOMAIN Flow = 1 .. Len(waiting) + 1 /\ Flow[1] = h
        /\ \A i \in 1 .. Len(waiting) : Flow[i + 1] = waiting[i]
        /\ DOMAIN waiting = 1 .. Len(waiting) /\ Len(waiting) \in Nat
    BY <1>1, <2>1 DEF Flow
  <2>5. Range(Flow) = {h} \cup Range(waiting)
    <3>1. ASSUME NEW job \in Range(waiting)
          PROVE  \E i \in 1 .. Len(waiting) : i + 1 \in DOMAIN Flow /\ Flow[i + 1] = job
      BY <2>4 DEF Range
    <3>2. ASSUME NEW job \in Range(Flow) PROVE job \in {h} \cup Range(waiting)
      <4>1. PICK i \in 1 .. Len(waiting) + 1 : job = Flow[i]
        BY <2>4 DEF Range
      <4>2. CASE i # 1
        <5>1. i - 1 \in 1 .. Len(waiting) /\ Flow[(i - 1) + 1] = waiting[i - 1]
          BY <2>4, <4>1, <4>2
        <5>2. job = waiting[i - 1] /\ i - 1 \in DOMAIN waiting
          BY <2>4, <4>1, <5>1
        <5> QED
          BY <5>2 DEF Range
      <4> QED
        BY <2>4, <4>1, <4>2
    <3>3. h \in Range(Flow)
      BY <2>4 DEF Range
    <3> QED
      BY <3>1, <3>2, <3>3 DEF Range
  <2>6. ASSUME NEW S, Single(Flow, S)
        PROVE  Single(waiting, S) /\ (h \in S => \A job \in Range(waiting) : job \notin S)
    <3>1. \A i \in 1 .. Len(waiting) : i + 1 \in DOMAIN Flow /\ i + 1 # 1
      BY <2>4
    <3>2. Single(waiting, S)
      BY <2>4, <2>6, <3>1 DEF Single
    <3>3. ASSUME h \in S, NEW job \in Range(waiting), job \in S PROVE FALSE
      <4>1. PICK i \in 1 .. Len(waiting) : job = waiting[i]
        BY <2>4, <3>3 DEF Range
      <4>2. 1 \in DOMAIN Flow /\ i + 1 \in DOMAIN Flow /\ Flow[1] \in S /\ Flow[i + 1] \in S
        BY <2>4, <3>1, <3>3, <4>1
      <4> QED
        BY <2>6, <3>1, <4>2 DEF Single
    <3> QED
      BY <3>2, <3>3
  <2>7. \A job \in Range(waiting) : job \in JobType
    BY <1>1 DEF MayWait
  <2>8. Single(Flow, Pages) /\ Single(Flow, Seekers)
    BY DEF OneOfEach
  <2>9. Single(waiting, Pages) /\ Single(waiting, Seekers)
    BY <2>6, <2>8
  <2>10. BringsPage(h) => \A job \in Range(waiting) : ~BringsPage(job)
    BY <2>1, <2>6, <2>7, <2>8 DEF Pages
  <2>11. Seeks(h) => \A job \in Range(waiting) : ~Seeks(job)
    BY <2>1, <2>6, <2>7, <2>8 DEF Seekers
  <2> QED
    BY <1>1, <1>2, <1>4, <1>5, <2>1, <2>2, <2>3, <2>5, <2>9, <2>10, <2>11 DEF h
<1> QED
  BY <1>1, <1>2, <1>3, <1>4, <1>5 DEF OneOfEach

\* The pages that wait for the announcements, outdated by a render or destroyed by
\* another page.
LEMMA HeldIs ==
  ASSUME ListIInv
  PROVE  /\ held \in Seq(JobType)
         /\ LastCounts(held) => LastCounts(Outdated(held)) /\ LastCounts(Destroyed(held))
         /\ \A job \in Range(held) : job \in JobType /\ job.kind = "append"
         /\ \A job \in Range(Outdated(held)) : ~job.fresh /\ ~job.block.fresh
         /\ Destroyed(held) \in Seq(JobType)
         /\ \A job \in Range(Destroyed(held)) :
               /\ ~job.block.live
               /\ \E old \in Range(held) :
                     /\ job.kind = old.kind /\ job.fresh = old.fresh
                     /\ job.got = old.got /\ job.block.fresh = old.block.fresh
         /\ (\A job \in Range(held) : ~job.fresh /\ ~job.block.fresh)
               => \A job \in Range(Destroyed(held)) : Superseded(job)
<1>1. /\ held \in Seq(MayHold(style)) /\ MayHold(style) \subseteq JobType
      /\ Destroyed(held) \in Seq(MayHold(style))
  BY DestroyedSeq DEF ListIInv, QueuesKept, MayHold, MayRun
<1>2. held \in Seq(JobType) /\ Destroyed(held) \in Seq(JobType)
  BY <1>1, SeqMonotonic
<1>3. \A i \in DOMAIN held : held[i] \in MayHold(style) /\ held[i] \in JobType
  BY <1>1, ElementOfSeq, LenProperties
<1>4. \A job \in Range(held) : job \in JobType /\ job.kind = "append"
  BY <1>3 DEF Range, MayHold
<1>5. ASSUME NEW job \in JobType
      PROVE  /\ ~[job EXCEPT !.fresh = FALSE, !.block.fresh = FALSE].fresh
             /\ ~[job EXCEPT !.fresh = FALSE, !.block.fresh = FALSE].block.fresh
             /\ ~[job EXCEPT !.block.live = FALSE].block.live
             /\ [job EXCEPT !.block.live = FALSE].kind = job.kind
             /\ [job EXCEPT !.block.live = FALSE].fresh = job.fresh
             /\ [job EXCEPT !.block.live = FALSE].got = job.got
             /\ [job EXCEPT !.block.live = FALSE].block.fresh = job.block.fresh
             /\ Superseded(job) =>
                   /\ Superseded([job EXCEPT !.fresh = FALSE, !.block.fresh = FALSE])
                   /\ Superseded([job EXCEPT !.block.live = FALSE])
  BY <1>5 DEF JobType, BlockType, Superseded
<1>6. ASSUME NEW job \in Range(Outdated(held)) PROVE ~job.fresh /\ ~job.block.fresh
  <2>1. PICK i \in DOMAIN held :
           job = [held[i] EXCEPT !.fresh = FALSE, !.block.fresh = FALSE]
    BY <1>6 DEF Range, Outdated
  <2> QED
    BY <1>3, <1>5, <2>1
<1>7. ASSUME NEW job \in Range(Destroyed(held))
      PROVE  /\ ~job.block.live
             /\ \E old \in Range(held) :
                   /\ job.kind = old.kind /\ job.fresh = old.fresh
                   /\ job.got = old.got /\ job.block.fresh = old.block.fresh
  <2>1. PICK i \in DOMAIN held : job = [held[i] EXCEPT !.block.live = FALSE]
    BY <1>7 DEF Range, Destroyed
  <2>2. held[i] \in Range(held)
    BY DEF Range
  <2> QED
    BY <1>3, <1>5, <2>1, <2>2
<1>8. ASSUME LastCounts(held)
      PROVE  LastCounts(Outdated(held)) /\ LastCounts(Destroyed(held))
  <2>1. /\ DOMAIN Outdated(held) = DOMAIN held /\ DOMAIN Destroyed(held) = DOMAIN held
        /\ \A i \in DOMAIN held :
              /\ Outdated(held)[i] = [held[i] EXCEPT !.fresh = FALSE, !.block.fresh = FALSE]
              /\ Destroyed(held)[i] = [held[i] EXCEPT !.block.live = FALSE]
    BY DEF Outdated, Destroyed
  <2>2. ASSUME NEW seq \in Seq(JobType), DOMAIN seq = DOMAIN held
        PROVE  Len(seq) = Len(held)
    <3>1. /\ Len(seq) \in Nat /\ Len(held) \in Nat
          /\ DOMAIN seq = 1 .. Len(seq) /\ DOMAIN held = 1 .. Len(held)
      BY <1>2, LenProperties
    <3>2. 1 .. Len(seq) = 1 .. Len(held)
      BY <2>2, <3>1
    <3>3. \A a, b \in Nat : 1 .. a = 1 .. b => a = b
      OBVIOUS
    <3> QED
      BY <3>1, <3>2, <3>3
  <2>3. Len(Outdated(held)) = Len(held) /\ Len(Destroyed(held)) = Len(held)
    <3>1. Outdated(held) \in Seq(MayHold(style))
      BY <1>1, OutdatedSeq
    <3>2. Outdated(held) \in Seq(JobType)
      BY <1>1, <3>1, SeqMonotonic
    <3> QED
      BY <1>2, <2>1, <2>2, <3>2
  <2>4. ASSUME LastCounts(held), NEW i \in DOMAIN held, i < Len(held)
        PROVE  Superseded(Outdated(held)[i]) /\ Superseded(Destroyed(held)[i])
    <3>1. Superseded(held[i])
      BY <2>4 DEF LastCounts
    <3>2. held[i] \in JobType
      BY <1>3, <2>4
    <3>3. /\ ~[held[i] EXCEPT !.fresh = FALSE, !.block.fresh = FALSE].block.live
          /\ [held[i] EXCEPT !.fresh = FALSE, !.block.fresh = FALSE].kind = "append"
      BY <3>1, <3>2 DEF Superseded, JobType, BlockType
    <3>4. Superseded(Outdated(held)[i])
      BY <1>5, <2>1, <2>4, <3>2, <3>3 DEF Superseded
    <3>5. Superseded(Destroyed(held)[i])
      <4>1. Destroyed(held)[i] = [held[i] EXCEPT !.block.live = FALSE]
        BY <2>1, <2>4
      <4>2. Superseded([held[i] EXCEPT !.block.live = FALSE])
        BY <3>1, <3>2 DEF Superseded, JobType, BlockType
      <4> QED
        BY <4>1, <4>2
    <3> QED
      BY <3>4, <3>5
  <2> QED
    BY <1>8, <2>1, <2>3, <2>4 DEF LastCounts
<1>9. ASSUME \A job \in Range(held) : ~job.fresh /\ ~job.block.fresh,
             NEW job \in Range(Destroyed(held))
      PROVE  Superseded(job)
  BY <1>4, <1>7, <1>9 DEF Superseded
<1> QED
  BY <1>2, <1>4, <1>6, <1>7, <1>8, <1>9

\* One more page after those that are superseded.
LEMMA HeldWith ==
  ASSUME NEW seq \in Seq(JobType), NEW next \in JobType, \A job \in Range(seq) : Superseded(job)
  PROVE  /\ LastCounts(seq)
         /\ Range(Append(seq, next)) = Range(seq) \cup {next}
         /\ LastCounts(Append(seq, next))
<1>1. /\ DOMAIN Append(seq, next) = 1 .. Len(seq) + 1 /\ Len(seq) \in Nat
      /\ Append(seq, next)[Len(seq) + 1] = next
      /\ \A i \in 1 .. Len(seq) : Append(seq, next)[i] = seq[i]
      /\ DOMAIN seq = 1 .. Len(seq)
  BY LenProperties, AppendProperties
<1>2. Range(Append(seq, next)) = Range(seq) \cup {next}
  BY <1>1 DEF Range
<1>3. \A i \in 1 .. Len(seq) : Superseded(Append(seq, next)[i]) /\ Superseded(seq[i])
  BY <1>1 DEF Range
<1>4. Len(Append(seq, next)) = Len(seq) + 1
  BY AppendProperties
<1> QED
  BY <1>1, <1>2, <1>3, <1>4 DEF LastCounts

\* A step that brings no page of an earlier render, nothing of the new one but the
\* render and a call that waits for it, and takes none of its pages away.
LEMMA LeftKept ==
  ASSUME LeftBehind, complete' => complete, buttons' \subseteq buttons,
         ~threw' => ~threw /\ (NoPage' => NoPage),
         \A job \in Range(jobs') : job.kind = "append" => job \in Range(jobs),
         Range(held') \subseteq Range(held),
         \A job \in Range(Flow') :
            job.fresh => \/ job.kind \in {"rendered", "ask"}
                         \/ \E old \in Range(Flow) : old.fresh /\ old.kind = job.kind
  PROVE  LeftBehind'
BY DEF LeftBehind

\* Where the new render is further on, the views of earlier pages are destroyed.
LEMMA LeftDestroyed ==
  ASSUME ListIInv, LeftBehind,
         \/ complete \/ buttons # {}
         \/ \E job \in Range(Flow) : job.fresh /\ job.kind \notin {"rendered", "ask"},
         \A job \in Range(jobs') : job.kind = "append" => job.fresh,
         \A job \in Range(held') :
            ~job.fresh => \/ job \in Range(held)
                          \/ ~job.block.live /\ ~job.block.fresh
  PROVE  LeftBehind'
<1>1. \A job \in Range(held) :
         ~job.fresh => ~job.block.live /\ ~job.block.fresh
  BY HeldIs DEF LeftBehind
<1> QED
  BY <1>1 DEF LeftBehind

\* The step of a continuation that leaves none.
LEMMA NoneLeft ==
  ASSUME NEW wait \in Seq(JobType), jobs' = <<>>, waiting' = wait,
         Single(wait, Pages), Single(wait, Seekers)
  PROVE  /\ LastCounts(jobs') /\ Range(jobs') = {} /\ Range(waiting') = Range(wait)
         /\ Range(Flow') = Range(wait)
         /\ Single(Flow', Pages) /\ Single(Flow', Seekers)
<1>1. Flow' = wait
  BY DEF Flow
<1> QED
  BY <1>1 DEF Range, LastCounts

\* The step that leaves one.
LEMMA OneLeft ==
  ASSUME NEW wait \in Seq(JobType), NEW j \in JobType, Leaves({j}, wait),
         Single(wait, Pages), Single(wait, Seekers),
         BringsPage(j) => \A job \in Range(wait) : ~BringsPage(job),
         Seeks(j) => \A job \in Range(wait) : ~Seeks(job)
  PROVE  /\ LastCounts(jobs') /\ Range(Flow') = {j} \cup Range(wait)
         /\ Range(jobs') \subseteq {j} /\ Range(waiting') \subseteq {j} \cup Range(wait)
         /\ jobs' = <<>> => Range(jobs') = {}
         /\ Single(Flow', Pages) /\ Single(Flow', Seekers)
<1>1. {j} \in SUBSET JobType
  OBVIOUS
<1>2. /\ LastCounts(jobs') /\ Range(Flow') = {j} \cup Range(wait)
      /\ Range(jobs') \subseteq {j} /\ Range(waiting') \subseteq {j} \cup Range(wait)
      /\ \A S : /\ Single(wait, S)
                /\ \A i \in {j} : i \in S => \A job \in Range(wait) : job \notin S
                => Single(Flow', S)
  BY <1>1, LeavesFlow
<1>3. Single(Flow', Pages)
  BY <1>2 DEF Pages
<1>4. Single(Flow', Seekers)
  BY <1>2 DEF Seekers
<1>5. jobs' = <<>> => Range(jobs') = {}
  BY DEF Range
<1> QED
  BY <1>2, <1>3, <1>4, <1>5

\* A queue without one of its elements.
LEMMA WithoutIs ==
  ASSUME NEW S, NEW seq \in Seq(S), NEW k \in DOMAIN seq
  PROVE  /\ Without(seq, k) \in Seq(S) /\ seq[k] \in Range(seq)
         /\ Range(seq) = {seq[k]} \cup Range(Without(seq, k))
         /\ \A T : Single(seq, T)
                => /\ Single(Without(seq, k), T)
                   /\ seq[k] \in T => \A job \in Range(Without(seq, k)) : job \notin T
<1> DEFINE rest == Without(seq, k)
           n == Len(seq)
           a == SubSeq(seq, 1, k - 1)
           b == SubSeq(seq, k + 1, n)
<1>1. /\ n \in Nat /\ DOMAIN seq = 1 .. n /\ k \in 1 .. n /\ k \in Int
      /\ \A i \in 1 .. n : seq[i] \in S
  BY ElementOfSeq, LenProperties
<1> HIDE DEF n
<1>2. a \in Seq(S) /\ Len(a) = k - 1 /\ \A i \in 1 .. k - 1 : a[i] = seq[i]
  <2>1. k - 1 \in Int /\ \A i \in 1 .. k - 1 : seq[i] \in S
    BY <1>1
  <2>2. /\ a \in Seq(S) /\ Len(a) = IF 1 <= k - 1 THEN (k - 1) - 1 + 1 ELSE 0
        /\ \A i \in 1 .. (k - 1) - 1 + 1 : a[i] = seq[1 + i - 1]
    BY <2>1, SubSeqProperties
  <2> HIDE DEF a
  <2>3. \A i \in 1 .. k - 1 : 1 + i - 1 = i /\ i \in 1 .. (k - 1) - 1 + 1
    BY <1>1
  <2> QED
    BY <1>1, <2>2, <2>3
<1>3. b \in Seq(S) /\ Len(b) = n - k /\ \A i \in 1 .. n - k : b[i] = seq[k + i]
  <2>1. k + 1 \in Int /\ n \in Int /\ \A i \in k + 1 .. n : seq[i] \in S
    BY <1>1
  <2>2. /\ b \in Seq(S) /\ Len(b) = IF k + 1 <= n THEN n - (k + 1) + 1 ELSE 0
        /\ \A i \in 1 .. n - (k + 1) + 1 : b[i] = seq[k + 1 + i - 1]
    BY <2>1, SubSeqProperties
  <2> HIDE DEF b
  <2>3. \A i \in 1 .. n - k : k + 1 + i - 1 = k + i /\ i \in 1 .. n - (k + 1) + 1
    BY <1>1
  <2> QED
    BY <1>1, <2>2, <2>3
<1>4. rest = a \o b
  BY DEF Without, n
<1> HIDE DEF a, b, rest
<1>5. /\ rest \in Seq(S) /\ Len(rest) = n - 1
      /\ \A i \in 1 .. n - 1 : rest[i] = IF i < k THEN seq[i] ELSE seq[i + 1]
  <2>1. /\ rest \in Seq(S) /\ Len(rest) = Len(a) + Len(b)
        /\ \A i \in 1 .. Len(a) + Len(b) :
              rest[i] = IF i <= Len(a) THEN a[i] ELSE b[i - Len(a)]
    BY <1>2, <1>3, <1>4, ConcatProperties
  <2>2. (k - 1) + (n - k) = n - 1
    BY <1>1
  <2>3. ASSUME NEW i \in 1 .. n - 1
        PROVE  rest[i] = IF i < k THEN seq[i] ELSE seq[i + 1]
    <3>1. rest[i] = IF i <= k - 1 THEN a[i] ELSE b[i - (k - 1)]
      BY <1>2, <1>3, <2>1, <2>2
    <3>2. CASE i < k
      BY <1>1, <1>2, <3>1, <3>2
    <3>3. CASE ~(i < k)
      <4>1. i - (k - 1) \in 1 .. n - k /\ k + (i - (k - 1)) = i + 1 /\ ~(i <= k - 1)
        BY <1>1, <3>3
      <4> QED
        BY <1>3, <3>1, <3>3, <4>1
    <3> QED
      BY <3>2, <3>3
  <2> QED
    BY <1>2, <1>3, <2>1, <2>2, <2>3
<1>6. DOMAIN rest = 1 .. n - 1
  BY <1>5, LenProperties
<1>7. Range(seq) = {seq[k]} \cup Range(rest)
  <2>1. ASSUME NEW i \in 1 .. n, i # k PROVE seq[i] \in Range(rest)
    <3>1. CASE i < k
      <4>1. i \in DOMAIN rest /\ rest[i] = seq[i]
        BY <1>1, <1>5, <1>6, <2>1, <3>1
      <4> QED
        BY <4>1 DEF Range
    <3>2. CASE i > k
      <4>1. i - 1 \in DOMAIN rest /\ rest[i - 1] = seq[i]
        BY <1>1, <1>5, <1>6, <2>1, <3>2
      <4> QED
        BY <4>1 DEF Range
    <3> QED
      BY <1>1, <2>1, <3>1, <3>2
  <2>2. ASSUME NEW i \in DOMAIN rest PROVE rest[i] \in Range(seq)
    <3>1. PICK m \in 1 .. n : rest[i] = seq[m]
      BY <1>1, <1>5, <1>6
    <3> QED
      BY <1>1, <3>1 DEF Range
  <2> QED
    BY <1>1, <2>1, <2>2 DEF Range
<1>8. ASSUME NEW T, Single(seq, T)
      PROVE  Single(rest, T) /\ (seq[k] \in T => \A job \in Range(rest) : job \notin T)
  <2> DEFINE at(i) == IF i < k THEN i ELSE i + 1
  <2>1. \A i \in DOMAIN rest : at(i) \in DOMAIN seq /\ at(i) # k /\ rest[i] = seq[at(i)]
    BY <1>1, <1>5, <1>6
  <2>2. \A i, m \in DOMAIN rest : at(i) = at(m) => i = m
    BY <1>1, <1>6
  <2> HIDE DEF at
  <2> QED
    BY <1>1, <1>8, <2>1, <2>2 DEF Single, Range
<1>9. seq[k] \in Range(seq)
  BY DEF Range
<1> QED
  BY <1>5, <1>7, <1>8, <1>9 DEF rest

\* The calls that wait when a render starts are outdated.
LEMMA OutdatedCalls ==
  ASSUME NEW S, NEW seq \in Seq(S)
  PROVE  /\ Len(Outdated(seq)) = Len(seq)
         /\ Outdated(seq) = <<>> <=> seq = <<>>
         /\ S = MayListen => \A call \in Range(Outdated(seq)) : ~LastCall(call)
<1>1. DOMAIN seq = 1 .. Len(seq) /\ Len(seq) \in Nat
  BY LenProperties
<1>2. Outdated(seq) = [i \in 1 .. Len(seq) |-> Outdated(seq)[i]]
  BY <1>1 DEF Outdated
<1> DEFINE E(i) == [seq[i] EXCEPT !.fresh = FALSE, !.block.fresh = FALSE]
<1>3. Outdated(seq) = [i \in 1 .. Len(seq) |-> E(i)]
  BY <1>1 DEF Outdated
<1> HIDE DEF E
<1>4. Len(Outdated(seq)) = Len(seq)
  BY <1>1, <1>3
<1>5. Outdated(seq) = <<>> <=> seq = <<>>
  <2>1. seq = <<>> => Outdated(seq) = <<>>
    BY DEF Outdated
  <2>2. Outdated(seq) = <<>> => Len(seq) = 0
    BY <1>4
  <2> QED
    BY <2>1, <2>2, EmptySeq
<1>6. ASSUME S = MayListen, NEW call \in Range(Outdated(seq)) PROVE ~LastCall(call)
  <2>1. PICK i \in 1 .. Len(seq) : call = E(i)
    BY <1>3, <1>6 DEF Range
  <2>2. seq[i] \in JobType
    <3>1. seq[i] \in S
      BY ElementOfSeq
    <3> QED
      BY <1>6, <3>1 DEF MayListen
  <2>3. ~call.fresh
    <3> DEFINE job == seq[i]
    <3>1. job \in JobType
      BY <2>2
    <3> HIDE DEF job
    <3>2. ~[job EXCEPT !.fresh = FALSE, !.block.fresh = FALSE].fresh
      BY <3>1 DEF JobType
    <3> QED
      BY <2>1, <3>2 DEF E, job
  <2> QED
    BY <2>3 DEF LastCall
<1> QED
  BY <1>4, <1>5, <1>6

LEMMA NoCalls == listeners' = <<>> => Range(listeners') = {}
BY DEF Range

-----------------------------------------------------------------------------
(* Pages that fit the listing *)

\* The first page can be requested of any listing.
LEMMA FirstPageFits == TypeOK => FirstPage \in Window /\ Fits(FirstPage)
BY PageAssumption, ListingAssumption DEF TypeOK, FirstPage, Window, Fits, IsListing

\* Of what is selected.
LEMMA PageOfFits ==
  ASSUME TypeOK, NEW request \in Window, Fits(request),
         CanDisplay(ListingOf[filter], request, Threaded(style))
  PROVE  LET page == PageOf(request) IN
         /\ page \in Window /\ page # NoWindow /\ Fits(page)
         /\ page.end <= ListingOf[filter].n
         /\ Displayed(ListingOf[filter], PageOf(page)) = Displayed(ListingOf[filter], page)
<1>1. IsListing(ListingOf[filter]) /\ Threaded(style) \in BOOLEAN
  BY ListingAssumption DEF TypeOK, Threaded
<1> QED
  BY <1>1, PageSettles DEF Fits, PageOf

\* The listing that is selected, and where the target is in it.
LEMMA TargetIs ==
  ASSUME TypeOK, HasTarget(Cur)
  PROVE  /\ IsListing(ListingOf[filter])
         /\ TargetOffset(Cur, Threaded(style)) \in 0 .. ListingOf[filter].n - 1
<1>1. /\ IsListing(ListingOf[filter])
      /\ ListingOf[filter].target \in -1 .. ListingOf[filter].n - 1
  BY ListingAssumption DEF TypeOK
<1>2. Cur.of = filter
  BY DEF Cur, Ids
<1>3. ListingOf[filter].target # -1 /\ ListingOf[filter].n \in Nat
  BY <1>1, <1>2 DEF HasTarget, IsListing
<1>4. ListingOf[filter].target \in 0 .. ListingOf[filter].n - 1
  BY <1>1, <1>3
<1>5. ListingOf[filter].n - 1 - ListingOf[filter].target \in 0 .. ListingOf[filter].n - 1
  BY <1>3, <1>4
<1> QED
  BY <1>1, <1>2, <1>3, <1>4, <1>5 DEF TargetOffset

\* Turning the page of a window that fits the listing.
LEMMA TurnsFit ==
  ASSUME TypeOK
  PROVE  /\ NextRequest(offsets) \in Window /\ PreviousRequest(offsets) \in Window
         /\ Fits(offsets) /\ offsets.end <= ListingOf[filter].n
               => Fits(NextRequest(offsets)) /\ Fits(PreviousRequest(offsets))
<1>1. /\ offsets \in Window /\ ListingOf[filter].n \in Nat
      /\ PageSize \in Nat \ {0} /\ MaxDisplay \in Nat /\ PageSize <= MaxDisplay
  BY PageAssumption, ListingAssumption DEF TypeOK, IsListing
<1>2. NextRequest(offsets) \in Window /\ PreviousRequest(offsets) \in Window
  BY <1>1 DEF NextRequest, PreviousRequest, Window
<1>3. Fits(offsets) /\ offsets.end <= ListingOf[filter].n => Fits(NextRequest(offsets))
  BY <1>1 DEF NextRequest, Window, Fits
<1>4. Fits(offsets) /\ offsets.end <= ListingOf[filter].n => Fits(PreviousRequest(offsets))
  BY <1>1 DEF PreviousRequest, Window, Fits
<1> QED
  BY <1>2, <1>3, <1>4

-----------------------------------------------------------------------------
(* What the handlers are made of *)

\* What is on its way remains about what is selected, when what a step adds is.
LEMMA QueryKept ==
  ASSUME OfThisQuery, UNCHANGED <<filter, style, offsets>>,
         \A job \in Range(held') : job.fresh => job.got = Cur,
         NEW N, Range(Flow') \subseteq N \cup Range(Flow),
         Range(jobs') \subseteq N, Range(waiting') \subseteq N \cup Range(waiting),
         \A j \in N : j.fresh =>
            /\ j.kind = "show" => Fits(j.window)
            /\ j.kind \in {"rendered", "real"} => offsets = NoWindow,
         \A j \in N \cap Range(waiting') :
            j.fresh => j.asked = Cur \/ (j.asked = NoIds /\ j.got = Cur),
         \A j \in N \cap Range(jobs') : j.fresh /\ j.kind # "ask" => j.got = Cur
  PROVE  OfThisQuery'
<1>1. Cur' = Cur /\ \A window : Fits(window)' <=> Fits(window)
  BY DEF Cur, Fits
<1>2. \A job \in Range(waiting') :
         job.fresh => job.asked = Cur' \/ (job.asked = NoIds /\ job.got = Cur')
  BY <1>1 DEF OfThisQuery
<1>3. \A job \in Range(jobs') : job.fresh /\ job.kind # "ask" => job.got = Cur'
  BY <1>1
<1>4. \A job \in Range(Flow') :
        /\ job.fresh /\ job.kind = "show" => Fits(job.window)
        /\ job.fresh /\ job.kind \in {"rendered", "real"} => offsets' = NoWindow
  BY DEF OfThisQuery
<1>5. offsets' # NoWindow => Fits(offsets)' /\ offsets'.end <= ListingOf[filter'].n
  BY DEF OfThisQuery, Fits
<1>6. \A job \in Range(held') : job.fresh => job.got = Cur'
  BY <1>1
<1> QED
  BY <1>1, <1>2, <1>3, <1>4, <1>5, <1>6 DEF OfThisQuery, Fits

\* A handler that is about what is selected leaves one continuation.
LEMMA PutNow ==
  ASSUME ListIInv, OneOfEach, OfThisQuery, ~misled',
         UNCHANGED <<filter, style, offsets>>,
         \A x \in Range(held') : x.fresh => x.got = Cur,
         NEW job \in JobType, job.asked = NoIds,
         job.fresh => \/ jobs = <<>> \/ Head(jobs).kind \in {"ask", "find"}
                      \/ Head(jobs).got = Cur,
         Await(job, <<>>, waiting, filter, style, valid),
         BringsPage(job) => \A x \in Range(waiting) : ~BringsPage(x),
         Seeks(job) => \A x \in Range(waiting) : ~Seeks(x),
         job.kind = "show" => Fits(job.window),
         job.kind \in {"rendered", "real"} => offsets = NoWindow
  PROVE  \E j \in JobType :
            /\ j.kind = job.kind /\ j.fresh = job.fresh /\ j.window = job.window
            /\ j.budget = job.budget /\ j.block = job.block
            /\ LastCounts(jobs') /\ Range(Flow') = {j} \cup Range(waiting)
            /\ Range(jobs') \subseteq {j}
            /\ Single(Flow', Pages) /\ Single(Flow', Seekers)
            /\ OfThisQuery'
<1>1. /\ TypeOK /\ waiting \in Seq(JobType) /\ filter \in Filters /\ style \in Styles
      /\ Single(waiting, Pages) /\ Single(waiting, Seekers)
  BY FlowIs DEF ListIInv, TypeOK
<1> DEFINE now == [job EXCEPT !.got = results]
           asking == [job EXCEPT !.asked = Cur]
<1>3. /\ now \in JobType /\ now.got = results /\ now.asked = NoIds
      /\ now.kind = job.kind /\ now.fresh = job.fresh /\ now.window = job.window
      /\ now.budget = job.budget /\ now.block = job.block
      /\ asking \in JobType /\ asking.asked = Cur
      /\ asking.kind = job.kind /\ asking.fresh = job.fresh
      /\ asking.window = job.window
      /\ asking.budget = job.budget /\ asking.block = job.block
  BY <1>1, IdsType DEF JobType, TypeOK, MaybeIds, Cur
<1>4. PICK j \in JobType :
            /\ Leaves({j}, waiting)
            /\ j.kind = job.kind /\ j.fresh = job.fresh /\ j.window = job.window
            /\ j.budget = job.budget /\ j.block = job.block
            /\ \/ valid /\ j.asked = NoIds /\ j.got = results
               \/ ~valid /\ j.asked = Cur /\ jobs' = <<>>
  <2>1. CASE valid
    <3>1. Leaves({now}, waiting)
      BY <2>1 DEF Await, Leaves
    <3> QED
      BY <1>3, <2>1, <3>1
  <2>2. CASE ~valid
    <3>1. Leaves({asking}, waiting) /\ jobs' = <<>>
      BY <2>2 DEF Await, Leaves, Cur
    <3> QED
      BY <1>3, <2>2, <3>1
  <2> QED
    BY <2>1, <2>2
<1> HIDE DEF now, asking
<1>5. /\ BringsPage(j) => \A x \in Range(waiting) : ~BringsPage(x)
      /\ Seeks(j) => \A x \in Range(waiting) : ~Seeks(x)
  BY <1>4 DEF BringsPage, Seeks
<1>6. /\ LastCounts(jobs') /\ Range(Flow') = {j} \cup Range(waiting)
      /\ Range(jobs') \subseteq {j} /\ Range(waiting') \subseteq {j} \cup Range(waiting)
      /\ jobs' = <<>> => Range(jobs') = {}
      /\ Single(Flow', Pages) /\ Single(Flow', Seekers)
  BY <1>1, <1>4, <1>5, OneLeft
<1>7. Range(waiting) \subseteq Range(Flow)
  BY FlowIs
<1>8. valid /\ job.fresh => results = Cur
  <2>1. valid => results \in AllIds
    BY DEF ListIInv, ResultsKnown
  <2>2. NoIds \notin AllIds
    BY DEF NoIds, AllIds
  <2>3. valid /\ job.fresh => results = Cur \/ results = NoIds
    BY DEF Await, Cur, NextJob
  <2> QED
    BY <2>1, <2>2, <2>3
<1>9. OfThisQuery'
  <2>1. \A x \in {j} : x.fresh =>
          /\ x.kind = "show" => Fits(x.window)
          /\ x.kind \in {"rendered", "real"} => offsets = NoWindow
    BY <1>4
  <2>2. \A x \in {j} \cap Range(waiting') :
          x.fresh => x.asked = Cur \/ (x.asked = NoIds /\ x.got = Cur)
    BY <1>4, <1>8
  <2>3. \A x \in {j} \cap Range(jobs') : x.fresh /\ x.kind # "ask" => x.got = Cur
    BY <1>4, <1>6, <1>8
  <2>4. Range(Flow') \subseteq {j} \cup Range(Flow)
    BY <1>6, <1>7
  <2> QED
    BY <1>6, <2>1, <2>2, <2>3, <2>4, QueryKept
<1> QED
  BY <1>4, <1>6, <1>9

\* A continuation goes and leaves nothing.
LEMMA DroppedKeeps ==
  ASSUME ListIInv, OneOfEach, PageThenJump, OfThisQuery, LeftBehind,
         jobs # <<>>, Head(jobs).kind # "append", jobs' = <<>>,
         UNCHANGED <<filter, style, offsets, buttons, complete, waiting, held, listeners>>,
         ~threw' => ~threw /\ ~BringsPage(Head(jobs)),
         inProgress' = inProgress \/ (inProgress' = FALSE /\ Seeks(Head(jobs)))
  PROVE  /\ OneOfEach' /\ PageThenJump' /\ OfThisQuery' /\ LeftBehind'
         /\ Range(Flow') = Range(waiting)
<1> DEFINE h == Head(jobs)
<1>1. /\ waiting \in Seq(JobType)
      /\ Single(waiting, Pages) /\ Single(waiting, Seekers)
      /\ Range(Flow) = {h} \cup Range(waiting)
      /\ Seeks(h) => \A job \in Range(waiting) : ~Seeks(job)
  BY FlowIs
<1>2. /\ LastCounts(jobs') /\ Range(Flow') = Range(waiting) /\ Range(jobs') = {}
      /\ Range(waiting') = Range(waiting)
      /\ Single(Flow', Pages) /\ Single(Flow', Seekers)
  BY <1>1, NoneLeft
<1> HIDE DEF h
<1>3. OneOfEach'
  <2>1. Seeks(h) => listeners = <<>>
    BY <1>1 DEF OneOfEach, NoSeeker
  <2>2. inProgress' = inProgress \/ (inProgress' = FALSE /\ Seeks(h))
    BY DEF h
  <2> QED
    BY <1>1, <1>2, <2>1, <2>2 DEF OneOfEach, NoPage, NoneHeld, NoSeeker
<1>4. PageThenJump'
  BY <1>1, <1>2 DEF PageThenJump, NoPage, NoneHeld, NoSeeker
<1>5. OfThisQuery'
  <2>1. \A job \in Range(held') : job.fresh => job.got = Cur
    BY DEF OfThisQuery
  <2> QED
    BY <1>1, <1>2, <2>1, QueryKept
<1>6. LeftBehind'
  <2>1. ~threw' => ~threw /\ (NoPage' => NoPage)
    BY <1>1, <1>2 DEF h, NoPage
  <2> QED
    BY <1>1, <1>2, <2>1, LeftKept
<1> QED
  BY <1>2, <1>3, <1>4, <1>5, <1>6

\* An outdated continuation of a render goes and changes nothing else.
LEMMA OutdatedGone ==
  ASSUME ListIInv, Flows,
         jobs # <<>>, Head(jobs).kind # "append",
         ~BringsPage(Head(jobs)), ~Seeks(Head(jobs)), jobs' = <<>>,
         UNCHANGED <<filter, style, offsets, shown, orphans, buttons, complete,
                     inProgress, waiting, held, listeners, announced, threw>>
  PROVE  Flows'
<1> DEFINE h == Head(jobs)
<1>1. /\ Range(Flow) = {h} \cup Range(waiting)
      /\ ~threw => Landing /\ TargetComes
  BY FlowIs DEF Flows
<1>2. /\ OneOfEach' /\ PageThenJump' /\ OfThisQuery' /\ LeftBehind'
      /\ Range(Flow') = Range(waiting)
  BY DroppedKeeps DEF Flows
<1> HIDE DEF h
<1>3. ~BringsPage(h) /\ ~Seeks(h)
  BY DEF h
<1>4. ASSUME ~threw PROVE Landing' /\ TargetComes'
  <2>1. Landing'
    BY <1>1, <1>2, <1>3, <1>4
    DEF Landing, Cur, PageOf, PageShown, WillBeShown, NoPage, NoneHeld, NoSeeker
  <2>2. TargetComes'
    BY <1>1, <1>2, <1>3, <1>4
    DEF TargetComes, Cur, PageOf, PageShown, Covers, NoneHeld
  <2> QED
    BY <2>1, <2>2
<1> QED
  BY <1>2, <1>4 DEF Flows

\* The calls that waited for a complete render run.
LEMMA CompleteNow ==
  ASSUME ListIInv, OneOfEach, OfThisQuery, TriggerComplete(<<>>),
         UNCHANGED <<filter, style, offsets, waiting, held>>
  PROVE  /\ complete' = TRUE /\ listeners' = <<>>
         /\ \A call \in Range(listeners) : call \in JobType /\ call.kind = "ask"
         /\ LastCounts(jobs') /\ Range(Flow') = Range(listeners) \cup Range(waiting)
         /\ Range(jobs') \subseteq Range(listeners)
         /\ Single(Flow', Pages) /\ Single(Flow', Seekers)
         /\ OfThisQuery'
<1>1. /\ waiting \in Seq(JobType) /\ Range(waiting) \subseteq Range(Flow)
      /\ Single(waiting, Pages) /\ Single(waiting, Seekers)
  BY FlowIs
<1>2. listeners \in Seq(MayListen) /\ Len(listeners) <= 1
  BY DEF ListIInv, QueuesKept, OneOfEach
<1>3. /\ complete' = TRUE /\ listeners' = <<>> /\ jobs' = listeners
      /\ \A job \in Range(held') : job.fresh => job.got = Cur
  BY <1>2, ConcatEmptySeq DEF TriggerComplete, OfThisQuery
<1>4. CASE listeners = <<>>
  <2>1. /\ LastCounts(jobs') /\ Range(Flow') = Range(waiting) /\ Range(jobs') = {}
        /\ Range(waiting') = Range(waiting)
        /\ Single(Flow', Pages) /\ Single(Flow', Seekers)
    BY <1>1, <1>3, <1>4, NoneLeft
  <2>2. Range(listeners) = {}
    BY <1>4 DEF Range
  <2>3. OfThisQuery'
    BY <1>1, <1>3, <2>1, QueryKept
  <2> QED
    BY <1>3, <2>1, <2>2, <2>3
<1>5. CASE listeners # <<>>
  <2> DEFINE l == Head(listeners)
  <2>1. listeners = <<l>> /\ l \in MayListen
    BY <1>2, <1>5, OneElement
  <2> HIDE DEF l
  <2>2. l \in JobType /\ l.kind = "ask" /\ Range(listeners) = {l}
    BY <2>1 DEF MayListen, Range
  <2>3. Leaves({l}, waiting)
    BY <1>3, <2>1 DEF Leaves
  <2>4. ~BringsPage(l) /\ \A job \in Range(waiting) : ~Seeks(job)
    BY <1>1, <1>5, <2>2 DEF BringsPage, OneOfEach, NoSeeker
  <2>5. /\ LastCounts(jobs') /\ Range(Flow') = {l} \cup Range(waiting)
        /\ Range(jobs') \subseteq {l} /\ Range(waiting') \subseteq {l} \cup Range(waiting)
        /\ Single(Flow', Pages) /\ Single(Flow', Seekers)
    BY <1>1, <2>2, <2>3, <2>4, OneLeft
  <2>6. OfThisQuery'
    <3>1. \A x \in {l} : x.fresh =>
             /\ x.kind = "show" => Fits(x.window)
             /\ x.kind \in {"rendered", "real"} => offsets = NoWindow
      BY <2>2
    <3>2. \A x \in {l} \cap Range(jobs') : x.fresh /\ x.kind # "ask" => x.got = Cur
      BY <2>2
    <3>3. Range(waiting') = Range(waiting) /\ Range(Flow') \subseteq {l} \cup Range(Flow)
      BY <1>1, <2>5
    <3>4. \A x \in {l} \cap Range(waiting') :
             x.fresh => x.asked = Cur \/ (x.asked = NoIds /\ x.got = Cur)
      BY <2>2, <2>4, <3>3 DEF Seeks
    <3> QED
      BY <1>3, <2>5, <3>1, <3>2, <3>3, <3>4, QueryKept
  <2> QED
    BY <1>3, <2>2, <2>5, <2>6
<1> QED
  BY <1>4, <1>5

\* A call of showMessageById.
LEMMA CallIs ==
  ASSUME NEW kind \in {"ask", "find"}, NEW budget \in Int, NEW fresh \in BOOLEAN
  PROVE  LET call == [Job(kind, NoWindow, budget) EXCEPT !.fresh = fresh] IN
         /\ call \in JobType /\ call.kind = kind /\ call.fresh = fresh
         /\ call.budget = budget /\ call.asked = NoIds
<1>1. Job(kind, NoWindow, budget) \in JobType
  BY JobIs, NoWindowType
<1>2. [Job(kind, NoWindow, budget) EXCEPT !.fresh = fresh] \in JobType
  BY <1>1 DEF JobType
<1> QED
  BY <1>2 DEF Job

LEMMA FreshCallIs ==
  ASSUME NEW kind \in {"ask", "find"}, NEW budget \in Int
  PROVE  LET call == [Job(kind, NoWindow, budget) EXCEPT !.fresh = TRUE] IN
         /\ call \in JobType /\ call.kind = kind /\ call.fresh
         /\ call.budget = budget /\ call.asked = NoIds
<1>1. Job(kind, NoWindow, budget) \in JobType
  BY JobIs, NoWindowType
<1>2. [Job(kind, NoWindow, budget) EXCEPT !.fresh = TRUE] \in JobType
  BY <1>1 DEF JobType
<1> QED
  BY <1>2 DEF Job

LEMMA FreshCallLasts ==
  ASSUME NEW kind \in {"ask", "find"}, NEW budget \in Int, budget > 0
  PROVE  LET call == [Job(kind, NoWindow, budget) EXCEPT !.fresh = TRUE] IN
         /\ call \in JobType /\ call.kind = kind /\ call.asked = NoIds
         /\ ~LastCall(call)
<1> DEFINE call == [Job(kind, NoWindow, budget) EXCEPT !.fresh = TRUE]
<1>1. /\ call \in JobType /\ call.kind = kind /\ call.budget = budget /\ call.asked = NoIds
  BY FreshCallIs
<1> HIDE DEF call
<1>2. ~LastCall(call)
  BY <1>1 DEF LastCall
<1> QED
  BY <1>1, <1>2 DEF call

\* Where the handler of a showMessageById runs, no other is on its way.
LEMMA SeekerIsAlone ==
  ASSUME ListIInv, OneOfEach, PageThenJump, jobs # <<>>, Seeks(Head(jobs))
  PROVE  /\ \A job \in Range(waiting) : ~Seeks(job)
         /\ inProgress /\ listeners = <<>>
         /\ complete \/ Lands(Head(jobs)) => NoPage /\ NoneHeld
<1> DEFINE h == Head(jobs)
<1>1. /\ waiting \in Seq(JobType)
      /\ h \in JobType /\ Range(Flow) = {h} \cup Range(waiting)
      /\ \A job \in Range(waiting) : ~Seeks(job)
  BY FlowIs DEF Seeks
<1>2. Seeks(h)
  OBVIOUS
<1> HIDE DEF h
<1>3. inProgress /\ listeners = <<>>
  BY <1>1, <1>2 DEF OneOfEach, NoSeeker
<1>4. h \in Range(Flow)
  BY <1>1
<1>5. Lands(h) => NoPage /\ NoneHeld
  BY <1>4 DEF PageThenJump
<1>6. ASSUME complete PROVE NoPage /\ NoneHeld
  <2>1. NoneHeld /\ \A job \in Range(Flow) : BringsPage(job) => job.kind = "all"
    BY <1>3, <1>6 DEF PageThenJump
  <2>2. \A job \in Range(Flow) : ~(job.fresh /\ job.kind = "all")
    BY <1>2, <1>4 DEF PageThenJump, NoSeeker
  <2> QED
    BY <2>1, <2>2 DEF NoPage, BringsPage
<1> QED
  BY <1>1, <1>3, <1>5, <1>6 DEF h

\* A call of showMessageById goes on at once.
LEMMA CallGoesOn ==
  ASSUME ListIInv, OneOfEach, OfThisQuery, LeftBehind, ~threw => Landing, ~misled',
         NoPage, NoneHeld, listeners = <<>>, \A job \in Range(waiting) : ~Seeks(job),
         jobs = <<>> \/ Head(jobs).kind \in {"ask", "find"},
         NEW call \in JobType, call.kind = "find", call.asked = NoIds,
         Await(call, <<>>, waiting, filter, style, valid),
         ~threw /\ LastCall(call) => PageShown /\ Covers(offsets),
         complete, inProgress',
         UNCHANGED <<filter, style, offsets, shown, orphans, complete, held, listeners,
                     announced, threw>>
  PROVE  Flows'
<1>1. waiting \in Seq(JobType) /\ Range(waiting) \subseteq Range(Flow)
  BY FlowIs
<1>4. Seeks(call) /\ ~BringsPage(call)
  BY DEF Seeks, BringsPage
<1>5. PICK j \in JobType :
        /\ j.kind = "find" /\ j.fresh = call.fresh /\ j.budget = call.budget
        /\ LastCounts(jobs') /\ Range(Flow') = {j} \cup Range(waiting)
        /\ Range(jobs') \subseteq {j}
        /\ Single(Flow', Pages) /\ Single(Flow', Seekers)
        /\ OfThisQuery'
  <2>1. \A x \in Range(held') : x.fresh => x.got = Cur
    BY DEF OfThisQuery
  <2> QED
    BY <1>4, <2>1, PutNow
<1>6. Seeks(j) /\ ~BringsPage(j) /\ (LastCall(j) <=> LastCall(call))
  BY <1>5 DEF Seeks, BringsPage, LastCall
<1>7. NoPage' /\ ~NoSeeker'
  BY <1>1, <1>5, <1>6 DEF NoPage, NoSeeker
<1>8. OneOfEach'
  BY <1>5, <1>7 DEF OneOfEach, NoneHeld
<1>9. PageThenJump'
  <2>1. \A job \in Range(Flow') : job.fresh => job.kind # "all"
    BY <1>7 DEF NoPage, BringsPage
  <2> QED
    BY <1>7, <2>1 DEF PageThenJump, NoPage, NoneHeld
<1>10. ASSUME ~threw PROVE Landing' /\ TargetComes'
  <2>1. (PageShown' <=> PageShown) /\ (Covers(offsets)' <=> Covers(offsets))
    BY DEF PageShown, Covers, Cur
  <2>2. \A job \in Range(Flow') : job.fresh => job.kind \notin {"rendered", "real", "append"}
    BY <1>7 DEF NoPage, BringsPage
  <2>3. /\ Range(listeners') = {} /\ NoneHeld'
        /\ \A job \in Range(held') : ~job.fresh
    BY DEF Range, NoneHeld
  <2>4. offsets' # NoWindow
          => Displayed(ListingOf[filter'], PageOf(offsets)')
                = Displayed(ListingOf[filter'], offsets')
    BY <1>10 DEF Landing, PageOf
  <2>5. Landing'
    BY <1>7, <1>10, <2>1, <2>2, <2>3, <2>4 DEF Landing
  <2>6. LastCall(j) => PageShown /\ Covers(offsets)
    BY <1>6, <1>10
  <2>7. TargetComes'
    BY <1>5, <2>1, <2>3, <2>6 DEF TargetComes
  <2> QED
    BY <2>5, <2>7
<1>11. LeftBehind'
  <2>1. \A job \in Range(jobs') : job.kind # "append"
    BY <1>5
  <2> QED
    BY <2>1, LeftDestroyed
<1> QED
  BY <1>5, <1>8, <1>9, <1>10, <1>11 DEF Flows

\* A call of showMessageById is left for the end of the render.
LEMMA CallIsLeft ==
  ASSUME ListIInv, OneOfEach, PageThenJump, OfThisQuery, LeftBehind, ~threw => Landing,
         jobs # <<>> => Seeks(Head(jobs)), \A job \in Range(waiting) : ~Seeks(job),
         NEW call \in JobType, LastCall(call) => NoPage /\ NoneHeld,
         listeners' = <<call>>, jobs' = <<>>, ~complete, inProgress',
         UNCHANGED <<filter, style, offsets, shown, orphans, buttons, complete,
                     waiting, held, announced, threw>>
  PROVE  Flows'
<1>1. /\ waiting \in Seq(JobType)
      /\ Single(waiting, Pages) /\ Single(waiting, Seekers)
      /\ Range(waiting) \subseteq Range(Flow)
      /\ \A job \in Range(Flow) : job \in Range(waiting) \/ Seeks(job)
  <2>1. CASE jobs = <<>>
    BY <2>1, FlowIs
  <2>2. CASE jobs # <<>>
    BY <2>2, FlowIs DEF Seeks
  <2> QED
    BY <2>1, <2>2
<1>2. \A job : Seeks(job) => ~BringsPage(job)
  BY DEF Seeks, BringsPage
<1>4. /\ LastCounts(jobs') /\ Range(Flow') = Range(waiting) /\ Range(jobs') = {}
      /\ Range(waiting') = Range(waiting)
      /\ Single(Flow', Pages) /\ Single(Flow', Seekers)
  BY <1>1, NoneLeft
<1>5. (NoPage' <=> NoPage) /\ NoSeeker'
  BY <1>1, <1>2, <1>4 DEF NoPage, NoSeeker
<1>6. Len(listeners') = 1 /\ listeners' # <<>> /\ Range(listeners') = {call}
  BY DEF Range
<1>7. OneOfEach'
  BY <1>4, <1>5, <1>6 DEF OneOfEach, NoneHeld
<1>8. PageThenJump'
  BY <1>1, <1>4, <1>5 DEF PageThenJump, NoneHeld
<1>9. OfThisQuery' /\ LeftBehind'
  <2>1. \A job \in Range(held') : job.fresh => job.got = Cur
    BY DEF OfThisQuery
  <2>2. OfThisQuery'
    BY <1>1, <1>4, <2>1, QueryKept
  <2>3. LeftBehind'
    BY <1>1, <1>4, <1>5, LeftKept
  <2> QED
    BY <2>2, <2>3
<1>10. ASSUME ~threw PROVE Landing' /\ TargetComes'
  <2>1. ~(NoPage /\ NoneHeld) /\ (NoneHeld' <=> NoneHeld)
    BY <1>10 DEF Landing, NoneHeld
  <2>2. ~LastCall(call)
    BY <2>1
  <2>3. \A block : WillBeShown(block)' <=> WillBeShown(block)
    BY DEF WillBeShown, Cur
  <2>4. Landing'
    BY <1>1, <1>4, <1>5, <1>6, <1>10, <2>1, <2>3 DEF Landing, PageOf
  <2>5. TargetComes'
    BY <1>1, <1>4, <1>6, <2>2 DEF TargetComes
  <2> QED
    BY <2>4, <2>5
<1> QED
  BY <1>7, <1>8, <1>9, <1>10 DEF Flows

\* A continuation that is outdated brings no page, and is no jump that lands.
LEMMA OutdatedWaits ==
  ASSUME NEW wait \in Seq(MayWait)
  PROVE  /\ Outdated(wait) \in Seq(JobType)
         /\ \A job \in Range(Outdated(wait)) :
               /\ ~BringsPage(job) /\ ~job.fresh /\ ~Lands(job)
               /\ \E old \in Range(wait) : Seeks(job) <=> Seeks(old)
         /\ \A old \in Range(wait) :
               \E job \in Range(Outdated(wait)) : Seeks(job) <=> Seeks(old)
         /\ Single(wait, Seekers) => Single(Outdated(wait), Seekers)
         /\ Single(Outdated(wait), Pages)
<1> DEFINE late(k) == [wait[k] EXCEPT !.fresh = FALSE, !.block.fresh = FALSE]
<1>1. DOMAIN wait = 1 .. Len(wait) /\ \A k \in DOMAIN wait : wait[k] \in MayWait
  BY ElementOfSeq, LenProperties
<1>2. /\ DOMAIN Outdated(wait) = DOMAIN wait
      /\ \A k \in DOMAIN wait : Outdated(wait)[k] = late(k)
  BY DEF Outdated
<1>3. ASSUME NEW k \in DOMAIN wait
      PROVE  /\ late(k) \in JobType /\ ~late(k).fresh
             /\ late(k).kind = wait[k].kind
  <2> DEFINE job == wait[k]
  <2>1. job \in JobType
    BY <1>1 DEF MayWait
  <2> HIDE DEF job
  <2>2. ~[job EXCEPT !.fresh = FALSE, !.block.fresh = FALSE].fresh
    BY <2>1 DEF JobType
  <2> QED
    BY <2>1, <2>2, OutdatedJob DEF job
<1> HIDE DEF late
<1>4. ASSUME NEW k \in DOMAIN wait
      PROVE  /\ ~BringsPage(late(k)) /\ ~Lands(late(k))
             /\ Seeks(late(k)) <=> Seeks(wait[k])
  BY <1>1, <1>3 DEF MayWait, BringsPage, Lands, Seeks
<1>5. Outdated(wait) \in Seq(JobType)
  <2>1. Outdated(wait) \in Seq(MayWait)
    BY OutdatedSeq
  <2> QED
    BY <2>1, SeqMonotonic DEF MayWait
<1>6. ASSUME NEW job \in Range(Outdated(wait))
      PROVE  /\ ~BringsPage(job) /\ ~job.fresh /\ ~Lands(job)
             /\ \E old \in Range(wait) : Seeks(job) <=> Seeks(old)
  <2>1. PICK k \in DOMAIN wait : job = late(k)
    BY <1>2 DEF Range
  <2>2. wait[k] \in Range(wait)
    BY DEF Range
  <2> QED
    BY <1>3, <1>4, <2>1, <2>2
<1>7. ASSUME NEW old \in Range(wait)
      PROVE  \E job \in Range(Outdated(wait)) : Seeks(job) <=> Seeks(old)
  <2>1. PICK k \in DOMAIN wait : old = wait[k]
    BY DEF Range
  <2>2. late(k) \in Range(Outdated(wait))
    BY <1>2 DEF Range
  <2> QED
    BY <1>4, <2>1, <2>2
<1>8. Single(wait, Seekers) => Single(Outdated(wait), Seekers)
  <2>1. \A k \in DOMAIN wait : late(k) \in Seekers => wait[k] \in Seekers
    BY <1>1, <1>3, <1>4 DEF Seekers, MayWait
  <2> QED
    BY <1>2, <2>1 DEF Single
<1>9. Single(Outdated(wait), Pages)
  BY <1>2, <1>4 DEF Single, Pages
<1> QED
  BY <1>5, <1>6, <1>7, <1>8, <1>9

\* What a render leaves: nothing on screen, what waits outdated, and its own
\* continuation.
LEMMA RenderLeaves ==
  ASSUME TypeOK, ResultsKnown, Render(<<>>, filter', style', valid'), ~misled',
         filter' \in Filters, style' \in Styles, valid' => valid,
         jobs = <<>> \/ Head(jobs).kind = "find"
  PROVE  /\ complete' = FALSE /\ offsets' = NoWindow /\ shown' = <<>> /\ orphans' = <<>>
         /\ buttons' = {} /\ held' = Outdated(held)
         /\ \E j \in JobType :
               /\ Leaves({j}, Outdated(waiting)) /\ j.kind = "rendered" /\ j.fresh
               /\ \/ valid' /\ j.asked = NoIds /\ j.got = Cur'
                  \/ ~valid' /\ j.asked = Cur' /\ jobs' = <<>>
<1> DEFINE job == Job("rendered", NoWindow, 0)
           now == [job EXCEPT !.got = results]
           asking == [job EXCEPT !.asked = Cur']
<1>1. job \in JobType /\ job.kind = "rendered" /\ job.fresh /\ job.asked = NoIds
  BY JobIs, NoWindowType DEF Job
<1> HIDE DEF job
<1>2. Outdated(<<>>) = <<>>
  BY DEF Outdated
<1>3. /\ complete' = FALSE /\ offsets' = NoWindow /\ shown' = <<>> /\ orphans' = <<>>
      /\ buttons' = {} /\ held' = Outdated(held)
      /\ Await(job, <<>>, Outdated(waiting), filter', style', valid')
  BY <1>2 DEF Render, job
<1>4. Cur' \in MaybeIds
  BY IdsType DEF Cur, MaybeIds
<1>5. /\ now \in JobType /\ now.got = results /\ now.asked = NoIds
      /\ now.kind = "rendered" /\ now.fresh
      /\ asking \in JobType /\ asking.asked = Cur'
      /\ asking.kind = "rendered" /\ asking.fresh
  BY <1>1, <1>4 DEF JobType, TypeOK
<1>6. CASE valid'
  <2>1. Leaves({now}, Outdated(waiting))
    BY <1>3, <1>6 DEF Await, Leaves
  <2>2. results = Cur' \/ results = NoIds
    BY <1>1, <1>3, <1>6 DEF Await, Cur, NextJob
  <2>3. results = Cur'
    BY <1>6, <2>2 DEF ResultsKnown, NoIds, AllIds
  <2> QED
    BY <1>3, <1>5, <1>6, <2>1, <2>3
<1>7. CASE ~valid'
  <2>1. Leaves({asking}, Outdated(waiting)) /\ jobs' = <<>>
    BY <1>3, <1>7 DEF Await, Leaves, Cur
  <2> QED
    BY <1>3, <1>5, <1>7, <2>1
<1> QED
  BY <1>6, <1>7

\* A render, when the jumps that wait are accounted for.
LEMMA RenderFlows ==
  ASSUME ListIInv, Flows, ~misled',
         Render(<<>>, filter', style', valid'), filter' \in Filters, style' \in Styles,
         UNCHANGED <<announced, threw>>, valid' => valid,
         jobs = <<>> \/ Head(jobs).kind = "find",
         Len(listeners') <= 1,
         listeners' # <<>> => \A job \in Range(waiting) : ~Seeks(job),
         ~inProgress' => listeners' = <<>> /\ \A job \in Range(waiting) : ~Seeks(job),
         ~threw /\ inProgress' => \/ listeners' # <<>>
                                  \/ \E job \in Range(waiting) : Seeks(job),
         \A call \in Range(listeners') : ~LastCall(call)
  PROVE  Flows'
<1> DEFINE wait == Outdated(waiting)
<1>1. /\ TypeOK /\ ResultsKnown /\ waiting \in Seq(MayWait) /\ Single(waiting, Seekers)
  BY FlowIs DEF ListIInv, QueuesKept, Flows
<1>2. /\ wait \in Seq(JobType)
      /\ \A job \in Range(wait) :
            /\ ~BringsPage(job) /\ ~job.fresh /\ ~Lands(job)
            /\ \E old \in Range(waiting) : Seeks(job) <=> Seeks(old)
      /\ \A old \in Range(waiting) :
            \E job \in Range(wait) : Seeks(job) <=> Seeks(old)
      /\ Single(wait, Seekers) /\ Single(wait, Pages)
  BY <1>1, OutdatedWaits
<1>3. /\ complete' = FALSE /\ offsets' = NoWindow /\ shown' = <<>> /\ orphans' = <<>>
      /\ buttons' = {} /\ held' = Outdated(held)
  BY <1>1, RenderLeaves
<1>4. PICK j \in JobType :
        /\ Leaves({j}, wait) /\ j.kind = "rendered" /\ j.fresh
        /\ \/ valid' /\ j.asked = NoIds /\ j.got = Cur'
           \/ ~valid' /\ j.asked = Cur' /\ jobs' = <<>>
  BY <1>1, RenderLeaves
<1> HIDE DEF wait
<1>5. /\ \A job \in Range(held') : ~job.fresh /\ ~job.block.fresh
      /\ NoneHeld' /\ LastCounts(held')
  <2>1. \A job \in Range(held') : ~job.fresh /\ ~job.block.fresh
    BY <1>3, HeldIs
  <2>2. LastCounts(held')
    BY <1>3, HeldIs DEF Flows, OneOfEach
  <2> QED
    BY <2>1, <2>2 DEF NoneHeld
<1>6. BringsPage(j) /\ ~Seeks(j) /\ ~Lands(j)
  BY <1>4 DEF BringsPage, Seeks, Lands
<1>7. /\ LastCounts(jobs') /\ Range(Flow') = {j} \cup Range(wait)
      /\ Range(jobs') \subseteq {j} /\ Range(waiting') \subseteq {j} \cup Range(wait)
      /\ jobs' = <<>> => Range(jobs') = {}
      /\ Single(Flow', Pages) /\ Single(Flow', Seekers)
  BY <1>2, <1>4, <1>6, OneLeft
<1>8. NoSeeker' <=> \A job \in Range(waiting) : ~Seeks(job)
  BY <1>2, <1>6, <1>7 DEF NoSeeker
<1>9. OneOfEach'
  BY <1>5, <1>7, <1>8 DEF OneOfEach
<1>10. PageThenJump'
  BY <1>2, <1>3, <1>4, <1>6, <1>7 DEF PageThenJump
<1>11. OfThisQuery'
  <2>1. \A job \in Range(waiting') :
           job.fresh => job.asked = Cur' \/ (job.asked = NoIds /\ job.got = Cur')
    BY <1>2, <1>4, <1>7
  <2>2. \A job \in Range(jobs') : job.fresh => job.got = Cur'
    BY <1>4, <1>7
  <2>3. \A job \in Range(Flow') : job.fresh => job.kind = "rendered"
    BY <1>2, <1>4, <1>7
  <2> QED
    BY <1>3, <1>5, <2>1, <2>2, <2>3 DEF OfThisQuery
<1>12. LeftBehind'
  <2>1. \A job \in Range(Flow') : job.fresh => job.kind = "rendered"
    BY <1>2, <1>4, <1>7
  <2>2. \A job \in Range(jobs') : job.kind # "append"
    BY <1>4, <1>7
  <2>3. ~NoPage'
    BY <1>6, <1>7 DEF NoPage
  <2> QED
    BY <1>3, <1>5, <2>1, <2>2, <2>3 DEF LeftBehind
<1>13. ASSUME ~threw PROVE Landing' /\ TargetComes'
  <2>1. ~NoPage' /\ announced' # "failed"
    BY <1>6, <1>7, <1>13 DEF NoPage, Landing, Flows
  <2>2. \A job \in Range(Flow') : job.fresh => job.kind = "rendered"
    BY <1>2, <1>4, <1>7
  <2>3. Landing'
    BY <1>3, <1>5, <1>8, <1>13, <2>1, <2>2 DEF Landing
  <2>4. \A job \in Range(Flow') : ~(Seeks(job) /\ LastCall(job))
    BY <1>2, <1>6, <1>7 DEF LastCall
  <2>5. TargetComes'
    BY <2>4 DEF TargetComes
  <2> QED
    BY <2>3, <2>5
<1> QED
  BY <1>9, <1>10, <1>11, <1>12, <1>13 DEF Flows

\* A page is requested when nothing else of this render is on its way.
LEMMA PageAsked ==
  ASSUME ListIInv, Flows, ~misled', jobs = <<>>, buttons # {},
         \A x \in Range(waiting) : ~x.fresh, NoneHeld,
         NEW job \in JobType, job.kind \in {"show", "all"}, job.fresh, job.asked = NoIds,
         job.kind = "show" => Fits(job.window),
         Await(job, <<>>, waiting, filter, style, valid),
         job.kind = "all" => \A x \in Range(waiting) : ~Seeks(x),
         complete' => complete /\ job.kind = "all",
         UNCHANGED <<filter, style, offsets, shown, orphans, inProgress, held,
                     listeners, announced, threw>>
  PROVE  Flows'
<1>1. /\ OneOfEach /\ PageThenJump /\ OfThisQuery /\ LeftBehind
      /\ ~threw => Landing /\ TargetComes
  BY DEF Flows
<1>2. /\ Range(Flow) = Range(waiting) /\ Range(waiting) \subseteq MayWait
      /\ \A x \in Range(waiting) : ~BringsPage(x) /\ ~Lands(x) /\ ~LastCall(x)
  <2>1. Range(Flow) = Range(waiting) /\ Range(waiting) \subseteq MayWait
    BY <1>1, FlowIs
  <2> QED
    BY <2>1 DEF BringsPage, Lands, LastCall, MayWait
<1>3. ~Seeks(job)
  BY DEF Seeks
<1>4. PICK j \in JobType :
        /\ j.kind = job.kind /\ j.fresh /\ LastCounts(jobs')
        /\ Range(Flow') = {j} \cup Range(waiting) /\ Range(jobs') \subseteq {j}
        /\ Single(Flow', Pages) /\ Single(Flow', Seekers)
        /\ OfThisQuery'
  <2>1. \A x \in Range(held') : x.fresh => x.got = Cur
    BY <1>1 DEF OfThisQuery
  <2> QED
    BY <1>1, <1>2, <1>3, <2>1, PutNow
<1>5. BringsPage(j) /\ ~Seeks(j) /\ ~Lands(j)
  BY <1>4 DEF BringsPage, Seeks, Lands
<1>6. ~NoPage' /\ (NoSeeker' <=> NoSeeker) /\ NoneHeld'
  BY <1>2, <1>4, <1>5 DEF NoPage, NoSeeker, NoneHeld
<1>7. OneOfEach'
  BY <1>1, <1>4, <1>6 DEF OneOfEach
<1>8. PageThenJump'
  <2>1. \A x \in Range(Flow') : ~Lands(x) /\ (BringsPage(x) => x = j)
    BY <1>2, <1>4, <1>5
  <2>2. j.kind = "all" => NoSeeker'
    BY <1>2, <1>4, <1>6 DEF NoSeeker
  <2>3. \A x \in Range(Flow') : x.fresh => x = j
    BY <1>4
  <2> QED
    BY <1>1, <1>4, <1>6, <2>1, <2>2, <2>3 DEF PageThenJump
<1>9. LeftBehind'
  <2>1. \A x \in Range(jobs') : x.kind # "append"
    BY <1>4
  <2> QED
    BY <1>1, <2>1, LeftDestroyed
<1>10. ASSUME ~threw PROVE Landing' /\ TargetComes'
  <2>1. NoPage /\ NoneHeld
    BY <1>2 DEF NoPage
  <2>2. /\ listeners' = <<>> /\ announced' # "failed"
        /\ \A i \in DOMAIN orphans' : ~orphans'[i].fresh
        /\ inProgress' => ~NoSeeker'
    BY <1>1, <1>6, <1>10, <2>1 DEF Landing
  <2>3. Range(listeners') = {} /\ \A x \in Range(held') : ~x.fresh
    BY <1>6, <2>2 DEF Range, NoneHeld
  <2>4. offsets' # NoWindow
          => Displayed(ListingOf[filter'], PageOf(offsets)')
                = Displayed(ListingOf[filter'], offsets')
    BY <1>1, <1>10 DEF Landing, PageOf
  <2>5. \A x \in Range(Flow') : x.fresh => x.kind \in {"show", "all"}
    BY <1>4
  <2>6. Landing'
    BY <1>6, <2>2, <2>3, <2>4, <2>5 DEF Landing
  <2>7. \A x \in Range(Flow') : ~(Seeks(x) /\ LastCall(x))
    BY <1>2, <1>4, <1>5
  <2>8. TargetComes'
    BY <2>3, <2>7 DEF TargetComes
  <2> QED
    BY <2>6, <2>8
<1> QED
  BY <1>4, <1>7, <1>8, <1>9, <1>10 DEF Flows

-----------------------------------------------------------------------------
(* The continuations *)

LEMMA RunRenderedFlows ==
  ASSUME ListIInv, Flows, RunRendered, ~misled'
  PROVE  Flows'
<1>1. UNCHANGED <<filter, style, valid, results, offsets, buttons, complete,
                  inProgress, listeners, announced, acts, failures, tangled, threw>>
  BY DEF RunRendered, queryVars
<1>2. /\ OneOfEach /\ PageThenJump /\ OfThisQuery /\ LeftBehind
      /\ ~threw => Landing /\ TargetComes
      /\ jobs # <<>> /\ Head(jobs).kind = "rendered"
  BY DEF Flows, RunRendered, NextJob
<1> DEFINE h == Head(jobs)
<1>3. /\ waiting \in Seq(JobType) /\ Range(waiting) \subseteq MayWait
      /\ Single(waiting, Pages) /\ Single(waiting, Seekers)
      /\ Tail(jobs) = <<>> /\ Destroyed(Tail(jobs)) = <<>>
      /\ h \in JobType /\ Range(jobs) = {h} /\ Range(Flow) = {h} \cup Range(waiting)
      /\ BringsPage(h) => \A job \in Range(waiting) : ~BringsPage(job)
      /\ Seeks(h) => \A job \in Range(waiting) : ~Seeks(job)
  BY <1>2, FlowIs
<1>4. h.kind = "rendered" /\ h \in Range(Flow)
  BY <1>2, <1>3
<1>5. CASE Late(h)
  <2>1. jobs' = <<>> /\ UNCHANGED <<waiting, held, shown, orphans>> /\ ~h.fresh
    BY <1>3, <1>5 DEF RunRendered, Late
  <2>2. ~BringsPage(h) /\ ~Seeks(h) /\ ~Lands(h)
    BY <1>4, <2>1 DEF BringsPage, Seeks, Lands
  <2> QED
    BY <1>1, <1>2, <2>1, <2>2, OutdatedGone
<1>6. CASE ~Late(h)
  <2> DEFINE real == Job("real", NoWindow, 0)
  <2>1. /\ shown' = <<>> /\ orphans' = <<>> /\ held' = Destroyed(held) /\ h.fresh
        /\ Await(real, <<>>, waiting, filter, style, valid)
    BY <1>3, <1>6 DEF RunRendered, Late
  <2>2. real \in JobType /\ real.kind = "real" /\ real.fresh /\ real.asked = NoIds
    BY JobIs, NoWindowType DEF Job
  <2>3. BringsPage(h) /\ ~Seeks(real) /\ offsets = NoWindow
    BY <1>2, <1>4, <2>1, <2>2 DEF BringsPage, Seeks, OfThisQuery
  <2> HIDE DEF real
  <2>6. NoneHeld
    BY <1>2, <1>4, <2>3 DEF OneOfEach, NoPage
  <2>7. /\ \A x \in Range(held') : ~x.fresh /\ ~x.block.live /\ ~x.block.fresh
        /\ NoneHeld' /\ LastCounts(held')
    <3>1. \A x \in Range(held') : ~x.fresh /\ ~x.block.live /\ ~x.block.fresh
      BY <1>2, <2>1, <2>6, HeldIs DEF NoneHeld, LeftBehind
    <3>2. LastCounts(held')
      BY <1>2, <2>1, HeldIs DEF OneOfEach
    <3> QED
      BY <3>1, <3>2 DEF NoneHeld
  <2>10. h.got = Cur
    BY <1>2, <1>3, <1>4, <2>1 DEF OfThisQuery
  <2>4. PICK j \in JobType :
            /\ j.kind = "real" /\ j.fresh
            /\ LastCounts(jobs') /\ Range(Flow') = {j} \cup Range(waiting)
            /\ Range(jobs') \subseteq {j}
            /\ Single(Flow', Pages) /\ Single(Flow', Seekers)
            /\ OfThisQuery'
    BY <1>1, <1>2, <1>3, <2>1, <2>2, <2>3, <2>7, <2>10, PutNow
  <2>5. BringsPage(j) /\ ~Seeks(h) /\ ~Seeks(j) /\ ~Lands(h) /\ ~Lands(j)
    BY <1>4, <2>4 DEF BringsPage, Seeks, Lands
  <2>8. OneOfEach'
    BY <1>1, <1>2, <1>3, <2>4, <2>5, <2>7 DEF OneOfEach, NoPage, NoSeeker
  <2>9. PageThenJump'
    BY <1>1, <1>2, <1>3, <1>4, <2>3, <2>4, <2>5, <2>7
    DEF PageThenJump, NoPage, NoSeeker
  <2>12. LeftBehind'
    BY <2>4, <2>7 DEF LeftBehind
  <2>11. ASSUME ~threw PROVE Landing' /\ TargetComes'
    <3>1. Landing'
      BY <1>1, <1>2, <1>3, <2>1, <2>4, <2>5, <2>7, <2>11
      DEF Landing, Cur, PageOf, PageShown, WillBeShown, NoPage, NoSeeker, BringsPage
    <3>2. \A call \in Range(listeners) : ~LastCall(call)
      BY <1>2, <1>4, <2>3, <2>11 DEF TargetComes
    <3>3. \A job \in Range(Flow') : ~(Seeks(job) /\ LastCall(job))
      BY <1>2, <1>3, <2>3, <2>4, <2>5, <2>11 DEF TargetComes, PageShown
    <3>4. TargetComes'
      BY <1>1, <2>7, <3>2, <3>3 DEF TargetComes
    <3> QED
      BY <3>1, <3>4
  <2> QED
    BY <1>1, <2>4, <2>8, <2>9, <2>11, <2>12 DEF Flows
<1> QED
  BY <1>5, <1>6

LEMMA RunRealFlows ==
  ASSUME ListIInv, Flows, RunReal, ~misled'
  PROVE  Flows'
<1>1. UNCHANGED <<filter, style, valid, results, offsets, shown, orphans, buttons, held,
                  announced, acts, failures, tangled, threw>>
  BY DEF RunReal, queryVars
<1>2. /\ OneOfEach /\ PageThenJump /\ OfThisQuery /\ LeftBehind
      /\ ~threw => Landing /\ TargetComes
      /\ jobs # <<>> /\ Head(jobs).kind = "real"
  BY DEF Flows, RunReal, NextJob
<1> DEFINE h == Head(jobs)
<1>3. /\ waiting \in Seq(JobType) /\ Range(waiting) \subseteq MayWait
      /\ Single(waiting, Pages) /\ Single(waiting, Seekers)
      /\ Tail(jobs) = <<>>
      /\ h \in JobType /\ Range(jobs) = {h} /\ Range(Flow) = {h} \cup Range(waiting)
      /\ BringsPage(h) => \A job \in Range(waiting) : ~BringsPage(job)
      /\ Seeks(h) => \A job \in Range(waiting) : ~Seeks(job)
  BY <1>2, FlowIs
<1>4. h.kind = "real" /\ h \in Range(Flow)
  BY <1>2, <1>3
<1>5. CASE Late(h)
  <2>1. jobs' = <<>> /\ UNCHANGED <<waiting, listeners, complete, inProgress>> /\ ~h.fresh
    BY <1>3, <1>5 DEF RunReal, Late
  <2>2. ~BringsPage(h) /\ ~Seeks(h) /\ ~Lands(h)
    BY <1>4, <2>1 DEF BringsPage, Seeks, Lands
  <2> QED
    BY <1>1, <1>2, <2>1, <2>2, OutdatedGone
<1>6. CASE ~Late(h)
  <2>1. /\ h.fresh /\ BringsPage(h) /\ ~Seeks(h) /\ ~Lands(h)
        /\ NoneHeld /\ offsets = NoWindow /\ h.got = Cur
        /\ \A job \in Range(waiting) : ~Lands(job)
    BY <1>2, <1>3, <1>4, <1>6
    DEF Late, BringsPage, Seeks, Lands, OneOfEach, NoPage, OfThisQuery, PageThenJump
  <2>6. /\ NoneHeld' /\ \A x \in Range(held') : ~x.fresh
        /\ (\A x \in Range(jobs') : x.kind # "append") => LeftBehind'
    BY <1>1, <1>2, <1>4, <2>1, LeftDestroyed DEF NoneHeld
  <2>2. ~threw => /\ shown = <<>>
                  /\ \A call \in Range(listeners) : ~LastCall(call)
                  /\ \A job \in Range(waiting) : Seeks(job) => ~LastCall(job)
    BY <1>2, <1>3, <1>4, <2>1 DEF Landing, TargetComes, PageShown
  <2>3. CASE /\ ~inProgress /\ complete' = TRUE /\ inProgress' = TRUE
             /\ Find(3, TRUE, <<>>, TRUE)
    <3> DEFINE find == [Job("find", NoWindow, 3) EXCEPT !.fresh = TRUE]
    <3>1. /\ find \in JobType /\ find.kind = "find" /\ find.fresh /\ find.asked = NoIds
          /\ find.budget = 3
      BY FreshCallIs
    <3>2. Await(find, <<>>, waiting, filter, style, valid) /\ listeners' = listeners
      BY <2>3 DEF Find
    <3> HIDE DEF find
    <3>3. listeners = <<>> /\ NoSeeker /\ \A job \in Range(waiting) : ~Seeks(job)
      BY <1>2, <1>3, <2>3 DEF OneOfEach, NoSeeker
    <3>4. ~BringsPage(find)
      BY <3>1 DEF BringsPage
    <3>5. PICK j \in JobType :
             /\ j.kind = "find" /\ j.fresh /\ j.budget = 3
             /\ LastCounts(jobs') /\ Range(Flow') = {j} \cup Range(waiting)
             /\ Range(jobs') \subseteq {j}
             /\ Single(Flow', Pages) /\ Single(Flow', Seekers)
             /\ OfThisQuery'
      BY <1>1, <1>2, <2>1, <2>6, <3>1, <3>2, <3>3, <3>4, PutNow
    <3>6. ~BringsPage(j) /\ Seeks(j) /\ Lands(j)
      BY <3>5 DEF BringsPage, Seeks, Lands
    <3>7. OneOfEach'
      BY <1>1, <1>2, <1>3, <2>1, <2>3, <2>6, <3>2, <3>3, <3>5, <3>6
      DEF OneOfEach, NoPage, NoSeeker
    <3>8. PageThenJump'
      BY <1>1, <1>2, <1>3, <2>1, <2>6, <3>2, <3>3, <3>5, <3>6 DEF PageThenJump, NoPage, NoSeeker, BringsPage
    <3>9. ASSUME ~threw PROVE Landing' /\ TargetComes'
      <4>1. ~NoSeeker' /\ complete' /\ listeners' = <<>>
        BY <2>3, <3>2, <3>3, <3>5, <3>6 DEF NoSeeker
      <4>2. Landing'
        BY <1>1, <1>2, <1>3, <1>4, <2>1, <2>2, <2>6, <3>5, <3>9, <4>1
        DEF Landing, WillBeShown, Cur, BringsPage
      <4>3. TargetComes'
        <5>1. \A job \in Range(Flow') : ~(Seeks(job) /\ LastCall(job))
          BY <3>3, <3>5 DEF LastCall
        <5> QED
          BY <2>6, <4>1, <5>1, NoCalls DEF TargetComes
      <4> QED
        BY <4>2, <4>3
    <3>10. LeftBehind'
      BY <2>6, <3>5
    <3> QED
      BY <1>1, <3>5, <3>7, <3>8, <3>9, <3>10 DEF Flows
  <2>4. CASE ShowMessages(FirstPage, <<>>) /\ UNCHANGED <<inProgress, listeners>>
    <3> DEFINE show == Job("show", FirstPage, 0)
    <3>1. /\ show \in JobType /\ show.kind = "show" /\ show.fresh /\ show.asked = NoIds
          /\ Fits(show.window)
      BY JobIs, FirstPageFits DEF Job, ListIInv
    <3>2. Await(show, <<>>, waiting, filter, style, valid) /\ complete' = FALSE
      BY <2>4 DEF ShowMessages
    <3> HIDE DEF show
    <3>3. ~Seeks(show)
      BY <3>1 DEF Seeks
    <3>4. PICK j \in JobType :
             /\ j.kind = "show" /\ j.fresh
             /\ LastCounts(jobs') /\ Range(Flow') = {j} \cup Range(waiting)
             /\ Range(jobs') \subseteq {j}
             /\ Single(Flow', Pages) /\ Single(Flow', Seekers)
             /\ OfThisQuery'
      BY <1>1, <1>2, <1>3, <2>1, <2>6, <3>1, <3>2, <3>3, PutNow
    <3>5. BringsPage(j) /\ ~Seeks(j) /\ ~Lands(j)
      BY <3>4 DEF BringsPage, Seeks, Lands
    <3>6. OneOfEach'
      BY <1>1, <1>2, <1>3, <2>1, <2>4, <2>6, <3>4, <3>5 DEF OneOfEach, NoPage, NoSeeker
    <3>7. PageThenJump'
      BY <1>1, <1>2, <1>3, <2>1, <2>6, <3>2, <3>4, <3>5 DEF PageThenJump, NoPage, NoSeeker
    <3>8. ASSUME ~threw PROVE Landing' /\ TargetComes'
      <4>1. ~NoPage' /\ (NoSeeker' <=> NoSeeker)
        BY <1>3, <2>1, <3>4, <3>5 DEF NoPage, NoSeeker
      <4>2. Landing'
        BY <1>1, <1>2, <1>3, <1>4, <2>1, <2>2, <2>4, <2>6, <3>4, <3>8, <4>1
        DEF Landing, WillBeShown, Cur, BringsPage
      <4>3. TargetComes'
        BY <1>1, <2>1, <2>2, <2>4, <2>6, <3>4, <3>5, <3>8 DEF TargetComes, LastCall
      <4> QED
        BY <4>2, <4>3
    <3>9. LeftBehind'
      BY <2>6, <3>4
    <3> QED
      BY <1>1, <3>4, <3>6, <3>7, <3>8, <3>9 DEF Flows
  <2>5. CASE /\ inProgress \/ offsets # NoWindow
             /\ TriggerComplete(<<>>) /\ UNCHANGED <<inProgress, waiting, misled>>
    <3>1. /\ complete' = TRUE /\ listeners' = <<>>
          /\ \A call \in Range(listeners) : call \in JobType /\ call.kind = "ask"
          /\ LastCounts(jobs') /\ Range(Flow') = Range(listeners) \cup Range(waiting)
          /\ Range(jobs') \subseteq Range(listeners)
          /\ Single(Flow', Pages) /\ Single(Flow', Seekers)
          /\ OfThisQuery'
      BY <1>1, <1>2, <2>5, CompleteNow
    <3>2. \A call \in Range(listeners) : Seeks(call) /\ ~BringsPage(call)
      BY <3>1 DEF Seeks, BringsPage
    <3>3. inProgress /\ inProgress'
      BY <2>1, <2>5
    <3>4. listeners # <<>> => \E call \in Range(listeners) : Seeks(call)
      <4>1. listeners \in Seq(MayListen)
        BY DEF ListIInv, QueuesKept
      <4>2. listeners # <<>> => 1 \in DOMAIN listeners
        BY <4>1, EmptySeq
      <4> QED
        BY <3>2, <4>2 DEF Range
    <3>5. NoPage'
      BY <1>3, <2>1, <3>1, <3>2 DEF NoPage
    <3>6. OneOfEach'
      BY <1>1, <1>2, <2>1, <2>6, <3>1, <3>3 DEF OneOfEach
    <3>7. PageThenJump'
      BY <1>1, <2>1, <2>6, <3>1, <3>5 DEF PageThenJump, NoPage, BringsPage
    <3>8. ASSUME ~threw PROVE Landing' /\ TargetComes'
      <4>1. ~NoSeeker'
        BY <1>2, <1>3, <2>1, <3>1, <3>3, <3>4, <3>8 DEF Landing, NoSeeker
      <4>2. Landing'
        BY <1>1, <1>2, <1>3, <1>4, <2>1, <2>2, <2>6, <3>1, <3>5, <3>8, <4>1
        DEF Landing, WillBeShown, Cur, NoPage, BringsPage
      <4>3. TargetComes'
        <5>1. \A job \in Range(Flow') : ~(Seeks(job) /\ LastCall(job))
          BY <2>2, <3>1, <3>8
        <5> QED
          BY <2>6, <3>1, <5>1, NoCalls DEF TargetComes
      <4> QED
        BY <4>2, <4>3
    <3>9. LeftBehind'
      BY <2>6, <3>1
    <3> QED
      BY <1>1, <3>1, <3>6, <3>7, <3>8, <3>9 DEF Flows
  <2> QED
    BY <1>3, <1>6, <2>3, <2>4, <2>5 DEF RunReal
<1> QED
  BY <1>5, <1>6

LEMMA RunShowFlows ==
  ASSUME ListIInv, Flows, RunShow, ~tangled', ~misled'
  PROVE  Flows'
<1>1. /\ Head(jobs).fresh
      /\ UNCHANGED <<filter, style, valid, results, orphans, buttons, complete,
                     inProgress, waiting, listeners, announced, acts, failures>>
  BY DEF RunShow, queryVars
<1>2. /\ OneOfEach /\ PageThenJump /\ OfThisQuery /\ LeftBehind
      /\ ~threw => Landing /\ TargetComes
      /\ jobs # <<>> /\ Head(jobs).kind = "show" /\ TypeOK
  BY DEF Flows, RunShow, NextJob, ListIInv
<1> DEFINE h == Head(jobs)
           window == PageOf(h.window)
<1>3. /\ waiting \in Seq(JobType) /\ Range(waiting) \subseteq MayWait
      /\ Single(waiting, Pages) /\ Single(waiting, Seekers)
      /\ Tail(jobs) = <<>> /\ Destroyed(Tail(jobs)) = <<>>
      /\ h \in JobType /\ Range(jobs) = {h} /\ Range(Flow) = {h} \cup Range(waiting)
      /\ BringsPage(h) => \A job \in Range(waiting) : ~BringsPage(job)
  BY <1>2, FlowIs
<1>4. h.kind = "show" /\ h \in Range(Flow) /\ h \in Range(jobs)
  BY <1>2, <1>3
<1>5. /\ BringsPage(h) /\ ~Seeks(h) /\ ~Lands(h) /\ h.fresh
      /\ h.got = Cur /\ h.got.of = filter /\ Fits(h.window) /\ h.window \in Window
  <2>1. BringsPage(h) /\ ~Seeks(h) /\ ~Lands(h) /\ h.window \in Window
    BY <1>1, <1>3, <1>4 DEF BringsPage, Seeks, Lands, JobType
  <2>2. h.fresh /\ Fits(h.window)
    BY <1>1, <1>2, <1>4 DEF OfThisQuery
  <2>3. h.got = Cur
    BY <1>2, <1>4, <2>2 DEF OfThisQuery
  <2> QED
    BY <2>1, <2>2, <2>3 DEF Cur, Ids
<1>6. /\ NoneHeld /\ ~(complete /\ inProgress)
      /\ \A job \in Range(waiting) : ~BringsPage(job) /\ ~Lands(job)
      /\ \A job \in Range(waiting) : job.kind # "ask" /\ job.kind # "append"
      /\ \A job \in Range(held) : ~job.fresh /\ ~job.block.fresh /\ ~job.block.live
  <2>1. /\ NoneHeld /\ ~(complete /\ inProgress)
        /\ \A job \in Range(waiting) : ~BringsPage(job) /\ ~Lands(job)
        /\ \A job \in Range(waiting) : job.kind # "ask" /\ job.kind # "append"
    BY <1>2, <1>3, <1>4, <1>5 DEF OneOfEach, PageThenJump, NoPage, MayWait
  <2>2. \A job \in Range(held) : ~job.fresh /\ ~job.block.fresh /\ ~job.block.live
    BY <1>2, <1>4, <1>5, <2>1, HeldIs DEF NoneHeld, LeftBehind
  <2> QED
    BY <2>1, <2>2
<1>7. \A job \in Range(waiting) : ~(Seeks(job) /\ LastCall(job))
  BY <1>6 DEF Lands, Seeks, LastCall
<1>8. CASE ~CanDisplay(ListingOf[filter], h.window, Threaded(style))
  <2>1. /\ jobs' = <<>> /\ threw' = TRUE
        /\ UNCHANGED <<held, offsets, shown>>
    BY <1>3, <1>5, <1>8 DEF RunShow
  <2>2. OneOfEach' /\ PageThenJump' /\ OfThisQuery' /\ LeftBehind'
    BY <1>1, <1>2, <2>1, DroppedKeeps
  <2> QED
    BY <2>1, <2>2 DEF Flows
<1>9. CASE CanDisplay(ListingOf[filter], h.window, Threaded(style))
  <2>1. /\ window \in Window /\ window # NoWindow /\ Fits(window)
        /\ window.end <= ListingOf[filter].n
        /\ Displayed(ListingOf[filter], PageOf(window))
              = Displayed(ListingOf[filter], window)
    BY <1>2, <1>5, <1>9, PageOfFits
  <2> DEFINE block == [Block(h.got, window) EXCEPT !.fresh = h.fresh]
             next  == [h EXCEPT !.kind = "append", !.block = block]
  <2>2. /\ offsets' = window /\ shown' = <<>> /\ threw' = threw
        /\ \/ jobs' = <<>> /\ announced = "failed" /\ held' = held
           \/ jobs' = <<>> /\ held' = Append(Destroyed(held), next)
           \/ jobs' = <<next>> /\ held' = Destroyed(held)
    <3> HIDE DEF next
    <3>1. Append(<<>>, next) = <<next>>
      OBVIOUS
    <3> USE DEF next
    <3> QED
      BY <1>3, <1>5, <1>9, <3>1 DEF RunShow, PageOf
  <2>3. /\ next.kind = "append" /\ next.fresh /\ next.got = Cur
        /\ next.block.live /\ next.block.ids = Cur /\ next.block.window = window
    BY <1>3, <1>5 DEF Block, JobType
  <2>4. next \in JobType
    <3>3. block \in BlockType
      BY <1>3, <2>1 DEF Block, BlockType, JobType
    <3> HIDE DEF block
    <3> QED
      BY <1>3, <3>3 DEF JobType
  <2> HIDE DEF window, block, next
  <2>5. ~Seeks(next) /\ ~Lands(next) /\ BringsPage(next)
    BY <2>3 DEF Seeks, Lands, BringsPage
  <2>6. PICK N \in SUBSET {next} :
           /\ LastCounts(jobs') /\ Range(Flow') = N \cup Range(waiting)
           /\ Range(jobs') \subseteq N /\ Range(waiting') = Range(waiting)
           /\ Single(Flow', Pages) /\ Single(Flow', Seekers)
           /\ N = {} => jobs' = <<>>
           /\ N # {} => jobs' = <<next>>
    <3>1. CASE jobs' = <<>>
      <4>1. /\ LastCounts(jobs') /\ Range(Flow') = Range(waiting) /\ Range(jobs') = {}
            /\ Range(waiting') = Range(waiting)
            /\ Single(Flow', Pages) /\ Single(Flow', Seekers)
        BY <1>1, <1>3, <3>1, NoneLeft
      <4>2. {} \in SUBSET {next}
        OBVIOUS
      <4> QED
        BY <3>1, <4>1, <4>2
    <3>2. CASE jobs' = <<next>>
      <4>1. Leaves({next}, waiting)
        BY <1>1, <3>2 DEF Leaves
      <4>2. /\ LastCounts(jobs') /\ Range(Flow') = {next} \cup Range(waiting)
            /\ Range(jobs') \subseteq {next}
            /\ Single(Flow', Pages) /\ Single(Flow', Seekers)
        BY <1>3, <1>6, <2>4, <2>5, <4>1, OneLeft
      <4>3. {next} \in SUBSET {next} /\ {next} # {} /\ Range(waiting') = Range(waiting)
        BY <1>1
      <4> QED
        BY <3>2, <4>2, <4>3
    <3> QED
      BY <2>2, <3>1, <3>2
  <2>7. /\ LastCounts(held')
        /\ \A job \in Range(held') :
              job = next \/ (~job.fresh /\ ~job.block.fresh /\ ~job.block.live)
        /\ N # {} => NoneHeld'
        /\ N = {} => announced = "failed" \/ ~NoneHeld'
    <3>1. /\ Destroyed(held) \in Seq(JobType)
          /\ \A job \in Range(Destroyed(held)) :
                ~job.fresh /\ ~job.block.fresh /\ ~job.block.live
          /\ \A job \in Range(Destroyed(held)) : Superseded(job)
      BY <1>6, HeldIs
    <3>2. CASE jobs' = <<>> /\ announced = "failed" /\ held' = held
      <4>1. N = {}
        BY <2>6, <3>2
      <4> QED
        BY <1>2, <1>6, <3>2, <4>1 DEF OneOfEach
    <3>3. CASE jobs' = <<>> /\ held' = Append(Destroyed(held), next)
      <4>1. /\ Range(held') = Range(Destroyed(held)) \cup {next}
            /\ LastCounts(held')
        BY <2>4, <3>1, <3>3, HeldWith
      <4>2. N = {} /\ ~NoneHeld'
        BY <2>3, <2>6, <3>3, <4>1 DEF NoneHeld
      <4> QED
        BY <3>1, <4>1, <4>2
    <3>4. CASE jobs' = <<next>> /\ held' = Destroyed(held)
      <4>1. N # {}
        BY <2>6, <3>4
      <4>2. LastCounts(held')
        BY <1>2, <3>4, HeldIs DEF OneOfEach
      <4> QED
        BY <3>1, <3>4, <4>1, <4>2 DEF NoneHeld
    <3> QED
      BY <2>2, <3>2, <3>3, <3>4
  <2>8. OneOfEach'
    BY <1>1, <1>2, <1>3, <1>5, <1>6, <2>5, <2>6, <2>7
    DEF OneOfEach, NoPage, NoSeeker
  <2>9. PageThenJump'
    BY <1>1, <1>2, <1>3, <1>5, <1>6, <2>3, <2>5, <2>6, <2>7
    DEF PageThenJump, NoPage, NoSeeker
  <2>10. OfThisQuery'
    <3>1. Cur' = Cur /\ Fits(offsets)' /\ offsets'.end <= ListingOf[filter'].n
      BY <1>1, <2>1, <2>2 DEF Cur, Fits
    <3>2. \A job \in Range(waiting') :
             job.fresh => job.asked = Cur' \/ (job.asked = NoIds /\ job.got = Cur')
      BY <1>1, <1>2, <2>6, <3>1 DEF OfThisQuery
    <3>3. /\ \A job \in Range(jobs') : job.fresh /\ job.kind # "ask" => job.got = Cur'
          /\ \A job \in Range(held') : job.fresh => job.got = Cur'
      BY <2>3, <2>6, <2>7, <3>1
    <3>4. \A job \in Range(Flow') :
             job.fresh => job.kind \notin {"show", "rendered", "real"}
      BY <1>6, <2>3, <2>6 DEF BringsPage
    <3> QED
      BY <3>1, <3>2, <3>3, <3>4 DEF OfThisQuery
  <2>11. ASSUME ~threw PROVE Landing' /\ TargetComes'
    <3>1. announced # "failed" /\ (NoSeeker' <=> NoSeeker)
      BY <1>2, <1>3, <1>5, <2>5, <2>6, <2>11 DEF Landing, NoSeeker
    <3>2. ~(NoPage' /\ NoneHeld')
      BY <2>5, <2>6, <2>7, <3>1 DEF NoPage
    <3>3. \A shows : shows = next.block => WillBeShown(shows)'
      <4>1. Cur' = Cur
        BY <1>1 DEF Cur
      <4>2. offsets' # NoWindow /\ shown' = <<>>
        BY <2>1, <2>2
      <4> QED
        BY <2>2, <2>3, <4>1, <4>2 DEF WillBeShown
    <3>4. Displayed(ListingOf[filter], PageOf(offsets))'
             = Displayed(ListingOf[filter], offsets)'
      BY <1>1, <2>1, <2>2 DEF PageOf
    <3>5. Landing'
      <4>1. ASSUME NEW job \in Range(Flow')
            PROVE  /\ ~(job.kind = "real" /\ job.fresh)
                   /\ job.fresh /\ job.kind = "append" => WillBeShown(job.block)'
        <5>1. CASE job = next
          BY <2>3, <3>3, <5>1
        <5>2. CASE job \in Range(waiting)
          BY <1>6, <5>2 DEF BringsPage
        <5> QED
          BY <2>6, <5>1, <5>2
      <4>2. ASSUME NEW job \in Range(held'), job.fresh PROVE WillBeShown(job.block)'
        <5>1. job = next
          BY <2>7, <4>2
        <5> QED
          BY <3>3, <5>1
      <4> QED
        BY <1>1, <1>2, <2>11, <3>1, <3>2, <3>4, <4>1, <4>2 DEF Landing
    <3>6. TargetComes'
      <4>1. \A call \in Range(listeners) : LastCall(call) => Covers(offsets)'
        BY <1>1, <1>2, <1>4, <1>5, <2>2, <2>11 DEF TargetComes, Covers, Cur, window
      <4>2. \A job \in Range(Flow') : ~(Seeks(job) /\ LastCall(job))
        BY <1>7, <2>5, <2>6
      <4>3. \A job \in Range(Flow') : BringsPage(job) => job.kind = "append"
        BY <1>6, <2>3, <2>6
      <4> QED
        BY <1>1, <4>1, <4>2, <4>3 DEF TargetComes
    <3> QED
      BY <3>5, <3>6
  <2>12. LeftBehind'
    BY <2>3, <2>6, <2>7 DEF LeftBehind
  <2> QED
    BY <2>2, <2>8, <2>9, <2>10, <2>11, <2>12 DEF Flows
<1> QED
  BY <1>8, <1>9

LEMMA RunAllFlows ==
  ASSUME ListIInv, Flows, RunAll, ~tangled', ~misled'
  PROVE  Flows'
<1>1. /\ Head(jobs).fresh
      /\ UNCHANGED <<filter, style, valid, results, offsets, shown, orphans, buttons,
                     inProgress, held, listeners, announced, acts, failures, threw>>
  BY DEF RunAll, queryVars, viewVars
<1>2. /\ OneOfEach /\ PageThenJump /\ OfThisQuery /\ LeftBehind
      /\ ~threw => Landing /\ TargetComes
      /\ jobs # <<>> /\ Head(jobs).kind = "all" /\ TypeOK
  BY DEF Flows, RunAll, NextJob, ListIInv
<1> DEFINE h == Head(jobs)
           request == AllAtOnce(ListingOf[h.got.of])
           show == Job("show", request, 0)
<1>3. /\ waiting \in Seq(JobType) /\ Range(waiting) \subseteq MayWait
      /\ Single(waiting, Pages) /\ Single(waiting, Seekers)
      /\ Tail(jobs) = <<>>
      /\ h \in JobType /\ Range(jobs) = {h} /\ Range(Flow) = {h} \cup Range(waiting)
      /\ BringsPage(h) => \A job \in Range(waiting) : ~BringsPage(job)
  BY <1>2, FlowIs
<1>4. h.kind = "all" /\ h \in Range(Flow) /\ h \in Range(jobs)
  BY <1>2, <1>3
<1>5. /\ BringsPage(h) /\ ~Seeks(h) /\ ~Lands(h) /\ h.fresh
      /\ h.got = Cur /\ h.got.of = filter
  <2>1. BringsPage(h) /\ ~Seeks(h) /\ ~Lands(h)
    BY <1>1, <1>4 DEF BringsPage, Seeks, Lands
  <2>2. h.got = Cur
    BY <1>1, <1>2, <1>4 DEF OfThisQuery
  <2> QED
    BY <1>1, <2>1, <2>2 DEF Cur, Ids
<1>6. NoneHeld /\ NoSeeker /\ \A job \in Range(waiting) : ~BringsPage(job) /\ ~Seeks(job)
  BY <1>2, <1>3, <1>4, <1>5 DEF OneOfEach, PageThenJump, NoPage, NoSeeker
<1>7. /\ show \in JobType /\ show.kind = "show" /\ show.fresh /\ show.asked = NoIds
      /\ Fits(show.window)
  <2>1. IsListing(ListingOf[filter])
    BY <1>2, ListingAssumption DEF TypeOK
  <2>2. request \in Window /\ Fits(request)
    BY <1>5, <2>1 DEF AllAtOnce, Window, Fits, IsListing
  <2> HIDE DEF request
  <2> QED
    BY <2>2, JobIs DEF Job
<1>8. complete' = FALSE /\ Await(show, <<>>, waiting, filter, style, valid)
  BY <1>3 DEF RunAll, ShowMessages
<1>16. \A x \in Range(held') : ~x.fresh
  BY <1>1, <1>6 DEF NoneHeld
<1>17. h.fresh => Head(jobs).got = Cur
  BY <1>5
<1> HIDE DEF h, request, show
<1>9. ~Seeks(show)
  BY <1>7 DEF Seeks
<1>10. PICK j \in JobType :
          /\ j.kind = "show" /\ j.fresh
          /\ LastCounts(jobs') /\ Range(Flow') = {j} \cup Range(waiting)
          /\ Range(jobs') \subseteq {j}
          /\ Single(Flow', Pages) /\ Single(Flow', Seekers)
          /\ OfThisQuery'
  BY <1>1, <1>2, <1>5, <1>6, <1>7, <1>8, <1>9, <1>16, <1>17, PutNow
<1>11. BringsPage(j) /\ ~Seeks(j) /\ ~Lands(j)
  BY <1>10 DEF BringsPage, Seeks, Lands
<1>12. NoSeeker' /\ ~NoPage'
  BY <1>6, <1>10, <1>11 DEF NoSeeker, NoPage
<1>13. OneOfEach'
  BY <1>1, <1>2, <1>6, <1>10, <1>12 DEF OneOfEach, NoneHeld
<1>14. PageThenJump'
  BY <1>1, <1>6, <1>8, <1>10, <1>11, <1>12 DEF PageThenJump, Lands, NoSeeker, Seeks, NoneHeld
<1>15. ASSUME ~threw PROVE Landing' /\ TargetComes'
  <2>1. Landing'
    BY <1>1, <1>2, <1>3, <1>5, <1>6, <1>10, <1>11, <1>12, <1>15, <1>16
    DEF Landing, Cur, PageOf, PageShown, WillBeShown, BringsPage
  <2>2. \A call \in Range(listeners) : ~LastCall(call)
    BY <1>2, <1>4, <1>5, <1>15 DEF TargetComes
  <2>3. TargetComes'
    BY <1>1, <1>12, <1>16, <2>2 DEF TargetComes, NoSeeker, NoneHeld
  <2> QED
    BY <2>1, <2>3
<1>18. LeftBehind'
  <2>1. \A job \in Range(jobs') : job.kind # "append"
    BY <1>10
  <2> QED
    BY <1>1, <1>2, <1>4, <1>5, <2>1, LeftDestroyed
<1> QED
  BY <1>1, <1>10, <1>13, <1>14, <1>15, <1>18 DEF Flows

\* The page of the present render is displayed.
LEMMA PageAppended ==
  ASSUME ListIInv, Flows, RunAppend, ~misled', Head(jobs).fresh
  PROVE  Flows'
<1>1. UNCHANGED <<filter, style, valid, results, offsets, inProgress, waiting,
                  held, announced, acts, failures, threw>>
  BY DEF RunAppend, queryVars
<1>2. /\ OneOfEach /\ PageThenJump /\ OfThisQuery /\ LeftBehind
      /\ ~threw => Landing /\ TargetComes
      /\ jobs # <<>> /\ Head(jobs).kind = "append" /\ TypeOK
  BY DEF Flows, RunAppend, NextJob, ListIInv
<1> DEFINE h == Head(jobs)
<1>3. /\ waiting \in Seq(JobType) /\ Range(waiting) \subseteq MayWait
      /\ Tail(jobs) = <<>>
      /\ h \in JobType /\ Range(jobs) = {h} /\ Range(Flow) = {h} \cup Range(waiting)
      /\ BringsPage(h) => \A job \in Range(waiting) : ~BringsPage(job)
  BY <1>2, FlowIs
<1>4. h.kind = "append" /\ h.fresh /\ h \in Range(Flow)
  BY <1>2, <1>3
<1>5. BringsPage(h) /\ ~Seeks(h) /\ ~Lands(h)
  BY <1>4 DEF BringsPage, Seeks, Lands
<1>6. NoneHeld
  BY <1>2, <1>4, <1>5 DEF OneOfEach, NoPage
<1>7. /\ complete' = TRUE /\ listeners' = <<>>
      /\ \A call \in Range(listeners) : call \in JobType /\ call.kind = "ask"
      /\ LastCounts(jobs') /\ Range(Flow') = Range(listeners) \cup Range(waiting)
      /\ Range(jobs') \subseteq Range(listeners)
      /\ Single(Flow', Pages) /\ Single(Flow', Seekers)
      /\ OfThisQuery'
  <2>1. TriggerComplete(<<>>)
    BY <1>3 DEF RunAppend
  <2> QED
    BY <1>1, <1>2, <2>1, CompleteNow
<1>8. /\ \A call \in Range(listeners) : Seeks(call) /\ ~BringsPage(call)
      /\ listeners = <<>> => Range(listeners) = {}
  BY <1>7 DEF Seeks, BringsPage, Range
<1>9. NoneHeld' /\ \A job \in Range(held') : ~job.fresh
  BY <1>1, <1>6 DEF NoneHeld
<1>10. LeftBehind'
  <2> HIDE DEF h
  <2>1. \A job \in Range(jobs') : job.kind # "append"
    BY <1>7
  <2> QED
    BY <1>1, <1>2, <1>4, <2>1, LeftDestroyed
<1>11. \A job \in Range(waiting) : ~BringsPage(job) /\ ~Lands(job)
  BY <1>2, <1>3, <1>4, <1>5 DEF PageThenJump, NoPage
<1>12. NoPage'
  BY <1>7, <1>8, <1>11 DEF NoPage
<1>13. OneOfEach'
  BY <1>1, <1>2, <1>3, <1>7, <1>8, <1>9 DEF OneOfEach, NoSeeker
<1>14. PageThenJump'
  <2>1. \A job \in Range(Flow') : job.fresh => job.kind # "all"
    BY <1>12 DEF NoPage, BringsPage
  <2> QED
    BY <1>1, <1>7, <1>9, <1>12, <2>1 DEF PageThenJump, NoPage
<1>15. ASSUME ~threw PROVE Landing' /\ TargetComes'
  <2>1. /\ WillBeShown(h.block) /\ announced # "failed"
        /\ \A i \in DOMAIN orphans : ~orphans[i].fresh
        /\ (inProgress => ~NoSeeker \/ listeners # <<>>)
    BY <1>2, <1>4, <1>15 DEF Landing
  <2>2. shown' = <<h.block>> /\ orphans' = orphans
    BY <2>1 DEF RunAppend, WillBeShown
  <2>3. h.block.ids = Cur /\ h.block.window = offsets /\ offsets # NoWindow
    BY <2>1 DEF WillBeShown
  <2> HIDE DEF h
  <2>4. Len(shown') = 1 /\ shown'[1] = h.block
    BY <2>2
  <2>5. PageShown'
    BY <1>1, <2>3, <2>4 DEF PageShown, Cur
  <2>6. listeners # <<>> => \E call \in Range(listeners) : Seeks(call)
    <3>1. listeners \in Seq(MayListen)
      BY DEF ListIInv, QueuesKept
    <3>2. listeners # <<>> => 1 \in DOMAIN listeners
      BY <3>1, EmptySeq
    <3> QED
      BY <1>8, <3>2 DEF Range
  <2>7. inProgress' => ~NoSeeker'
    BY <1>1, <1>3, <1>5, <1>7, <2>1, <2>6 DEF NoSeeker
  <2>8. \A job \in Range(Flow') : job.fresh => job.kind \notin {"rendered", "real", "append"}
    BY <1>12 DEF NoPage, BringsPage
  <2>9. Landing'
    <3>1. offsets' # NoWindow
          => Displayed(ListingOf[filter'], PageOf(offsets)')
                = Displayed(ListingOf[filter'], offsets')
      BY <1>1, <1>2, <1>15 DEF Landing, PageOf
    <3> QED
      BY <1>1, <1>7, <1>9, <2>1, <2>2, <2>5, <2>7, <2>8, <3>1 DEF Landing
  <2>10. TargetComes'
    <3>1. \A job \in Range(waiting) : ~(Seeks(job) /\ LastCall(job))
      <4>1. \A job \in Range(waiting) : job.kind # "ask"
        BY <1>3 DEF MayWait
      <4> QED
        BY <1>11, <4>1 DEF Lands, Seeks, LastCall
    <3>2. \A call \in Range(listeners) : LastCall(call) => Covers(offsets)
      BY <1>2, <1>4, <1>5, <1>15 DEF TargetComes
    <3>3. Covers(offsets)' <=> Covers(offsets)
      BY <1>1 DEF Covers, Cur
    <3> QED
      BY <1>7, <2>5, <3>1, <3>2, <3>3, NoCalls DEF TargetComes
  <2> QED
    BY <2>9, <2>10
<1> QED
  BY <1>1, <1>7, <1>10, <1>13, <1>14, <1>15 DEF Flows

\* The page of an earlier render has come: it is displayed in the midst of a render
\* that will clear it away, or its views are destroyed and it is lost.
LEMMA OldPageAppended ==
  ASSUME ListIInv, Flows, RunAppend, ~tangled', ~misled', ~Head(jobs).fresh
  PROVE  Flows'
<1>1. /\ complete \/ ~inProgress
      /\ UNCHANGED <<filter, style, valid, results, offsets, inProgress, waiting,
                     held, announced, acts, failures, misled, threw>>
  BY DEF RunAppend, queryVars
<1>2. /\ OneOfEach /\ PageThenJump /\ OfThisQuery /\ LeftBehind
      /\ ~threw => Landing /\ TargetComes
      /\ jobs # <<>> /\ TypeOK
  BY DEF Flows, RunAppend, NextJob, ListIInv
<1> DEFINE h == Head(jobs)
<1>3. /\ waiting \in Seq(JobType) /\ Range(waiting) \subseteq MayWait
      /\ jobs \in Seq(JobType) /\ LastCounts(jobs)
  BY <1>2, FlowIs DEF OneOfEach
<1>4. h \in JobType /\ h.kind = "append" /\ ~h.fresh
  BY <1>2, <1>3 DEF RunAppend, NextJob
<1>5. ~BringsPage(h) /\ ~Seeks(h) /\ ~Lands(h)
  BY <1>4 DEF BringsPage, Seeks, Lands
<1>6. listeners = <<>>
  BY <1>1, <1>2 DEF OneOfEach, PageThenJump
<1>7. complete' = TRUE /\ listeners' = <<>> /\ jobs' = Tail(jobs)
  <2>1. Tail(jobs) \in Seq(JobType)
    BY <1>2, <1>3, LastIs
  <2>2. jobs' = listeners \o Tail(jobs) /\ complete' = TRUE /\ listeners' = <<>>
    BY DEF RunAppend, TriggerComplete
  <2> QED
    BY <1>6, <2>1, <2>2, ConcatEmptySeq
<1> HIDE DEF h
<1>8. /\ jobs' \in Seq(JobType) /\ LastCounts(jobs')
      /\ Range(jobs) = {h} \cup Range(jobs')
      /\ Range(Flow) = {h} \cup Range(Flow')
      /\ Single(Flow', Pages) /\ Single(Flow', Seekers)
  <2>1. /\ jobs' \in Seq(JobType) /\ LastCounts(jobs')
        /\ Range(jobs) = {h} \cup Range(jobs')
        /\ \A T : Single(jobs, T) => Single(jobs', T)
    BY <1>2, <1>3, <1>7, LastIs DEF h
  <2>2. Flow = jobs \o waiting /\ Flow' = jobs' \o waiting
    BY <1>1 DEF Flow
  <2>3. /\ Range(jobs \o waiting) = Range(jobs) \cup Range(waiting)
        /\ \A T : Single(jobs \o waiting, T) =>
              /\ Single(jobs, T) /\ Single(waiting, T)
              /\ \A x \in Range(jobs), y \in Range(waiting) : ~(x \in T /\ y \in T)
    BY <1>3, SingleParts
  <2>4. /\ Range(jobs' \o waiting) = Range(jobs') \cup Range(waiting)
        /\ \A T : /\ Single(jobs', T) /\ Single(waiting, T)
                  /\ \A x \in Range(jobs'), y \in Range(waiting) : ~(x \in T /\ y \in T)
                  => Single(jobs' \o waiting, T)
    BY <1>3, <2>1, SingleParts
  <2>5. \A T : Single(Flow, T) => Single(Flow', T)
    BY <2>1, <2>2, <2>3, <2>4
  <2> QED
    BY <1>2, <2>1, <2>2, <2>3, <2>4, <2>5 DEF OneOfEach
<1>9. /\ NoPage' <=> NoPage
      /\ NoSeeker' <=> NoSeeker
      /\ NoneHeld' <=> NoneHeld
  BY <1>1, <1>5, <1>8 DEF NoPage, NoSeeker, NoneHeld
<1>10. OneOfEach'
  BY <1>1, <1>2, <1>7, <1>8, <1>9 DEF OneOfEach
<1>11. PageThenJump'
  BY <1>1, <1>2, <1>7, <1>8, <1>9 DEF PageThenJump
<1>12. OfThisQuery'
  <2>1. Cur' = Cur /\ (\A window : Fits(window)' <=> Fits(window))
    BY <1>1 DEF Cur, Fits
  <2> QED
    BY <1>1, <1>2, <1>8, <2>1 DEF OfThisQuery
<1>13. LeftBehind'
  BY <1>1, <1>2, <1>4, <1>8, <1>9 DEF LeftBehind
<1>14. ASSUME ~threw PROVE Landing' /\ TargetComes'
  <2>1. Landing /\ TargetComes
    BY <1>2, <1>14
  <2>2. /\ announced' # "failed" /\ (inProgress' => ~NoSeeker')
        /\ offsets' # NoWindow
              => Displayed(ListingOf[filter'], PageOf(offsets)')
                    = Displayed(ListingOf[filter'], offsets')
    BY <1>1, <1>6, <1>9, <2>1 DEF Landing, PageOf
  <2>3. CASE h.block.live
    <3>1. /\ shown' = Append(shown, h.block) /\ orphans' = orphans
      BY <2>3 DEF RunAppend, h
    <3>2. /\ ~NoPage /\ NoneHeld
          /\ \A job \in Range(Flow') : job.fresh => job.kind \in {"rendered", "ask"}
      BY <1>2, <1>4, <1>8, <1>14, <2>3 DEF LeftBehind, OneOfEach
    <3>3. \A job \in Range(Flow') : ~Lands(job)
      BY <1>2, <1>8, <3>2 DEF PageThenJump
    <3>4. Landing'
      BY <1>1, <1>9, <2>1, <2>2, <3>1, <3>2 DEF Landing, NoneHeld
    <3>5. \A job \in Range(Flow') : ~(Seeks(job) /\ LastCall(job))
      BY <3>3 DEF Seeks, LastCall, Lands
    <3>6. TargetComes'
      BY <1>7, <3>5, NoCalls DEF TargetComes
    <3> QED
      BY <3>4, <3>6
  <2>4. CASE ~h.block.live
    <3>1. shown' = shown /\ orphans' = Append(orphans, h.block)
      BY <2>4 DEF RunAppend, h
    <3>2. (PageShown' <=> PageShown) /\ (Covers(offsets)' <=> Covers(offsets))
      BY <1>1, <3>1 DEF PageShown, Covers, Cur
    <3>3. \A block : WillBeShown(block)' <=> WillBeShown(block)
      BY <1>1, <3>1 DEF WillBeShown, Cur
    <3>4. \A i \in DOMAIN orphans' : ~orphans'[i].fresh
      <4>1. orphans \in Seq(BlockType) /\ \A i \in DOMAIN orphans : ~orphans[i].fresh
        BY <1>2, <2>1 DEF TypeOK, Landing
      <4>2. h.block \in BlockType /\ ~h.block.fresh
        BY <1>2, <1>4, <1>8 DEF JobType, LeftBehind
      <4>3. /\ DOMAIN orphans' = 1 .. Len(orphans) + 1 /\ Len(orphans) \in Nat
            /\ DOMAIN orphans = 1 .. Len(orphans)
            /\ orphans'[Len(orphans) + 1] = h.block
            /\ \A i \in 1 .. Len(orphans) : orphans'[i] = orphans[i]
        BY <3>1, <4>1, <4>2, LenProperties, AppendProperties
      <4> QED
        BY <4>1, <4>2, <4>3
    <3>5. Landing'
      <4>1. \A job \in Range(Flow') :
               /\ job.fresh /\ job.kind = "real" => shown' = <<>>
               /\ job.fresh /\ job.kind = "append" => WillBeShown(job.block)'
        BY <1>8, <2>1, <3>1, <3>3 DEF Landing
      <4>2. /\ \A job \in Range(held') : job.fresh => WillBeShown(job.block)'
            /\ NoPage' /\ NoneHeld'
                 => PageShown' \/ (offsets' = NoWindow /\ shown' = <<>> /\ ~NoSeeker')
        BY <1>1, <1>9, <2>1, <3>1, <3>2, <3>3 DEF Landing
      <4> QED
        BY <1>7, <2>2, <3>4, <4>1, <4>2 DEF Landing
    <3>6. TargetComes'
      BY <1>7, <1>8, <2>1, <3>2, NoCalls DEF TargetComes
    <3> QED
      BY <3>5, <3>6
  <2> QED
    BY <2>3, <2>4
<1> QED
  BY <1>1, <1>10, <1>11, <1>12, <1>13, <1>14 DEF Flows

LEMMA RunAppendFlows ==
  ASSUME ListIInv, Flows, RunAppend, ~tangled', ~misled'
  PROVE  Flows'
BY PageAppended, OldPageAppended

LEMMA RunAskFlows ==
  ASSUME ListIInv, Flows, RunAsk, ~misled'
  PROVE  Flows'
<1>1. UNCHANGED <<filter, style, valid, results, offsets, shown, orphans, buttons,
                  complete, inProgress, held, announced, acts, failures, threw>>
  BY DEF RunAsk, queryVars, viewVars
<1>2. /\ OneOfEach /\ PageThenJump /\ OfThisQuery /\ LeftBehind
      /\ ~threw => Landing /\ TargetComes
      /\ jobs # <<>> /\ Head(jobs).kind = "ask"
  BY DEF Flows, RunAsk, NextJob
<1> DEFINE h == Head(jobs)
           find == [Job("find", NoWindow, h.budget) EXCEPT !.fresh = h.fresh]
           ask  == [Job("ask", NoWindow, h.budget - 1) EXCEPT !.fresh = h.fresh]
<1>3. /\ h \in JobType /\ h \in Range(Flow) /\ Tail(jobs) = <<>>
  BY <1>2, FlowIs
<1>4. h.kind = "ask" /\ Seeks(h) /\ Lands(h) /\ h.fresh \in BOOLEAN /\ h.budget \in Int
  BY <1>2, <1>3 DEF Seeks, Lands, JobType
<1>5. /\ inProgress /\ listeners = <<>> /\ NoPage /\ NoneHeld
      /\ \A job \in Range(waiting) : ~Seeks(job)
  BY <1>2, <1>4, SeekerIsAlone
<1>6. Find(h.budget, h.fresh, <<>>, complete)
  BY <1>3 DEF RunAsk
<1>7. /\ find \in JobType /\ find.kind = "find" /\ find.asked = NoIds
      /\ find.fresh = h.fresh /\ find.budget = h.budget
      /\ ask \in JobType
  BY <1>4, CallIs
<1>8. CASE complete
  <2>1. Await(find, <<>>, waiting, filter, style, valid) /\ listeners' = listeners
    BY <1>6, <1>8 DEF Find
  <2>2. ~threw /\ LastCall(find) => PageShown /\ Covers(offsets)
    <3>1. LastCall(find) => LastCall(h)
      BY <1>7 DEF LastCall
    <3> QED
      BY <1>2, <1>3, <1>4, <3>1 DEF TargetComes
  <2> HIDE DEF find
  <2> QED
    BY <1>1, <1>2, <1>4, <1>5, <1>7, <1>8, <2>1, <2>2, CallGoesOn
<1>9. CASE ~complete
  <2>1. listeners' = <<ask>> /\ jobs' = <<>> /\ UNCHANGED waiting
    <3>1. listeners' = Append(<<>>, ask) /\ jobs' = <<>> /\ UNCHANGED waiting
      BY <1>5, <1>6, <1>9 DEF Find
    <3> HIDE DEF ask
    <3> QED
      BY <3>1
  <2> HIDE DEF ask
  <2> QED
    BY <1>1, <1>2, <1>4, <1>5, <1>7, <1>9, <2>1, CallIsLeft
<1> QED
  BY <1>8, <1>9

\* What is known where a handler of showMessageById is run.
LEMMA FindIs ==
  ASSUME ListIInv, OneOfEach, PageThenJump, OfThisQuery, jobs # <<>>, Head(jobs).kind = "find"
  PROVE  /\ Head(jobs) \in JobType /\ Head(jobs) \in Range(Flow) /\ Seeks(Head(jobs))
         /\ Tail(jobs) = <<>> /\ TypeOK
         /\ waiting \in Seq(JobType) /\ Range(Flow) = {Head(jobs)} \cup Range(waiting)
         /\ \A job \in Range(waiting) : ~Seeks(job)
         /\ inProgress /\ listeners = <<>>
         /\ Head(jobs).fresh => /\ Lands(Head(jobs)) /\ NoPage /\ NoneHeld
                                /\ Head(jobs).got = Cur
<1> DEFINE h == Head(jobs)
<1>1. /\ waiting \in Seq(JobType) /\ Tail(jobs) = <<>>
      /\ h \in JobType /\ Range(jobs) = {h} /\ Range(Flow) = {h} \cup Range(waiting)
      /\ Seeks(h) => \A job \in Range(waiting) : ~Seeks(job)
  BY FlowIs
<1>2. Seeks(h) /\ h.kind # "ask" /\ (h.fresh => Lands(h))
  BY DEF Seeks, Lands
<1> HIDE DEF h
<1>3. inProgress /\ listeners = <<>>
  BY <1>1, <1>2 DEF OneOfEach, NoSeeker
<1>4. h.fresh => Lands(h) /\ NoPage /\ NoneHeld
  BY <1>1, <1>2 DEF PageThenJump
<1>5. h.fresh => h.got = Cur
  BY <1>1, <1>2 DEF OfThisQuery
<1> QED
  BY <1>1, <1>2, <1>3, <1>4, <1>5 DEF h, ListIInv

LEMMA RestartFlows ==
  ASSUME ListIInv, Flows, ~misled',
         jobs # <<>>, Head(jobs).kind = "find", Restart(Head(jobs)),
         UNCHANGED <<announced, threw>>
  PROVE  Flows'
<1>0. /\ OneOfEach /\ PageThenJump /\ OfThisQuery /\ LeftBehind
      /\ ~threw => Landing /\ TargetComes
  BY DEF Flows
<1> DEFINE find == [Job("find", NoWindow, 3) EXCEPT !.fresh = TRUE]
           ask  == [Job("ask", NoWindow, 2) EXCEPT !.fresh = TRUE]
<1>1. /\ Seeks(Head(jobs)) /\ Tail(jobs) = <<>> /\ inProgress /\ listeners = <<>>
      /\ (complete => NoPage /\ NoneHeld)
      /\ \A job \in Range(waiting) : ~Seeks(job)
  BY <1>0, FindIs, SeekerIsAlone
<1>2. /\ inProgress' /\ Find(3, TRUE, <<>>, complete)
      /\ UNCHANGED <<filter, style, valid, results, complete, offsets, shown, orphans,
                     buttons, held>>
  BY <1>1 DEF Restart, queryVars
<1>3. /\ find \in JobType /\ find.kind = "find" /\ find.asked = NoIds /\ ~LastCall(find)
      /\ ask \in JobType /\ ~LastCall(ask)
  <2>1. 3 \in Int /\ 3 > 0 /\ 2 \in Int /\ 2 > 0
    OBVIOUS
  <2>2. find \in JobType /\ find.kind = "find" /\ find.asked = NoIds /\ ~LastCall(find)
    BY <2>1, FreshCallLasts
  <2>3. ask \in JobType /\ ~LastCall(ask)
    BY <2>1, FreshCallLasts
  <2> QED
    BY <2>2, <2>3
<1>4. CASE complete
  <2>1. Await(find, <<>>, waiting, filter, style, valid) /\ listeners' = listeners
    BY <1>2, <1>4 DEF Find
  <2> HIDE DEF find
  <2> QED
    BY <1>0, <1>1, <1>2, <1>3, <1>4, <2>1, CallGoesOn
<1>5. CASE ~complete
  <2>1. listeners' = <<ask>> /\ jobs' = <<>> /\ UNCHANGED waiting
    <3>1. listeners' = Append(<<>>, ask) /\ jobs' = <<>> /\ UNCHANGED waiting
      BY <1>1, <1>2, <1>5 DEF Find
    <3> HIDE DEF ask
    <3> QED
      BY <3>1
  <2> HIDE DEF ask
  <2> QED
    BY <1>0, <1>1, <1>2, <1>3, <1>5, <2>1, CallIsLeft
<1> QED
  BY <1>4, <1>5

LEMMA TurnPageFlows ==
  ASSUME ListIInv, Flows, ~misled',
         jobs # <<>>, Head(jobs).kind = "find", Head(jobs).fresh, HasTarget(Head(jobs).got),
         TurnPage(Head(jobs)), UNCHANGED <<announced, threw>>
  PROVE  Flows'
<1>0. /\ OneOfEach /\ PageThenJump /\ OfThisQuery /\ LeftBehind
      /\ ~threw => Landing /\ TargetComes
  BY DEF Flows
<1> DEFINE h == Head(jobs)
           request == RequestFor(offsets, TargetOffset(h.got, Threaded(style)))
           show == Job("show", request, 0)
           ask  == [Job("ask", NoWindow, 0) EXCEPT !.fresh = h.fresh]
<1>1. /\ h \in JobType /\ Seeks(h) /\ Tail(jobs) = <<>> /\ TypeOK
      /\ waiting \in Seq(JobType) /\ Range(Flow) = {h} \cup Range(waiting)
      /\ \A job \in Range(waiting) : ~Seeks(job)
      /\ inProgress /\ listeners = <<>>
      /\ Lands(h) /\ NoPage /\ NoneHeld /\ h.got = Cur
  BY <1>0, FindIs
<1>2. UNCHANGED <<filter, style, valid, results, inProgress, offsets, shown, orphans, held>>
  BY DEF TurnPage, queryVars
<1>3. /\ listeners' = <<ask>> /\ complete' = FALSE
      /\ Await(show, <<>>, waiting, filter, style, valid)
  <2>1. listeners' = Append(<<>>, ask)
    BY <1>1 DEF TurnPage
  <2>2. complete' = FALSE /\ Await(show, <<>>, waiting, filter, style, valid)
    BY <1>1 DEF TurnPage, ShowMessages
  <2> HIDE DEF ask
  <2> QED
    BY <2>1, <2>2
<1>4. /\ request \in Window /\ Fits(request) /\ Covers(PageOf(request))
  <2> DEFINE offset == TargetOffset(Cur, Threaded(style))
  <2>1. /\ IsListing(ListingOf[filter]) /\ ListingOf[filter].n \in Nat
        /\ offset \in 0 .. ListingOf[filter].n - 1
    BY <1>1, TargetIs DEF IsListing
  <2>2. offsets \in Window /\ Threaded(style) \in BOOLEAN
    BY <1>1 DEF TypeOK, Threaded
  <2>3. offsets = NoWindow \/ (offsets.start >= 0 /\ offsets.start - 1 <= offsets.end)
    BY <1>0 DEF OfThisQuery, Fits
  <2>4. request = RequestFor(offsets, offset)
    BY <1>1
  <2> HIDE DEF request, offset
  <2>5. offset \in Nat
    BY <2>1
  <2>6. /\ request \in Window /\ 0 <= request.start /\ request.start <= offset
        /\ offset <= request.end
    BY <2>2, <2>3, <2>4, <2>5, JumpRequestsTarget
  <2>7. offset \in Displayed(ListingOf[filter], PageOf(request))
    BY <2>1, <2>2, <2>3, <2>4, JumpDisplaysTarget DEF PageOf
  <2>8. Fits(request)
    BY <2>1, <2>6 DEF Fits, Window
  <2> QED
    BY <2>6, <2>7, <2>8 DEF Covers, offset
<1>5. /\ show \in JobType /\ show.kind = "show" /\ show.fresh /\ show.asked = NoIds
      /\ show.window = request
  BY <1>4, JobIs DEF Job
<1> HIDE DEF h, request, show, ask
<1>6. ~Seeks(show) /\ ~BringsPage(h)
  BY <1>1, <1>5 DEF Seeks, BringsPage
<1>7. \A job \in Range(waiting) : ~BringsPage(job) /\ ~Lands(job)
  BY <1>1 DEF NoPage, Seeks, Lands
<1>8. PICK j \in JobType :
        /\ j.kind = "show" /\ j.fresh /\ j.window = request
        /\ LastCounts(jobs') /\ Range(Flow') = {j} \cup Range(waiting)
        /\ Range(jobs') \subseteq {j}
        /\ Single(Flow', Pages) /\ Single(Flow', Seekers)
        /\ OfThisQuery'
  <2>1. \A x \in Range(held') : x.fresh => x.got = Cur
    BY <1>1, <1>2 DEF NoneHeld
  <2> QED
    BY <1>0, <1>1, <1>2, <1>3, <1>4, <1>5, <1>6, <1>7, <2>1, PutNow
<1>9. BringsPage(j) /\ ~Seeks(j) /\ ~Lands(j)
  BY <1>8 DEF BringsPage, Seeks, Lands
<1>10. ~NoPage' /\ NoSeeker' /\ NoneHeld'
  BY <1>1, <1>2, <1>8, <1>9 DEF NoPage, NoSeeker, NoneHeld
<1>11. Len(listeners') = 1 /\ listeners' # <<>> /\ Range(listeners') = {ask}
  BY <1>3 DEF Range
<1>12. OneOfEach'
  BY <1>0, <1>1, <1>2, <1>8, <1>10, <1>11 DEF OneOfEach
<1>13. PageThenJump'
  BY <1>3, <1>7, <1>8, <1>9, <1>10 DEF PageThenJump
<1>14. LeftBehind'
  <2>1. h \in Range(Flow) /\ h.fresh /\ h.kind = "find"
    BY <1>1 DEF h
  <2>2. \A job \in Range(jobs') : job.kind # "append"
    BY <1>8
  <2> QED
    BY <1>0, <1>2, <2>1, <2>2, LeftDestroyed
<1>15. ASSUME ~threw PROVE Landing' /\ TargetComes'
  <2>1. \A x \in Range(held') : ~x.fresh
    BY <1>10 DEF NoneHeld
  <2>2. offsets' # NoWindow
          => Displayed(ListingOf[filter'], PageOf(offsets)')
                = Displayed(ListingOf[filter'], offsets')
    BY <1>0, <1>2, <1>15 DEF Landing, PageOf
  <2>3. \A job \in Range(Flow') :
          job.fresh => job.kind \notin {"rendered", "real", "append"}
    BY <1>7, <1>8 DEF BringsPage
  <2>4. Landing'
    BY <1>0, <1>2, <1>10, <1>11, <1>15, <2>1, <2>2, <2>3 DEF Landing
  <2>5. Covers(PageOf(j.window))'
    <3>1. \A window : (Covers(PageOf(window)) <=> Covers(PageOf(window))')
      BY <1>2 DEF Covers, PageOf, Cur
    <3> QED
      BY <1>4, <1>8, <3>1
  <2>6. TargetComes'
    BY <1>1, <1>2, <1>7, <1>8, <1>10, <2>5 DEF TargetComes, NoSeeker, NoneHeld
  <2> QED
    BY <2>4, <2>6
<1> QED
  BY <1>2, <1>8, <1>12, <1>13, <1>14, <1>15 DEF Flows

LEMMA ShowAllFlows ==
  ASSUME ListIInv, Flows, ~misled',
         jobs # <<>>, Head(jobs).kind = "find", ShowAll(Head(jobs)),
         UNCHANGED <<announced, threw>>
  PROVE  Flows'
<1>0. /\ OneOfEach /\ PageThenJump /\ OfThisQuery /\ LeftBehind
      /\ ~threw => Landing /\ TargetComes
  BY DEF Flows
<1> DEFINE ask == [Job("ask", NoWindow, Head(jobs).budget - 1) EXCEPT !.fresh = FALSE]
<1>1. /\ Head(jobs) \in JobType /\ Tail(jobs) = <<>> /\ TypeOK
      /\ \A job \in Range(waiting) : ~Seeks(job)
      /\ inProgress /\ listeners = <<>>
  BY <1>0, FindIs
<1>2. ~LastCall(ask)
  BY DEF LastCall, Job
<1>3. listeners' = <<ask>>
  <2>1. listeners' = Append(<<>>, ask)
    <3>1. Outdated(<<>>) = <<>>
      BY DEF Outdated
    <3> QED
      BY <1>1, <3>1 DEF ShowAll
  <2> HIDE DEF ask
  <2> QED
    BY <2>1
<1> HIDE DEF ask
<1>4. Len(listeners') = 1 /\ listeners' # <<>> /\ Range(listeners') = {ask}
  BY <1>3 DEF Range
<1>5. /\ filter' = "all" /\ style' = style /\ valid' = FALSE
      /\ Render(<<>>, "all", style, FALSE)
      /\ UNCHANGED <<results, inProgress>>
  BY <1>1 DEF ShowAll
<1>6. Render(<<>>, filter', style', valid')
  BY <1>5
<1>7. filter' \in Filters /\ style' \in Styles
  BY <1>1, <1>5, FiltersAssumption DEF TypeOK
<1> QED
  BY <1>1, <1>2, <1>4, <1>5, <1>6, <1>7, RenderFlows

LEMMA EndJumpFlows ==
  ASSUME ListIInv, Flows, ~misled',
         jobs # <<>>, Head(jobs).kind = "find", Head(jobs).fresh,
         Head(jobs).budget <= 0 \/ offsets # NoWindow,
         EndJump, UNCHANGED <<announced, threw>>
  PROVE  Flows'
<1>0. /\ OneOfEach /\ PageThenJump /\ OfThisQuery /\ LeftBehind
      /\ ~threw => Landing /\ TargetComes
  BY DEF Flows
<1> DEFINE h == Head(jobs)
<1>1. /\ h \in Range(Flow) /\ Seeks(h) /\ Tail(jobs) = <<>>
      /\ Range(Flow) = {h} \cup Range(waiting)
      /\ \A job \in Range(waiting) : ~Seeks(job)
      /\ listeners = <<>> /\ NoPage /\ NoneHeld
  BY <1>0, FindIs
<1>2. /\ jobs' = <<>> /\ inProgress' = FALSE
      /\ UNCHANGED <<filter, style, valid, results, complete, offsets, shown, orphans,
                     buttons, waiting, held, listeners>>
  BY <1>1 DEF EndJump, queryVars
<1>3. /\ OneOfEach' /\ PageThenJump' /\ OfThisQuery' /\ LeftBehind'
      /\ Range(Flow') = Range(waiting)
  <2>1. Head(jobs).kind # "append" /\ ~BringsPage(Head(jobs)) /\ Seeks(Head(jobs))
    BY <1>1 DEF BringsPage
  <2>2. ~threw' => ~threw
    OBVIOUS
  <2> HIDE DEF h
  <2> QED
    BY <1>0, <1>2, <2>1, <2>2, DroppedKeeps
<1> HIDE DEF h
<1>4. ASSUME ~threw PROVE Landing' /\ TargetComes'
  <2>1. complete /\ PageShown
    <3>1. complete /\ (PageShown \/ offsets = NoWindow)
      BY <1>0, <1>1, <1>4 DEF Landing
    <3>2. Head(jobs).budget <= 0 => PageShown
      BY <1>0, <1>1, <1>4 DEF TargetComes, LastCall, h
    <3> QED
      BY <3>1, <3>2
  <2>2. PageShown'
    BY <1>2, <2>1 DEF PageShown, Cur
  <2>3. NoPage' /\ NoSeeker'
    BY <1>1, <1>3 DEF NoPage, NoSeeker
  <2>4. /\ NoneHeld' /\ \A job \in Range(held') : ~job.fresh
        /\ Range(listeners') = {}
    BY <1>1, <1>2 DEF Range, NoneHeld
  <2>5. offsets' # NoWindow
          => Displayed(ListingOf[filter'], PageOf(offsets)')
                = Displayed(ListingOf[filter'], offsets')
    BY <1>0, <1>2, <1>4 DEF Landing, PageOf
  <2>6. \A job \in Range(Flow') :
          job.fresh => job.kind \notin {"rendered", "real", "append"}
    BY <2>3 DEF NoPage, BringsPage
  <2>7. Landing'
    BY <1>0, <1>1, <1>2, <1>4, <2>1, <2>2, <2>4, <2>5, <2>6 DEF Landing
  <2>8. TargetComes'
    BY <2>3, <2>4 DEF TargetComes, NoSeeker
  <2> QED
    BY <2>7, <2>8
<1> QED
  BY <1>2, <1>3, <1>4 DEF Flows

LEMMA RunFindFlows ==
  ASSUME ListIInv, Flows, RunFind, ~misled'
  PROVE  Flows'
<1> DEFINE h == Head(jobs)
<1>1. jobs # <<>> /\ h.kind = "find" /\ UNCHANGED announced
  BY DEF RunFind, NextJob
<1>3. /\ OneOfEach /\ PageThenJump /\ OfThisQuery /\ LeftBehind
      /\ ~threw => Landing /\ TargetComes
  BY DEF Flows
<1>4. threw \in BOOLEAN
  BY DEF ListIInv, TypeOK
<1>5. CASE h.fresh /\ HasTarget(h.got) /\ OutOfRange(h.got) /\ CutShort
  <2>1. threw' = TRUE
    BY <1>5 DEF RunFind
  <2>2. /\ jobs' = <<>>
        /\ UNCHANGED <<filter, style, valid, results, complete, offsets, buttons,
                       inProgress, waiting, held, listeners>>
    BY <1>1, <1>3, <1>5, FindIs DEF CutShort, queryVars
  <2>3. OneOfEach' /\ PageThenJump' /\ OfThisQuery' /\ LeftBehind'
    BY <1>1, <1>3, <2>1, <2>2, DroppedKeeps
  <2> QED
    BY <2>1, <2>3 DEF Flows
<1>6. CASE ~(h.fresh /\ HasTarget(h.got) /\ OutOfRange(h.got))
  <2>1. threw' = threw
    BY <1>4, <1>6 DEF RunFind
  <2>2. CASE ~h.fresh /\ Restart(h)
    BY <1>1, <1>3, <2>1, <2>2, RestartFlows
  <2>3. CASE h.fresh /\ HasTarget(h.got) /\ TurnPage(h)
    BY <1>1, <1>3, <2>1, <2>3, TurnPageFlows
  <2>4. CASE h.fresh /\ h.budget <= 0 /\ EndJump
    BY <1>1, <1>3, <2>1, <2>4, EndJumpFlows
  <2>5. CASE h.fresh /\ OnScreen(h.got) /\ EndJump
    BY <1>1, <1>3, <2>1, <2>5, EndJumpFlows DEF OnScreen
  <2>6. CASE ShowAll(h)
    BY <1>1, <1>3, <2>1, <2>6, ShowAllFlows
  <2>7. h.budget \in Int
    BY <1>1, <1>3, FindIs DEF JobType
  <2> QED
    BY <1>6, <2>2, <2>3, <2>4, <2>5, <2>6, <2>7 DEF RunFind
<1> QED
  BY <1>5, <1>6 DEF RunFind

-----------------------------------------------------------------------------
(* The server *)

LEMMA AnswerQueryFlows ==
  ASSUME ListIInv, Flows,
         jobs = <<>>, NEW k \in DOMAIN waiting, AnswerQuery(k),
         UNCHANGED <<filter, style, offsets, shown, orphans, buttons, complete,
                     inProgress, listeners, threw>>
  PROVE  Flows'
<1> DEFINE old == waiting[k]
           wait == Without(waiting, k)
<1>0. /\ OneOfEach /\ PageThenJump /\ OfThisQuery /\ LeftBehind
      /\ ~threw => Landing /\ TargetComes
  BY DEF Flows
<1>1. /\ waiting \in Seq(JobType) /\ Range(waiting) \subseteq MayWait
      /\ Single(waiting, Pages) /\ Single(waiting, Seekers)
      /\ Range(Flow) = Range(waiting)
  BY <1>0, FlowIs
<1>2. /\ wait \in Seq(JobType) /\ old \in Range(waiting)
      /\ Range(waiting) = {old} \cup Range(wait)
      /\ Single(wait, Pages) /\ Single(wait, Seekers)
      /\ old \in Pages => \A job \in Range(wait) : job \notin Pages
      /\ old \in Seekers => \A job \in Range(wait) : job \notin Seekers
  BY <1>1, WithoutIs
<1>3. /\ old \in JobType /\ \A job \in Range(wait) : job \in JobType
      /\ old.kind \notin {"ask", "append"}
      /\ \A job \in Range(wait) : job.kind # "append"
  BY <1>1, <1>2 DEF MayWait
<1>4. waiting' = wait /\ UNCHANGED <<announced, held>>
  BY DEF AnswerQuery
<1> HIDE DEF wait
<1>5. PICK j \in JobType :
        /\ j.kind = old.kind /\ j.fresh = old.fresh /\ j.window = old.window
        /\ j.budget = old.budget
        /\ jobs' = <<j>>
        /\ j.got = IF old.asked = NoIds THEN old.got ELSE old.asked
  <2>1. CASE old.asked = NoIds
    BY <1>3, <2>1 DEF AnswerQuery
  <2>2. CASE old.asked # NoIds
    <3> DEFINE job == [old EXCEPT !.got = old.asked]
    <3>1. jobs' = <<job>>
      BY <2>2 DEF AnswerQuery
    <3> HIDE DEF old
    <3>2. /\ job \in JobType /\ job.kind = old.kind /\ job.fresh = old.fresh
          /\ job.window = old.window /\ job.budget = old.budget /\ job.got = old.asked
      BY <1>3 DEF JobType
    <3> QED
      BY <2>2, <3>1, <3>2
  <2> QED
    BY <2>1, <2>2
<1> HIDE DEF old
<1>6. /\ BringsPage(j) <=> BringsPage(old)
      /\ Seeks(j) <=> Seeks(old)
      /\ Lands(j) <=> Lands(old)
      /\ LastCall(j) <=> LastCall(old)
  BY <1>5 DEF BringsPage, Seeks, Lands, LastCall
<1>7. /\ BringsPage(j) => \A job \in Range(wait) : ~BringsPage(job)
      /\ Seeks(j) => \A job \in Range(wait) : ~Seeks(job)
  BY <1>2, <1>3, <1>6 DEF Pages, Seekers
<1>8. /\ LastCounts(jobs') /\ Range(Flow') = {j} \cup Range(wait)
      /\ Range(jobs') \subseteq {j}
      /\ Single(Flow', Pages) /\ Single(Flow', Seekers)
  <2>1. Leaves({j}, wait)
    BY <1>4, <1>5 DEF Leaves
  <2> QED
    BY <1>2, <1>7, <2>1, OneLeft
<1>9. (NoPage' <=> NoPage) /\ (NoSeeker' <=> NoSeeker) /\ (NoneHeld' <=> NoneHeld)
  BY <1>1, <1>2, <1>4, <1>6, <1>8 DEF NoPage, NoSeeker, NoneHeld
<1>10. OneOfEach'
  BY <1>0, <1>4, <1>8, <1>9 DEF OneOfEach
<1>11. PageThenJump'
  BY <1>0, <1>1, <1>2, <1>4, <1>5, <1>6, <1>8, <1>9 DEF PageThenJump
<1>12. OfThisQuery'
  <2>1. Cur' = Cur /\ \A window : Fits(window)' <=> Fits(window)
    BY DEF Cur, Fits
  <2>2. old.fresh => old.asked = Cur \/ (old.asked = NoIds /\ old.got = Cur)
    BY <1>0, <1>2 DEF OfThisQuery
  <2>3. \A job \in Range(waiting') :
           job.fresh => job.asked = Cur' \/ (job.asked = NoIds /\ job.got = Cur')
    BY <1>0, <1>2, <1>4, <2>1 DEF OfThisQuery
  <2>4. \A job \in Range(jobs') : job.fresh => job.got = Cur'
    BY <1>5, <1>8, <2>1, <2>2 DEF Cur, Ids, NoIds, Order
  <2>5. \A job \in Range(held') : job.fresh => job.got = Cur'
    BY <1>0, <1>4, <2>1 DEF OfThisQuery
  <2>6. \A job \in Range(Flow') :
          /\ job.fresh /\ job.kind = "show" => Fits(job.window)
          /\ job.fresh /\ job.kind \in {"rendered", "real"} => offsets = NoWindow
    BY <1>0, <1>1, <1>2, <1>5, <1>8 DEF OfThisQuery
  <2>7. offsets' # NoWindow => Fits(offsets)' /\ offsets'.end <= ListingOf[filter'].n
    BY <1>0, <2>1 DEF OfThisQuery, Fits
  <2> QED
    BY <2>1, <2>3, <2>4, <2>5, <2>6, <2>7 DEF OfThisQuery
<1>13. LeftBehind'
  <2>1. \A job \in Range(jobs') : job.kind # "append"
    BY <1>3, <1>5, <1>8
  <2>2. \A job \in Range(Flow') :
           job.fresh => \E prior \in Range(Flow) : prior.fresh /\ prior.kind = job.kind
    BY <1>1, <1>2, <1>5, <1>8
  <2> QED
    BY <1>0, <1>4, <1>9, <2>1, <2>2, LeftKept
<1>14. ASSUME ~threw PROVE Landing' /\ TargetComes'
  <2>1. (PageShown' <=> PageShown) /\ (\A block : WillBeShown(block)' <=> WillBeShown(block))
    BY DEF PageShown, WillBeShown, Cur
  <2>2. \A window : /\ Covers(window)' <=> Covers(window)
                    /\ Covers(PageOf(window))' <=> Covers(PageOf(window))
    BY DEF Covers, PageOf, Cur
  <2>3. \A job \in Range(Flow') : job.kind # "append"
    BY <1>3, <1>5, <1>8
  <2>4. \A job \in Range(Flow') : job.fresh /\ job.kind = "real" => shown = <<>>
    BY <1>0, <1>1, <1>2, <1>5, <1>8, <1>14 DEF Landing
  <2>5. Landing'
    BY <1>0, <1>4, <1>9, <1>14, <2>1, <2>3, <2>4 DEF Landing, PageOf
  <2>6. \A job \in Range(Flow') : Seeks(job) /\ LastCall(job) => PageShown /\ Covers(offsets)
    BY <1>0, <1>1, <1>2, <1>6, <1>8, <1>14 DEF TargetComes
  <2>7. \A call \in Range(listeners), job \in Range(Flow') :
           LastCall(call) /\ BringsPage(job)
             => job.kind = "show" /\ Covers(PageOf(job.window))
    BY <1>0, <1>1, <1>2, <1>3, <1>5, <1>6, <1>8, <1>14 DEF TargetComes
  <2>8. TargetComes'
    BY <1>0, <1>4, <1>9, <1>14, <2>1, <2>2, <2>6, <2>7 DEF TargetComes
  <2> QED
    BY <2>5, <2>8
<1> QED
  BY <1>10, <1>11, <1>12, <1>13, <1>14 DEF Flows

LEMMA AnswerAnnouncementsFlows ==
  ASSUME ListIInv, Flows, jobs = <<>>, AnswerAnnouncements,
         UNCHANGED <<filter, style, offsets, shown, orphans, buttons, complete,
                     inProgress, listeners, threw>>
  PROVE  Flows'
<1>0. /\ OneOfEach /\ PageThenJump /\ OfThisQuery /\ LeftBehind
      /\ ~threw => Landing /\ TargetComes
  BY DEF Flows
<1>1. /\ announced' = "loaded" /\ jobs' = held /\ held' = <<>> /\ waiting' = waiting
  BY DEF AnswerAnnouncements
<1>2. /\ waiting \in Seq(JobType) /\ Range(waiting) \subseteq MayWait
      /\ Single(waiting, Pages) /\ Single(waiting, Seekers)
      /\ Range(Flow) = Range(waiting)
  BY <1>0, FlowIs
<1>3. /\ held \in Seq(JobType) /\ LastCounts(held)
      /\ \A job \in Range(held) : job \in JobType /\ job.kind = "append"
  BY <1>0, HeldIs DEF OneOfEach
<1>4. \A job \in Range(held) :
         /\ BringsPage(job) <=> job.fresh
         /\ ~Seeks(job) /\ ~Lands(job)
  BY <1>3 DEF BringsPage, Seeks, Lands
<1>5. /\ Range(Flow') = Range(held) \cup Range(waiting)
      /\ Single(Flow', Pages) /\ Single(Flow', Seekers)
  <2>1. Flow' = held \o waiting
    BY <1>1 DEF Flow
  <2>2. /\ Range(held \o waiting) = Range(held) \cup Range(waiting)
        /\ \A T : /\ Single(held, T) /\ Single(waiting, T)
                  /\ \A x \in Range(held), y \in Range(waiting) : ~(x \in T /\ y \in T)
                  => Single(held \o waiting, T)
    BY <1>2, <1>3, SingleParts
  <2>3. Single(held, Pages)
    BY <1>3, LastIs
  <2>4. \A x \in Range(held), y \in Range(waiting) : ~(x \in Pages /\ y \in Pages)
    BY <1>0, <1>2, <1>4 DEF OneOfEach, NoneHeld, NoPage, Pages
  <2>5. \A x \in Range(held) : x \notin Seekers
    BY <1>4 DEF Seekers
  <2>6. Single(held, Seekers)
    BY <2>5 DEF Single, Range
  <2>7. Single(held \o waiting, Pages)
    BY <1>2, <2>2, <2>3, <2>4
  <2>8. Single(held \o waiting, Seekers)
    BY <1>2, <2>2, <2>5, <2>6
  <2> QED
    BY <2>1, <2>2, <2>7, <2>8
<1>6. Range(held') = {} /\ NoneHeld' /\ LastCounts(held')
  BY <1>1 DEF Range, NoneHeld, LastCounts
<1>7. /\ NoPage' <=> NoPage /\ NoneHeld
      /\ NoSeeker' <=> NoSeeker
  BY <1>2, <1>4, <1>5 DEF NoPage, NoSeeker, NoneHeld
<1>8. OneOfEach'
  BY <1>0, <1>1, <1>3, <1>5, <1>6, <1>7 DEF OneOfEach
<1>9. PageThenJump'
  <2>1. \A job \in Range(Flow') : job.fresh /\ job.kind = "all" => job \in Range(Flow)
    BY <1>2, <1>3, <1>5
  <2>2. \A job \in Range(Flow') : Lands(job) => job \in Range(Flow)
    BY <1>2, <1>4, <1>5
  <2>3. NoneHeld => \A job \in Range(Flow') : BringsPage(job) => job \in Range(Flow)
    BY <1>2, <1>4, <1>5 DEF NoneHeld
  <2> QED
    BY <1>0, <1>6, <1>7, <2>1, <2>2, <2>3 DEF PageThenJump
<1>10. OfThisQuery'
  <2>1. \A job \in Range(held) : job.kind = "append" /\ (job.fresh => job.got = Cur)
    BY <1>0, <1>3 DEF OfThisQuery
  <2>2. Range(held) \cap Range(waiting') = {}
    BY <1>1, <1>2, <1>3 DEF MayWait
  <2>3. /\ Range(Flow') \subseteq Range(held) \cup Range(Flow)
        /\ Range(jobs') \subseteq Range(held)
        /\ Range(waiting') \subseteq Range(held) \cup Range(waiting)
    BY <1>1, <1>2, <1>5
  <2> QED
    BY <1>0, <1>6, <2>1, <2>2, <2>3, QueryKept
<1>11. LeftBehind'
  <2>1. ASSUME NEW job \in Range(held), ~job.fresh
        PROVE  /\ ~job.block.fresh
               /\ job.block.live =>
                     /\ ~threw => ~NoPage
                     /\ NoneHeld
                     /\ \A other \in Range(waiting) :
                           other.fresh => other.kind \in {"rendered", "ask"}
    <3>1. job.block.live => NoneHeld
      <4>1. \A other \in Range(held) : other.fresh => ~Superseded(other) /\ other # job
        BY <2>1 DEF Superseded
      <4>2. job.block.live => ~Superseded(job)
        BY DEF Superseded
      <4> QED
        BY <1>3, <4>1, <4>2, LastIs DEF NoneHeld
    <3> QED
      BY <1>0, <1>2, <1>3, <2>1, <3>1 DEF LeftBehind
  <2>2. Range(jobs') = Range(held)
    BY <1>1
  <2> QED
    BY <1>5, <1>6, <1>7, <2>1, <2>2 DEF LeftBehind, NoneHeld
<1>12. ASSUME ~threw PROVE Landing' /\ TargetComes'
  <2>0. Landing /\ TargetComes
    BY <1>0, <1>12
  <2>1. /\ \A block : WillBeShown(block)' <=> WillBeShown(block)
        /\ PageShown' <=> PageShown
        /\ Covers(offsets)' <=> Covers(offsets)
        /\ \A window : Covers(PageOf(window))' <=> Covers(PageOf(window))
    BY DEF WillBeShown, PageShown, Covers, PageOf, Cur
  <2>2. \A job \in Range(held) : job.fresh => WillBeShown(job.block)
    BY <2>0 DEF Landing
  <2>3. \A job \in Range(Flow') :
          /\ job.fresh /\ job.kind = "append" => WillBeShown(job.block)
          /\ job.fresh /\ job.kind = "real" => shown = <<>>
    BY <1>2, <1>3, <1>5, <2>0, <2>2 DEF Landing
  <2>4. offsets' # NoWindow
          => Displayed(ListingOf[filter'], PageOf(offsets)')
                = Displayed(ListingOf[filter'], offsets')
    BY <2>0 DEF Landing, PageOf
  <2>5. NoPage' => /\ complete /\ listeners = <<>>
                   /\ PageShown \/ (offsets = NoWindow /\ shown = <<>> /\ ~NoSeeker)
    BY <1>7, <2>0 DEF Landing
  <2>6. Landing'
    BY <1>1, <1>6, <1>7, <2>0, <2>1, <2>3, <2>4, <2>5 DEF Landing
  <2>7. \A job \in Range(Flow') : Seeks(job) /\ LastCall(job) => PageShown /\ Covers(offsets)
    BY <1>2, <1>4, <1>5, <2>0 DEF TargetComes
  <2>8. \A call \in Range(listeners), job \in Range(Flow') :
           LastCall(call) /\ BringsPage(job)
             => \/ job.kind = "show" /\ Covers(PageOf(job.window))
                \/ job.kind = "append" /\ Covers(offsets)
    BY <1>2, <1>3, <1>4, <1>5, <2>0 DEF TargetComes, NoneHeld
  <2>9. TargetComes'
    BY <1>6, <2>1, <2>7, <2>8 DEF TargetComes
  <2> QED
    BY <2>6, <2>9
<1> QED
  BY <1>8, <1>9, <1>10, <1>11, <1>12 DEF Flows

LEMMA AnswerFlows ==
  ASSUME ListIInv, Flows, Answer
  PROVE  Flows'
<1>1. /\ jobs = <<>>
      /\ UNCHANGED <<filter, style, offsets, shown, orphans, buttons, complete,
                     inProgress, listeners, threw>>
  BY DEF Answer, viewVars
<1> QED
  BY <1>1, AnswerQueryFlows, AnswerAnnouncementsFlows DEF Answer

LEMMA FailFlows ==
  ASSUME ListIInv, Flows, Fail
  PROVE  Flows'
<1>1. /\ jobs = <<>> /\ jobs' = <<>> /\ threw' = TRUE
      /\ UNCHANGED <<filter, style, offsets, buttons, complete, inProgress, listeners>>
  BY DEF Fail, queryVars, viewVars
<1>2. OneOfEach /\ PageThenJump /\ OfThisQuery /\ LeftBehind
  BY DEF Flows
<1>3. /\ waiting \in Seq(JobType)
      /\ Single(waiting, Pages) /\ Single(waiting, Seekers)
      /\ Range(Flow) = Range(waiting)
  BY <1>1, <1>2, FlowIs
<1>4. PICK wait \in Seq(JobType) :
        /\ waiting' = wait /\ Range(wait) \subseteq Range(waiting)
        /\ Single(wait, Pages) /\ Single(wait, Seekers)
        /\ held' = held \/ held' = <<>>
  <2>1. ASSUME NEW k \in DOMAIN waiting, waiting' = Without(waiting, k), UNCHANGED held
        PROVE  \E wait \in Seq(JobType) :
                  /\ waiting' = wait /\ Range(wait) \subseteq Range(waiting)
                  /\ Single(wait, Pages) /\ Single(wait, Seekers)
                  /\ held' = held \/ held' = <<>>
    BY <1>3, <2>1, WithoutIs
  <2> QED
    BY <1>3, <2>1 DEF Fail
<1>5. /\ LastCounts(jobs') /\ Range(jobs') = {} /\ Range(waiting') = Range(wait)
      /\ Range(Flow') = Range(wait)
      /\ Single(Flow', Pages) /\ Single(Flow', Seekers)
  BY <1>1, <1>4, NoneLeft
<1>6. (NoPage => NoPage') /\ (NoSeeker => NoSeeker')
  BY <1>3, <1>4, <1>5 DEF NoPage, NoSeeker
<1>7. Range(held') \subseteq Range(held) /\ (NoneHeld => NoneHeld') /\ LastCounts(held')
  BY <1>2, <1>4 DEF OneOfEach, NoneHeld, Range, LastCounts
<1>8. OneOfEach'
  BY <1>1, <1>2, <1>5, <1>6, <1>7 DEF OneOfEach
<1>9. PageThenJump'
  BY <1>1, <1>2, <1>3, <1>4, <1>5, <1>6, <1>7 DEF PageThenJump
<1>10. OfThisQuery'
  <2>1. \A job \in Range(held') : job.fresh => job.got = Cur
    BY <1>2, <1>7 DEF OfThisQuery
  <2> QED
    BY <1>1, <1>2, <1>3, <1>4, <1>5, <2>1, QueryKept
<1>11. LeftBehind'
  BY <1>1, <1>2, <1>3, <1>4, <1>5, <1>7, LeftKept
<1> QED
  BY <1>1, <1>8, <1>9, <1>10, <1>11 DEF Flows

-----------------------------------------------------------------------------
(* The user *)

\* What the user does when nothing runs.
LEMMA ActFlows ==
  ASSUME ListIInv, Flows, Act
  PROVE  /\ jobs = <<>> /\ UNCHANGED <<results, announced, threw>>
         /\ OneOfEach /\ PageThenJump /\ OfThisQuery /\ (~threw => Landing /\ TargetComes)
         /\ Range(Flow) = Range(waiting)
         /\ listeners \in Seq(MayListen) /\ TypeOK
         /\ NoSeeker <=> \A job \in Range(waiting) : ~Seeks(job)
<1>1. /\ jobs = <<>> /\ UNCHANGED <<results, announced, threw>>
      /\ OneOfEach /\ PageThenJump /\ OfThisQuery /\ (~threw => Landing /\ TargetComes)
  BY DEF Act, Flows
<1>2. Range(Flow) = Range(waiting)
  BY <1>1, FlowIs
<1> QED
  BY <1>1, <1>2 DEF NoSeeker, ListIInv, QueuesKept

\* The panel is rendered again for another query or style, and the jump goes on.
LEMMA RenderedFlows ==
  ASSUME ListIInv, Flows, Act, ~misled',
         Render(<<>>, filter', style', valid'), filter' \in Filters, style' \in Styles,
         valid' => valid,
         listeners' = Outdated(listeners), inProgress' = inProgress
  PROVE  Flows'
<1>1. /\ jobs = <<>> /\ UNCHANGED <<results, announced, threw>>
      /\ OneOfEach /\ PageThenJump /\ OfThisQuery /\ (~threw => Landing /\ TargetComes)
      /\ listeners \in Seq(MayListen)
      /\ NoSeeker <=> \A job \in Range(waiting) : ~Seeks(job)
  BY ActFlows
<1>2. /\ Len(listeners') <= 1 /\ (listeners' = <<>> <=> listeners = <<>>)
      /\ \A call \in Range(listeners') : ~LastCall(call)
  BY <1>1, OutdatedCalls DEF OneOfEach
<1>3. /\ listeners' # <<>> => \A job \in Range(waiting) : ~Seeks(job)
      /\ ~inProgress' => listeners' = <<>> /\ \A job \in Range(waiting) : ~Seeks(job)
  BY <1>1, <1>2 DEF OneOfEach
<1>4. ~threw /\ inProgress' => \/ listeners' # <<>>
                               \/ \E job \in Range(waiting) : Seeks(job)
  BY <1>1, <1>2 DEF Landing
<1> QED
  BY <1>1, <1>2, <1>3, <1>4, RenderFlows

LEMMA SelectFlows ==
  ASSUME ListIInv, Flows, NEW f \in Filters, Select(f), ~misled'
  PROVE  Flows'
<1>1. /\ Act /\ filter' = f /\ valid' = FALSE /\ style' = style
      /\ Render(<<>>, f, style, FALSE) /\ listeners' = Outdated(listeners)
      /\ inProgress' = inProgress
  BY DEF Select
<1>2. filter' \in Filters /\ style' \in Styles
  BY <1>1 DEF ListIInv, TypeOK
<1>3. Render(<<>>, filter', style', valid')
  BY <1>1
<1> QED
  BY <1>1, <1>2, <1>3, RenderedFlows

LEMMA SetViewStyleFlows ==
  ASSUME ListIInv, Flows, NEW s \in Styles, SetViewStyle(s), ~misled'
  PROVE  Flows'
<1>1. /\ Act /\ style' = s /\ filter' = filter
      /\ Render(<<>>, filter, s, valid') /\ listeners' = Outdated(listeners)
      /\ inProgress' = inProgress
  BY DEF SetViewStyle
<1>2. filter' \in Filters /\ style' \in Styles
  BY <1>1 DEF ListIInv, TypeOK
<1>3. Render(<<>>, filter', style', valid')
  BY <1>1
<1>4. valid' => valid
  BY DEF SetViewStyle
<1> QED
  BY <1>1, <1>2, <1>3, <1>4, RenderedFlows

LEMMA JumpInStyleFlows ==
  ASSUME ListIInv, Flows, NEW s \in Styles, JumpInStyle(s), ~tangled', ~misled'
  PROVE  Flows'
<1> DEFINE ask == Job("ask", NoWindow, 2)
<1>1. /\ Act /\ filter' = "all" /\ style' = s /\ valid' = FALSE
      /\ Render(<<>>, "all", s, FALSE)
      /\ ~inProgress /\ inProgress' = TRUE /\ listeners' = Append(Outdated(listeners), ask)
  BY DEF JumpInStyle
<1>2. /\ jobs = <<>> /\ UNCHANGED <<results, announced, threw>>
      /\ OneOfEach /\ PageThenJump /\ OfThisQuery /\ (~threw => Landing /\ TargetComes)
      /\ NoSeeker <=> \A job \in Range(waiting) : ~Seeks(job)
  BY <1>1, ActFlows
<1>3. listeners = <<>> /\ NoSeeker
  BY <1>1, <1>2 DEF OneOfEach
<1>4. ask.budget = 2
  BY DEF Job
<1> HIDE DEF ask
<1>5. listeners' = <<ask>> /\ ~LastCall(ask)
  <2>1. Outdated(<<>>) = <<>>
    BY DEF Outdated
  <2>2. listeners' = Append(<<>>, ask)
    BY <1>1, <1>3, <2>1
  <2> QED
    BY <1>4, <2>2 DEF LastCall
<1>6. Len(listeners') = 1 /\ listeners' # <<>> /\ Range(listeners') = {ask}
  BY <1>5 DEF Range
<1>7. filter' \in Filters /\ style' \in Styles
  BY <1>1, FiltersAssumption
<1>8. Render(<<>>, filter', style', valid')
  BY <1>1
<1> QED
  BY <1>1, <1>2, <1>3, <1>5, <1>6, <1>7, <1>8, RenderFlows

LEMMA TurnToFlows ==
  ASSUME ListIInv, Flows, NEW button, NEW request \in Window,
         Fits(offsets) /\ offsets.end <= ListingOf[filter].n => Fits(request),
         TurnTo(button, request), ~tangled', ~misled'
  PROVE  Flows'
<1> DEFINE show == Job("show", request, 0)
<1>1. /\ Act /\ offsets # NoWindow /\ buttons # {} /\ ~Busy
      /\ complete' = FALSE /\ Await(show, <<>>, waiting, filter, style, valid)
      /\ UNCHANGED <<filter, style, offsets, shown, orphans, inProgress, held, listeners>>
  BY DEF TurnTo, ShowMessages
<1>2. jobs = <<>> /\ UNCHANGED <<announced, threw>> /\ OfThisQuery
  BY <1>1, ActFlows
<1>3. Fits(request)
  BY <1>1, <1>2 DEF OfThisQuery
<1>4. show \in JobType /\ show.kind = "show" /\ show.asked = NoIds
  BY JobIs
<1>5. show.fresh /\ show.window = request
  BY DEF Job
<1>6. NoneHeld /\ \A x \in Range(waiting) : ~x.fresh
  BY <1>1 DEF Busy, NoneHeld
<1> HIDE DEF show
<1> QED
  BY <1>1, <1>2, <1>3, <1>4, <1>5, <1>6, PageAsked

LEMMA ShowAllAtOnceFlows ==
  ASSUME ListIInv, Flows, ShowAllAtOnce, ~tangled', ~misled'
  PROVE  Flows'
<1> DEFINE all == Job("all", NoWindow, 0)
<1>1. /\ Act /\ buttons # {} /\ ~Busy
      /\ \A k \in DOMAIN waiting : waiting[k].kind # "find"
      /\ Await(all, <<>>, waiting, filter, style, valid)
      /\ UNCHANGED <<filter, style, complete, offsets, shown, orphans, inProgress, held,
                     listeners>>
  BY DEF ShowAllAtOnce
<1>2. jobs = <<>> /\ UNCHANGED <<announced, threw>>
  BY <1>1, ActFlows
<1>3. all \in JobType /\ all.kind = "all" /\ all.asked = NoIds
  BY JobIs, NoWindowType
<1>4. all.fresh
  BY DEF Job
<1>5. NoneHeld /\ \A x \in Range(waiting) : ~x.fresh
  BY <1>1 DEF Busy, NoneHeld
<1>6. \A x \in Range(waiting) : ~Seeks(x)
  <2>1. Range(waiting) \subseteq MayWait
    BY FlowIs DEF Flows
  <2>2. \A x \in Range(waiting) : x.kind # "find"
    BY <1>1 DEF Range
  <2> QED
    BY <2>1, <2>2 DEF MayWait, Seeks
<1> HIDE DEF all
<1> QED
  BY <1>1, <1>2, <1>3, <1>4, <1>5, <1>6, PageAsked

LEMMA JumpFlows ==
  ASSUME ListIInv, Flows, Jump, ~tangled', ~misled'
  PROVE  Flows'
<1> DEFINE find == [Job("find", NoWindow, 3) EXCEPT !.fresh = TRUE]
           ask  == [Job("ask", NoWindow, 2) EXCEPT !.fresh = TRUE]
<1>1. /\ Act /\ ~inProgress /\ inProgress' = TRUE
      /\ Find(3, TRUE, <<>>, complete)
      /\ ~(complete /\ Busy)
      /\ UNCHANGED <<filter, style, offsets, shown, orphans, buttons, complete, held>>
  BY DEF Jump
<1>2. /\ jobs = <<>> /\ UNCHANGED <<results, announced, threw>>
      /\ OneOfEach /\ PageThenJump /\ OfThisQuery /\ LeftBehind
      /\ (~threw => Landing /\ TargetComes)
      /\ Range(Flow) = Range(waiting)
      /\ NoSeeker <=> \A job \in Range(waiting) : ~Seeks(job)
  BY <1>1, ActFlows DEF Flows
<1>3. listeners = <<>> /\ \A job \in Range(waiting) : ~Seeks(job)
  BY <1>1, <1>2 DEF OneOfEach
<1>4. 3 \in Int /\ 3 > 0 /\ 2 \in Int /\ 2 > 0
  OBVIOUS
<1>5. find \in JobType /\ find.kind = "find" /\ find.asked = NoIds /\ ~LastCall(find)
  BY <1>4, FreshCallLasts
<1>6. ask \in JobType /\ ~LastCall(ask)
  BY <1>4, FreshCallLasts
<1>7. CASE complete
  <2>1. Await(find, <<>>, waiting, filter, style, valid) /\ listeners' = listeners
    BY <1>1, <1>7 DEF Find
  <2> HIDE DEF find
  <2>2. NoneHeld /\ NoPage
    <3>1. \A job \in Range(waiting) \cup Range(held) : ~job.fresh
      BY <1>1, <1>7 DEF Busy
    <3> QED
      BY <1>2, <3>1 DEF NoPage, NoneHeld, BringsPage
  <2> QED
    BY <1>1, <1>2, <1>3, <1>5, <1>7, <2>1, <2>2, CallGoesOn
<1>8. CASE ~complete
  <2>1. listeners' = <<ask>> /\ jobs' = <<>> /\ UNCHANGED waiting
    <3>1. listeners' = Append(<<>>, ask) /\ jobs' = <<>> /\ UNCHANGED waiting
      BY <1>1, <1>3, <1>8 DEF Find
    <3> HIDE DEF ask
    <3> QED
      BY <3>1
  <2> HIDE DEF ask
  <2> QED
    BY <1>1, <1>2, <1>3, <1>6, <1>8, <2>1, CallIsLeft
<1> QED
  BY <1>7, <1>8

-----------------------------------------------------------------------------
(* The theorems *)

LEMMA InitFlows == Init => FlowIInv
<1> SUFFICES ASSUME Init PROVE FlowIInv
  OBVIOUS
<1> DEFINE job == Job("rendered", NoWindow, 0)
           first == [job EXCEPT !.asked = Ids("all", style)]
<1>1. /\ jobs = <<>> /\ held = <<>> /\ listeners = <<>> /\ shown = <<>> /\ orphans = <<>>
      /\ filter = "all" /\ style \in Styles /\ ~valid /\ ~complete /\ ~inProgress
      /\ offsets = NoWindow /\ announced = "none" /\ waiting = <<first>>
  BY DEF Init
<1>2. job \in JobType /\ job.kind = "rendered" /\ job.fresh
  BY JobIs, NoWindowType DEF Job
<1>3. Cur \in AllIds /\ Cur = Ids("all", style)
  BY <1>1, FiltersAssumption, IdsType DEF Cur
<1> HIDE DEF job
<1>4. first \in JobType /\ first.kind = "rendered" /\ first.fresh /\ first.asked = Cur
  BY <1>2, <1>3 DEF JobType, MaybeIds
<1> HIDE DEF first
<1>5. /\ Flow = <<first>> /\ Range(Flow) = {first} /\ Range(waiting) = {first}
      /\ Range(jobs) = {} /\ Range(held) = {} /\ Range(listeners) = {}
  BY <1>1, <1>4 DEF Flow, Range
<1>6. /\ BringsPage(first) /\ ~Seeks(first) /\ ~Lands(first)
      /\ Single(Flow, Pages) /\ Single(Flow, Seekers)
  BY <1>4, <1>5 DEF BringsPage, Seeks, Lands, Single
<1>7. OneOfEach
  BY <1>1, <1>5, <1>6 DEF OneOfEach, NoSeeker, NoneHeld, LastCounts
<1>8. PageThenJump
  BY <1>1, <1>4, <1>5, <1>6 DEF PageThenJump
<1>9. OfThisQuery /\ LeftBehind
  BY <1>1, <1>4, <1>5 DEF OfThisQuery, LeftBehind
<1>10. Landing
  BY <1>1, <1>4, <1>5, <1>6 DEF Landing, NoPage
<1>11. TargetComes
  BY <1>5, <1>6 DEF TargetComes
<1> QED
  BY <1>7, <1>8, <1>9, <1>10, <1>11 DEF FlowIInv

\* What is tangled or misled remains so.
LEMMA HistoryKept ==
  ASSUME [Next]_vars, ~tangled', ~misled'
  PROVE  ~tangled /\ ~misled
<1>1. CASE UNCHANGED vars
  BY <1>1 DEF vars
<1>2. ASSUME NEW job, NEW ready, NEW wait, NEW f, NEW s, NEW isValid,
             Await(job, ready, wait, f, s, isValid)
      PROVE  ~misled
  BY <1>2 DEF Await
<1>3. ASSUME NEW request, NEW ready, ShowMessages(request, ready) PROVE ~misled
  BY <1>2, <1>3 DEF ShowMessages
<1>4. ASSUME NEW budget, NEW fresh, NEW ready, NEW isComplete,
             Find(budget, fresh, ready, isComplete)
      PROVE  ~misled
  BY <1>2, <1>4 DEF Find
<1>5. ASSUME NEW ready, NEW f, NEW s, NEW isValid, Render(ready, f, s, isValid)
      PROVE  ~misled
  BY <1>2, <1>5 DEF Render
<1>6. CASE RunRendered
  BY <1>2, <1>6 DEF RunRendered
<1>7. CASE RunReal
  BY <1>3, <1>4, <1>7 DEF RunReal
<1>8. CASE RunShow \/ RunAppend
  <2>1. misled' = misled
    BY <1>8 DEF RunShow, RunAppend
  <2>2. tangled => tangled'
    BY <1>8 DEF RunShow, RunAppend
  <2> QED
    BY <2>1, <2>2
<1>9. CASE RunAll \/ RunAsk
  <2>1. tangled => tangled'
    BY <1>9 DEF RunAll, RunAsk
  <2>2. \/ ShowMessages(AllAtOnce(ListingOf[Head(jobs).got.of]), Tail(jobs))
        \/ Find(Head(jobs).budget, Head(jobs).fresh, Tail(jobs), complete)
    BY <1>9 DEF RunAll, RunAsk
  <2> QED
    BY <1>3, <1>4, <2>1, <2>2
<1>10. CASE RunFind
  <2>1. CASE \E job : Restart(job)
    <3>1. Find(3, TRUE, Tail(jobs), complete) /\ tangled' = tangled
      BY <2>1 DEF Restart
    <3> QED
      BY <1>4, <3>1
  <2>2. CASE \E job : TurnPage(job)
    BY <1>3, <2>2 DEF TurnPage
  <2>3. CASE \E job : ShowAll(job)
    <3>1. (\E f : Render(Tail(jobs), f, style, FALSE)) /\ tangled' = tangled
      BY <2>3 DEF ShowAll
    <3> QED
      BY <1>5, <3>1
  <2>4. CASE EndJump \/ CutShort
    BY <2>4 DEF EndJump, CutShort
  <2> QED
    BY <1>10, <2>1, <2>2, <2>3, <2>4 DEF RunFind
<1>11. CASE Answer \/ Fail
  <2>1. misled' = misled
    BY <1>11 DEF Answer, Fail
  <2>2. tangled => tangled'
    BY <1>11 DEF Answer, AnswerQuery, AnswerAnnouncements, Fail
  <2> QED
    BY <2>1, <2>2
<1>12. CASE User
  <2>1. CASE \E f \in Filters : Select(f)
    <3>1. PICK f \in Filters : Select(f)
      BY <2>1
    <3>2. Render(<<>>, f, style, FALSE) /\ tangled' = tangled
      BY <3>1 DEF Select
    <3> QED
      BY <1>5, <3>2
  <2>2. CASE \E s \in Styles : SetViewStyle(s)
    BY <1>5, <2>2 DEF SetViewStyle
  <2>3. CASE \E s \in Styles : JumpInStyle(s)
    BY <1>5, <2>3 DEF JumpInStyle
  <2>4. CASE \E button, request : TurnTo(button, request)
    BY <1>3, <2>4 DEF TurnTo
  <2>5. CASE ShowAllAtOnce \/ Jump
    BY <1>2, <1>4, <2>5 DEF ShowAllAtOnce, Jump
  <2> QED
    BY <1>12, <2>1, <2>2, <2>3, <2>4, <2>5 DEF User
<1> QED
  BY <1>1, <1>6, <1>7, <1>8, <1>9, <1>10, <1>11, <1>12 DEF Next, RunJob

LEMMA NextFlows == ListIInv /\ FlowIInv /\ [Next]_vars => FlowIInv'
<1> SUFFICES ASSUME ListIInv, FlowIInv, [Next]_vars, ~tangled', ~misled' PROVE Flows'
  BY DEF FlowIInv, Flows
<1>1. Flows
  BY HistoryKept DEF FlowIInv, Flows
<1>2. CASE UNCHANGED vars
  <2>1. UNCHANGED <<filter, style, valid, results, offsets, shown, orphans, buttons,
                    complete, inProgress, jobs, waiting, held, listeners, announced, threw>>
    BY <1>2 DEF vars, queryVars, viewVars, loopVars
  <2> QED
    BY <1>1, <2>1
    DEF Flows, OneOfEach, PageThenJump, OfThisQuery, LeftBehind, Landing, TargetComes,
        Flow, NoPage, NoneHeld, NoSeeker, Cur, Fits, PageShown, WillBeShown, PageOf, Covers
<1>3. CASE RunJob
  BY <1>1, <1>3, RunRenderedFlows, RunRealFlows, RunShowFlows, RunAllFlows,
     RunAppendFlows, RunAskFlows, RunFindFlows DEF RunJob
<1>4. CASE Answer \/ Fail
  BY <1>1, <1>4, AnswerFlows, FailFlows
<1>5. CASE User
  <2>1. ASSUME NEW f \in Filters, Select(f) PROVE Flows'
    BY <1>1, <2>1, SelectFlows
  <2>2. ASSUME NEW s \in Styles, SetViewStyle(s) \/ JumpInStyle(s) PROVE Flows'
    BY <1>1, <2>2, SetViewStyleFlows, JumpInStyleFlows
  <2>3. /\ NextRequest(offsets) \in Window /\ PreviousRequest(offsets) \in Window
        /\ Fits(offsets) /\ offsets.end <= ListingOf[filter].n
              => Fits(NextRequest(offsets)) /\ Fits(PreviousRequest(offsets))
    BY TurnsFit DEF ListIInv
  <2>4. ASSUME TurnTo("next", NextRequest(offsets)) PROVE Flows'
    BY <1>1, <2>3, <2>4, TurnToFlows
  <2>5. ASSUME TurnTo("previous", PreviousRequest(offsets)) PROVE Flows'
    BY <1>1, <2>3, <2>5, TurnToFlows
  <2>6. ASSUME ShowAllAtOnce \/ Jump PROVE Flows'
    BY <1>1, <2>6, ShowAllAtOnceFlows, JumpFlows
  <2> QED
    BY <1>5, <2>1, <2>2, <2>4, <2>5, <2>6 DEF User
<1> QED
  BY <1>2, <1>3, <1>4, <1>5 DEF Next

\* As long as no two pages, or a page and a jump, cross each other and nothing is
\* asked for with the ids of another query (tangled, misled): one page at most is
\* on its way and one jump in progress; what is on its way is about what is
\* selected or outdated, and what is outdated finds its views destroyed before the
\* new render brings any; and, with no error, a page comes after each render and
\* the target with the page of a last call.
THEOREM FlowInvariant == Spec => []FlowIInv
<1>1. Init => FlowIInv
  BY InitFlows
<1>2. ListIInv /\ FlowIInv /\ [Next]_vars => FlowIInv'
  BY NextFlows
<1> QED
  BY <1>1, <1>2, ListInvariant, PTL DEF Spec

\* Once everything has come that was asked for, the ids of former queries and the
\* held pages of former renders among it, the list displays one page of what is
\* selected, the page of its offsets, and no view of the present render is lost.
\* Excepted are histories that are tangled or misled, and errors: ListIsCurrent.
THEOREM ListBecomesCurrent == Spec => []ListIsCurrent
<1>1. ListIInv /\ FlowIInv => ListIsCurrent
  <2> SUFFICES ASSUME ListIInv, FlowIInv, Quiet, ~tangled, ~misled, ~threw
               PROVE  /\ Len(shown) = 1
                      /\ shown[1].ids = Ids(filter, style)
                      /\ shown[1].window = offsets
                      /\ \A i \in DOMAIN orphans : ~orphans[i].fresh
    BY DEF ListIsCurrent
  <2>1. OneOfEach /\ Landing /\ jobs = <<>> /\ waiting = <<>> /\ held = <<>>
    BY DEF FlowIInv, Quiet
  <2>2. Range(Flow) = {} /\ Range(held) = {}
    <3>1. Range(waiting) = {} /\ Range(held) = {}
      BY <2>1 DEF Range
    <3> QED
      BY <2>1, <3>1, FlowIs
  <2>3. NoPage /\ NoSeeker /\ NoneHeld
    BY <2>2 DEF NoPage, NoSeeker, NoneHeld
  <2> QED
    BY <2>1, <2>3 DEF Landing, PageShown, Cur
<1> QED
  BY <1>1, ListInvariant, FlowInvariant, PTL

\* A jump whose message is listed ends with the message displayed: over a render
\* or another query chosen meanwhile, which calls it again, and its own page turns.
\* Excepted are jumps that cross a page turn or each other, or that go on with the
\* ids of another query (tangled, misled), and errors.
THEOREM JumpsLand == Spec => []JumpLands
<1>1. ListIInv /\ FlowIInv => JumpLands
  <2> SUFFICES ASSUME ListIInv, FlowIInv, NextJob("find"), ~tangled, ~misled, ~threw,
                      Head(jobs).fresh, HasTarget(Head(jobs).got),
                      ~(Head(jobs).budget > 0 /\ ~OnScreen(Head(jobs).got))
               PROVE  \E i \in DOMAIN shown :
                         TargetOffset(shown[i].ids, Threaded(style)) \in
                            Displayed(ListingOf[shown[i].ids.of], shown[i].window)
    BY DEF JumpLands
  <2>1. /\ OneOfEach /\ PageThenJump /\ OfThisQuery /\ Landing /\ TargetComes
        /\ jobs # <<>> /\ Head(jobs).kind = "find"
    BY DEF FlowIInv, NextJob
  <2> DEFINE h == Head(jobs)
             target == TargetOffset(Cur, Threaded(style))
  <2>2. /\ h \in JobType /\ h \in Range(Flow) /\ Seeks(h)
        /\ NoPage /\ NoneHeld /\ h.got = Cur
    BY <2>1, FindIs
  <2>3. Cur.of = filter
    BY DEF Cur, Ids
  <2> HIDE DEF h, target
  <2>4. PageShown \/ offsets = NoWindow
    BY <2>1, <2>2 DEF Landing
  <2>5. PageShown /\ target \in Displayed(ListingOf[filter], offsets)
    <3>1. CASE OnScreen(h.got)
      <4>1. /\ offsets # NoWindow
            /\ target \in Displayed(ListingOf[filter], PageOf(offsets))
        BY <2>2, <2>3, <3>1 DEF OnScreen, PageOf, target
      <4> QED
        BY <2>1, <2>4, <4>1 DEF Landing
    <3>2. CASE ~OnScreen(h.got)
      <4>1. LastCall(h)
        BY <2>2, <3>2 DEF LastCall, h, JobType
      <4> QED
        BY <2>1, <2>2, <4>1 DEF TargetComes, Covers, target, h
    <3> QED
      BY <3>1, <3>2
  <2>6. /\ 1 \in DOMAIN shown /\ shown[1].ids = Cur /\ shown[1].window = offsets
    BY <2>5 DEF PageShown, ListIInv, TypeOK
  <2> QED
    BY <2>3, <2>5, <2>6 DEF target
<1> QED
  BY <1>1, ListInvariant, FlowInvariant, PTL

\* Turning the page leaves no message out between what was and what will be
\* displayed, and displays one that was not: unless the history is tangled, by the
\* page of an earlier render that is made up now too, or misled.
THEOREM PagesJoin == Spec => PagingSkipsNothing
<1> DEFINE Joins(dir) ==
      LET request == IF dir = "next" THEN NextRequest(offsets)
                                     ELSE PreviousRequest(offsets)
          listing == ListingOf[Head(jobs).got.of]
      IN  /\ RunShow /\ ~tangled' /\ ~misled
          /\ offsets # NoWindow /\ Head(jobs).window = request
          => /\ offsets'.start <= offsets.end + 1
             /\ offsets'.end >= offsets.start - 1
             /\ dir = "next" /\ offsets.end < listing.n - 1
                   => offsets'.end > offsets.end
             /\ dir = "previous" /\ offsets.start > 0
                   => offsets'.start < offsets.start
<1>1. ASSUME ListIInv, FlowIInv, NEW dir \in {"next", "previous"} PROVE Joins(dir)
  <2> DEFINE h == Head(jobs)
             listing == ListingOf[filter]
             request == IF dir = "next" THEN NextRequest(offsets)
                                        ELSE PreviousRequest(offsets)
             page == MessagesOffsets(listing, request, Threaded(style))
  <2> SUFFICES ASSUME RunShow, ~tangled', ~misled, offsets # NoWindow, h.window = request
               PROVE  /\ offsets'.start <= offsets.end + 1
                      /\ offsets'.end >= offsets.start - 1
                      /\ dir = "next" /\ offsets.end < ListingOf[h.got.of].n - 1
                            => offsets'.end > offsets.end
                      /\ dir = "previous" /\ offsets.start > 0
                            => offsets'.start < offsets.start
    OBVIOUS
  <2>1. /\ OneOfEach /\ OfThisQuery /\ TypeOK /\ jobs # <<>> /\ h.kind = "show" /\ h.fresh
    BY <1>1 DEF FlowIInv, ListIInv, RunShow, NextJob
  <2>2. h \in Range(Flow) /\ h \in Range(jobs)
    BY <1>1, <2>1, FlowIs
  <2>3. h.got.of = filter
    BY <2>1, <2>2 DEF OfThisQuery, Cur, Ids
  <2>4. /\ Fits(offsets) /\ offsets.end <= listing.n /\ Fits(request) /\ request \in Window
    BY <2>1, TurnsFit DEF OfThisQuery
  <2>5. IsListing(listing) /\ listing.n \in Nat /\ Threaded(style) \in BOOLEAN
    BY <2>1, ListingAssumption DEF TypeOK, IsListing, Threaded
  <2>6. \/ CanDisplay(listing, request, Threaded(style)) /\ offsets' = page
        \/ ~CanDisplay(listing, request, Threaded(style)) /\ offsets' = offsets
    BY <2>3 DEF RunShow
  <2>7. /\ PageSize \in Nat \ {0} /\ MaxDisplay \in Nat /\ PageSize <= MaxDisplay
        /\ offsets.start \in Int /\ offsets.end \in Int
        /\ request.start \in Int /\ request.end \in Int
        /\ 0 <= offsets.start /\ offsets.start <= listing.n
        /\ offsets.start - 1 <= offsets.end /\ 0 <= request.start
    BY <2>1, <2>4, PageAssumption DEF Window, Fits, TypeOK
  <2>8. /\ request.start <= offsets.end + 1 /\ request.end >= offsets.start - 1
        /\ dir = "next" => request.end > offsets.end
        /\ dir = "previous" /\ offsets.start > 0 => request.start < offsets.start
        /\ request.start <= offsets.start \/ request.start <= offsets.end
    BY <2>7 DEF NextRequest, PreviousRequest
  <2> HIDE DEF h, listing, request, page
  <2>9. CASE CanDisplay(listing, request, Threaded(style)) /\ offsets' = page
    <3>1. /\ page.start \in Int /\ page.end \in Int
          /\ page.start <= request.start
          /\ page.end >= request.end \/ page.end >= listing.n - 1
      BY <2>4, <2>5, <2>7, <2>9, PageReaches DEF page
    <3>2. ListingOf[h.got.of].n = listing.n
      BY <2>3 DEF listing
    <3> QED
      BY <2>5, <2>7, <2>8, <2>4, <2>9, <3>1, <3>2
  <2>10. CASE ~CanDisplay(listing, request, Threaded(style)) /\ offsets' = offsets
    <3>1. ~(request.start \in 0 .. listing.n - 1)
      BY <2>10 DEF CanDisplay
    <3>2. ListingOf[h.got.of].n = listing.n
      BY <2>3 DEF listing
    <3> QED
      BY <2>5, <2>7, <2>8, <2>10, <3>1, <3>2
  <2> QED
    BY <2>6, <2>9, <2>10
<1>2. ListIInv /\ FlowIInv /\ [Next]_vars
         => [\A dir \in {"next", "previous"} : Joins(dir)]_vars
  BY <1>1
<1> QED
  BY <1>2, ListInvariant, FlowInvariant, PTL DEF Spec, PagingSkipsNothing

-----------------------------------------------------------------------------
(* Both parts together *)

\* What renders, jumps and page turns keep on their way and on the screen, whatever
\* the sizes and the listings: baseMessageList.js, messageList.js.
THEOREM PanelInvariant == Spec => []PanelIInv
<1>1. ListIInv /\ FlowIInv => PanelIInv
  BY DEF PanelIInv
<1> QED
  BY <1>1, ListInvariant, FlowInvariant, PTL

===============================================================================
