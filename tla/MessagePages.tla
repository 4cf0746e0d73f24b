----------------------------- MODULE MessagePages -----------------------------
(***************************************************************************)
(* Which messages of a result a message list displays: the arithmetic of    *)
(* offsets in views/baseMessageList.js.                                     *)
(*                                                                          *)
(* A result is a listing: n messages at the offsets 0 .. n-1 and, for the   *)
(* threaded styles, which of them are the roots of threads.  A message's    *)
(* replies follow it, so that the first one is always a root.  A window is  *)
(* the pair of its first and its last offset, both displayed.               *)
(***************************************************************************)
EXTENDS Integers

CONSTANTS
    PageSize,    \* MORE_PAGES_NUMBER, 20 in the code
    MaxDisplay   \* MAX_MESSAGES_IN_DISPLAY, 50 in the code

ASSUME PageAssumption ==
    PageSize \in Nat \ {0} /\ MaxDisplay \in Nat /\ PageSize <= MaxDisplay

Window == [start : Int, end : Int]

\* _offsetStart and _offsetEnd are undefined: nothing is on screen.
NoWindow == [start |-> -2, end |-> -2]

IsListing(l) ==
    /\ l.n \in Nat
    /\ l.roots \subseteq 0 .. l.n - 1
    /\ l.n > 0 => 0 \in l.roots

-------------------------------------------------------------------------------
(* What is displayed of a request                                           *)

RootsUpTo(listing, offset) == {r \in listing.roots : r <= offset}
RootsFrom(listing, offset) == {r \in listing.roots : r >= offset}

\* The root that precedes the offset, the root that follows it.
PrecedingRoot(listing, offset) ==
    CHOOSE r \in RootsUpTo(listing, offset) :
        \A s \in RootsUpTo(listing, offset) : s <= r

NextRoot(listing, offset) ==
    CHOOSE r \in RootsFrom(listing, offset) :
        \A s \in RootsFrom(listing, offset) : r <= s

\* Mutant of ThreadedOffsets: the window starts where it was requested.
ThreadedFromRequest(listing, request) ==
    [start |-> request.start,
     end   |-> IF request.end > listing.n - 1 THEN listing.n - 1 ELSE request.end]

\* _calculateThreadedMessagesOffsets: from the root of the first message; to the
\* last one requested if it is a root or the end, else to the next root, and
\* past the last message when there is none.
ThreadedOffsets(listing, request) ==
    IF listing.n = 0 THEN [start |-> 0, end |-> 0]
    ELSE [start |-> PrecedingRoot(listing, request.start),
          end   |-> IF request.end > listing.n - 1 THEN listing.n - 1
                    ELSE IF RootsFrom(listing, request.end) # {}
                         THEN NextRoot(listing, request.end)
                         ELSE listing.n]

\* calculateMessagesOffsets of a flat style.
FlatOffsets(listing, request) ==
    [start |-> request.start,
     end   |-> IF request.end < listing.n THEN request.end ELSE listing.n - 1]

\* The first offset of a request is looked up in a threaded listing.
CanDisplay(listing, request, threaded) ==
    threaded /\ listing.n > 0 => request.start \in 0 .. listing.n - 1

MessagesOffsets(listing, request, threaded) ==
    IF threaded THEN ThreadedOffsets(listing, request)
                ELSE FlatOffsets(listing, request)

\* getMessageIdsToShow: a slice of the listing.
Displayed(listing, window) ==
    {i \in 0 .. listing.n - 1 : window.start <= i /\ i <= window.end}

-------------------------------------------------------------------------------
(* What is requested                                                        *)

\* showMessages without a request.
FirstPage == [start |-> 0, end |-> PageSize]

\* Mutant of NextRequest: the display is cut by one message too many.
NextCutsMore(window) ==
    LET end == window.end + PageSize IN
    [start |-> IF end - window.start > MaxDisplay THEN window.end + 2
               ELSE window.start,
     end   |-> end]

\* getNextMessagesRequestedOffsets: a page more at the end, and less at the
\* start if the display would grow too long.
NextRequest(window) ==
    LET end == window.end + PageSize IN
    [start |-> IF end - window.start > MaxDisplay THEN end - MaxDisplay
               ELSE window.start,
     end   |-> end]

\* getPreviousMessagesRequestedOffsets
PreviousRequest(window) ==
    LET start == IF window.start - PageSize < 0 THEN 0
                 ELSE window.start - PageSize
    IN  [start |-> start,
         end   |-> IF window.end - start > MaxDisplay THEN start + MaxDisplay
                   ELSE window.end]

\* showAllMessagesAtOnce
AllAtOnce(listing) == [start |-> 0, end |-> listing.n]

\* Mutant of RequestFor: the message opens the page after the display.
RequestAfter(window, offset) ==
    [start |-> IF window.end >= 0 THEN window.end + 1 ELSE 0,
     end   |-> window.end + PageSize]

\* calculateRequestedOffsetToShowOffset: the display is extended up or down to
\* the message when it is near, or else centered on it.
RequestFor(window, offset) ==
    IF window # NoWindow /\ offset < window.start
                         /\ offset > window.start - MaxDisplay
    THEN [start |-> offset,
          end   |-> IF window.end - offset <= MaxDisplay THEN window.end
                    ELSE offset + MaxDisplay]
    ELSE IF window # NoWindow /\ offset > window.end
                              /\ offset < window.end + MaxDisplay
    THEN [start |-> IF offset - window.start <= MaxDisplay THEN window.start
                    ELSE offset - MaxDisplay,
          end   |-> offset]
    ELSE LET half  == offset - PageSize \div 2
             start == IF half < 0 THEN 0 ELSE half
         IN  [start |-> start, end |-> start + PageSize]
===============================================================================
