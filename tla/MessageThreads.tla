---------------------------- MODULE MessageThreads ----------------------------
(***************************************************************************)
(* The threads of a message list: which messages of a discussion are        *)
(* visited, in what order they are listed, and which views are made of a    *)
(* page of them (models/message.js, views/visitors, views/baseMessageList). *)
(*                                                                          *)
(* Messages are numbered in the order of their collection, a reply after    *)
(* its parent; their dates may come in any order, as imported mail does.    *)
(* A message may be hidden (moderated or deleted), and one that the query   *)
(* does not give is passed over: its replies hang from the nearest message  *)
(* above it that is listed.                                                 *)
(***************************************************************************)
EXTENDS MessagePages, SequencesExt

CONSTANTS
    Size,       \* the number of messages
    MayHide,    \* those that may be hidden
    SortStyles  \* threaded styles: "threads", "recent", "starters"

ASSUME SizeAssumption == Size \in Nat \ {0}
ASSUME MayHideAssumption == MayHide \subseteq 1 .. Size
ASSUME SortStylesAssumption ==
    SortStyles # {} /\ SortStyles \subseteq {"threads", "recent", "starters"}

Messages == 1 .. Size
None == 0    \* parentId of a message that starts a thread
Gone == -1   \* parentId of one whose parent is not in the collection

VARIABLES
    parentId, date,  \* of each message
    hidden,          \* the messages that are hidden
    results,         \* those that the query gives
    style,           \* currentViewStyle
    visitor          \* what _generateVisitorData has returned, if it has

vars == <<parentId, date, hidden, results, style, visitor>>

NoVisitor == [data |-> <<>>, order |-> <<>>, roots |-> <<>>]

\* _.sortBy, which leaves equal keys in the order they were in.
SortBy(seq, Key(_)) ==
    LET before(i, j) == \/ Key(seq[i]) < Key(seq[j])
                        \/ Key(seq[i]) = Key(seq[j]) /\ i < j
        sorted == SetToSortSeq(DOMAIN seq, before)
    IN  [i \in DOMAIN seq |-> seq[sorted[i]]]

InOrder(set) == SetToSortSeq(set, LAMBDA m, n : m < n)
Date(m) == date[m]
Replies(m) == {c \in Messages : parentId[c] = m}

-------------------------------------------------------------------------------
(* The depth-first traversal of the collection                              *)

\* visitDepthFirst: the messages that are visited, a hidden message hiding all
\* of its replies, replies in the order of their dates.
Below[m \in Messages] ==
    IF m \in hidden THEN <<>>
    ELSE LET replies == SortBy(InOrder(Replies(m)), Date)
         IN  <<m>> \o FlattenSeq([i \in DOMAIN replies |-> Below[replies[i]]])

Visits ==
    LET starters == InOrder(Replies(None))
    IN  FlattenSeq([i \in DOMAIN starters |-> Below[starters[i]]])

\* The ancestors of a visited message, from the root.
Ancestry[m \in Messages] ==
    IF parentId[m] \in Messages THEN Append(Ancestry[parentId[m]], parentId[m])
    ELSE <<>>

\* post_visit, seen from a visited message: how many messages and how many
\* listed ones are below it, and the newest date of a listed one; 0 is none.
Counts[m \in Messages] ==
    LET below     == Replies(m) \ hidden
        listed(c) == Counts[c].filtered + (IF c \in results THEN 1 ELSE 0)
        newer(x, y) == IF x < y THEN y ELSE x
    IN  [real     |-> FoldSet(LAMBDA c, n : Counts[c].real + 1 + n, 0, below),
         filtered |-> FoldSet(LAMBDA c, n : listed(c) + n, 0, below),
         newest   |-> newer(IF m \in results THEN date[m] ELSE 0,
                            FoldSet(LAMBDA c, d : newer(Counts[c].newest, d), 0, below))]

\* A listed message becomes the last child of the one it hangs from, or a root.
Hang(seen, m, last) ==
    LET level == IF last = None THEN 0 ELSE seen.data[last].level + 1
        mine  == [level |-> level, ancestors |-> Len(Ancestry[m]), above |-> last,
                  children |-> <<>>]
        data  == IF last = None THEN seen.data
                 ELSE [seen.data EXCEPT ![last].children = Append(@, m)]
    IN  [data  |-> [n \in DOMAIN data \cup {m} |-> IF n = m THEN mine ELSE data[n]],
         order |-> Append(seen.order, m),
         roots |-> IF last = None THEN Append(seen.roots, m) ELSE seen.roots]

\* Mutant of Visit: a message hangs from its parent or from nothing.
VisitFromParent(seen, m) ==
    IF m \notin results THEN seen
    ELSE Hang(seen, m, IF parentId[m] \in DOMAIN seen.data THEN parentId[m] ELSE None)

\* ObjectTreeRenderVisitor.visit: from its nearest listed ancestor.
Visit(seen, m) ==
    IF m \notin results THEN seen
    ELSE LET above == SelectSeq(Ancestry[m], LAMBDA a : a \in DOMAIN seen.data)
         IN  Hang(seen, m, IF above = <<>> THEN None ELSE Last(above))

-------------------------------------------------------------------------------
(* The sort                                                                 *)

\* The key of a style: threads by their newest message or by their date, newest
\* first; everything else by its date.
SortKey(data, m) ==
    IF data[m].level > 0 \/ style = "threads" THEN date[m]
    ELSE IF style = "recent" THEN -Counts[m].newest
    ELSE -date[m]

\* Mutant of ReSort: threads are sorted, their messages are left as visited.
ReSortRoots(seen) ==
    LET Key(m) == SortKey(seen.data, m)
        sorted[m \in DOMAIN seen.data] ==
            LET children == seen.data[m].children
            IN  <<m>> \o FlattenSeq([i \in DOMAIN children |-> sorted[children[i]]])
        roots == SortBy(seen.roots, Key)
    IN  [data  |-> seen.data,
         order |-> FlattenSeq([i \in DOMAIN roots |-> sorted[roots[i]]]),
         roots |-> roots]

\* objectTreeRenderVisitorReSort: the order and the roots are made again from
\* the sorted children, which stay as they were in the data.
ReSort(seen) ==
    LET Key(m) == SortKey(seen.data, m)
        sorted[m \in DOMAIN seen.data] ==
            LET children == SortBy(seen.data[m].children, Key)
            IN  <<m>> \o FlattenSeq([i \in DOMAIN children |-> sorted[children[i]]])
        roots == SortBy(seen.roots, Key)
    IN  [data  |-> seen.data,
         order |-> FlattenSeq([i \in DOMAIN roots |-> sorted[roots[i]]]),
         roots |-> roots]

\* _generateVisitorData
Generate ==
    /\ visitor = NoVisitor
    /\ visitor' = ReSort(FoldLeft(Visit, NoVisitor, Visits))
    /\ UNCHANGED <<parentId, date, hidden, results, style>>

-------------------------------------------------------------------------------
(* A page of it                                                             *)

Listing ==
    [n     |-> Len(visitor.order),
     roots |-> {i \in 0 .. Len(visitor.order) - 1 :
                    visitor.data[visitor.order[i + 1]].above = None}]

\* getMessageIdsToShow
IdsToShow(request) ==
    LET window == ThreadedOffsets(Listing, request)
    IN  {visitor.order[i + 1] : i \in Displayed(Listing, window)}

\* getRenderedMessagesThreadedPromise: the views, from the top; a message that
\* is not to be shown is discarded with all that hangs from it.
Rendered(ids) ==
    LET views[m \in DOMAIN visitor.data] ==
            LET children == visitor.data[m].children
            IN  IF m \notin ids THEN <<>>
                ELSE <<m>> \o FlattenSeq([i \in DOMAIN children |-> views[children[i]]])
    IN  FlattenSeq([i \in DOMAIN visitor.roots |-> views[visitor.roots[i]]])

\* What a view says of the messages out of its context.
Counted(m) == [above |-> visitor.data[m].ancestors - visitor.data[m].level,
               below |-> Counts[m].real - Counts[m].filtered]
CountedFlat(m) == [above |-> visitor.data[m].ancestors, below |-> Counts[m].real]

\* Mutant of OutOfContext: only messages left out below make a view say so.
OutOfContextBelow(m, threaded) ==
    IF ~threaded THEN CountedFlat(m)
    ELSE IF Counts[m].filtered # Counts[m].real THEN Counted(m)
    ELSE [above |-> 0, below |-> 0]

\* MessageFamilyView.serializeData: how many messages its view says there are
\* above and below, in a threaded style that the list does not show under one
\* another. The && of the test binds tighter than its ||; a view of level 1 is
\* that of a root.
OutOfContext(m, threaded) ==
    LET data == visitor.data[m]
    IN  IF ~threaded THEN CountedFlat(m)
        ELSE IF \/ Counts[m].filtered # Counts[m].real
                \/ /\ data.ancestors # data.level
                   /\ parentId[m] # None
                   /\ data.level = 0
        THEN Counted(m)
        ELSE [above |-> 0, below |-> 0]

-------------------------------------------------------------------------------
Init ==
    /\ parentId \in {p \in [Messages -> {None, Gone} \cup Messages] :
                        \A m \in Messages : p[m] < m}
    /\ date \in {d \in [Messages -> 1 .. Size] : IsInjective(d)}
    /\ hidden \in {{}} \cup {{m} : m \in MayHide}
    /\ results \in SUBSET Messages
    /\ style \in SortStyles
    /\ visitor = NoVisitor

Next == Generate
Spec == Init /\ [][Next]_vars

-------------------------------------------------------------------------------
(* Reference definitions: the replies of a message at any depth, and what a  *)
(* traversal reaches.                                                        *)

AboveOf(m) == ToSet(Ancestry[m])
Reached == {m \in Messages :
              /\ (AboveOf(m) \cup {m}) \cap hidden = {}
              /\ \A a \in AboveOf(m) \cup {m} : parentId[a] # Gone}
Under(m) == {n \in Reached : m \in AboveOf(n)}

Requests == {[start |-> s, end |-> e] : s \in 0 .. Listing.n - 1, e \in 0 .. Listing.n + 1}

\* A message list lists each message once that the query gives and that the
\* traversal reaches; what is listed under a message directly follows it, so
\* that threads are the stretches from root to root that paging relies on.
ListedInThreads ==
    visitor # NoVisitor =>
        /\ ToSet(visitor.order) = Reached \cap results
        /\ IsInjective(visitor.order)
        /\ \A i \in DOMAIN visitor.order :
              LET m == visitor.order[i]
                  k == Cardinality(Under(m) \cap results)
              IN  /\ i + k <= Len(visitor.order)
                  /\ {visitor.order[j] : j \in i + 1 .. i + k} = Under(m) \cap results
        /\ Listing \in [n : Nat, roots : SUBSET (0 .. Size)]
        /\ Listing.n > 0 => 0 \in Listing.roots

\* Siblings, and messages that hang from the same one for want of their parents,
\* are listed by date; threads as the style says.
ListedByDate ==
    \A i, j \in DOMAIN visitor.order :
        LET m == visitor.order[i]
            n == visitor.order[j]
            newest(r) == {date[x] : x \in (Under(r) \cup {r}) \cap results}
        IN  i < j /\ visitor.data[m].above = visitor.data[n].above =>
                IF visitor.data[m].level > 0 \/ style = "threads"
                THEN date[m] < date[n]
                ELSE IF style = "starters" THEN date[m] > date[n]
                ELSE \E d \in newest(m) : \A e \in newest(n) : d > e

\* Whatever is requested, a view is made of each message of the page once, and
\* of no other.
PageIsRendered ==
    visitor # NoVisitor /\ Listing.n > 0 =>
        \A request \in Requests :
            LET rendered == Rendered(IdsToShow(request))
            IN  ToSet(rendered) = IdsToShow(request) /\ IsInjective(rendered)

\* A view that speaks of messages out of context gives their exact numbers, of
\* those above and below it that the list leaves out (of all of them in a flat
\* style). In a threaded style many views say nothing, as messageFamily.js:93
\* has it; and yet each message left out that is above or below a listed one is
\* told of by some view.
ContextCounted ==
    LET listed   == DOMAIN visitor.data
        says(m)  == OutOfContext(m, TRUE)
        tells(m) == (IF says(m).above > 0 THEN AboveOf(m) ELSE {})
                        \cup (IF says(m).below > 0 THEN Under(m) ELSE {})
    IN  /\ \A m \in listed :
              /\ says(m) \in {[above |-> 0, below |-> 0],
                              [above |-> Cardinality(AboveOf(m) \ results),
                               below |-> Cardinality(Under(m) \ results)]}
              /\ OutOfContext(m, FALSE) = [above |-> Cardinality(AboveOf(m)),
                                           below |-> Cardinality(Under(m))]
        /\ \A x \in Reached \ results :
              (\E m \in listed : x \in AboveOf(m) \cup Under(m))
                  => \E m \in listed : x \in tells(m)
===============================================================================
