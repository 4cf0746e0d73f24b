------------------------ MODULE ElasticChangesProofs ------------------------
(***************************************************************************)
(* What holds of ElasticChanges for every number of threads and posts: its *)
(* inductive invariant, and with it that the index holds only texts of     *)
(* transactions which committed, that no transaction leaves the manager    *)
(* anything, and that a full reindexing run alone puts the index in sync.  *)
(***************************************************************************)
EXTENDS ElasticChanges, TLAPS

-----------------------------------------------------------------------------
(* Initial states *)

LEMMA InitIInv == Init => IInv
<1> SUFFICES ASSUME Init PROVE IInv
  OBVIOUS
<1> USE BoundAssumption
<1>1. 1 \in Text /\ FirstRow \in Row /\ FirstRow.text = 1
  BY DEF Text, FirstRow, Row
<1>2. TypeOK
  <2>1. 0 \in 0..MaxOutages /\ Post \X {1} \in SUBSET (Post \X Text)
    BY <1>1
  <2>2. seen \in [Thread -> [Post -> Row]] /\ index \in [Thread -> [Post -> Text \cup {Nothing}]]
    BY <1>1 DEF Init
  <2> QED
    BY <1>1, <2>1, <2>2 DEF Init, TypeOK
<1>3. SessionEnds /\ QueuesAreJoined /\ OnlyCommittedText
  BY DEF Init, SessionEnds, QueuesAreJoined, OnlyCommittedText, HasPending
<1>4. TextsHaveOrigin
  BY <1>1 DEF Init, TextsHaveOrigin
<1>5. AloneIsExact
  BY DEF Init, AloneIsExact
<1> QED
  BY <1>2, <1>3, <1>4, <1>5 DEF IInv

-----------------------------------------------------------------------------
(* Types *)

LEMMA FirstRowType == FirstRow \in Row
BY BoundAssumption DEF FirstRow, Row, Text

\* The row an action reads or modifies is a row.
LEMMA RowTypes ==
  ASSUME TypeOK, NEW t \in Thread, NEW p \in Post
  PROVE  /\ db[p] \in Row /\ seen[t][p] \in Row
         /\ Loaded(t, p) \in Row
         /\ Linked(t, p) \in BOOLEAN
         /\ Flushed(t, p) \in Row
         /\ Flushed(t, p).text = seen[t][p].text
         /\ Flushed(t, p).shown = seen[t][p].shown
         /\ Flushed(t, p).linked = Linked(t, p)
<1>1. db[p] \in Row /\ seen[t][p] \in Row
  BY DEF TypeOK
<1>2. Linked(t, p) \in BOOLEAN
  BY <1>1 DEF Linked, Row
<1> QED
  BY <1>1, <1>2 DEF Loaded, Flushed, Row

LEMMA BulkType ==
  ASSUME TypeOK, NEW t \in Thread, NEW done \in SUBSET Post
  PROVE  AfterBulk(t, done) \in [Post -> Text \cup {Nothing}]
BY DEF TypeOK, AfterBulk, Nothing

LEMMA ClearType ==
  ASSUME TypeOK, NEW t \in Thread, Clear(t)
  PROVE  /\ activated' \in [Thread -> BOOLEAN]
         /\ index' \in [Thread -> [Post -> Text \cup {Nothing}]]
         /\ unindex' \in [Thread -> SUBSET Post]
BY DEF TypeOK, Clear

LEMMA EndSessionType ==
  ASSUME TypeOK, NEW t \in Thread, EndSession(t)
  PROVE  /\ loaded' \in [Thread -> SUBSET Post]
         /\ seen' \in [Thread -> [Post -> Row]]
         /\ dirty' \in [Thread -> SUBSET (Post \X Column)]
         /\ written' \in [Thread -> SUBSET (Post \X Column)]
         /\ flushed' \in [Thread -> SUBSET (Post \X Text)]
BY FirstRowType DEF TypeOK, EndSession

\* Whatever a listener does to the manager keeps its types.
LEMMA IndexType ==
  ASSUME TypeOK, NEW t \in Thread, NEW p \in Post, NEW row \in Row,
         ReindexContent(t, p, row) \/ IndexContent(t, p, row)
  PROVE  /\ joined' \in [Thread -> BOOLEAN]
         /\ activated' \in [Thread -> BOOLEAN]
         /\ index' \in [Thread -> [Post -> Text \cup {Nothing}]]
         /\ unindex' \in [Thread -> SUBSET Post]
<1>1. /\ row.text \in Text \cup {Nothing}
      /\ Nothing \in Text \cup {Nothing}
      /\ index \in [Thread -> [Post -> Text \cup {Nothing}]]
      /\ unindex \in [Thread -> SUBSET Post]
  BY DEF Row, TypeOK
<1> DEFINE Put(x) == [index EXCEPT ![t] = [index[t] EXCEPT ![p] = x]]
<1>2. ASSUME NEW x \in Text \cup {Nothing}
      PROVE  Put(x) \in [Thread -> [Post -> Text \cup {Nothing}]]
  <2>1. [index[t] EXCEPT ![p] = x] \in [Post -> Text \cup {Nothing}]
    BY <1>1
  <2> QED
    BY <1>1, <2>1
<1>3. CASE UNCHANGED manager
  BY <1>3 DEF TypeOK, manager
<1>4. CASE IndexContent(t, p, row) /\ row.linked
  <2>1. Put(row.text) = index' /\ unindex' \in [Thread -> SUBSET Post]
    BY <1>1, <1>4 DEF IndexContent
  <2> QED
    BY <1>1, <1>2, <1>4, <2>1 DEF TypeOK, IndexContent, Join
<1>5. CASE UnindexContent(t, p, row) /\ row.linked
  <2>1. Put(Nothing) = index' /\ unindex' \in [Thread -> SUBSET Post]
    BY <1>1, <1>5 DEF UnindexContent
  <2> QED
    BY <1>1, <1>2, <1>5, <2>1 DEF TypeOK, UnindexContent, Join
<1>6. CASE UnindexContent(t, p, row) /\ ~row.linked
  BY <1>6 DEF TypeOK, UnindexContent, Join
<1> QED
  BY <1>3, <1>4, <1>5, <1>6 DEF ReindexContent, IndexContent

LEMMA DiscardType ==
  ASSUME TypeOK, NEW t \in Thread, Discard(t),
         phase' \in [Thread -> {"idle", "active", "committing", "finishing", "reindexing"}]
  PROVE  TypeOK'
<1>1. joined' \in [Thread -> BOOLEAN]
  BY DEF TypeOK, Discard
<1>2. /\ activated' \in [Thread -> BOOLEAN]
      /\ index' \in [Thread -> [Post -> Text \cup {Nothing}]]
      /\ unindex' \in [Thread -> SUBSET Post]
  BY ClearType DEF TypeOK, Discard
<1> QED
  BY <1>1, <1>2, EndSessionType DEF TypeOK, Discard

LEMMA TypeStep ==
  ASSUME TypeOK, [Next]_vars
  PROVE  TypeOK'
<1>1. ASSUME NEW t \in Thread, Begin(t)
      PROVE  TypeOK'
  BY <1>1 DEF TypeOK, Begin, Join, session
<1>2. ASSUME NEW t \in Thread, NEW p \in Post, Modify(t, p)
      PROVE  TypeOK'
  <2>1. Loaded(t, p) \in Row /\ Linked(t, p) \in BOOLEAN
    BY RowTypes
  <2>2. /\ lastText < MaxText => lastText + 1 \in Text
    BY BoundAssumption DEF TypeOK, Text
  <2>5. PICK row \in Row : seen' = [seen EXCEPT ![t] = [seen[t] EXCEPT ![p] = row]]
    <3>1. CASE seen' = [seen EXCEPT ![t][p] = [Loaded(t, p) EXCEPT !.text = lastText + 1]] /\ lastText < MaxText
      BY <2>1, <2>2, <3>1 DEF Row
    <3>2. CASE seen' = [seen EXCEPT ![t][p] = [Loaded(t, p) EXCEPT !.shown = ~@]]
      BY <2>1, <3>2 DEF Row
    <3>3. CASE seen' = [seen EXCEPT ![t][p] = [Loaded(t, p) EXCEPT !.linked = ~Linked(t, p)]]
      BY <2>1, <3>3 DEF Row
    <3> QED
      BY <1>2, <3>1, <3>2, <3>3 DEF Modify
  <2>6. [seen[t] EXCEPT ![p] = row] \in [Post -> Row]
    BY DEF TypeOK
  <2>3. seen' \in [Thread -> [Post -> Row]] /\ lastText' \in Text
    BY <1>2, <2>2, <2>5, <2>6 DEF TypeOK, Modify
  <2>4. dirty' \in [Thread -> SUBSET (Post \X Column)]
    BY <1>2 DEF TypeOK, Modify, Column
  <2> QED
    BY <1>2, <2>3, <2>4 DEF TypeOK, Modify, manager
<1>3. ASSUME NEW t \in Thread, Flush(t)
      PROVE  TypeOK'
  <2>1. /\ joined' \in [Thread -> BOOLEAN]
        /\ activated' \in [Thread -> BOOLEAN]
        /\ index' \in [Thread -> [Post -> Text \cup {Nothing}]]
        /\ unindex' \in [Thread -> SUBSET Post]
    BY <1>3, RowTypes, IndexType DEF Flush
  <2>2. \A p \in Post : seen[t][p].text \in Text
    BY RowTypes DEF Row
  <2> DEFINE new == {<<p, seen[t][p].text>> : p \in {q \in Post : <<q, "text">> \in dirty[t]}}
  <2>4. new \in SUBSET (Post \X Text)
    <3>1. ASSUME NEW x \in new PROVE x \in Post \X Text
      <4>1. PICK p \in Post : x = <<p, seen[t][p].text>>
        BY <3>1
      <4> QED
        BY <2>2, <4>1
    <3> QED
      BY <3>1
  <2>5. flushed' = [flushed EXCEPT ![t] = @ \cup new]
    BY <1>3 DEF Flush
  <2> HIDE DEF new
  <2>3. flushed' \in [Thread -> SUBSET (Post \X Text)]
    BY <2>4, <2>5 DEF TypeOK
  <2> QED
    BY <1>3, <2>1, <2>3 DEF TypeOK, Flush
<1>4. ASSUME NEW t \in Thread, JoinRefused(t) \/ Rollback(t) \/ AbortMutation(t)
      PROVE  TypeOK'
  <2>1. Discard(t)
    BY <1>4 DEF JoinRefused, Rollback, AbortMutation
  <2>2. phase' \in [Thread -> {"idle", "active", "committing", "finishing", "reindexing"}]
    BY <1>4 DEF TypeOK, JoinRefused, Rollback, AbortMutation
  <2> QED
    BY <2>1, <2>2, DiscardType
<1>5. ASSUME NEW t \in Thread, StartCommit(t)
      PROVE  TypeOK'
  BY <1>5 DEF TypeOK, StartCommit, session, manager
<1>6. ASSUME NEW t \in Thread, Vote(t)
      PROVE  TypeOK'
  <2>1. db' \in [Post -> Row]
    BY <1>6, RowTypes DEF Vote, Written, Row
  <2>2. phase' \in [Thread -> {"idle", "active", "committing", "finishing", "reindexing"}]
        /\ committed' \in SUBSET (Post \X Text)
    BY <1>6 DEF TypeOK, Vote
  <2> QED
    BY <1>6, <2>1, <2>2, EndSessionType DEF TypeOK, Vote, manager
<1>7. ASSUME NEW t \in Thread, Finish(t)
      PROVE  TypeOK'
  <2>1. es' \in [Post -> Text \cup {Nothing}]
    BY <1>7, BulkType DEF TypeOK, Finish
  <2> QED
    BY <1>7, <2>1, ClearType DEF TypeOK, Finish, session
<1>8. ASSUME NEW t \in Thread, FinishFails(t)
      PROVE  TypeOK'
  <2>1. es' \in [Post -> Text \cup {Nothing}] /\ outages' \in 0..MaxOutages
    BY <1>8, BulkType, BoundAssumption DEF TypeOK, FinishFails
  <2> QED
    BY <1>8, <2>1, ClearType DEF TypeOK, FinishFails, session
<1>9. ASSUME NEW t \in Thread, StartReindex(t)
      PROVE  TypeOK'
  BY <1>9 DEF TypeOK, StartReindex, manager
<1>10. ASSUME NEW t \in Thread, ReindexOne(t)
      PROVE  TypeOK'
  <2>1. PICK p \in Post : IndexContent(t, p, Flushed(t, p)) /\ loaded' = [loaded EXCEPT ![t] = @ \ {p}]
    BY <1>10 DEF ReindexOne, TypeOK
  <2>2. /\ joined' \in [Thread -> BOOLEAN]
        /\ activated' \in [Thread -> BOOLEAN]
        /\ index' \in [Thread -> [Post -> Text \cup {Nothing}]]
        /\ unindex' \in [Thread -> SUBSET Post]
    BY <2>1, RowTypes, IndexType
  <2> QED
    BY <1>10, <2>1, <2>2 DEF TypeOK, ReindexOne
<1>11. ASSUME NEW t \in Thread, IntermediateCommit(t)
      PROVE  TypeOK'
  BY <1>11, BulkType, ClearType DEF TypeOK, IntermediateCommit, session
<1>12. ASSUME NEW t \in Thread, EndReindex(t)
      PROVE  TypeOK'
  BY <1>12, BulkType, ClearType, EndSessionType DEF TypeOK, EndReindex
<1>13. ASSUME NEW t \in Thread, ReindexFails(t)
      PROVE  TypeOK'
  <2>1. es' \in [Post -> Text \cup {Nothing}] /\ outages' \in 0..MaxOutages
    BY <1>13, BulkType, BoundAssumption DEF TypeOK, ReindexFails
  <2> QED
    BY <1>13, <2>1, ClearType, EndSessionType DEF TypeOK, ReindexFails
<1>14. CASE UNCHANGED vars
  BY <1>14 DEF TypeOK, vars, session, manager
<1> QED
  BY <1>1, <1>2, <1>3, <1>4, <1>5, <1>6, <1>7, <1>8, <1>9, <1>10, <1>11, <1>12, <1>13, <1>14
  DEF Next

-----------------------------------------------------------------------------
(* Sessions end with their transactions *)

LEMMA SessionStep ==
  ASSUME TypeOK, SessionEnds, [Next]_vars
  PROVE  SessionEnds'
<1>1. ASSUME NEW t \in Thread, Begin(t) \/ StartCommit(t)
      PROVE  SessionEnds'
  BY <1>1 DEF TypeOK, SessionEnds, Begin, StartCommit, session
<1>2. ASSUME NEW t \in Thread, NEW p \in Post, Modify(t, p)
      PROVE  SessionEnds'
  <2>1. \A u \in Thread \ {t} : dirty'[u] = dirty[u]
    BY <1>2 DEF TypeOK, Modify
  <2> QED
    BY <1>2, <2>1 DEF TypeOK, SessionEnds, Modify
<1>3. ASSUME NEW t \in Thread, Flush(t)
      PROVE  SessionEnds'
  <2>1. phase[t] \in {"active", "committing"}
    BY <1>3 DEF Flush, CanFlush
  <2>2. \A u \in Thread \ {t} : dirty'[u] = dirty[u] /\ written'[u] = written[u] /\ flushed'[u] = flushed[u]
    BY <1>3 DEF TypeOK, Flush
  <2> QED
    BY <1>3, <2>1, <2>2 DEF SessionEnds, Flush
<1>4. ASSUME NEW t \in Thread,
             JoinRefused(t) \/ Rollback(t) \/ AbortMutation(t) \/ Vote(t) \/ EndReindex(t) \/ ReindexFails(t)
      PROVE  SessionEnds'
  <2>1. EndSession(t) /\ \A u \in Thread \ {t} : phase'[u] = phase[u]
    BY <1>4 DEF TypeOK, JoinRefused, Rollback, AbortMutation, Discard, Vote, EndReindex, ReindexFails
  <2> QED
    BY <2>1 DEF TypeOK, SessionEnds, EndSession
<1>5. ASSUME NEW t \in Thread, Finish(t) \/ FinishFails(t)
      PROVE  SessionEnds'
  BY <1>5 DEF TypeOK, SessionEnds, Finish, FinishFails, session
<1>6. ASSUME NEW t \in Thread, StartReindex(t) \/ ReindexOne(t) \/ IntermediateCommit(t)
      PROVE  SessionEnds'
  BY <1>6 DEF TypeOK, SessionEnds, StartReindex, ReindexOne, IntermediateCommit, session
<1>7. CASE UNCHANGED vars
  BY <1>7 DEF SessionEnds, vars, session
<1> QED
  BY <1>1, <1>2, <1>3, <1>4, <1>5, <1>6, <1>7 DEF Next

-----------------------------------------------------------------------------
(* Queues belong to the transaction that will flush or discard them *)

LEMMA ClearEffect ==
  ASSUME TypeOK, NEW t \in Thread, Clear(t)
  PROVE  /\ ~HasPending(t)' /\ ~activated'[t]
         /\ \A u \in Thread \ {t} : index'[u] = index[u] /\ unindex'[u] = unindex[u] /\ activated'[u] = activated[u]
BY DEF TypeOK, Clear, HasPending

\* What a listener leaves of the manager: it touches its thread alone, and has
\* joined if it has queued.
LEMMA IndexEffect ==
  ASSUME TypeOK, QueuesAreJoined, NEW t \in Thread, NEW p \in Post, NEW row \in Row,
         ReindexContent(t, p, row) \/ IndexContent(t, p, row)
  PROVE  /\ \A u \in Thread \ {t} : /\ index'[u] = index[u] /\ unindex'[u] = unindex[u]
                                    /\ joined'[u] = joined[u] /\ activated'[u] = activated[u]
         /\ HasPending(t)' => activated'[t]
         /\ activated'[t] => joined'[t]
         /\ \A q \in Post : index'[t][q] = index[t][q] \/ index'[t][q] = Nothing
                                \/ (q = p /\ index'[t][q] = row.text)
<1>1. CASE UNCHANGED manager
  BY <1>1 DEF TypeOK, QueuesAreJoined, HasPending, manager
<1>2. CASE Join(t) /\ UNCHANGED <<index, unindex>>
  BY <1>2 DEF TypeOK, QueuesAreJoined, HasPending, Join
<1>5. ASSUME Join(t)
      PROVE  /\ activated'[t] /\ joined'[t]
             /\ \A u \in Thread \ {t} : joined'[u] = joined[u] /\ activated'[u] = activated[u]
  BY <1>5 DEF TypeOK, QueuesAreJoined, Join
<1>6. ASSUME NEW x, index' = [index EXCEPT ![t] = [index[t] EXCEPT ![p] = x]]
      PROVE  /\ \A u \in Thread \ {t} : index'[u] = index[u]
             /\ \A q \in Post : index'[t][q] = IF q = p THEN x ELSE index[t][q]
  BY <1>6 DEF TypeOK
<1>3. CASE IndexContent(t, p, row) /\ row.linked
  <2>1. \A u \in Thread \ {t} : unindex'[u] = unindex[u]
    BY <1>3 DEF TypeOK, IndexContent
  <2>2. Join(t) /\ index' = [index EXCEPT ![t] = [index[t] EXCEPT ![p] = row.text]]
    BY <1>3 DEF IndexContent
  <2> QED
    BY <1>5, <1>6, <2>1, <2>2
<1>4. CASE UnindexContent(t, p, row) /\ row.linked
  <2>1. \A u \in Thread \ {t} : unindex'[u] = unindex[u]
    BY <1>4 DEF TypeOK, UnindexContent
  <2>2. Join(t) /\ index' = [index EXCEPT ![t] = [index[t] EXCEPT ![p] = Nothing]]
    BY <1>4 DEF UnindexContent
  <2> QED
    BY <1>5, <1>6, <2>1, <2>2
<1> QED
  BY <1>1, <1>2, <1>3, <1>4 DEF ReindexContent, IndexContent, UnindexContent

LEMMA QueueStep ==
  ASSUME TypeOK, QueuesAreJoined, [Next]_vars
  PROVE  QueuesAreJoined'
<1>1. ASSUME NEW t \in Thread, Begin(t)
      PROVE  QueuesAreJoined'
  BY <1>1 DEF TypeOK, QueuesAreJoined, HasPending, Begin, Join
<1>2. ASSUME NEW t \in Thread, NEW p \in Post, Modify(t, p)
      PROVE  QueuesAreJoined'
  BY <1>2 DEF QueuesAreJoined, HasPending, Modify, manager
<1>3. ASSUME NEW t \in Thread, Flush(t) \/ ReindexOne(t)
      PROVE  QueuesAreJoined'
  <2>1. PICK p \in Post :
            ReindexContent(t, p, Flushed(t, p)) \/ IndexContent(t, p, Flushed(t, p))
    BY <1>3 DEF Flush, ReindexOne, TypeOK
  <2>2. phase' = phase /\ phase[t] # "idle"
    BY <1>3 DEF Flush, CanFlush, ReindexOne
  <2>3. /\ \A u \in Thread \ {t} : /\ index'[u] = index[u] /\ unindex'[u] = unindex[u]
                                   /\ joined'[u] = joined[u] /\ activated'[u] = activated[u]
        /\ HasPending(t)' => activated'[t]
        /\ activated'[t] => joined'[t]
    BY <2>1, RowTypes, IndexEffect
  <2> QED
    BY <2>2, <2>3 DEF QueuesAreJoined, HasPending
<1>4. ASSUME NEW t \in Thread, JoinRefused(t) \/ Rollback(t) \/ AbortMutation(t)
      PROVE  QueuesAreJoined'
  <2>1. Discard(t) /\ \A u \in Thread \ {t} : phase'[u] = phase[u]
    BY <1>4 DEF TypeOK, JoinRefused, Rollback, AbortMutation
  <2>2. CASE joined[t]
    BY <2>1, <2>2, ClearEffect DEF TypeOK, QueuesAreJoined, HasPending, Discard
  <2>3. CASE ~joined[t]
    BY <2>1, <2>3 DEF TypeOK, QueuesAreJoined, HasPending, Discard
  <2> QED
    BY <2>2, <2>3
<1>5. ASSUME NEW t \in Thread, StartCommit(t) \/ Vote(t) \/ StartReindex(t)
      PROVE  QueuesAreJoined'
  <2>1. joined' = joined /\ activated' = activated /\ \A u \in Thread : HasPending(u)' = HasPending(u)
    BY <1>5 DEF HasPending, StartCommit, Vote, StartReindex, manager
  <2>2. \A u \in Thread : phase'[u] = "idle" => phase[u] = "idle"
    BY <1>5 DEF TypeOK, StartCommit, Vote, StartReindex
  <2> QED
    BY <2>1, <2>2 DEF QueuesAreJoined
<1>6. ASSUME NEW t \in Thread, Finish(t), ~joined[t]
      PROVE  QueuesAreJoined'
  BY <1>6 DEF TypeOK, QueuesAreJoined, HasPending, Finish
<1>7. ASSUME NEW t \in Thread, Clear(t),
             Finish(t) \/ FinishFails(t) \/ EndReindex(t) \/ ReindexFails(t)
      PROVE  QueuesAreJoined'
  <2>1. joined' = [joined EXCEPT ![t] = FALSE] /\ \A u \in Thread \ {t} : phase'[u] = phase[u]
    BY <1>7 DEF TypeOK, Finish, FinishFails, EndReindex, ReindexFails
  <2> QED
    BY <1>7, <2>1, ClearEffect DEF TypeOK, QueuesAreJoined, HasPending
<1>8. ASSUME NEW t \in Thread, IntermediateCommit(t)
      PROVE  QueuesAreJoined'
  BY <1>8, ClearEffect DEF TypeOK, QueuesAreJoined, HasPending, IntermediateCommit
<1>9. CASE UNCHANGED vars
  BY <1>9 DEF QueuesAreJoined, HasPending, vars, manager
<1> QED
  BY <1>1, <1>2, <1>3, <1>4, <1>5, <1>6, <1>7, <1>8, <1>9
  DEF Next, Finish, FinishFails, EndReindex, ReindexFails

-----------------------------------------------------------------------------
(* Every text has an origin *)

TextsOf(t) ==
  \A p \in Post :
    /\ index[t][p] # Nothing => <<p, index[t][p]>> \in committed \cup flushed[t]
    /\ p \in loaded[t] /\ <<p, "text">> \notin dirty[t] =>
            <<p, seen[t][p].text>> \in committed \cup flushed[t]
    /\ \A c \in Column : <<p, c>> \in dirty[t] \cup written[t] => p \in loaded[t]

DbTexts == \A p \in Post : <<p, db[p].text>> \in committed

LEMMA TextsSplit == TextsHaveOrigin <=> DbTexts /\ \A t \in Thread : TextsOf(t)
BY DEF TextsHaveOrigin, TextsOf, DbTexts

\* A step of another thread, and one that leaves the session alone.
LEMMA TextsFrame ==
  ASSUME NEW t \in Thread, TextsOf(t), committed \subseteq committed',
         index'[t] = index[t], loaded'[t] = loaded[t], seen'[t] = seen[t],
         dirty'[t] = dirty[t], written'[t] = written[t], flushed'[t] = flushed[t]
  PROVE  TextsOf(t)'
BY DEF TextsOf

\* A thread with an empty session and an empty queue.
LEMMA TextsNone ==
  ASSUME NEW t \in Thread, \A p \in Post : index'[t][p] = Nothing,
         loaded'[t] = {}, dirty'[t] = {}, written'[t] = {}
  PROVE  TextsOf(t)'
BY DEF TextsOf

LEMMA SessionEnded ==
  ASSUME TypeOK, NEW t \in Thread, EndSession(t)
  PROVE  /\ loaded'[t] = {} /\ dirty'[t] = {} /\ written'[t] = {} /\ flushed'[t] = {}
         /\ \A u \in Thread \ {t} : /\ loaded'[u] = loaded[u] /\ seen'[u] = seen[u]
                                    /\ dirty'[u] = dirty[u] /\ written'[u] = written[u]
                                    /\ flushed'[u] = flushed[u]
BY DEF TypeOK, EndSession

\* A transaction that is given up leaves neither session nor queue.
LEMMA DiscardEffect ==
  ASSUME TypeOK, QueuesAreJoined, NEW t \in Thread, Discard(t)
  PROVE  /\ EndSession(t)
         /\ \A p \in Post : index'[t][p] = Nothing
         /\ \A u \in Thread \ {t} : index'[u] = index[u]
         /\ db' = db /\ es' = es /\ committed' = committed
<1>1. CASE joined[t]
  BY <1>1, ClearEffect DEF Discard, HasPending
<1>2. CASE ~joined[t]
  BY <1>2 DEF Discard, QueuesAreJoined, HasPending
<1> QED
  BY <1>1, <1>2

LEMMA TextsModify ==
  ASSUME TypeOK, DbTexts, NEW t \in Thread, TextsOf(t), NEW p \in Post, Modify(t, p)
  PROVE  TextsOf(t)'
<1>1. /\ dirty[t] = {} /\ loaded'[t] = loaded[t] \cup {p}
      /\ index' = index /\ written' = written /\ flushed' = flushed /\ committed' = committed
  BY DEF TypeOK, Modify, manager
<1>2. Loaded(t, p) \in Row
  BY RowTypes
<1>3. <<p, Loaded(t, p).text>> \in committed \cup flushed[t]
  BY <1>1 DEF TextsOf, DbTexts, Loaded
<1>4. \A q \in Post \ {p} : seen'[t][q] = seen[t][q]
  BY DEF TypeOK, Modify
<1>5. \/ dirty'[t] = {<<p, "text">>}
      \/ seen'[t][p].text = Loaded(t, p).text /\ dirty'[t] \in {{<<p, "shown">>}, {<<p, "linked">>}}
  BY <1>2 DEF TypeOK, Modify, Row
<1>6. \A q \in Post, c \in Column : <<q, c>> \in dirty'[t] => q = p
  BY <1>5
<1> QED
  BY <1>1, <1>3, <1>4, <1>5, <1>6 DEF TextsOf

LEMMA TextsFlush ==
  ASSUME TypeOK, QueuesAreJoined, NEW t \in Thread, TextsOf(t), Flush(t)
  PROVE  TextsOf(t)'
<1> DEFINE new == {<<p, seen[t][p].text>> : p \in {q \in Post : <<q, "text">> \in dirty[t]}}
<1>1. PICK p \in Post, c \in Column : <<p, c>> \in dirty[t] /\ ReindexContent(t, p, Flushed(t, p))
  BY DEF Flush, CanFlush
<1>2. /\ dirty'[t] = {} /\ written'[t] = written[t] \cup dirty[t] /\ flushed'[t] = flushed[t] \cup new
      /\ loaded' = loaded /\ seen' = seen /\ committed' = committed
  BY DEF TypeOK, Flush
<1>3. \A q \in Post : <<q, "text">> \in dirty[t] => <<q, seen[t][q].text>> \in new
  OBVIOUS
<1> HIDE DEF new
<1>4. \A q \in Post : q \in loaded[t] => <<q, seen[t][q].text>> \in committed' \cup flushed'[t]
  BY <1>2, <1>3 DEF TextsOf
<1>5. p \in loaded[t]
  BY <1>1 DEF TextsOf
<1>6. \A q \in Post : index'[t][q] = index[t][q] \/ index'[t][q] = Nothing
                        \/ (q = p /\ index'[t][q] = seen[t][q].text)
  BY <1>1, RowTypes, IndexEffect
<1>7. \A q \in Post : index'[t][q] # Nothing => <<q, index'[t][q]>> \in committed' \cup flushed'[t]
  BY <1>2, <1>4, <1>5, <1>6 DEF TextsOf
<1> QED
  BY <1>2, <1>4, <1>7 DEF TextsOf

LEMMA TextsReindexOne ==
  ASSUME TypeOK, QueuesAreJoined, SessionEnds, NEW t \in Thread, TextsOf(t), ReindexOne(t)
  PROVE  TextsOf(t)'
<1>1. PICK p \in loaded[t] : IndexContent(t, p, Flushed(t, p)) /\ loaded' = [loaded EXCEPT ![t] = @ \ {p}]
  BY DEF ReindexOne
<1>2. p \in Post /\ loaded'[t] = loaded[t] \ {p}
  BY <1>1 DEF TypeOK
<1>3. dirty[t] = {} /\ written[t] = {}
  BY DEF SessionEnds, ReindexOne
<1>4. \A q \in Post : index'[t][q] = index[t][q] \/ index'[t][q] = Nothing
                        \/ (q = p /\ index'[t][q] = seen[t][q].text)
  BY <1>1, <1>2, RowTypes, IndexEffect
<1> QED
  BY <1>1, <1>2, <1>3, <1>4 DEF TextsOf, ReindexOne

LEMMA TextStep ==
  ASSUME TypeOK, SessionEnds, QueuesAreJoined, TextsHaveOrigin, [Next]_vars
  PROVE  TextsHaveOrigin'
<1> USE TextsSplit
<1>0. DbTexts /\ \A t \in Thread : TextsOf(t)
  OBVIOUS
<1>a. SUFFICES DbTexts' /\ \A t \in Thread : TextsOf(t)'
  BY DEF TextsHaveOrigin, TextsOf, DbTexts
<1>1. ASSUME NEW t \in Thread, Begin(t) \/ StartCommit(t)
      PROVE  DbTexts' /\ \A u \in Thread : TextsOf(u)'
  BY <1>0, <1>1, TextsFrame DEF Begin, StartCommit, session, manager, DbTexts
<1>2. ASSUME NEW t \in Thread, NEW p \in Post, Modify(t, p)
      PROVE  DbTexts' /\ \A u \in Thread : TextsOf(u)'
  <2>1. \A u \in Thread \ {t} : loaded'[u] = loaded[u] /\ seen'[u] = seen[u] /\ dirty'[u] = dirty[u]
    BY <1>2 DEF TypeOK, Modify
  <2>2. \A u \in Thread \ {t} : TextsOf(u)'
    BY <1>0, <1>2, <2>1, TextsFrame DEF Modify, manager
  <2> QED
    BY <1>0, <1>2, <2>2, TextsModify DEF Modify, DbTexts
<1>3. ASSUME NEW t \in Thread, Flush(t)
      PROVE  DbTexts' /\ \A u \in Thread : TextsOf(u)'
  <2>1. \A u \in Thread \ {t} : dirty'[u] = dirty[u] /\ written'[u] = written[u] /\ flushed'[u] = flushed[u]
    BY <1>3 DEF TypeOK, Flush
  <2>2. \A u \in Thread \ {t} : index'[u] = index[u]
    BY <1>3, RowTypes, IndexEffect DEF Flush
  <2>3. \A u \in Thread \ {t} : TextsOf(u)'
    BY <1>0, <1>3, <2>1, <2>2, TextsFrame DEF Flush
  <2> QED
    BY <1>0, <1>3, <2>3, TextsFlush DEF Flush, DbTexts
<1>4. ASSUME NEW t \in Thread, JoinRefused(t) \/ Rollback(t) \/ AbortMutation(t)
      PROVE  DbTexts' /\ \A u \in Thread : TextsOf(u)'
  <2>1. Discard(t)
    BY <1>4 DEF JoinRefused, Rollback, AbortMutation
  <2>2. TextsOf(t)'
    BY <2>1, DiscardEffect, SessionEnded, TextsNone
  <2>3. \A u \in Thread \ {t} : TextsOf(u)'
    BY <1>0, <2>1, DiscardEffect, SessionEnded, TextsFrame
  <2> QED
    BY <1>0, <2>1, <2>2, <2>3, DiscardEffect DEF DbTexts
<1>5. ASSUME NEW t \in Thread, Vote(t)
      PROVE  DbTexts' /\ \A u \in Thread : TextsOf(u)'
  <2>1. EndSession(t) /\ committed' = committed \cup flushed[t] /\ index' = index /\ dirty[t] = {}
    BY <1>5 DEF Vote, manager
  <2>2. TextsOf(t)'
    BY <1>0, <2>1, SessionEnded DEF TextsOf
  <2>3. \A u \in Thread \ {t} : TextsOf(u)'
    BY <1>0, <2>1, SessionEnded, TextsFrame
  <2>4. ASSUME NEW p \in Post
        PROVE  <<p, db'[p].text>> \in committed'
    <3>1. db'[p].text = IF <<p, "text">> \in written[t] THEN seen[t][p].text ELSE db[p].text
      BY <1>5 DEF Vote, Written
    <3> QED
      BY <1>0, <2>1, <3>1 DEF TextsOf, DbTexts, Column
  <2> QED
    BY <2>2, <2>3, <2>4 DEF DbTexts
<1>6. ASSUME NEW t \in Thread, Finish(t) \/ FinishFails(t) \/ IntermediateCommit(t)
      PROVE  DbTexts' /\ \A u \in Thread : TextsOf(u)'
  <2>1. UNCHANGED <<db, committed, session>>
    BY <1>6 DEF Finish, FinishFails, IntermediateCommit
  <2>2. /\ \A p \in Post : index'[t][p] = index[t][p] \/ index'[t][p] = Nothing
        /\ \A u \in Thread \ {t} : index'[u] = index[u]
    BY <1>6, ClearEffect DEF Finish, FinishFails, IntermediateCommit, HasPending
  <2> QED
    BY <1>0, <2>1, <2>2 DEF TextsOf, DbTexts, session
<1>7. ASSUME NEW t \in Thread, StartReindex(t)
      PROVE  DbTexts' /\ \A u \in Thread : TextsOf(u)'
  <2>1. UNCHANGED <<db, dirty, written, flushed, index, committed>>
    BY <1>7 DEF StartReindex, manager
  <2>2. /\ seen'[t] = db /\ dirty[t] = {} /\ written[t] = {}
        /\ \A u \in Thread \ {t} : loaded'[u] = loaded[u] /\ seen'[u] = seen[u]
    BY <1>7 DEF TypeOK, SessionEnds, StartReindex
  <2>3. \A u \in Thread \ {t} : TextsOf(u)'
    BY <1>0, <2>1, <2>2, TextsFrame
  <2>4. TextsOf(t)'
    BY <1>0, <2>1, <2>2 DEF TextsOf, DbTexts
  <2> QED
    BY <1>0, <2>1, <2>3, <2>4 DEF DbTexts
<1>8. ASSUME NEW t \in Thread, ReindexOne(t)
      PROVE  DbTexts' /\ \A u \in Thread : TextsOf(u)'
  <2>1. UNCHANGED <<db, seen, dirty, written, flushed, committed>>
        /\ \A u \in Thread \ {t} : loaded'[u] = loaded[u]
    BY <1>8 DEF TypeOK, ReindexOne
  <2>2. \A u \in Thread \ {t} : index'[u] = index[u]
    BY <1>8, RowTypes, IndexEffect DEF ReindexOne, TypeOK
  <2>3. \A u \in Thread \ {t} : TextsOf(u)'
    BY <1>0, <2>1, <2>2, TextsFrame
  <2> QED
    BY <1>0, <1>8, <2>1, <2>3, TextsReindexOne DEF DbTexts
<1>9. ASSUME NEW t \in Thread, EndReindex(t) \/ ReindexFails(t)
      PROVE  DbTexts' /\ \A u \in Thread : TextsOf(u)'
  <2>1. EndSession(t) /\ Clear(t) /\ UNCHANGED <<db, committed>>
    BY <1>9 DEF EndReindex, ReindexFails
  <2>2. TextsOf(t)'
    BY <2>1, ClearEffect, SessionEnded, TextsNone DEF HasPending
  <2>3. \A u \in Thread \ {t} : TextsOf(u)'
    BY <1>0, <2>1, ClearEffect, SessionEnded, TextsFrame
  <2> QED
    BY <1>0, <2>1, <2>2, <2>3 DEF DbTexts
<1>10. CASE UNCHANGED vars
  BY <1>0, <1>10, TextsFrame DEF vars, session, manager, DbTexts
<1> QED
  BY <1>1, <1>2, <1>3, <1>4, <1>5, <1>6, <1>7, <1>8, <1>9, <1>10 DEF Next

-----------------------------------------------------------------------------
(* What reaches the index *)

LEMMA CommittedStep ==
  ASSUME TypeOK, SessionEnds, TextsHaveOrigin, OnlyCommittedText, [Next]_vars
  PROVE  OnlyCommittedText'
<1>1. ASSUME NEW t \in Thread, NEW done \in SUBSET Post,
             phase[t] \in {"finishing", "reindexing"}, es' = AfterBulk(t, done), committed' = committed
      PROVE  OnlyCommittedText'
  <2>1. flushed[t] = {}
    BY <1>1 DEF SessionEnds
  <2>2. \A p \in Post : index[t][p] # Nothing => <<p, index[t][p]>> \in committed
    BY <2>1 DEF TextsHaveOrigin
  <2>3. \A p \in Post : es'[p] \in {es[p], Nothing} \/ (index[t][p] # Nothing /\ es'[p] = index[t][p])
    BY <1>1 DEF AfterBulk
  <2> QED
    BY <1>1, <2>2, <2>3 DEF OnlyCommittedText
<1>2. ASSUME NEW t \in Thread,
             (Finish(t) /\ joined[t]) \/ FinishFails(t) \/ IntermediateCommit(t) \/ EndReindex(t) \/ ReindexFails(t)
      PROVE  OnlyCommittedText'
  <2>1. \E done \in SUBSET Post : es' = AfterBulk(t, done)
    BY <1>2 DEF Finish, FinishFails, IntermediateCommit, EndReindex, ReindexFails
  <2>2. phase[t] \in {"finishing", "reindexing"} /\ committed' = committed
    BY <1>2 DEF Finish, FinishFails, IntermediateCommit, EndReindex, ReindexFails
  <2> QED
    BY <1>1, <2>1, <2>2
<1>3. ASSUME es' = es, committed \subseteq committed'
      PROVE  OnlyCommittedText'
  BY <1>3 DEF OnlyCommittedText
<1>4. ASSUME NEW t \in Thread,
             \/ Begin(t) \/ (\E p \in Post : Modify(t, p)) \/ Flush(t) \/ JoinRefused(t) \/ Rollback(t)
             \/ AbortMutation(t) \/ StartCommit(t) \/ Vote(t) \/ (Finish(t) /\ ~joined[t]) \/ ReindexOne(t)
      PROVE  OnlyCommittedText'
  <2>1. es' = es /\ committed \subseteq committed'
    BY <1>4 DEF Begin, Modify, Flush, JoinRefused, Rollback, AbortMutation, Discard, StartCommit,
                Vote, Finish, ReindexOne
  <2> QED
    BY <1>3, <2>1
<1>5. ASSUME NEW t \in Thread, StartReindex(t)
      PROVE  OnlyCommittedText'
  BY <1>5 DEF StartReindex, OnlyCommittedText
<1>6. CASE UNCHANGED vars
  BY <1>3, <1>6 DEF vars
<1> QED
  BY <1>2, <1>4, <1>5, <1>6 DEF Next

-----------------------------------------------------------------------------
(* The script when it runs alone *)

\* A step of t other than the two that may start a transaction of an idle thread.
Ongoing(t) ==
  \/ \E p \in Post : Modify(t, p)
  \/ Flush(t) \/ JoinRefused(t) \/ Rollback(t) \/ AbortMutation(t) \/ StartCommit(t) \/ Vote(t)
  \/ Finish(t) \/ FinishFails(t) \/ ReindexOne(t) \/ IntermediateCommit(t) \/ EndReindex(t) \/ ReindexFails(t)

LEMMA OngoingEffect ==
  ASSUME TypeOK, NEW t \in Thread, Ongoing(t)
  PROVE  /\ phase[t] # "idle"
         /\ quiet' = quiet
         /\ \A u \in Thread \ {t} : phase'[u] = phase[u]
         /\ phase'[t] = "reindexing" => ReindexOne(t) \/ IntermediateCommit(t)
<1>1. ASSUME NEW p \in Post, Modify(t, p)
      PROVE  phase[t] = "active" /\ quiet' = quiet /\ phase' = phase
  BY <1>1 DEF Modify
<1>2. ASSUME Flush(t)
      PROVE  phase[t] \in {"active", "committing"} /\ quiet' = quiet /\ phase' = phase
  BY <1>2 DEF Flush, CanFlush
<1>3. ASSUME JoinRefused(t) \/ Rollback(t) \/ AbortMutation(t)
      PROVE  /\ phase[t] # "idle" /\ quiet' = quiet /\ phase'[t] # "reindexing"
             /\ \A u \in Thread \ {t} : phase'[u] = phase[u]
  BY <1>3 DEF TypeOK, JoinRefused, LateJoin, Rollback, AbortMutation, Discard
<1>4. ASSUME StartCommit(t) \/ Vote(t) \/ Finish(t) \/ FinishFails(t) \/ EndReindex(t) \/ ReindexFails(t)
      PROVE  /\ phase[t] # "idle" /\ quiet' = quiet /\ phase'[t] # "reindexing"
             /\ \A u \in Thread \ {t} : phase'[u] = phase[u]
  BY <1>4 DEF TypeOK, StartCommit, Vote, Finish, FinishFails, EndReindex, ReindexFails
<1>5. ASSUME ReindexOne(t) \/ IntermediateCommit(t)
      PROVE  phase[t] = "reindexing" /\ quiet' = quiet /\ phase' = phase
  BY <1>5 DEF ReindexOne, IntermediateCommit
<1> QED
  BY <1>1, <1>2, <1>3, <1>4, <1>5 DEF Ongoing

\* AloneIsExact, for one thread.
Exact(t) ==
  phase[t] = "reindexing" /\ quiet =>
    /\ \A u \in Others(t) : phase[u] = "idle"
    /\ \A p \in loaded[t] : seen[t][p] = db[p] /\ db[p].shown
    /\ \A p \in Post :
        AfterBulk(t, Post)[p] = IF p \in loaded[t] THEN Nothing ELSE IndexedText(db[p])

LEMMA BulkOf ==
  ASSUME NEW t \in Thread, NEW p \in Post
  PROVE  AfterBulk(t, Post)[p] = IF p \in unindex[t] THEN Nothing
                                 ELSE IF index[t][p] # Nothing THEN index[t][p] ELSE es[p]
BY DEF AfterBulk

LEMMA ExactStart ==
  ASSUME TypeOK, QueuesAreJoined, NEW t \in Thread, StartReindex(t)
  PROVE  Exact(t)'
<1>1. /\ unindex'[t] = {} /\ \A p \in Post : index'[t][p] = Nothing
  BY DEF QueuesAreJoined, HasPending, StartReindex, manager
<1>2. /\ db' = db /\ seen'[t] = db /\ loaded'[t] = {p \in Post : db[p].shown}
      /\ \A p \in Post : es'[p] = Nothing
  BY DEF TypeOK, StartReindex
<1>3. quiet' => \A u \in Others(t) : phase'[u] = "idle"
  BY DEF TypeOK, StartReindex, Others
<1>4. \A p \in Post : AfterBulk(t, Post)'[p] = Nothing
  BY <1>1, <1>2 DEF AfterBulk
<1>5. \A p \in Post : p \notin loaded'[t] => IndexedText(db'[p]) = Nothing
  BY <1>2 DEF IndexedText
<1> QED
  BY <1>2, <1>3, <1>4, <1>5 DEF Exact, Others

LEMMA ExactOne ==
  ASSUME TypeOK, SessionEnds, QueuesAreJoined, NEW t \in Thread, Exact(t), ReindexOne(t)
  PROVE  Exact(t)'
<1>1. PICK p \in loaded[t] : IndexContent(t, p, Flushed(t, p)) /\ loaded' = [loaded EXCEPT ![t] = @ \ {p}]
  BY DEF ReindexOne
<1>2. p \in Post /\ loaded'[t] = loaded[t] \ {p}
  BY <1>1 DEF TypeOK
<1>3. /\ UNCHANGED <<db, es, phase, seen, quiet>> /\ phase[t] = "reindexing"
      /\ dirty[t] = {} /\ written[t] = {}
  BY DEF SessionEnds, ReindexOne
<1> SUFFICES ASSUME quiet PROVE Exact(t)'
  BY <1>3 DEF Exact
<1>4. /\ seen[t][p] = db[p] /\ db[p].shown
      /\ AfterBulk(t, Post)[p] = Nothing
  BY <1>1, <1>2, <1>3 DEF Exact
<1>5. Flushed(t, p).linked = db[p].linked /\ Flushed(t, p).text = db[p].text
  BY <1>2, <1>3, <1>4, RowTypes DEF Linked
<1>6. db[p].text # Nothing
  BY <1>2, BoundAssumption DEF TypeOK, Row, Text, Nothing
<1>7. AfterBulk(t, Post)'[p] = IndexedText(db[p])
  <2>1. CASE db[p].linked
    <3>1. unindex' = [unindex EXCEPT ![t] = @ \ {p}] /\ index' = [index EXCEPT ![t][p] = db[p].text]
      BY <1>1, <1>5, <2>1 DEF IndexContent
    <3>2. p \notin unindex'[t] /\ index'[t][p] = db[p].text
      BY <1>2, <3>1 DEF TypeOK
    <3> QED
      BY <1>2, <1>4, <1>6, <2>1, <3>2 DEF AfterBulk, IndexedText
  <2>2. CASE ~db[p].linked
    <3>1. UNCHANGED manager
      BY <1>1, <1>5, <2>2 DEF IndexContent
    <3> QED
      BY <1>3, <1>4, <2>2, <3>1 DEF AfterBulk, IndexedText, manager
  <2> QED
    BY <2>1, <2>2
<1>8. ASSUME NEW q \in Post \ {p}
      PROVE  AfterBulk(t, Post)'[q] = AfterBulk(t, Post)[q]
  <2>1. CASE Flushed(t, p).linked
    <3>1. (q \in unindex'[t]) = (q \in unindex[t]) /\ index'[t][q] = index[t][q]
      BY <1>1, <1>2, <2>1 DEF TypeOK, IndexContent
    <3> QED
      BY <1>3, <3>1 DEF AfterBulk
  <2>2. CASE ~Flushed(t, p).linked
    BY <1>1, <1>3, <2>2 DEF AfterBulk, IndexContent, manager
  <2> QED
    BY <2>1, <2>2
<1> QED
  BY <1>2, <1>3, <1>7, <1>8 DEF Exact, Others

LEMMA ExactIntermediate ==
  ASSUME TypeOK, NEW t \in Thread, Exact(t), IntermediateCommit(t)
  PROVE  Exact(t)'
<1>1. UNCHANGED <<db, phase, loaded, seen, quiet>> /\ es' = AfterBulk(t, Post) /\ ~HasPending(t)'
  BY ClearEffect DEF IntermediateCommit, session
<1>2. \A p \in Post : AfterBulk(t, Post)'[p] = AfterBulk(t, Post)[p]
  BY <1>1 DEF AfterBulk, HasPending
<1> QED
  BY <1>1, <1>2 DEF Exact, Others

LEMMA AloneStep ==
  ASSUME TypeOK, SessionEnds, QueuesAreJoined, AloneIsExact, [Next]_vars
  PROVE  AloneIsExact'
<1>0. \A t \in Thread : Exact(t)
  BY DEF AloneIsExact, Exact
<1> SUFFICES \A t \in Thread : Exact(t)'
  BY DEF AloneIsExact, Exact
<1>1. ASSUME NEW t \in Thread, Begin(t)
      PROVE  \A u \in Thread : Exact(u)'
  BY <1>1 DEF Begin, Exact
<1>2. ASSUME NEW t \in Thread, StartReindex(t)
      PROVE  \A u \in Thread : Exact(u)'
  <2>1. ASSUME NEW u \in Thread \ {t}, quiet'
        PROVE  phase'[u] = "idle"
    BY <1>2, <2>1 DEF TypeOK, StartReindex, Others
  <2> QED
    BY <1>2, <2>1, ExactStart DEF Exact
<1>3. ASSUME NEW t \in Thread, Ongoing(t)
      PROVE  \A u \in Thread : Exact(u)'
  <2>1. ASSUME NEW u \in Thread \ {t}
        PROVE  ~(phase'[u] = "reindexing" /\ quiet')
    BY <1>0, <1>3, OngoingEffect DEF Exact, Others
  <2>2. Exact(t)'
    <3>1. CASE ReindexOne(t)
      BY <1>0, <3>1, ExactOne
    <3>2. CASE IntermediateCommit(t)
      BY <1>0, <3>2, ExactIntermediate
    <3>3. CASE phase'[t] # "reindexing"
      BY <3>3 DEF Exact
    <3> QED
      BY <1>3, <3>1, <3>2, <3>3, OngoingEffect
  <2> QED
    BY <2>1, <2>2 DEF Exact
<1>4. CASE UNCHANGED vars
  BY <1>0, <1>4 DEF Exact, Others, AfterBulk, vars, session, manager
<1> QED
  BY <1>1, <1>2, <1>3, <1>4 DEF Next, Ongoing

-----------------------------------------------------------------------------
(* In sync with one thread *)

\* The code's promise is about one transaction at a time, and the manager only
\* finds the document of a post through an idea that still indexes it.
OneThread == \E t : Thread = {t}

NoUnlink == "unlink" \notin Columns

\* InSync, for one thread.
Synced(t) ==
  /\ \A x, y \in dirty[t] : x = y
  /\ phase[t] = "reindexing" => quiet
  /\ phase[t] # "reindexing" => \A p \in Post : InStep(t, p)
  /\ phase[t] \in {"idle", "active", "committing"} =>
          \A p \in Post : es[p] = IndexedText(db[p])

LEMMA InSyncSplit == InSync <=> (outages = 0 => \A t \in Thread : Synced(t))
BY DEF InSync, Synced

LEMMA InitInSync == Init => InSync
<1> SUFFICES ASSUME Init, NEW t \in Thread
             PROVE  Synced(t)
  BY DEF InSync, Synced
<1>1. /\ dirty[t] = {} /\ written[t] = {} /\ loaded[t] = {} /\ phase[t] = "idle"
      /\ \A p \in Post : es[p] = Nothing /\ db[p] = FirstRow
      /\ unindex[t] = {} /\ \A p \in Post : index[t][p] = Nothing
  BY DEF Init
<1>2. \A p \in Post : es[p] = IndexedText(db[p])
  BY <1>1 DEF IndexedText, FirstRow
<1>3. ASSUME NEW p \in Post
      PROVE  InStep(t, p)
  <2>1. AfterBulk(t, Post)[p] = Nothing
    BY <1>1 DEF AfterBulk
  <2>2. ~Written(t, p).linked
    BY <1>1 DEF Written, FirstRow
  <2> QED
    BY <1>1, <2>1, <2>2 DEF InStep, IndexedText
<1> QED
  BY <1>1, <1>2, <1>3 DEF Synced

\* An empty session over an empty queue is in step when the index is.
LEMMA InStepEmpty ==
  ASSUME NEW t \in Thread, NEW p \in Post,
         loaded'[t] = {}, dirty'[t] = {}, written'[t] = {}, ~HasPending(t)',
         es'[p] = IndexedText(db'[p])
  PROVE  InStep(t, p)'
<1>1. AfterBulk(t, Post)'[p] = es'[p]
  BY DEF AfterBulk, HasPending
<1>2. Linked(t, p)' = db'[p].linked
  BY DEF Linked
<1>3. IndexedText(Written(t, p))' = IndexedText(db'[p])
  BY DEF Written, IndexedText
<1>4. ~db'[p].linked => IndexedText(db'[p]) = Nothing
  BY DEF IndexedText
<1> QED
  BY <1>1, <1>2, <1>3, <1>4 DEF InStep

\* A step that changes nothing of what InStep reads.
LEMMA InStepFrame ==
  ASSUME NEW t \in Thread, NEW p \in Post, InStep(t, p),
         db' = db, AfterBulk(t, Post)'[p] = AfterBulk(t, Post)[p],
         loaded'[t] = loaded[t], seen'[t] = seen[t], dirty'[t] = dirty[t], written'[t] = written[t]
  PROVE  InStep(t, p)'
<1>1. Linked(t, p)' = Linked(t, p) /\ Written(t, p)' = Written(t, p)
  BY DEF Linked, Written
<1>2. IndexedText(Written(t, p))' = IndexedText(Written(t, p))
  BY <1>1 DEF IndexedText
<1> QED
  BY <1>1, <1>2 DEF InStep

\* What a listener does to the index that the bulk request will leave.
LEMMA ReindexEffect ==
  ASSUME TypeOK, NEW t \in Thread, NEW p \in Post, NEW row \in Row, es' = es,
         ReindexContent(t, p, row)
  PROVE  /\ \A q \in Post \ {p} : AfterBulk(t, Post)'[q] = AfterBulk(t, Post)[q]
         /\ AfterBulk(t, Post)'[p] = IF row.linked THEN IndexedText(row) ELSE AfterBulk(t, Post)[p]
<1>1. row.text # Nothing
  BY BoundAssumption DEF Row, Text, Nothing
<1>2. CASE ~row.linked
  BY <1>2 DEF ReindexContent, IndexContent, UnindexContent, manager, AfterBulk
<1>3. CASE row.linked /\ row.shown
  <2>1. /\ unindex' = [unindex EXCEPT ![t] = @ \ {p}]
        /\ index' = [index EXCEPT ![t] = [index[t] EXCEPT ![p] = row.text]]
    BY <1>3 DEF ReindexContent, IndexContent
  <2>2. /\ p \notin unindex'[t] /\ index'[t][p] = row.text
        /\ \A q \in Post \ {p} : (q \in unindex'[t] <=> q \in unindex[t]) /\ index'[t][q] = index[t][q]
    BY <2>1 DEF TypeOK
  <2> QED
    BY <1>1, <1>3, <2>2 DEF AfterBulk, IndexedText
<1>4. CASE row.linked /\ ~row.shown
  <2>1. /\ unindex' = [unindex EXCEPT ![t] = @ \cup {p}]
        /\ index' = [index EXCEPT ![t] = [index[t] EXCEPT ![p] = Nothing]]
    BY <1>4 DEF ReindexContent, UnindexContent
  <2>2. /\ p \in unindex'[t]
        /\ \A q \in Post \ {p} : (q \in unindex'[t] <=> q \in unindex[t]) /\ index'[t][q] = index[t][q]
    BY <2>1 DEF TypeOK
  <2> QED
    BY <1>4, <2>2 DEF AfterBulk, IndexedText
<1> QED
  BY <1>2, <1>3, <1>4 DEF Row

LEMMA SyncedModify ==
  ASSUME TypeOK, TextsHaveOrigin, NoUnlink, NEW t \in Thread, Synced(t),
         NEW p \in Post, Modify(t, p)
  PROVE  Synced(t)'
<1>1. /\ UNCHANGED <<db, es, phase, written, quiet, index, unindex>> /\ phase[t] = "active"
      /\ dirty[t] = {} /\ loaded'[t] = loaded[t] \cup {p}
      /\ \A q \in Post \ {p} : seen'[t][q] = seen[t][q]
  BY DEF TypeOK, Modify, manager
<1>2. \A q \in Post : AfterBulk(t, Post)'[q] = AfterBulk(t, Post)[q]
  BY <1>1 DEF AfterBulk
<1>3. Loaded(t, p) \in Row /\ Linked(t, p) \in BOOLEAN /\ db[p] \in Row
  BY RowTypes
<1>4. \/ /\ dirty'[t] = {<<p, "text">>}
         /\ seen'[t][p].shown = Loaded(t, p).shown /\ seen'[t][p].linked = Loaded(t, p).linked
      \/ /\ dirty'[t] = {<<p, "shown">>}
         /\ seen'[t][p].text = Loaded(t, p).text /\ seen'[t][p].linked = Loaded(t, p).linked
      \/ /\ dirty'[t] = {<<p, "linked">>} /\ seen'[t][p].linked
         /\ seen'[t][p].text = Loaded(t, p).text /\ seen'[t][p].shown = Loaded(t, p).shown
  <2>1. ASSUME NEW row, seen' = [seen EXCEPT ![t] = [seen[t] EXCEPT ![p] = row]]
        PROVE  seen'[t][p] = row
    BY <2>1 DEF TypeOK
  <2>2. ASSUME NEW col, dirty' = [dirty EXCEPT ![t] = {<<p, col>>}]
        PROVE  dirty'[t] = {<<p, col>>}
    BY <2>2 DEF TypeOK
  <2>3. CASE /\ seen' = [seen EXCEPT ![t][p] = [Loaded(t, p) EXCEPT !.text = lastText + 1]]
             /\ dirty' = [dirty EXCEPT ![t] = {<<p, "text">>}]
    <3>1. dirty'[t] = {<<p, "text">>} /\ seen'[t][p] = [Loaded(t, p) EXCEPT !.text = lastText + 1]
      BY <2>1, <2>2, <2>3
    <3> QED
      BY <1>3, <2>3, <3>1 DEF Row
  <2>4. CASE /\ seen' = [seen EXCEPT ![t][p] = [Loaded(t, p) EXCEPT !.shown = ~@]]
             /\ dirty' = [dirty EXCEPT ![t] = {<<p, "shown">>}]
    <3>1. dirty'[t] = {<<p, "shown">>} /\ seen'[t][p] = [Loaded(t, p) EXCEPT !.shown = ~@]
      BY <2>1, <2>2, <2>4
    <3> QED
      BY <1>3, <2>4, <3>1 DEF Row
  <2>5. CASE /\ ~Linked(t, p)
             /\ seen' = [seen EXCEPT ![t][p] = [Loaded(t, p) EXCEPT !.linked = ~Linked(t, p)]]
             /\ dirty' = [dirty EXCEPT ![t] = {<<p, "linked">>}]
    <3>1. dirty'[t] = {<<p, "linked">>} /\ seen'[t][p] = [Loaded(t, p) EXCEPT !.linked = ~Linked(t, p)]
      BY <2>1, <2>2, <2>5
    <3>2. (~Linked(t, p)) = TRUE
      BY <2>5
    <3>3. seen'[t][p] = [Loaded(t, p) EXCEPT !.linked = TRUE]
      BY <3>1, <3>2
    <3> QED
      BY <1>3, <3>1, <3>3 DEF Row
  <2> QED
    BY <2>3, <2>4, <2>5 DEF Modify, NoUnlink
<1>5. ASSUME NEW q \in Post \ {p}
      PROVE  InStep(t, q)'
  <2>1. \A c \in Column : <<q, c>> \notin dirty'[t]
    BY <1>4
  <2>2. Linked(t, q)' = Linked(t, q) /\ IndexedText(Written(t, q))' = IndexedText(Written(t, q))
    BY <1>1, <2>1 DEF Linked, Written, IndexedText, Column
  <2> QED
    BY <1>1, <1>2, <2>1, <2>2 DEF Synced, InStep, Column
<1>6. InStep(t, p)'
  <2>1. InStep(t, p) /\ (p \in loaded[t] \/ \A c \in Column : <<p, c>> \notin written[t])
    BY <1>1 DEF Synced, TextsHaveOrigin
  <2>2. ~(\A c \in Column : <<p, c>> \notin dirty'[t])
    BY <1>4 DEF Column
  <2>3. <<p, "linked">> \in dirty'[t] \cup written'[t] => seen'[t][p].linked
    BY <1>1, <1>4, <2>1 DEF InStep, Loaded, Column
  <2>4. ~Linked(t, p)' => ~Linked(t, p)
    BY <1>1, <1>4, <2>1, <2>3 DEF Linked
  <2>5. /\ <<p, "text">> \in dirty'[t] \cup written'[t] \/ seen'[t][p].text = db'[p].text
        /\ <<p, "shown">> \in dirty'[t] \cup written'[t] \/ seen'[t][p].shown = db'[p].shown
    BY <1>1, <1>4, <2>1 DEF InStep, Loaded
  <2> QED
    BY <1>2, <2>1, <2>2, <2>3, <2>4, <2>5 DEF InStep
<1>7. \A x, y \in dirty'[t] : x = y
  BY <1>4
<1> QED
  BY <1>1, <1>5, <1>6, <1>7 DEF Synced

LEMMA SyncedFlush ==
  ASSUME TypeOK, TextsHaveOrigin, NEW t \in Thread, Synced(t), Flush(t)
  PROVE  Synced(t)'
<1>1. PICK p \in Post, c \in Column : CanFlush(t, p, c) /\ ReindexContent(t, p, Flushed(t, p))
  BY DEF Flush
<1>2. /\ UNCHANGED <<db, es, phase, loaded, seen, quiet>>
      /\ phase[t] \in {"active", "committing"}
      /\ dirty[t] = {<<p, c>>} /\ dirty'[t] = {} /\ written'[t] = written[t] \cup {<<p, c>>}
  BY <1>1 DEF TypeOK, Flush, CanFlush, Synced
<1>3. /\ \A q \in Post \ {p} : AfterBulk(t, Post)'[q] = AfterBulk(t, Post)[q]
      /\ AfterBulk(t, Post)'[p] =
            IF Linked(t, p) THEN IndexedText(Flushed(t, p)) ELSE AfterBulk(t, Post)[p]
  BY <1>1, <1>2, RowTypes, ReindexEffect
<1>4. ASSUME NEW q \in Post
      PROVE  InStep(t, q) /\ Linked(t, q)' = Linked(t, q)
  BY <1>2 DEF Synced, Linked
<1>5. ASSUME NEW q \in Post \ {p}
      PROVE  InStep(t, q)'
  <2>1. IndexedText(Written(t, q))' = IndexedText(Written(t, q))
    BY <1>2 DEF Written, IndexedText
  <2> QED
    BY <1>2, <1>3, <1>4, <2>1 DEF InStep
<1>6. InStep(t, p)'
  <2>1. p \in loaded[t] /\ InStep(t, p)
    BY <1>2, <1>4 DEF TextsHaveOrigin
  <2>2. IndexedText(Written(t, p))' = IndexedText(Flushed(t, p))
    <3>1. /\ Written(t, p)'.text = seen[t][p].text
          /\ Written(t, p)'.shown = seen[t][p].shown
          /\ Written(t, p)'.linked = Linked(t, p)
      BY <1>2, <2>1 DEF Written, Linked, InStep
    <3> QED
      BY <3>1, RowTypes DEF IndexedText
  <2>3. ~Linked(t, p) => IndexedText(Flushed(t, p)) = Nothing /\ AfterBulk(t, Post)[p] = Nothing
    BY <2>1, RowTypes DEF InStep, IndexedText
  <2> QED
    BY <1>2, <1>3, <1>4, <2>1, <2>2, <2>3 DEF InStep
<1> QED
  BY <1>2, <1>5, <1>6 DEF Synced

\* A transaction given up: the index and Postgres are as they were before it.
LEMMA SyncedDiscard ==
  ASSUME TypeOK, QueuesAreJoined, NEW t \in Thread, Synced(t), Discard(t),
         phase[t] \in {"active", "committing"}, phase'[t] # "reindexing"
  PROVE  Synced(t)'
<1>1. /\ ~HasPending(t)' /\ db' = db /\ es' = es
      /\ loaded'[t] = {} /\ dirty'[t] = {} /\ written'[t] = {}
  <2>1. CASE joined[t]
    BY <2>1, ClearEffect, SessionEnded DEF Discard
  <2>2. CASE ~joined[t]
    BY <2>2, SessionEnded DEF Discard, QueuesAreJoined, HasPending
  <2> QED
    BY <2>1, <2>2
<1>2. \A p \in Post : es'[p] = IndexedText(db[p])
  BY <1>1 DEF Synced
<1>3. \A p \in Post : IndexedText(db[p])' = IndexedText(db[p])
  BY <1>1 DEF IndexedText
<1>4. \A p \in Post : InStep(t, p)'
  BY <1>1, <1>2, <1>3, InStepEmpty
<1> QED
  BY <1>1, <1>2, <1>3, <1>4 DEF Synced

LEMMA SyncedVote ==
  ASSUME TypeOK, NEW t \in Thread, Synced(t), Vote(t)
  PROVE  Synced(t)'
<1>1. /\ phase[t] = "committing" /\ phase'[t] = "finishing" /\ dirty[t] = {}
      /\ \A p \in Post : db'[p] = Written(t, p)
      /\ \A p \in Post : AfterBulk(t, Post)'[p] = AfterBulk(t, Post)[p]
  BY DEF TypeOK, Vote, manager, AfterBulk
<1>2. loaded'[t] = {} /\ dirty'[t] = {} /\ written'[t] = {}
  BY SessionEnded DEF Vote
<1>3. ASSUME NEW p \in Post
      PROVE  InStep(t, p)'
  <2>1. AfterBulk(t, Post)'[p] = IndexedText(Written(t, p))
    BY <1>1 DEF Synced, InStep
  <2>2. IndexedText(Written(t, p))' = IndexedText(Written(t, p))
    BY <1>1, <1>2 DEF Written, IndexedText
  <2>3. ~Linked(t, p)' => IndexedText(Written(t, p)) = Nothing
    BY <1>1, <1>2 DEF Linked, IndexedText
  <2> QED
    BY <1>2, <2>1, <2>2, <2>3 DEF InStep
<1> QED
  BY <1>1, <1>2, <1>3 DEF Synced

LEMMA SyncedFinish ==
  ASSUME TypeOK, SessionEnds, QueuesAreJoined, NEW t \in Thread, Synced(t), Finish(t)
  PROVE  Synced(t)'
<1>1. /\ phase[t] = "finishing" /\ phase'[t] = "idle" /\ db' = db
      /\ loaded' = loaded /\ seen' = seen /\ dirty' = dirty /\ written' = written
      /\ dirty[t] = {} /\ written[t] = {}
  BY DEF TypeOK, SessionEnds, Finish, session
<1>2. \A p \in Post : es'[p] = AfterBulk(t, Post)[p] /\ AfterBulk(t, Post)'[p] = AfterBulk(t, Post)[p]
  <2>1. CASE joined[t]
    <3>1. es' = AfterBulk(t, Post) /\ ~HasPending(t)'
      BY <2>1, ClearEffect DEF Finish
    <3> QED
      BY <3>1 DEF AfterBulk, HasPending
  <2>2. CASE ~joined[t]
    <3>1. ~HasPending(t) /\ UNCHANGED <<es, index, unindex>>
      BY <2>2 DEF QueuesAreJoined, Finish
    <3> QED
      BY <3>1 DEF AfterBulk, HasPending
  <2> QED
    BY <2>1, <2>2
<1>3. \A p \in Post : InStep(t, p)'
  BY <1>1, <1>2, InStepFrame DEF Synced
<1>4. \A p \in Post : es'[p] = IndexedText(db'[p])
  <2>1. ASSUME NEW p \in Post
        PROVE  IndexedText(Written(t, p)) = IndexedText(db[p])
    BY <1>1 DEF Written, IndexedText
  <2> QED
    BY <1>1, <1>2, <2>1 DEF Synced, InStep
<1> QED
  BY <1>1, <1>3, <1>4 DEF Synced

LEMMA SyncedEndReindex ==
  ASSUME TypeOK, NEW t \in Thread, Exact(t), quiet, EndReindex(t)
  PROVE  Synced(t)'
<1>1. /\ loaded'[t] = {} /\ dirty'[t] = {} /\ written'[t] = {} /\ ~HasPending(t)' /\ phase'[t] = "idle"
  BY SessionEnded, ClearEffect DEF TypeOK, EndReindex
<1>2. \A p \in Post : es'[p] = IndexedText(db'[p])
  BY DEF Exact, EndReindex
<1>3. \A p \in Post : InStep(t, p)'
  BY <1>1, <1>2, InStepEmpty
<1> QED
  BY <1>1, <1>2, <1>3 DEF Synced

LEMMA InSyncStep ==
  ASSUME TypeOK, SessionEnds, QueuesAreJoined, TextsHaveOrigin, AloneIsExact,
         OneThread, NoUnlink, InSync, [Next]_vars
  PROVE  InSync'
<1>0. SUFFICES ASSUME outages' = 0, NEW u \in Thread
               PROVE  Synced(u)'
  BY DEF InSync, Synced
<1>a. ASSUME outages = 0
      PROVE  \A t \in Thread : Synced(t)
  BY <1>a, InSyncSplit
<1>b. outages \in Nat
  BY BoundAssumption DEF TypeOK
<1>1. ASSUME NEW t \in Thread, Begin(t) \/ StartCommit(t)
      PROVE  Synced(t)'
  <2>1. /\ UNCHANGED <<db, es, loaded, seen, dirty, written, index, unindex, outages>>
        /\ phase[t] \in {"idle", "active"} /\ phase'[t] \in {"active", "committing"}
    BY <1>1 DEF TypeOK, Begin, StartCommit, session, manager
  <2>2. \A p \in Post : AfterBulk(t, Post)'[p] = AfterBulk(t, Post)[p]
    BY <2>1 DEF AfterBulk
  <2>3. Synced(t)
    BY <1>0, <1>a, <2>1
  <2>4. \A p \in Post : InStep(t, p)'
    BY <2>1, <2>2, <2>3, InStepFrame DEF Synced
  <2> QED
    BY <2>1, <2>3, <2>4 DEF Synced, IndexedText
<1>2. ASSUME NEW t \in Thread, NEW p \in Post, Modify(t, p)
      PROVE  Synced(t)'
  BY <1>0, <1>a, <1>2, SyncedModify DEF Modify
<1>3. ASSUME NEW t \in Thread, Flush(t)
      PROVE  Synced(t)'
  BY <1>0, <1>a, <1>3, SyncedFlush DEF Flush
<1>4. ASSUME NEW t \in Thread, JoinRefused(t) \/ Rollback(t) \/ AbortMutation(t)
      PROVE  Synced(t)'
  <2>1. /\ Discard(t) /\ outages' = outages
        /\ phase[t] \in {"active", "committing"} /\ phase'[t] # "reindexing"
    BY <1>4 DEF TypeOK, JoinRefused, LateJoin, Rollback, AbortMutation, Discard
  <2> QED
    BY <1>0, <1>a, <2>1, SyncedDiscard
<1>5. ASSUME NEW t \in Thread, Vote(t)
      PROVE  Synced(t)'
  BY <1>0, <1>a, <1>5, SyncedVote DEF Vote
<1>6. ASSUME NEW t \in Thread, Finish(t)
      PROVE  Synced(t)'
  BY <1>0, <1>a, <1>6, SyncedFinish DEF Finish
<1>7. ASSUME NEW t \in Thread, FinishFails(t) \/ ReindexFails(t)
      PROVE  FALSE
  BY <1>0, <1>b, <1>7 DEF FinishFails, ReindexFails
<1>8. ASSUME NEW t \in Thread, StartReindex(t)
      PROVE  Synced(t)'
  <2>1. phase'[t] = "reindexing" /\ dirty'[t] = {} /\ quiet'
    BY <1>8 DEF TypeOK, SessionEnds, StartReindex, Others, OneThread
  <2> QED
    BY <2>1 DEF Synced
<1>9. ASSUME NEW t \in Thread, ReindexOne(t) \/ IntermediateCommit(t)
      PROVE  Synced(t)'
  <2>1. UNCHANGED <<phase, dirty, quiet, outages>> /\ phase[t] = "reindexing"
    BY <1>9 DEF ReindexOne, IntermediateCommit, session
  <2> QED
    BY <1>0, <1>a, <2>1 DEF Synced
<1>10. ASSUME NEW t \in Thread, EndReindex(t)
      PROVE  Synced(t)'
  <2>1. Exact(t) /\ Synced(t) /\ phase[t] = "reindexing"
    BY <1>0, <1>a, <1>10 DEF AloneIsExact, Exact, EndReindex
  <2> QED
    BY <1>10, <2>1, SyncedEndReindex DEF Synced
<1>11. ASSUME UNCHANGED vars, NEW t \in Thread
       PROVE  Synced(t)'
  <2>1. /\ UNCHANGED <<db, es, phase, loaded, seen, dirty, written, index, unindex, outages, quiet>>
    BY <1>11 DEF vars, session, manager
  <2>2. \A p \in Post : AfterBulk(t, Post)'[p] = AfterBulk(t, Post)[p]
    BY <2>1 DEF AfterBulk
  <2>3. Synced(t)
    BY <1>0, <1>a, <2>1
  <2>4. phase[t] # "reindexing" => \A p \in Post : InStep(t, p)'
    BY <2>1, <2>2, <2>3, InStepFrame DEF Synced
  <2> QED
    BY <2>1, <2>3, <2>4 DEF Synced, IndexedText
<1>12. CASE UNCHANGED vars
  BY <1>11, <1>12
<1>13. CASE \E t \in Thread : Synced(t)'
  BY <1>13 DEF OneThread
<1> QED
  BY <1>1, <1>2, <1>3, <1>4, <1>5, <1>6, <1>7, <1>8, <1>9, <1>10, <1>12, <1>13 DEF Next

-----------------------------------------------------------------------------
(* The theorems *)

LEMMA NextIInv == IInv /\ [Next]_vars => IInv'
BY TypeStep, SessionStep, QueueStep, TextStep, CommittedStep, AloneStep DEF IInv

\* The invariant from which the others follow, for any threads and posts.
THEOREM ElasticInvariance == Spec => []IInv
BY InitIInv, NextIInv, PTL DEF Spec

\* Every variable of the database, the index, the sessions and the manager keeps
\* its type.
THEOREM ElasticTypes == Spec => []TypeOK
<1>1. IInv => TypeOK
  BY DEF IInv
<1> QED BY <1>1, ElasticInvariance, PTL

\* Nothing of a transaction that did not commit is ever in the index, whatever
\* requests, tasks and scripts run together and however Elasticsearch fails.
THEOREM IndexIsCommitted == Spec => []OnlyCommittedText
<1>1. IInv => OnlyCommittedText
  BY DEF IInv
<1> QED BY <1>1, ElasticInvariance, PTL

\* A transaction leaves the thread-local manager empty and ready to join the next.
THEOREM ManagerIsClean == Spec => []NothingLeftOver
<1>1. IInv => NothingLeftOver
  BY DEF IInv, QueuesAreJoined, NothingLeftOver
<1> QED BY <1>1, ElasticInvariance, PTL

\* A full reindexing that nothing overlaps repairs every drift of the index.
THEOREM ReindexingHeals == Spec => ReindexHeals
<1>1. ASSUME IInv
      PROVE  [\A t \in Thread : EndReindex(t) /\ quiet =>
                 \A p \in Post : es'[p] = IndexedText(db'[p])]_vars
  <2>1. ASSUME NEW t \in Thread, EndReindex(t), quiet, NEW p \in Post
        PROVE  es'[p] = IndexedText(db'[p])
    BY <1>1, <2>1 DEF IInv, AloneIsExact, EndReindex
  <2> QED
    BY <2>1
<1> QED BY <1>1, ElasticInvariance, PTL DEF ReindexHeals

\* With one thread that removes no link, whether it serves requests, runs tasks
\* or reindexes: until Elasticsearch first fails to answer, the queue follows
\* every flush, and the index every commit.
THEOREM ElasticInSync ==
  ASSUME OneThread, NoUnlink
  PROVE  Spec => []InSync
<1>1. IInv /\ InSync /\ [Next]_vars => InSync'
  BY InSyncStep DEF IInv
<1> QED BY InitInSync, <1>1, ElasticInvariance, PTL DEF Spec

\* Between the transactions of that thread the index holds the posts that are
\* shown and linked, under their committed text, and no other.
THEOREM IndexIsInSync ==
  ASSUME OneThread, NoUnlink
  PROVE  Spec => []SyncedUnlessOutage
<1>1. InSync => SyncedUnlessOutage
  BY DEF InSync, SyncedUnlessOutage, AtRest, OneThread
<1> QED BY <1>1, ElasticInSync, PTL
=============================================================================
