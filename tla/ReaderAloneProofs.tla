--------------------------- MODULE ReaderAloneProofs ---------------------------
(* Reader threads left to themselves, for any number of them and any limits: *)
(* what they never do, and for a pull reader that its status follows the    *)
(* documented table.                                                        *)
EXTENDS ReaderAlone, ReaderProofs

(* OpenInv and GivenUpInv, for one reader t. *)
KeepsMailbox(pc, ctx) ==
  \/ pc \in {"read", "pushread", "importing", "readdone", "readend", "pause", "idle", "closed"}
  \/ pc \in {"except", "tryclose"} /\ ctx # "login"

AloneOf(t) ==
  /\ t.pc \in {"backoff", "login"} => t.status \notin {"IRRECOVERABLE_ERROR", "SHUTDOWN"}
  /\ t.pc = "tryclose" => ~IsConnected(t)
  /\ Imap /\ KeepsMailbox(t.pc, t.ctx) => t.mailbox = "open"

Typed == rd \in [Readers -> ReaderRecord]

AllAlone == \A r \in Readers : AloneOf(rd[r])

LEMMA AloneIInvSplit == AloneIInv <=> ReadersGood /\ row \in RowRecord /\ AllAlone
BY DEF AloneIInv, TypeOK, CountBounded, MailboxInv, ExceptInv, EndedInv, GivenUpInv, OpenInv,
       ReadersGood, Good, CountOf, MailboxOf, ExceptOf, EndedOf, AllAlone, AloneOf, KeepsMailbox

LEMMA UpdateAlone ==
  ASSUME Typed, AllAlone, NEW r \in Readers, NEW STATE u, AloneOf(u),
         rd' = [rd EXCEPT ![r] = u]
  PROVE  AllAlone'
<1>1. ASSUME NEW q \in Readers PROVE AloneOf(rd'[q])
  BY DEF Typed, AllAlone
<1>2. ASSUME NEW q \in Readers PROVE AloneOf(rd[q])'
  BY <1>1 DEF AloneOf, KeepsMailbox, IsConnected
<1> QED BY <1>2 DEF AllAlone

LEMMA GotoAlone ==
  ASSUME Typed, AllAlone, NEW r \in Readers, NEW STATE u, NEW STATE pc,
         u \in ReaderRecord,
         pc \in {"backoff", "login"} => u.status \notin {"IRRECOVERABLE_ERROR", "SHUTDOWN"},
         pc = "tryclose" => ~IsConnected(u),
         Imap /\ KeepsMailbox(pc, u.ctx) => u.mailbox = "open",
         Goto(r, u, pc)
  PROVE  AllAlone'
<1> DEFINE v == [u EXCEPT !.pc = pc]
<1>1. v.pc = pc /\ v.status = u.status /\ v.mailbox = u.mailbox /\ v.ctx = u.ctx
  BY DEF ReaderRecord
<1>2. AloneOf(v)
  BY <1>1 DEF AloneOf, IsConnected
<1> QED BY <1>2, UpdateAlone DEF Goto

(* The heads of the loops lead to a login only a reader that may log in. *)
LEMMA HeadsAlone ==
  ASSUME NEW t
  PROVE  /\ OuterHead(t) \in {"done", "backoff", "login"}
         /\ OuterHead(t) # "done" => t.status \notin {"IRRECOVERABLE_ERROR", "SHUTDOWN"}
         /\ InnerHead(t) = "read" \/ InnerHead(t) = OuterHead(t)
         /\ ~IsConnected(t) => InnerHead(t) = OuterHead(t)
         /\ AfterLogin(t) \in {"read", "done"}
BY DEF OuterHead, InnerHead, AfterLogin

LEMMA OuterHeadAlone ==
  ASSUME Typed, AllAlone, NEW r \in Readers, NEW STATE u, u \in ReaderRecord,
         Goto(r, u, OuterHead(u))
  PROVE  AllAlone'
BY HeadsAlone, GotoAlone DEF KeepsMailbox

LEMMA CycleAlone ==
  ASSUME Typed, AllAlone, NEW r \in Readers, NEW STATE t, t \in ReaderRecord,
         Imap /\ IsConnected(t) => t.mailbox = "open",
         Cycle(r, t)
  PROVE  AllAlone'
<1>1. CASE ~IsConnected(t)
  BY <1>1, OuterHeadAlone DEF Cycle
<1>2. CASE IsConnected(t)
  <2>1. PICK s \in Status!ReaderStatus, pc \in {"idle", "pause", "closed"} :
          Goto(r, [t EXCEPT !.status = s], pc)
    <3>1. \/ Goto(r, [t EXCEPT !.status = "WAIT_FOR_PUSH"], "idle")
          \/ Goto(r, t, "pause")
          \/ Goto(r, [t EXCEPT !.status = "CLOSED"], "closed")
      BY <1>2 DEF Cycle
    <3>2. t = [t EXCEPT !.status = t.status] /\ t.status \in Status!ReaderStatus
      BY DEF ReaderRecord
    <3> QED BY <3>1, <3>2 DEF Status!ReaderStatus
  <2> DEFINE u == [t EXCEPT !.status = s]
  <2>2. u \in ReaderRecord /\ u.mailbox = t.mailbox
    BY DEF ReaderRecord
  <2> QED BY <1>2, <2>1, <2>2, GotoAlone
<1> QED BY <1>1, <1>2

(* The end of an except clause: a reader that is still connected has kept    *)
(* its mailbox.                                                             *)
LEMMA AfterExceptAlone ==
  ASSUME Typed, AllAlone, NEW r \in Readers, NEW STATE t, t \in ReaderRecord, CountOf(t),
         Imap /\ t.ctx # "login" /\ IsConnected(t) => t.mailbox = "open",
         AfterExcept(r, t)
  PROVE  AllAlone'
<1> DEFINE u == Left(t)
<1>1. u \in ReaderRecord /\ u.mailbox = t.mailbox /\ u.status = t.status
  BY LeftGood
<1>2. IsConnected(u) <=> IsConnected(t)
  BY <1>1 DEF IsConnected
<1>3. t.ctx \in {"login", "read", "push"}
  BY RecordOf
<1>4. \/ Goto(r, u, "done")
      \/ Goto(r, u, OuterHead(u))
      \/ t.ctx # "login" /\ (Cycle(r, u) \/ Goto(r, u, InnerHead(u)))
  BY <1>3 DEF AfterExcept
<1>5. CASE Goto(r, u, "done")
  BY <1>1, <1>5, GotoAlone DEF KeepsMailbox
<1>6. CASE Goto(r, u, OuterHead(u))
  BY <1>1, <1>6, OuterHeadAlone
<1>7. CASE t.ctx # "login" /\ Cycle(r, u)
  BY <1>1, <1>2, <1>7, CycleAlone
<1>8. CASE t.ctx # "login" /\ Goto(r, u, InnerHead(u))
  <2>1. CASE InnerHead(u) = OuterHead(u)
    BY <1>1, <1>8, <2>1, OuterHeadAlone
  <2>2. CASE InnerHead(u) = "read" /\ IsConnected(u)
    BY <1>1, <1>2, <1>8, <2>2, GotoAlone
  <2> QED BY <2>1, <2>2, HeadsAlone
<1> QED BY <1>4, <1>5, <1>6, <1>7, <1>8

-----------------------------------------------------------------------------
(* A step of run() keeps the mailbox open, and what has given up away from   *)
(* the server.                                                              *)
LEMMA ThreadStepAlone ==
  ASSUME ReadersGood, AllAlone, NEW r \in Readers, ThreadStep(r)
  PROVE  AllAlone'
<1> DEFINE t == rd[r]
<1>1. /\ t \in ReaderRecord /\ CountOf(t) /\ ExceptOf(t) /\ Typed /\ AloneOf(t)
  BY GoodOf DEF ReadersGood, AllAlone, Typed
<1>2. /\ t.mailbox \in {"none", "open", "closed"} /\ t.status \in Status!ReaderStatus
      /\ t.ctx \in {"login", "read", "push"}
      /\ t.exc \in Status!Errors \cup {None, Unexpected}
  BY <1>1, RecordOf
<1>3. ASSUME t.pc \in {"read", "pushread", "importing", "readdone", "readend", "pause",
                       "idle", "closed"}, Imap
      PROVE  t.mailbox = "open"
  BY <1>1, <1>3 DEF AloneOf, KeepsMailbox
<1>4. CASE Setup(r)
  <2> DEFINE u == [t EXCEPT !.backoff = row.backoff,
                            !.status = IF row.error \in {None, "CREATED"} THEN @ ELSE row.error]
  <2>1. Goto(r, u, OuterHead(u))
    BY <1>4 DEF Setup
  <2>2. u.ctx = t.ctx
    BY <1>1 DEF ReaderRecord
  <2>3. AloneOf([u EXCEPT !.pc = OuterHead(u)])
    <3> DEFINE v == [u EXCEPT !.pc = OuterHead(u)]
    <3>1. v.pc = OuterHead(u) /\ v.status = u.status
      BY <1>1 DEF ReaderRecord
    <3> QED BY <3>1, HeadsAlone DEF AloneOf, KeepsMailbox
  <2> QED BY <1>1, <2>1, <2>3, UpdateAlone DEF Goto
<1>5. CASE BackoffWait(r)
  <2> DEFINE u == [t EXCEPT !.event = FALSE]
  <2>1. Goto(r, u, "login")
    BY <1>5 DEF BackoffWait
  <2>2. t.status \notin {"IRRECOVERABLE_ERROR", "SHUTDOWN"}
    BY <1>1, <1>5 DEF BackoffWait, At, AloneOf
  <2>3. u \in ReaderRecord /\ u.status = t.status
    BY <1>1 DEF ReaderRecord
  <2> QED BY <1>1, <2>1, <2>2, <2>3, GotoAlone DEF KeepsMailbox
<1>6. CASE LoginOk(r)
  <2>1. PICK push \in BOOLEAN :
          Goto(r, [t EXCEPT !.canPush = push, !.mailbox = IF Imap THEN "open" ELSE @],
               AfterLogin(t))
    BY <1>1, <1>6, LimitAssumption DEF LoginOk, ReaderRecord
  <2> DEFINE u == [t EXCEPT !.canPush = push, !.mailbox = IF Imap THEN "open" ELSE @]
  <2>2. u \in ReaderRecord /\ (Imap => u.mailbox = "open")
    BY <1>1, <1>2 DEF ReaderRecord
  <2> QED BY <1>1, <2>1, <2>2, HeadsAlone, GotoAlone
<1>7. CASE LoginFails(r)
  <2>1. PICK e \in Status!Errors \cup {Unexpected}, push \in {TRUE, t.canPush} :
          Goto(r, [t EXCEPT !.exc = e, !.ctx = "login", !.canPush = push], "except")
    BY <1>7 DEF LoginFails
  <2> DEFINE u == [t EXCEPT !.exc = e, !.ctx = "login", !.canPush = push]
  <2>2. u \in ReaderRecord /\ u.ctx = "login"
    BY <1>1, <2>1 DEF ReaderRecord
  <2> QED BY <1>1, <2>1, <2>2, GotoAlone DEF KeepsMailbox
<1>8. CASE ImportFails(r) \/ IdleFails(r)
  <2>1. PICK e \in Status!Errors \cup {Unexpected}, c \in {"login", "read", "push"} :
          Goto(r, [t EXCEPT !.exc = e, !.ctx = c], "except")
    BY <1>2, <1>8 DEF ImportFails, IdleFails, Raise, ReadErrors, Status!Errors, Status!Severe
  <2>2. Imap => t.mailbox = "open"
    BY <1>3, <1>8 DEF ImportFails, IdleFails, At
  <2> DEFINE u == [t EXCEPT !.exc = e, !.ctx = c]
  <2>3. u \in ReaderRecord /\ u.mailbox = t.mailbox
    BY <1>1 DEF ReaderRecord
  <2> QED BY <1>1, <2>1, <2>2, <2>3, GotoAlone
<1>9. CASE Read(r) \/ PushRead(r)
  <2>1. PICK u \in ReaderRecord : Goto(r, u, "importing") /\ u.mailbox = t.mailbox
    <3>1. CASE Read(r)
      <4> DEFINE u == [t EXCEPT !.status = "READING", !.late = FALSE, !.ctx = "read"]
      <4>1. u \in ReaderRecord /\ u.mailbox = t.mailbox
        BY <1>1 DEF ReaderRecord, Status!ReaderStatus
      <4> QED BY <3>1, <4>1 DEF Read
    <3>2. CASE PushRead(r)
      <4> DEFINE u == [t EXCEPT !.status = "READING", !.ctx = "push"]
      <4>1. u \in ReaderRecord /\ u.mailbox = t.mailbox
        BY <1>1 DEF ReaderRecord, Status!ReaderStatus
      <4> QED BY <3>2, <4>1 DEF PushRead
    <3> QED BY <1>9, <3>1, <3>2
  <2>2. Imap => t.mailbox = "open"
    BY <1>3, <1>9 DEF Read, PushRead, At
  <2> QED BY <1>1, <2>1, <2>2, GotoAlone
<1>10. CASE Imported(r)
  <2>1. Goto(r, t, IF Imap THEN "readdone" ELSE "readend")
    BY <1>10 DEF Imported
  <2>2. Imap => t.mailbox = "open"
    BY <1>3, <1>10 DEF Imported, At
  <2> QED BY <1>1, <2>1, <2>2, GotoAlone
<1>11. CASE ReadDone(r) \/ ReadEnd(r)
  <2> DEFINE u == ResetErrors(t)
  <2>1. u \in ReaderRecord /\ u.mailbox = t.mailbox /\ u.last = None /\ u.count = 0
    BY <1>1 DEF ResetErrors, ReaderRecord
  <2>2. CountOf(u)
    BY <2>1 DEF CountOf, None
  <2>3. Left(u) \in ReaderRecord /\ Left(u).mailbox = t.mailbox
    BY <2>1, <2>2, LeftGood
  <2>4. Imap => t.mailbox = "open"
    BY <1>3, <1>11 DEF ReadDone, ReadEnd, At
  <2>5. ASSUME NEW v \in ReaderRecord, NEW s \in Status!ReaderStatus
        PROVE  [v EXCEPT !.status = s] \in ReaderRecord /\ [v EXCEPT !.status = s].mailbox = v.mailbox
    BY DEF ReaderRecord
  <2>6. CASE ReadDone(r)
    <3>1. \/ Goto(r, [Left(u) EXCEPT !.status = "WAIT_FOR_PUSH"], "idle")
          \/ Goto(r, [u EXCEPT !.status = "PAUSED"], "readend")
      BY <2>6 DEF ReadDone
    <3>2. "WAIT_FOR_PUSH" \in Status!ReaderStatus /\ "PAUSED" \in Status!ReaderStatus
      BY DEF Status!ReaderStatus
    <3>3. CASE Goto(r, [Left(u) EXCEPT !.status = "WAIT_FOR_PUSH"], "idle")
      <4> DEFINE w == [Left(u) EXCEPT !.status = "WAIT_FOR_PUSH"]
      <4>1. w \in ReaderRecord /\ w.mailbox = t.mailbox
        BY <2>3, <2>5, <3>2
      <4> QED BY <1>1, <2>4, <3>3, <4>1, GotoAlone
    <3>4. CASE Goto(r, [u EXCEPT !.status = "PAUSED"], "readend")
      <4> DEFINE w == [u EXCEPT !.status = "PAUSED"]
      <4>1. w \in ReaderRecord /\ w.mailbox = t.mailbox
        BY <2>1, <2>5, <3>2
      <4> QED BY <1>1, <2>4, <3>4, <4>1, GotoAlone
    <3> QED BY <3>1, <3>3, <3>4
  <2>7. CASE ReadEnd(r)
    <3> DEFINE w == [Left(u) EXCEPT
                       !.status = IF @ \in {"READING", "WAIT_FOR_PUSH"} THEN "PAUSED" ELSE @]
    <3>1. Cycle(r, w)
      BY <2>7 DEF ReadEnd
    <3>2. w \in ReaderRecord /\ w.mailbox = t.mailbox
      BY <2>3 DEF ReaderRecord, Status!ReaderStatus
    <3> QED BY <1>1, <2>4, <3>1, <3>2, CycleAlone
  <2> QED BY <1>11, <2>6, <2>7
<1>12. CASE Pause(r)
  <2> DEFINE u == [t EXCEPT !.event = FALSE]
  <2>1. u \in ReaderRecord /\ u.mailbox = t.mailbox /\ u.status = t.status
    BY <1>1 DEF ReaderRecord
  <2>2. Goto(r, u, InnerHead(t))
    BY <1>12 DEF Pause
  <2>3. Imap => t.mailbox = "open"
    BY <1>3, <1>12 DEF Pause, At
  <2>4. \/ InnerHead(t) \in {"read", "done"}
        \/ InnerHead(t) \in {"backoff", "login"} /\ t.status \notin {"IRRECOVERABLE_ERROR", "SHUTDOWN"}
    BY HeadsAlone
  <2> QED BY <1>1, <2>1, <2>2, <2>3, <2>4, GotoAlone
<1>13. CASE IdleTimeout(r) \/ IdleEnds(r)
  <2>1. Imap => t.mailbox = "open"
    BY <1>3, <1>13 DEF IdleTimeout, IdleEnds, At
  <2>2. \/ Goto(r, [t EXCEPT !.status = "PAUSED"], "read")
        \/ Goto(r, t, "pushread")
        \/ Goto(r, [t EXCEPT !.status = "WAIT_FOR_PUSH"], "idle")
        \/ Goto(r, t, OuterHead(t))
    BY <1>13 DEF IdleTimeout, IdleEnds
  <2>3. ASSUME NEW s \in Status!ReaderStatus, NEW pc \in {"read", "idle"},
               Goto(r, [t EXCEPT !.status = s], pc)
        PROVE  AllAlone'
    <3> DEFINE u == [t EXCEPT !.status = s]
    <3>1. u \in ReaderRecord /\ u.mailbox = t.mailbox
      BY <1>1 DEF ReaderRecord
    <3> QED BY <1>1, <2>1, <2>3, <3>1, GotoAlone
  <2>4. CASE Goto(r, t, "pushread")
    BY <1>1, <2>1, <2>4, GotoAlone
  <2>5. CASE Goto(r, t, OuterHead(t))
    BY <1>1, <2>5, OuterHeadAlone
  <2> QED BY <2>2, <2>3, <2>4, <2>5 DEF Status!ReaderStatus
<1>14. CASE HandleError(r)
  <2> DEFINE s == IF t.exc = Unexpected THEN "CLIENT_ERROR" ELSE t.exc
             u == NewError(t, s)
  <2>1. t.pc = "except" /\ t.exc # None
    BY <1>1, <1>14 DEF HandleError, At, ExceptOf
  <2>2. CASE AssertFails(t, s)
    <3> DEFINE v == [Left(t) EXCEPT !.count = @ + 1]
    <3>1. Goto(r, v, "crashed")
      BY <1>14, <2>2 DEF HandleError
    <3>2. Left(t) \in ReaderRecord
      BY <1>1, LeftGood
    <3>3. v \in ReaderRecord
      BY <3>2 DEF ReaderRecord
    <3> QED BY <1>1, <3>1, <3>3, GotoAlone DEF KeepsMailbox
  <2>3. CASE ~AssertFails(t, s)
    <3> DEFINE ended == IF u.status \in {"READING", "WAIT_FOR_PUSH"} THEN "PAUSED" ELSE u.status
               w == [u EXCEPT !.status = IF u.ctx = "push" THEN ended ELSE @]
    <3>1. s \in Status!Errors
      BY <1>2, <2>1 DEF Status!Errors
    <3>2. /\ u \in ReaderRecord /\ CountOf(u) /\ u.mailbox = t.mailbox
          /\ u.ctx = t.ctx /\ u.exc = t.exc
          /\ s # "TRANSIENT_ERROR" => ~IsConnected(u)
      BY <1>1, <2>3, <3>1, NewErrorGood
    <3>3. \/ Goto(r, u, "tryclose") /\ (u.exc = Unexpected \/ u.status \in Status!Severe)
          \/ AfterExcept(r, w)
      BY <1>14, <2>3 DEF HandleError
    <3>4. Imap /\ t.ctx # "login" => t.mailbox = "open"
      BY <1>1, <2>1 DEF AloneOf, KeepsMailbox
    <3>5. CASE Goto(r, u, "tryclose") /\ (u.exc = Unexpected \/ u.status \in Status!Severe)
      <4>1. ~IsConnected(u)
        BY <3>2, <3>5 DEF IsConnected, Status!Severe, Status!Disconnected
      <4> QED BY <1>1, <3>2, <3>4, <3>5, <4>1, GotoAlone DEF KeepsMailbox
    <3>6. CASE AfterExcept(r, w)
      <4>1. /\ w \in ReaderRecord /\ w.last = u.last /\ w.count = u.count
            /\ w.mailbox = t.mailbox /\ w.ctx = t.ctx
        BY <3>2 DEF ReaderRecord, Status!ReaderStatus
      <4>2. CountOf(w)
        BY <3>2, <4>1 DEF CountOf
      <4> QED BY <1>1, <3>4, <3>6, <4>1, <4>2, AfterExceptAlone
    <3> QED BY <3>3, <3>5, <3>6
  <2> QED BY <2>2, <2>3
<1>15. CASE TryClose(r)
  <2> DEFINE u == Closed(t)
             v == NewError(u, "CLIENT_ERROR")
  <2>1. ~IsConnected(t)
    BY <1>1, <1>15 DEF TryClose, At, AloneOf
  <2>2. u \in ReaderRecord /\ CountOf(u) /\ ~IsConnected(u)
    BY <1>1, <2>1, ClosedGood DEF IsConnected
  <2>3. v \in ReaderRecord /\ CountOf(v) /\ ~IsConnected(v)
    BY <2>2, NewErrorGood DEF AssertFails, Status!Errors
  <2>4. AfterExcept(r, u) \/ AfterExcept(r, v)
    BY <1>15 DEF TryClose
  <2> QED BY <1>1, <2>2, <2>3, <2>4, AfterExceptAlone
<1>16. CASE FinishClose(r)
  <2>1. PICK e \in CloseOutcomes(t) : Goto(r, AfterClose(t, e), "done")
    BY <1>16 DEF FinishClose
  <2>2. AfterClose(t, e) \in ReaderRecord
    BY <1>1, AfterCloseGood
  <2> QED BY <1>1, <2>1, <2>2, GotoAlone DEF KeepsMailbox
<1> QED
  BY <1>4, <1>5, <1>6, <1>7, <1>8, <1>9, <1>10, <1>11, <1>12, <1>13, <1>14, <1>15, <1>16
  DEF ThreadStep

LEMMA TimePassesAlone ==
  ASSUME Typed, AllAlone, TimePasses
  PROVE  AllAlone'
<1>1. CASE RowBackoffElapses
  <2>1. rd' = rd
    BY <1>1 DEF RowBackoffElapses
  <2> QED BY <2>1 DEF AllAlone, AloneOf, KeepsMailbox, IsConnected
<1>2. ASSUME NEW r \in Readers, BackoffElapses(r) \/ ReadGetsLate(r)
      PROVE  AllAlone'
  <2>1. PICK u : /\ rd' = [rd EXCEPT ![r] = u]
                 /\ u \in {[rd[r] EXCEPT !.backoff = FALSE], [rd[r] EXCEPT !.late = TRUE]}
    BY <1>2 DEF BackoffElapses, ReadGetsLate
  <2>2. rd[r] \in ReaderRecord /\ AloneOf(rd[r])
    BY DEF Typed, AllAlone
  <2>3. /\ u.pc = rd[r].pc /\ u.status = rd[r].status /\ u.ctx = rd[r].ctx
        /\ u.mailbox = rd[r].mailbox
    BY <2>1, <2>2 DEF ReaderRecord
  <2>4. AloneOf(u)
    BY <2>2, <2>3 DEF AloneOf, KeepsMailbox, IsConnected
  <2> QED BY <2>1, <2>4, UpdateAlone
<1> QED BY <1>1, <1>2 DEF TimePasses

LEMMA InitAlone == Init => AloneIInv
<1> SUFFICES ASSUME Init PROVE ReadersGood /\ row \in RowRecord /\ AllAlone
  BY AloneIInvSplit
<1>1. \A r \in Readers : rd[r] = Fresh("setup")
  BY DEF Init
<1>2. Good(Fresh("setup")) /\ Fresh("setup") \in ReaderRecord
  BY FreshGood DEF Good
<1>3. ReadersGood
  BY <1>1, <1>2 DEF Init, ReadersGood, Good, CountOf, MailboxOf, ExceptOf, EndedOf, IsConnected
<1>4. row \in RowRecord
  BY DEF Init, RecordedRows, RowRecord
<1>5. Fresh("setup").pc = "setup"
  BY DEF Fresh
<1>6. AllAlone
  BY <1>1, <1>5 DEF AllAlone, AloneOf, KeepsMailbox
<1> QED BY <1>3, <1>4, <1>6

LEMMA NextAlone == AloneIInv /\ [ReaderNext]_readerVars => AloneIInv'
<1> SUFFICES ASSUME AloneIInv, [ReaderNext]_readerVars PROVE AloneIInv'
  OBVIOUS
<1>1. ReadersGood /\ row \in RowRecord /\ AllAlone /\ Typed
  BY AloneIInvSplit DEF ReadersGood, Typed
<1>2. ReadersGood' /\ (row \in RowRecord)' /\ AllAlone'
  <2>1. CASE TimePasses
    BY <1>1, <2>1, TimePassesGood, TimePassesAlone
  <2>2. ASSUME NEW r \in Readers, ThreadStep(r)
        PROVE  ReadersGood' /\ row' \in RowRecord /\ AllAlone'
    BY <1>1, <2>2, ThreadStepGood, ThreadStepAlone
  <2>3. CASE UNCHANGED readerVars
    BY <1>1, <2>3 DEF readerVars, ReadersGood, Good, CountOf, MailboxOf, ExceptOf, EndedOf,
                      IsConnected, AllAlone, AloneOf, KeepsMailbox
  <2> QED BY <2>1, <2>2, <2>3 DEF ReaderNext
<1> QED BY <1>2, AloneIInvSplit, PTL

(* The inductive invariant of readers that no message reaches: any number of *)
(* them on one source, starting from any row an earlier process may leave.  *)
THEOREM AloneInvariance == Spec => []AloneIInv
BY InitAlone, NextAlone, PTL DEF Spec

(* run() never logs in to a source whose status is IRRECOVERABLE_ERROR,      *)
(* whether the reader or the row says so.                                   *)
THEOREM IrrecoverableIsLeft == Spec => []IrrecoverableNotContacted
<1>1. AloneIInv => IrrecoverableNotContacted
  BY DEF AloneIInv, GivenUpInv, IrrecoverableNotContacted
<1> QED BY <1>1, AloneInvariance, PTL

(* Every read, push and wait of an IMAPReader is on a mailbox that no error  *)
(* has closed.                                                              *)
THEOREM MailboxIsOpen == Spec => []ReadsOpenMailbox
<1>1. AloneIInv => ReadsOpenMailbox
  BY DEF AloneIInv, OpenInv, ReadsOpenMailbox
<1> QED BY <1>1, AloneInvariance, PTL

-----------------------------------------------------------------------------
(* The lifecycle of a pull reader that is the only one of its source: with   *)
(* two of them, one finds in the row the status that the other has left.    *)
OneReader == \A q, r \in Readers : q = r

Bar == [r \in Readers |-> rd[r].status]

LEMMA KnownMoves ==
  /\ \A s \in {"CREATED", "PAUSED", "CLIENT_ERROR", "READING"} :
       "READING" \in Status!KnownTransitions[s]
  /\ \A s \in {"PAUSED", "CLOSED"} \cup Status!Severe :
       s \in Status!KnownTransitions["READING"]
  /\ "CLOSED" \in Status!KnownTransitions["PAUSED"]
  /\ "SHUTDOWN" \in Status!KnownTransitions["CLOSED"]
BY DEF Status!KnownTransitions, Status!ReaderStatus, Status!Severe, Status!Errors

LEMMA PullStatuses ==
  /\ PullStatus("setup") = {"CREATED"}
  /\ \A pc \in {"backoff", "login", "read"} :
       PullStatus(pc) = {"CREATED", "READING", "PAUSED", "CLIENT_ERROR"}
  /\ \A pc \in {"importing", "readend", "except", "crashed"} : PullStatus(pc) = {"READING"}
  /\ PullStatus("pause") = {"READING", "PAUSED"}
  /\ PullStatus("tryclose") = Status!Severe
  /\ PullStatus("closed") = {"CLOSED"}
  /\ PullStatus("done") = {"SHUTDOWN", "IRRECOVERABLE_ERROR"}
  /\ \A pc \in {"pushread", "readdone", "idle"} : PullStatus(pc) = {}
BY DEF PullStatus

LEMMA GotoPull ==
  ASSUME OneReader, Typed, NEW r \in Readers, NEW STATE u, NEW STATE pc, u \in ReaderRecord,
         ~u.canPush, u.status \in PullStatus(pc), pc # "setup",
         pc \in {"importing", "except", "tryclose"} => u.ctx = "read",
         \/ u.status = rd[r].status
         \/ u.status \in Status!KnownTransitions[rd[r].status],
         Goto(r, u, pc)
  PROVE  PullInv' /\ [Status!Next]_Bar
<1> DEFINE v == [u EXCEPT !.pc = pc]
<1>1. v.pc = pc /\ v.status = u.status /\ v.ctx = u.ctx /\ v.canPush = u.canPush
  BY DEF ReaderRecord
<1>2. rd' = [rd EXCEPT ![r] = v] /\ rd'[r] = v
  BY DEF Goto, Typed
<1>3. PullInv'
  BY <1>1, <1>2 DEF PullInv, OneReader
<1>4. Bar \in [Readers -> Status!ReaderStatus] /\ Bar[r] = rd[r].status
  BY DEF Bar, Typed, ReaderRecord
<1>5. Bar' = [Bar EXCEPT ![r] = u.status]
  BY <1>1, <1>2 DEF Bar, OneReader
<1>6. [Status!Next]_Bar
  <2>1. CASE u.status = rd[r].status
    <3>1. Bar' = Bar
      BY <1>4, <1>5, <2>1
    <3> QED BY <3>1
  <2>2. CASE u.status \in Status!KnownTransitions[rd[r].status]
    <3>1. Status!Move(r)
      BY <1>4, <1>5, <2>2 DEF Status!Move, Bar
    <3> QED BY <3>1 DEF Status!Next
  <2> QED BY <2>1, <2>2
<1> QED BY <1>3, <1>6

(* Where the loops and the except clauses lead a pull reader. *)
LEMMA OuterHeadPull ==
  ASSUME OneReader, Typed, NEW r \in Readers, NEW STATE u, u \in ReaderRecord, ~u.canPush,
         u.status \in Status!Severe \cup {"CREATED"},
         \/ u.status = rd[r].status
         \/ u.status \in Status!KnownTransitions[rd[r].status],
         Goto(r, u, OuterHead(u))
  PROVE  PullInv' /\ [Status!Next]_Bar
<1>1. OuterHead(u) \in {"done", "backoff", "login"}
  BY HeadsAlone
<1>2. u.status \in PullStatus(OuterHead(u))
  BY PullStatuses DEF OuterHead, Status!Severe
<1> QED BY <1>1, <1>2, GotoPull

LEMMA CyclePull ==
  ASSUME OneReader, Typed, NEW r \in Readers, NEW STATE t, t \in ReaderRecord, ~t.canPush,
         t.status \in {"READING", "PAUSED"}, rd[r].status = "READING",
         Cycle(r, t)
  PROVE  PullInv' /\ [Status!Next]_Bar
<1> DEFINE u == [t EXCEPT !.status = "CLOSED"]
<1>1. IsConnected(t)
  BY DEF IsConnected, Status!Disconnected
<1>2. CASE Goto(r, t, "pause")
  BY <1>2, GotoPull, PullStatuses, KnownMoves
<1>3. CASE Goto(r, u, "closed")
  <2>1. u \in ReaderRecord /\ ~u.canPush /\ u.status = "CLOSED"
    BY DEF ReaderRecord, Status!ReaderStatus
  <2> QED BY <1>3, <2>1, GotoPull, PullStatuses, KnownMoves
<1> QED BY <1>1, <1>2, <1>3 DEF Cycle

LEMMA PullStep ==
  ASSUME ~Imap, OneReader, ReadersGood, row \in RowRecord, PullInv, NEW r \in Readers, ThreadStep(r)
  PROVE  PullInv' /\ [Status!Next]_Bar
<1> DEFINE t == rd[r]
<1>1. /\ Typed /\ t \in ReaderRecord /\ CountOf(t) /\ ExceptOf(t)
      /\ ~t.canPush /\ t.status \in PullStatus(t.pc)
      /\ t.pc \in {"importing", "except", "tryclose"} => t.ctx = "read"
      /\ t.pc = "setup" => row.error = None
  BY GoodOf DEF ReadersGood, Typed, PullInv
<1>2. CASE Setup(r)
  <2> DEFINE u == [t EXCEPT !.backoff = row.backoff,
                            !.status = IF row.error \in {None, "CREATED"} THEN @ ELSE row.error]
  <2>1. t.status = "CREATED" /\ row.error = None
    BY <1>1, <1>2, PullStatuses DEF Setup, At
  <2>2. Goto(r, u, OuterHead(u))
    BY <1>2 DEF Setup
  <2>3. u = [t EXCEPT !.backoff = row.backoff]
    BY <1>1, <2>1 DEF ReaderRecord
  <2>4. row.backoff \in BOOLEAN
    BY DEF RowRecord
  <2>5. u \in ReaderRecord /\ u.status = t.status /\ ~u.canPush
    BY <1>1, <2>3, <2>4 DEF ReaderRecord
  <2> QED BY <1>1, <2>1, <2>2, <2>5, OuterHeadPull
<1>3. CASE BackoffWait(r) \/ LoginOk(r)
  <2>1. PICK u \in ReaderRecord, pc \in {"login", "read"} :
          /\ Goto(r, u, pc)
          /\ u.status = t.status /\ ~u.canPush
    <3>1. CASE BackoffWait(r)
      <4> DEFINE u == [t EXCEPT !.event = FALSE]
      <4>1. u \in ReaderRecord /\ u.status = t.status /\ u.canPush = t.canPush
        BY <1>1 DEF ReaderRecord
      <4> QED BY <1>1, <3>1, <4>1 DEF BackoffWait
    <3>2. CASE LoginOk(r)
      <4> DEFINE u == [t EXCEPT !.canPush = FALSE, !.mailbox = IF Imap THEN "open" ELSE @]
      <4>1. Goto(r, u, AfterLogin(t))
        BY <3>2 DEF LoginOk
      <4>2. AfterLogin(t) = "read"
        BY <1>1, <3>2, PullStatuses DEF AfterLogin, LoginOk, At
      <4>3. u \in ReaderRecord /\ u.status = t.status /\ ~u.canPush
        BY <1>1 DEF ReaderRecord
      <4> QED BY <4>1, <4>2, <4>3
    <3> QED BY <1>3, <3>1, <3>2
  <2>2. t.status \in {"CREATED", "READING", "PAUSED", "CLIENT_ERROR"}
    BY <1>1, <1>3, PullStatuses DEF BackoffWait, LoginOk, At
  <2> QED BY <1>1, <2>1, <2>2, GotoPull, PullStatuses
<1>4. CASE Read(r)
  <2> DEFINE u == [t EXCEPT !.status = "READING", !.late = FALSE, !.ctx = "read"]
  <2>1. u \in ReaderRecord /\ u.status = "READING" /\ ~u.canPush /\ u.ctx = "read"
    BY <1>1 DEF ReaderRecord, Status!ReaderStatus
  <2>2. "READING" \in Status!KnownTransitions[t.status]
    BY <1>1, <1>4, PullStatuses, KnownMoves DEF Read, At
  <2>3. Goto(r, u, "importing")
    BY <1>4 DEF Read
  <2> QED BY <1>1, <2>1, <2>2, <2>3, GotoPull, PullStatuses
<1>5. CASE Imported(r)
  <2>1. Goto(r, t, "readend") /\ t.status = "READING"
    BY <1>1, <1>5, PullStatuses DEF Imported, At
  <2> QED BY <1>1, <2>1, GotoPull, PullStatuses
<1>6. CASE ImportFails(r)
  <2>1. t.status = "READING" /\ t.ctx = "read"
    BY <1>1, <1>6, PullStatuses DEF ImportFails, At
  <2>2. PICK e \in Status!Errors \cup {Unexpected} :
          Goto(r, [t EXCEPT !.exc = e, !.ctx = "read"], "except")
    BY <1>6, <2>1 DEF ImportFails, Raise, ReadErrors, Status!Errors
  <2> DEFINE u == [t EXCEPT !.exc = e, !.ctx = "read"]
  <2>3. u \in ReaderRecord /\ u.status = "READING" /\ ~u.canPush /\ u.ctx = "read"
    BY <1>1, <2>1 DEF ReaderRecord
  <2> QED BY <1>1, <2>1, <2>2, <2>3, GotoPull, PullStatuses
<1>7. CASE ReadEnd(r)
  <2> DEFINE u == ResetErrors(t)
             w == [Left(u) EXCEPT
                     !.status = IF @ \in {"READING", "WAIT_FOR_PUSH"} THEN "PAUSED" ELSE @]
  <2>1. t.status = "READING"
    BY <1>1, <1>7, PullStatuses DEF ReadEnd, At
  <2>2. u \in ReaderRecord /\ u.status = "READING" /\ ~u.canPush
    BY <1>1, <2>1 DEF ResetErrors, ReaderRecord
  <2>3. Left(u) \in ReaderRecord /\ Left(u).status = "READING" /\ ~Left(u).canPush
    BY <2>2 DEF Left, ReaderRecord
  <2>4. w \in ReaderRecord /\ w.status = "PAUSED" /\ ~w.canPush
    BY <2>3 DEF ReaderRecord, Status!ReaderStatus
  <2>5. Cycle(r, w)
    BY <1>7 DEF ReadEnd
  <2> QED BY <1>1, <2>1, <2>4, <2>5, CyclePull
<1>8. CASE Pause(r)
  <2> DEFINE u == [t EXCEPT !.event = FALSE]
  <2>1. t.status \in {"READING", "PAUSED"}
    BY <1>1, <1>8, PullStatuses DEF Pause, At
  <2>2. Goto(r, u, "read")
    BY <1>8, <2>1 DEF Pause, InnerHead, IsConnected, Status!Disconnected
  <2>3. u \in ReaderRecord /\ u.status = t.status /\ ~u.canPush
    BY <1>1 DEF ReaderRecord
  <2> QED BY <1>1, <2>1, <2>2, <2>3, GotoPull, PullStatuses
<1>9. CASE HandleError(r)
  <2> DEFINE s == IF t.exc = Unexpected THEN "CLIENT_ERROR" ELSE t.exc
             u == NewError(t, s)
  <2>1. /\ t.status = "READING" /\ t.ctx = "read" /\ t.exc # None
        /\ t.exc \in Status!Errors \cup {None, Unexpected}
    BY <1>1, <1>9, PullStatuses, RecordOf DEF HandleError, At, ExceptOf
  <2>2. CASE AssertFails(t, s)
    <3> DEFINE v == [Left(t) EXCEPT !.count = @ + 1]
    <3>1. Goto(r, v, "crashed")
      BY <1>9, <2>2 DEF HandleError
    <3>2. Left(t) \in ReaderRecord /\ Left(t).status = "READING" /\ ~Left(t).canPush
      BY <1>1, <2>1 DEF Left, ReaderRecord
    <3>3. v \in ReaderRecord /\ v.status = "READING" /\ ~v.canPush
      BY <3>2 DEF ReaderRecord
    <3> QED BY <1>1, <2>1, <3>1, <3>3, GotoPull, PullStatuses
  <2>3. CASE ~AssertFails(t, s)
    <3> DEFINE ended == IF u.status \in {"READING", "WAIT_FOR_PUSH"} THEN "PAUSED" ELSE u.status
               w == [u EXCEPT !.status = IF u.ctx = "push" THEN ended ELSE @]
    <3>1. s \in Status!Errors
      BY <2>1 DEF Status!Errors
    <3>2. u \in ReaderRecord /\ u.ctx = "read" /\ u.exc = t.exc
      BY <1>1, <2>1, <2>3, <3>1, NewErrorGood
    <3>3. FinalError(t, s) \in Status!Errors /\ (s = "CLIENT_ERROR" => FinalError(t, s) \in Status!Severe)
      BY <3>1 DEF FinalError, Status!Errors, Status!Severe
    <3>4. /\ u.status = IF FinalError(t, s) \in Status!Severe THEN FinalError(t, s) ELSE "READING"
          /\ ~u.canPush
      BY <1>1, <2>1 DEF NewError, ReaderRecord
    <3>5. CASE u.exc = Unexpected \/ u.status \in Status!Severe
      <4>1. Goto(r, u, "tryclose")
        BY <1>9, <2>3, <3>5 DEF HandleError
      <4>2. u.status \in Status!Severe
        BY <3>2, <3>3, <3>4, <3>5
      <4> QED BY <1>1, <2>1, <3>2, <3>4, <4>1, <4>2, GotoPull, PullStatuses, KnownMoves
    <3>6. CASE ~(u.exc = Unexpected \/ u.status \in Status!Severe)
      <4>1. AfterExcept(r, w)
        BY <1>9, <2>3, <3>6 DEF HandleError
      <4>2. w = u /\ u.status = "READING"
        BY <3>2, <3>4, <3>6 DEF ReaderRecord
      <4>3. Cycle(r, Left(u))
        BY <3>2, <3>6, <4>1, <4>2 DEF AfterExcept
      <4>4. Left(u) \in ReaderRecord /\ Left(u).status = "READING" /\ ~Left(u).canPush
        BY <3>2, <3>4, <4>2 DEF Left, ReaderRecord
      <4> QED BY <1>1, <2>1, <4>3, <4>4, CyclePull
    <3> QED BY <3>5, <3>6
  <2> QED BY <2>2, <2>3
<1>10. CASE TryClose(r)
  <2> DEFINE u == Left(Closed(t))
  <2>1. t.status \in Status!Severe /\ t.ctx = "read"
    BY <1>1, <1>10, PullStatuses DEF TryClose, At
  <2>2. AfterExcept(r, Closed(t))
    BY <1>10 DEF TryClose, CloseOutcomes
  <2>3. /\ Closed(t) \in ReaderRecord /\ Closed(t).ctx = "read"
        /\ Closed(t).status = t.status /\ ~Closed(t).canPush
    BY <1>1, <2>1 DEF Closed, ReaderRecord
  <2>4. u \in ReaderRecord /\ u.status = t.status /\ ~u.canPush
    BY <2>3 DEF Left, ReaderRecord
  <2>5. ~IsConnected(u)
    BY <2>1, <2>4 DEF IsConnected, Status!Disconnected, Status!Severe
  <2>6. Goto(r, u, OuterHead(u))
    BY <2>2, <2>3, <2>5 DEF AfterExcept, Cycle
  <2> QED BY <1>1, <2>1, <2>4, <2>6, OuterHeadPull
<1>11. CASE FinishClose(r)
  <2> DEFINE u == AfterClose(t, None)
  <2>1. Goto(r, u, "done") /\ t.status = "CLOSED"
    BY <1>1, <1>11, PullStatuses DEF FinishClose, CloseOutcomes, At
  <2>2. Closed(t) \in ReaderRecord /\ ~Closed(t).canPush
    BY <1>1 DEF Closed, ReaderRecord
  <2>3. u \in ReaderRecord /\ u.status = "SHUTDOWN" /\ ~u.canPush
    BY <2>2 DEF AfterClose, ReaderRecord, Status!ReaderStatus
  <2> QED BY <1>1, <2>1, <2>3, GotoPull, PullStatuses, KnownMoves
<1>12. ~(LoginFails(r) \/ PushRead(r) \/ ReadDone(r) \/ IdleTimeout(r) \/ IdleEnds(r) \/ IdleFails(r))
  BY <1>1, PullStatuses DEF LoginFails, PushRead, ReadDone, IdleTimeout, IdleEnds, IdleFails, At
<1> QED
  BY <1>2, <1>3, <1>4, <1>5, <1>6, <1>7, <1>8, <1>9, <1>10, <1>11, <1>12 DEF ThreadStep

LEMMA PullTime ==
  ASSUME Typed, PullInv, TimePasses
  PROVE  PullInv' /\ Bar' = Bar
<1>1. CASE RowBackoffElapses
  <2>1. rd' = rd /\ row' = [row EXCEPT !.backoff = FALSE]
    BY <1>1 DEF RowBackoffElapses
  <2>2. row.error = None => row'.error = None
    BY <2>1
  <2> QED BY <2>1, <2>2 DEF PullInv, Bar
<1>2. ASSUME NEW r \in Readers, BackoffElapses(r) \/ ReadGetsLate(r)
      PROVE  PullInv' /\ Bar' = Bar
  <2>1. PICK u : /\ rd' = [rd EXCEPT ![r] = u] /\ row' = row
                 /\ u \in {[rd[r] EXCEPT !.backoff = FALSE], [rd[r] EXCEPT !.late = TRUE]}
    BY <1>2 DEF BackoffElapses, ReadGetsLate
  <2>2. rd[r] \in ReaderRecord
    BY DEF Typed
  <2>3. /\ u.pc = rd[r].pc /\ u.status = rd[r].status /\ u.ctx = rd[r].ctx
        /\ u.canPush = rd[r].canPush
    BY <2>1, <2>2 DEF ReaderRecord
  <2>4. \A q \in Readers : rd'[q] = IF q = r THEN u ELSE rd[q]
    BY <2>1 DEF Typed
  <2> QED BY <2>1, <2>3, <2>4 DEF PullInv, Bar
<1> QED BY <1>1, <1>2 DEF TimePasses

LEMMA InitPull ==
  ASSUME CleanInit
  PROVE  PullInv /\ Status!Init
<1>1. rd = [r \in Readers |-> Fresh("setup")] /\ row.error = None
  BY DEF CleanInit, Init, CleanRow
<1>2. PullInv
  BY <1>1, PullStatuses DEF PullInv, Fresh
<1>3. Status!Init
  BY <1>1 DEF Status!Init, Fresh, Status!ReaderStatus
<1> QED BY <1>2, <1>3

(* A pull reader that is alone on its source, with nothing recorded, moves   *)
(* its status only along known_transitions, through errors, retries, idle   *)
(* closes and the end of its thread.                                        *)
THEOREM LifecycleRefinement ==
  ASSUME ~Imap, OneReader
  PROVE  CleanSpec => LifecycleRefined
<1>1. CleanInit => AloneIInv /\ PullInv /\ Status!Init
  BY InitAlone, InitPull DEF CleanInit
<1>2. AloneIInv /\ PullInv /\ [ReaderNext]_readerVars
        => AloneIInv' /\ PullInv' /\ [Status!Next]_Bar
  <2> SUFFICES ASSUME AloneIInv, PullInv, [ReaderNext]_readerVars
               PROVE  PullInv' /\ [Status!Next]_Bar
    BY NextAlone
  <2>1. ReadersGood /\ row \in RowRecord /\ Typed
    BY AloneIInvSplit DEF ReadersGood, Typed
  <2>2. CASE TimePasses
    BY <2>1, <2>2, PullTime
  <2>3. ASSUME NEW r \in Readers, ThreadStep(r)
        PROVE  PullInv' /\ [Status!Next]_Bar
    BY <2>1, <2>3, PullStep
  <2>4. CASE UNCHANGED readerVars
    BY <2>4 DEF readerVars, PullInv, Bar
  <2> QED BY <2>2, <2>3, <2>4 DEF ReaderNext
<1> QED BY <1>1, <1>2, PTL DEF CleanSpec, LifecycleRefined, Status!Spec, Bar
=============================================================================
