----------------------------- MODULE ReaderProofs -----------------------------
(* One step of a reader thread, or of time, keeps what SourceReader's        *)
(* invariants say of each reader, for every limit and kind of reader: the   *)
(* lemmas on which both ways to run the threads rest.                       *)
EXTENDS SourceReader, TLAPS

(* The invariants, for one reader t. *)
CountOf(t) ==
  /\ t.last = "TRANSIENT_ERROR" => t.count \in 1..TransientLimit
  /\ t.last = "CLIENT_ERROR" => t.count \in 1..ClientLimit
  /\ t.last = None => t.count = 0

MailboxOf(t) ==
  (\/ t.pc \in {"read", "pushread", "importing", "readdone", "readend", "pause",
                "idle", "closed"}
   \/ t.pc \in {"except", "tryclose"} /\ t.ctx # "login")
    => t.mailbox # "none"

EndedOf(t) ==
  (\/ t.pc = "done"
   \/ t.pc = "tryclose" /\ t.ctx = "login" /\ t.exc = Unexpected)
    => ~IsConnected(t)

ExceptOf(t) == t.pc \in {"except", "tryclose"} => t.exc # None

Good(t) ==
  /\ t \in ReaderRecord
  /\ CountOf(t)
  /\ Imap => MailboxOf(t)
  /\ ExceptOf(t)
  /\ EndedOf(t)

LEMMA RecordOf ==
  ASSUME NEW t \in ReaderRecord
  PROVE  /\ t.pc \in PCs /\ t.status \in Status!ReaderStatus
         /\ t.last \in Status!Errors \cup {None} /\ t.count \in Nat
         /\ t.mailbox \in {"none", "open", "closed"}
         /\ t.ctx \in {"login", "read", "push"}
         /\ t.exc \in Status!Errors \cup {None, Unexpected}
BY DEF ReaderRecord

LEMMA NewErrorGood ==
  ASSUME NEW t \in ReaderRecord, CountOf(t),
         NEW s \in Status!Errors, ~AssertFails(t, s)
  PROVE  /\ NewError(t, s) \in ReaderRecord
         /\ CountOf(NewError(t, s))
         /\ NewError(t, s).pc = t.pc
         /\ NewError(t, s).mailbox = t.mailbox
         /\ NewError(t, s).ctx = t.ctx
         /\ NewError(t, s).exc = t.exc
         /\ ~IsConnected(t) => ~IsConnected(NewError(t, s))
         /\ s # "TRANSIENT_ERROR" => ~IsConnected(NewError(t, s))
         /\ RowNewError(t, s) \in RowRecord
<1> USE LimitAssumption
<1>1. FinalError(t, s) \in Status!Errors
  BY DEF FinalError, Status!Errors
<1>2. /\ FinalError(t, s) = "TRANSIENT_ERROR" => s = "TRANSIENT_ERROR"
      /\ s # "TRANSIENT_ERROR" => FinalError(t, s) \in Status!Severe
  BY DEF FinalError, Status!Errors, Status!Severe
<1> DEFINE c == IF Escalates(t, s) THEN 1 ELSE NewCount(t, s)
<1>3. c \in Nat
  BY DEF NewCount, ReaderRecord
<1>4. /\ FinalError(t, s) = "TRANSIENT_ERROR" => c \in 1..TransientLimit
      /\ FinalError(t, s) = "CLIENT_ERROR" => c \in 1..ClientLimit
  BY RecordOf DEF FinalError, NewCount, Escalates, Repeated, CountOf, AssertFails, Status!Errors
<1>5. NewError(t, s) \in ReaderRecord
  BY <1>1, <1>3 DEF NewError, ReaderRecord, Status!Errors, Status!Severe, Status!ReaderStatus
<1>6. /\ NewError(t, s).last = FinalError(t, s)
      /\ NewError(t, s).count = c
      /\ NewError(t, s).pc = t.pc
      /\ NewError(t, s).mailbox = t.mailbox
      /\ NewError(t, s).ctx = t.ctx
      /\ NewError(t, s).exc = t.exc
      /\ NewError(t, s).status =
           IF FinalError(t, s) \in Status!Severe /\ t.status # "SHUTDOWN" THEN FinalError(t, s) ELSE t.status
  BY DEF NewError, ReaderRecord
<1>7. CountOf(NewError(t, s))
  BY <1>1, <1>4, <1>6 DEF CountOf, Status!Errors, None
<1>8. /\ ~IsConnected(t) => ~IsConnected(NewError(t, s))
      /\ s # "TRANSIENT_ERROR" => ~IsConnected(NewError(t, s))
  BY <1>1, <1>2, <1>6 DEF IsConnected, Status!Severe, Status!Disconnected
<1>9. RowNewError(t, s) \in RowRecord
  BY <1>1 DEF RowNewError, RowRecord, Status!ReaderStatus
<1> QED BY <1>5, <1>6, <1>7, <1>8, <1>9

LEMMA ClosedGood ==
  ASSUME NEW t \in ReaderRecord, CountOf(t)
  PROVE  /\ Closed(t) \in ReaderRecord /\ CountOf(Closed(t))
         /\ Closed(t).pc = t.pc /\ Closed(t).status = t.status
         /\ Closed(t).ctx = t.ctx /\ Closed(t).exc = t.exc
         /\ Closed(t).last = t.last /\ Closed(t).count = t.count
         /\ t.mailbox # "none" => Closed(t).mailbox # "none"
<1>1. /\ Closed(t) \in ReaderRecord
      /\ Closed(t).pc = t.pc /\ Closed(t).status = t.status
      /\ Closed(t).ctx = t.ctx /\ Closed(t).exc = t.exc
      /\ Closed(t).last = t.last /\ Closed(t).count = t.count
      /\ Closed(t).mailbox = IF t.mailbox = "open" THEN "closed" ELSE t.mailbox
  BY RecordOf DEF Closed, ReaderRecord
<1> QED BY <1>1 DEF CountOf

LEMMA AfterCloseGood ==
  ASSUME NEW t \in ReaderRecord, CountOf(t), NEW e
  PROVE  /\ AfterClose(t, e) \in ReaderRecord
         /\ CountOf(AfterClose(t, e))
         /\ ~IsConnected(AfterClose(t, e))
         /\ AfterClose(t, e).pc = t.pc
         /\ AfterClose(t, e).ctx = t.ctx
         /\ AfterClose(t, e).exc = t.exc
         /\ t.mailbox # "none" => AfterClose(t, e).mailbox # "none"
         /\ row \in RowRecord => RowAfterClose(t, e) \in RowRecord
<1> DEFINE u == Closed(t)
           v == IF e = None THEN u ELSE NewError(u, "CLIENT_ERROR")
           w == [v EXCEPT !.status = "SHUTDOWN"]
<1>1. /\ u \in ReaderRecord /\ CountOf(u) /\ u.pc = t.pc /\ u.ctx = t.ctx /\ u.exc = t.exc
      /\ t.mailbox # "none" => u.mailbox # "none"
  BY ClosedGood
<1>2. "CLIENT_ERROR" \in Status!Errors /\ ~AssertFails(u, "CLIENT_ERROR") /\ ~AssertFails(t, "CLIENT_ERROR")
  BY DEF AssertFails, Status!Errors
<1>3. /\ v \in ReaderRecord /\ CountOf(v) /\ v.pc = t.pc /\ v.ctx = t.ctx /\ v.exc = t.exc
      /\ v.mailbox = u.mailbox
  BY <1>1, <1>2, NewErrorGood
<1>4. RowNewError(t, "CLIENT_ERROR") \in RowRecord
  BY <1>2, NewErrorGood
<1>5. /\ w \in ReaderRecord /\ w.status = "SHUTDOWN" /\ w.pc = v.pc /\ w.ctx = v.ctx
      /\ w.exc = v.exc /\ w.mailbox = v.mailbox /\ w.last = v.last /\ w.count = v.count
  BY <1>3 DEF ReaderRecord, Status!ReaderStatus
<1>6. CountOf(w) /\ ~IsConnected(w)
  BY <1>3, <1>5 DEF CountOf, IsConnected, Status!Disconnected
<1> QED BY <1>1, <1>3, <1>4, <1>5, <1>6 DEF AfterClose, RowAfterClose

-----------------------------------------------------------------------------
(* The reader threads. *)

ReadersGood ==
  /\ rd \in [Readers -> ReaderRecord]
  /\ \A r \in Readers : Good(rd[r])

LEMMA UpdateGood ==
  ASSUME ReadersGood, NEW r \in Readers, NEW STATE u, Good(u),
         rd' = [rd EXCEPT ![r] = u]
  PROVE  ReadersGood'
<1>1. u \in ReaderRecord
  BY DEF Good
<1>2. rd' \in [Readers -> ReaderRecord]
  BY <1>1 DEF ReadersGood
<1>3. ASSUME NEW q \in Readers PROVE Good(rd'[q])
  BY DEF ReadersGood
<1>4. ASSUME NEW q \in Readers PROVE Good(rd[q])'
  BY <1>3 DEF Good, CountOf, MailboxOf, ExceptOf, EndedOf, IsConnected
<1> QED BY <1>2, <1>4 DEF ReadersGood

LEMMA GotoGood ==
  ASSUME ReadersGood, NEW r \in Readers, NEW STATE u, NEW STATE pc,
         u \in ReaderRecord, CountOf(u), pc \in PCs,
         (\/ pc \in {"read", "pushread", "importing", "readdone", "readend", "pause",
                     "idle", "closed"}
          \/ (pc \in {"except", "tryclose"} /\ u.ctx # "login"))
           => (Imap => u.mailbox # "none"),
         pc \in {"except", "tryclose"} => u.exc # None,
         (pc = "done" \/ (pc = "tryclose" /\ u.ctx = "login" /\ u.exc = Unexpected))
           => ~IsConnected(u),
         Goto(r, u, pc)
  PROVE  ReadersGood'
<1> DEFINE v == [u EXCEPT !.pc = pc]
<1>1. v \in ReaderRecord
  BY DEF ReaderRecord
<1>2. /\ v.pc = pc /\ v.status = u.status /\ v.last = u.last /\ v.count = u.count
      /\ v.mailbox = u.mailbox /\ v.ctx = u.ctx /\ v.exc = u.exc
  BY DEF ReaderRecord
<1>3. Good(v)
  BY <1>1, <1>2 DEF Good, CountOf, MailboxOf, ExceptOf, EndedOf, IsConnected
<1> QED BY <1>3, UpdateGood DEF Goto

LEMMA HeadsGood ==
  ASSUME NEW t \in ReaderRecord
  PROVE  /\ OuterHead(t) \in {"done", "backoff", "login"}
         /\ OuterHead(t) = "done" => ~IsConnected(t)
         /\ InnerHead(t) \in {"read", "done", "backoff", "login"}
         /\ InnerHead(t) = "done" => ~IsConnected(t)
         /\ AfterLogin(t) \in {"read", "done"}
         /\ AfterLogin(t) = "done" => ~IsConnected(t)
BY DEF OuterHead, InnerHead, AfterLogin, IsConnected, Status!Disconnected

LEMMA CycleGood ==
  ASSUME ReadersGood, NEW r \in Readers, NEW STATE t,
         t \in ReaderRecord, CountOf(t), Imap => t.mailbox # "none",
         Cycle(r, t)
  PROVE  ReadersGood'
<1>1. CASE ~IsConnected(t)
  <2>1. Goto(r, t, OuterHead(t))
    BY <1>1 DEF Cycle
  <2> QED BY <1>1, <2>1, HeadsGood, GotoGood DEF PCs
<1>2. CASE IsConnected(t) /\ t.canPush
  <2> DEFINE u == [t EXCEPT !.status = "WAIT_FOR_PUSH"]
  <2>1. Goto(r, u, "idle")
    BY <1>2 DEF Cycle
  <2>2. u \in ReaderRecord /\ u.last = t.last /\ u.count = t.count /\ u.mailbox = t.mailbox
    BY DEF ReaderRecord, Status!ReaderStatus
  <2>3. CountOf(u)
    BY <2>2 DEF CountOf
  <2> QED BY <2>1, <2>2, <2>3, GotoGood DEF PCs
<1>3. CASE IsConnected(t) /\ ~t.canPush
  <2> DEFINE u == [t EXCEPT !.status = "CLOSED"]
  <2>1. Goto(r, t, "pause") \/ Goto(r, u, "closed")
    BY <1>3 DEF Cycle
  <2>2. u \in ReaderRecord /\ u.last = t.last /\ u.count = t.count /\ u.mailbox = t.mailbox
    BY DEF ReaderRecord, Status!ReaderStatus
  <2>3. CountOf(u)
    BY <2>2 DEF CountOf
  <2> QED BY <2>1, <2>2, <2>3, GotoGood DEF PCs
<1> QED BY <1>1, <1>2, <1>3

LEMMA LeftGood ==
  ASSUME NEW t \in ReaderRecord, CountOf(t)
  PROVE  /\ Left(t) \in ReaderRecord
         /\ CountOf(Left(t))
         /\ Left(t).mailbox = t.mailbox
         /\ Left(t).status = t.status
         /\ Left(t).ctx = "login"
         /\ Left(t).exc = None
<1>1. /\ Left(t) \in ReaderRecord /\ Left(t).mailbox = t.mailbox /\ Left(t).status = t.status
      /\ Left(t).ctx = "login" /\ Left(t).exc = None
      /\ Left(t).last = t.last /\ Left(t).count = t.count
  BY DEF Left, ReaderRecord
<1> QED BY <1>1 DEF CountOf

LEMMA AfterExceptGood ==
  ASSUME ReadersGood, NEW r \in Readers, NEW STATE t,
         t \in ReaderRecord, CountOf(t),
         Imap /\ t.ctx # "login" => t.mailbox # "none",
         t.ctx = "login" /\ t.exc = Unexpected => ~IsConnected(t),
         AfterExcept(r, t)
  PROVE  ReadersGood'
<1> DEFINE u == Left(t)
<1>1. /\ u \in ReaderRecord /\ CountOf(u) /\ u.mailbox = t.mailbox /\ u.status = t.status
      /\ u.ctx = "login" /\ u.exc = None
  BY LeftGood
<1>2. IsConnected(u) <=> IsConnected(t)
  BY <1>1 DEF IsConnected
<1>3. t.ctx \in {"login", "read", "push"}
  BY RecordOf
<1>4. CASE t.ctx = "login"
  <2>1. Goto(r, u, IF t.exc = Unexpected THEN "done" ELSE OuterHead(u))
    BY <1>4 DEF AfterExcept
  <2> QED BY <1>1, <1>2, <1>4, <2>1, HeadsGood, GotoGood DEF PCs
<1>5. CASE t.ctx = "read"
  <2>1. Goto(r, u, OuterHead(u)) \/ Cycle(r, u)
    BY <1>5 DEF AfterExcept
  <2>2. CASE Goto(r, u, OuterHead(u))
    BY <1>1, <2>2, HeadsGood, GotoGood DEF PCs
  <2>3. CASE Cycle(r, u)
    BY <1>1, <1>5, <2>3, CycleGood
  <2> QED BY <2>1, <2>2, <2>3
<1>6. CASE t.ctx = "push"
  <2>1. Goto(r, u, InnerHead(u))
    BY <1>6 DEF AfterExcept
  <2> QED BY <1>1, <1>6, <2>1, HeadsGood, GotoGood DEF PCs
<1> QED BY <1>3, <1>4, <1>5, <1>6

LEMMA GoodOf ==
  ASSUME ReadersGood, NEW r \in Readers
  PROVE  /\ rd[r] \in ReaderRecord
         /\ CountOf(rd[r])
         /\ Imap => MailboxOf(rd[r])
         /\ ExceptOf(rd[r])
         /\ EndedOf(rd[r])
BY DEF ReadersGood, Good

(* A step of run() keeps every reader good and the row a row. *)
LEMMA ThreadStepGood ==
  ASSUME ReadersGood, row \in RowRecord, NEW r \in Readers, ThreadStep(r)
  PROVE  ReadersGood' /\ row' \in RowRecord
<1> DEFINE t == rd[r]
<1>1. /\ t \in ReaderRecord /\ CountOf(t) /\ (Imap => MailboxOf(t))
      /\ ExceptOf(t) /\ EndedOf(t)
  BY GoodOf
<1>2. /\ t.pc \in PCs /\ t.status \in Status!ReaderStatus
      /\ t.last \in Status!Errors \cup {None} /\ t.count \in Nat
      /\ t.mailbox \in {"none", "open", "closed"}
      /\ t.ctx \in {"login", "read", "push"}
      /\ t.exc \in Status!Errors \cup {None, Unexpected}
  BY <1>1, RecordOf
<1>3. /\ CleanRow \in RowRecord
      /\ \A s \in Status!ReaderStatus : RowSetStatus(t, s) \in RowRecord
  BY <1>2 DEF CleanRow, RowRecord, RowSetStatus
<1>4. CASE Setup(r)
  <2> DEFINE u == [t EXCEPT !.backoff = row.backoff,
                            !.status = IF row.error \in {None, "CREATED"} THEN @ ELSE row.error]
  <2>1. u \in ReaderRecord /\ u.last = t.last /\ u.count = t.count /\ u.mailbox = t.mailbox
    BY <1>1, <1>2 DEF ReaderRecord, RowRecord
  <2>2. CountOf(u)
    BY <1>1, <2>1 DEF CountOf
  <2>3. Goto(r, u, OuterHead(u)) /\ row' = row
    BY <1>4 DEF Setup
  <2> QED BY <2>1, <2>2, <2>3, HeadsGood, GotoGood DEF PCs
<1>5. CASE BackoffWait(r)
  <2> DEFINE u == [t EXCEPT !.event = FALSE]
  <2>1. u \in ReaderRecord /\ u.last = t.last /\ u.count = t.count
    BY <1>1 DEF ReaderRecord
  <2>2. CountOf(u)
    BY <1>1, <2>1 DEF CountOf
  <2>3. Goto(r, u, "login") /\ row' = row
    BY <1>5 DEF BackoffWait
  <2> QED BY <2>1, <2>2, <2>3, GotoGood DEF PCs
<1>6. CASE LoginOk(r)
  <2>1. PICK push \in BOOLEAN :
          Goto(r, [t EXCEPT !.canPush = push, !.mailbox = IF Imap THEN "open" ELSE @],
               AfterLogin(t))
    BY <1>1, <1>6, LimitAssumption DEF LoginOk, ReaderRecord
  <2> DEFINE u == [t EXCEPT !.canPush = push, !.mailbox = IF Imap THEN "open" ELSE @]
  <2>2. /\ u \in ReaderRecord /\ u.last = t.last /\ u.count = t.count /\ u.status = t.status
        /\ Imap => u.mailbox = "open"
    BY <1>1, <1>2 DEF ReaderRecord
  <2>3. CountOf(u) /\ (IsConnected(u) <=> IsConnected(t))
    BY <1>1, <2>2 DEF CountOf, IsConnected
  <2>4. row' = row
    BY <1>6 DEF LoginOk
  <2> QED BY <1>1, <2>1, <2>2, <2>3, <2>4, HeadsGood, GotoGood DEF PCs
<1>7. CASE LoginFails(r) \/ ImportFails(r) \/ IdleFails(r)
  <2>1. PICK e \in Status!Errors \cup {Unexpected}, c \in {"login", "read", "push"},
             push \in BOOLEAN :
          /\ Goto(r, [t EXCEPT !.exc = e, !.ctx = c, !.canPush = push], "except")
          /\ Imap /\ c # "login" => t.mailbox # "none"
    <3>1. t.canPush \in BOOLEAN
      BY <1>1 DEF ReaderRecord
    <3>2. CASE LoginFails(r)
      <4>1. PICK e \in Status!Errors \cup {Unexpected}, push \in {TRUE, t.canPush} :
              Goto(r, [t EXCEPT !.exc = e, !.ctx = "login", !.canPush = push], "except")
        BY <3>2 DEF LoginFails
      <4> QED BY <3>1, <4>1
    <3>3. CASE ImportFails(r) \/ IdleFails(r)
      <4>1. PICK e \in Status!Errors \cup {Unexpected}, c \in {"login", "read", "push"} :
              /\ Raise(r, e, c)
              /\ Imap /\ c # "login" => t.mailbox # "none"
        <5>1. CASE ImportFails(r)
          BY <1>1, <1>2, <5>1 DEF ImportFails, ReadErrors, At, MailboxOf, Status!Errors
        <5>2. CASE IdleFails(r)
          BY <1>1, <5>2 DEF IdleFails, At, MailboxOf, Status!Errors, Status!Severe
        <5> QED BY <3>3, <5>1, <5>2
      <4>2. [t EXCEPT !.exc = e, !.ctx = c]
              = [t EXCEPT !.exc = e, !.ctx = c, !.canPush = t.canPush]
        BY <1>1 DEF ReaderRecord
      <4> QED BY <3>1, <4>1, <4>2 DEF Raise
    <3> QED BY <1>7, <3>2, <3>3
  <2> DEFINE u == [t EXCEPT !.exc = e, !.ctx = c, !.canPush = push]
  <2>2. /\ u \in ReaderRecord /\ u.last = t.last /\ u.count = t.count /\ u.mailbox = t.mailbox
        /\ u.ctx = c /\ u.exc = e /\ e # None
    BY <1>1 DEF ReaderRecord, Status!Errors, None, Unexpected
  <2>3. CountOf(u)
    BY <1>1, <2>2 DEF CountOf
  <2>4. Goto(r, u, "except")
    BY <2>1
  <2>5. row' = row
    BY <1>7 DEF LoginFails, ImportFails, IdleFails
  <2> QED BY <2>1, <2>2, <2>3, <2>4, <2>5, GotoGood DEF PCs
<1>8. CASE Read(r) \/ PushRead(r)
  <2>1. PICK late \in BOOLEAN, c \in {"read", "push"} :
          Goto(r, [t EXCEPT !.status = "READING", !.late = late, !.ctx = c], "importing")
    <3>1. CASE Read(r)
      BY <3>1 DEF Read
    <3>2. CASE PushRead(r)
      <4>1. [t EXCEPT !.status = "READING", !.ctx = "push"]
              = [t EXCEPT !.status = "READING", !.late = t.late, !.ctx = "push"]
        BY <1>1 DEF ReaderRecord
      <4>2. t.late \in BOOLEAN
        BY <1>1 DEF ReaderRecord
      <4> QED BY <3>2, <4>1, <4>2 DEF PushRead
    <3> QED BY <1>8, <3>1, <3>2
  <2> DEFINE u == [t EXCEPT !.status = "READING", !.late = late, !.ctx = c]
  <2>2. /\ u \in ReaderRecord /\ u.last = t.last /\ u.count = t.count /\ u.mailbox = t.mailbox
    BY <1>1 DEF ReaderRecord, Status!ReaderStatus
  <2>3. CountOf(u)
    BY <1>1, <2>2 DEF CountOf
  <2>4. Imap => t.mailbox # "none"
    BY <1>1, <1>8 DEF Read, PushRead, At, MailboxOf
  <2>5. row' \in RowRecord
    BY <1>3, <1>8 DEF Read, PushRead, Status!ReaderStatus
  <2> QED BY <2>1, <2>2, <2>3, <2>4, <2>5, GotoGood DEF PCs
<1>9. CASE Imported(r)
  <2>1. Goto(r, t, IF Imap THEN "readdone" ELSE "readend") /\ row' = row
    BY <1>9 DEF Imported
  <2>2. Imap => t.mailbox # "none"
    BY <1>1, <1>9 DEF Imported, At, MailboxOf
  <2> QED BY <1>1, <2>1, <2>2, GotoGood DEF PCs
<1>10. CASE ReadDone(r) \/ ReadEnd(r)
  <2> DEFINE u == ResetErrors(t)
  <2>1. /\ u \in ReaderRecord /\ u.last = None /\ u.count = 0 /\ u.mailbox = t.mailbox
    BY <1>1 DEF ResetErrors, ReaderRecord
  <2>2. CountOf(u)
    BY <2>1 DEF CountOf, None
  <2>3. /\ Left(u) \in ReaderRecord /\ CountOf(Left(u)) /\ Left(u).mailbox = t.mailbox
    BY <2>1, <2>2, LeftGood
  <2>4. Imap => t.mailbox # "none"
    BY <1>1, <1>10 DEF ReadDone, ReadEnd, At, MailboxOf
  <2>5. row' = CleanRow
    BY <1>10 DEF ReadDone, ReadEnd
  <2>6. ASSUME NEW v \in ReaderRecord, NEW s \in Status!ReaderStatus
        PROVE  LET w == [v EXCEPT !.status = s]
               IN  /\ w \in ReaderRecord /\ w.mailbox = v.mailbox
                   /\ w.last = v.last /\ w.count = v.count
    BY DEF ReaderRecord
  <2>7. CASE ReadDone(r)
    <3>1. \/ Goto(r, [Left(u) EXCEPT !.status = "WAIT_FOR_PUSH"], "idle")
          \/ Goto(r, [u EXCEPT !.status = "PAUSED"], "readend")
      BY <2>7 DEF ReadDone
    <3>2. CASE Goto(r, [Left(u) EXCEPT !.status = "WAIT_FOR_PUSH"], "idle")
      <4>1. "WAIT_FOR_PUSH" \in Status!ReaderStatus
        BY DEF Status!ReaderStatus
      <4> DEFINE w == [Left(u) EXCEPT !.status = "WAIT_FOR_PUSH"]
      <4>2. /\ w \in ReaderRecord /\ w.mailbox = t.mailbox
            /\ w.last = Left(u).last /\ w.count = Left(u).count
        BY <2>3, <2>6, <4>1
      <4>3. CountOf(w)
        BY <2>3, <4>2 DEF CountOf
      <4> QED BY <1>3, <2>4, <2>5, <3>2, <4>2, <4>3, GotoGood DEF PCs
    <3>3. CASE Goto(r, [u EXCEPT !.status = "PAUSED"], "readend")
      <4>1. "PAUSED" \in Status!ReaderStatus
        BY DEF Status!ReaderStatus
      <4> DEFINE w == [u EXCEPT !.status = "PAUSED"]
      <4>2. /\ w \in ReaderRecord /\ w.mailbox = t.mailbox
            /\ w.last = u.last /\ w.count = u.count
        BY <2>1, <2>6, <4>1
      <4>3. CountOf(w)
        BY <2>2, <4>2 DEF CountOf
      <4> QED BY <1>3, <2>4, <2>5, <3>3, <4>2, <4>3, GotoGood DEF PCs
    <3> QED BY <3>1, <3>2, <3>3
  <2>8. CASE ReadEnd(r)
    <3> DEFINE w == [Left(u) EXCEPT
                       !.status = IF @ \in {"READING", "WAIT_FOR_PUSH"} THEN "PAUSED" ELSE @]
    <3>1. Cycle(r, w)
      BY <2>8 DEF ReadEnd
    <3>2. /\ w \in ReaderRecord /\ w.mailbox = t.mailbox
          /\ w.last = Left(u).last /\ w.count = Left(u).count
      BY <2>3 DEF ReaderRecord, Status!ReaderStatus
    <3>3. CountOf(w)
      BY <2>3, <3>2 DEF CountOf
    <3> QED BY <1>3, <2>4, <2>5, <3>1, <3>2, <3>3, CycleGood
  <2> QED BY <1>10, <2>7, <2>8
<1>11. CASE Pause(r)
  <2> DEFINE u == [t EXCEPT !.event = FALSE]
  <2>1. /\ u \in ReaderRecord /\ u.last = t.last /\ u.count = t.count
        /\ u.mailbox = t.mailbox /\ u.status = t.status
    BY <1>1 DEF ReaderRecord
  <2>2. CountOf(u) /\ (IsConnected(u) <=> IsConnected(t))
    BY <1>1, <2>1 DEF CountOf, IsConnected
  <2>3. Goto(r, u, InnerHead(t)) /\ row' = row
    BY <1>11 DEF Pause
  <2>4. Imap => t.mailbox # "none"
    BY <1>1, <1>11 DEF Pause, At, MailboxOf
  <2> QED BY <1>1, <2>1, <2>2, <2>3, <2>4, HeadsGood, GotoGood DEF PCs
<1>12. CASE IdleTimeout(r) \/ IdleEnds(r)
  <2>1. Imap => t.mailbox # "none"
    BY <1>1, <1>12 DEF IdleTimeout, IdleEnds, At, MailboxOf
  <2>2. row' = row
    BY <1>12 DEF IdleTimeout, IdleEnds
  <2>3. \/ \E s \in {"PAUSED", "WAIT_FOR_PUSH"}, pc \in {"read", "idle"} :
             Goto(r, [t EXCEPT !.status = s], pc)
        \/ Goto(r, t, "pushread")
        \/ Goto(r, t, OuterHead(t))
    BY <1>12 DEF IdleTimeout, IdleEnds
  <2>4. ASSUME NEW s \in {"PAUSED", "WAIT_FOR_PUSH"}, NEW pc \in {"read", "idle"},
               Goto(r, [t EXCEPT !.status = s], pc)
        PROVE  ReadersGood'
    <3> DEFINE u == [t EXCEPT !.status = s]
    <3>1. /\ u \in ReaderRecord /\ u.last = t.last /\ u.count = t.count
          /\ u.mailbox = t.mailbox
      BY <1>1 DEF ReaderRecord, Status!ReaderStatus
    <3>2. CountOf(u)
      BY <1>1, <3>1 DEF CountOf
    <3> QED BY <2>1, <2>4, <3>1, <3>2, GotoGood DEF PCs
  <2>5. CASE Goto(r, t, "pushread")
    BY <1>1, <2>1, <2>2, <2>5, GotoGood DEF PCs
  <2>6. CASE Goto(r, t, OuterHead(t))
    BY <1>1, <2>2, <2>6, HeadsGood, GotoGood DEF PCs
  <2> QED BY <2>2, <2>3, <2>4, <2>5, <2>6
<1>13. CASE HandleError(r)
  <2> DEFINE s == IF t.exc = Unexpected THEN "CLIENT_ERROR" ELSE t.exc
             u == NewError(t, s)
  <2>1. CASE AssertFails(t, s)
    <3> DEFINE v == [Left(t) EXCEPT !.count = @ + 1]
    <3>1. Goto(r, v, "crashed") /\ row' = row
      BY <1>13, <2>1 DEF HandleError
    <3>2. /\ Left(t) \in ReaderRecord /\ Left(t).last = t.last
          /\ t.last = "IRRECOVERABLE_ERROR"
      BY <1>1, <2>1 DEF Left, ReaderRecord, AssertFails, Repeated
    <3>3. v \in ReaderRecord /\ v.last = "IRRECOVERABLE_ERROR"
      BY <3>2 DEF ReaderRecord
    <3>4. CountOf(v)
      BY <3>3 DEF CountOf, None
    <3> QED BY <3>1, <3>3, <3>4, GotoGood DEF PCs
  <2>2. CASE ~AssertFails(t, s)
    <3> DEFINE ended == IF u.status \in {"READING", "WAIT_FOR_PUSH"} THEN "PAUSED" ELSE u.status
               w == [u EXCEPT !.status = IF u.ctx = "push" THEN ended ELSE @]
    <3>1. t.pc = "except" /\ t.exc # None
      BY <1>1, <1>13 DEF HandleError, At, ExceptOf
    <3>2. s \in Status!Errors
      BY <1>2, <3>1 DEF Status!Errors
    <3>3. /\ u \in ReaderRecord /\ CountOf(u) /\ u.mailbox = t.mailbox
          /\ u.ctx = t.ctx /\ u.exc = t.exc
          /\ s # "TRANSIENT_ERROR" => ~IsConnected(u)
          /\ RowNewError(t, s) \in RowRecord
      BY <1>1, <2>2, <3>2, NewErrorGood
    <3>4. /\ row' = RowNewError(t, s)
          /\ \/ Goto(r, u, "tryclose")
             \/ u.exc # Unexpected /\ AfterExcept(r, w)
      BY <1>13, <2>2 DEF HandleError
    <3>5. Imap /\ t.ctx # "login" => t.mailbox # "none"
      BY <1>1, <3>1 DEF MailboxOf
    <3>6. CASE Goto(r, u, "tryclose")
      <4>1. u.exc = Unexpected => ~IsConnected(u)
        BY <3>3
      <4> QED BY <3>1, <3>3, <3>4, <3>5, <3>6, <4>1, GotoGood DEF PCs
    <3>7. CASE u.exc # Unexpected /\ AfterExcept(r, w)
      <4>1. /\ w \in ReaderRecord /\ w.last = u.last /\ w.count = u.count
            /\ w.mailbox = t.mailbox /\ w.ctx = t.ctx /\ w.exc = u.exc
        BY <3>3 DEF ReaderRecord, Status!ReaderStatus
      <4>2. CountOf(w)
        BY <3>3, <4>1 DEF CountOf
      <4> QED BY <3>3, <3>4, <3>5, <3>7, <4>1, <4>2, AfterExceptGood
    <3> QED BY <3>3, <3>4, <3>6, <3>7
  <2> QED BY <2>1, <2>2
<1>14. CASE TryClose(r)
  <2> DEFINE u == Closed(t)
             v == NewError(u, "CLIENT_ERROR")
  <2>1. t.pc = "tryclose"
    BY <1>14 DEF TryClose, At
  <2>2. /\ u \in ReaderRecord /\ CountOf(u) /\ u.status = t.status
        /\ u.ctx = t.ctx /\ u.exc = t.exc
        /\ t.mailbox # "none" => u.mailbox # "none"
    BY <1>1, ClosedGood
  <2>3. /\ v \in ReaderRecord /\ CountOf(v) /\ v.mailbox = u.mailbox
        /\ v.ctx = u.ctx /\ v.exc = u.exc /\ ~IsConnected(v)
        /\ RowNewError(t, "CLIENT_ERROR") \in RowRecord
    BY <1>1, <2>2, NewErrorGood DEF AssertFails, Status!Errors
  <2>4. Imap /\ t.ctx # "login" => t.mailbox # "none"
    BY <1>1, <2>1 DEF MailboxOf
  <2>5. t.ctx = "login" /\ t.exc = Unexpected => ~IsConnected(u)
    BY <1>1, <2>1, <2>2 DEF EndedOf, IsConnected
  <2>6. \/ AfterExcept(r, u) /\ row' = row
        \/ AfterExcept(r, v) /\ row' = RowNewError(t, "CLIENT_ERROR")
    BY <1>14 DEF TryClose
  <2>7. CASE AfterExcept(r, u) /\ row' = row
    BY <2>2, <2>4, <2>5, <2>7, AfterExceptGood
  <2>8. CASE AfterExcept(r, v) /\ row' = RowNewError(t, "CLIENT_ERROR")
    BY <2>2, <2>3, <2>4, <2>8, AfterExceptGood
  <2> QED BY <2>6, <2>7, <2>8
<1>15. CASE FinishClose(r)
  <2>1. PICK e \in CloseOutcomes(t) :
          /\ Goto(r, AfterClose(t, e), "done")
          /\ row' = RowAfterClose(t, e)
    BY <1>15 DEF FinishClose
  <2>2. /\ AfterClose(t, e) \in ReaderRecord
        /\ CountOf(AfterClose(t, e))
        /\ ~IsConnected(AfterClose(t, e))
        /\ row \in RowRecord => RowAfterClose(t, e) \in RowRecord
    BY <1>1, AfterCloseGood
  <2> QED BY <2>1, <2>2, GotoGood DEF PCs
<1> QED
  BY <1>4, <1>5, <1>6, <1>7, <1>8, <1>9, <1>10, <1>11, <1>12, <1>13, <1>14, <1>15
  DEF ThreadStep

LEMMA FreshGood ==
  ASSUME NEW pc \in {"new", "setup"}
  PROVE  Good(Fresh(pc))
<1>1. Fresh(pc) \in ReaderRecord
  BY DEF Fresh, ReaderRecord, PCs, Status!ReaderStatus, Status!Errors
<1>2. /\ Fresh(pc).pc = pc /\ Fresh(pc).last = None /\ Fresh(pc).count = 0
  BY DEF Fresh
<1>3. CountOf(Fresh(pc)) /\ MailboxOf(Fresh(pc)) /\ ExceptOf(Fresh(pc)) /\ EndedOf(Fresh(pc))
  BY <1>2 DEF CountOf, MailboxOf, ExceptOf, EndedOf, None
<1> QED BY <1>1, <1>3 DEF Good

(* What another thread than the reader's own may change in a good reader:   *)
(* neither its place nor the exception it handles.                          *)
LEMMA PokeGood ==
  ASSUME NEW t, Good(t), NEW u \in ReaderRecord, CountOf(u),
         u.pc = t.pc, u.ctx = t.ctx, u.exc = t.exc,
         t.mailbox # "none" => u.mailbox # "none",
         ~IsConnected(t) => ~IsConnected(u)
  PROVE  Good(u)
BY DEF Good, MailboxOf, ExceptOf, EndedOf

LEMMA StatusGood ==
  ASSUME NEW t, Good(t), NEW s \in Status!ReaderStatus, NEW e \in BOOLEAN,
         ~IsConnected(t) => s \in Status!Disconnected
  PROVE  /\ Good([t EXCEPT !.status = s])
         /\ Good([t EXCEPT !.status = s, !.event = e])
<1>1. t \in ReaderRecord /\ CountOf(t)
  BY DEF Good
<1> DEFINE u == [t EXCEPT !.status = s]
           v == [t EXCEPT !.status = s, !.event = e]
<1>2. /\ u \in ReaderRecord /\ u.pc = t.pc /\ u.ctx = t.ctx /\ u.exc = t.exc
      /\ u.mailbox = t.mailbox /\ u.last = t.last /\ u.count = t.count /\ u.status = s
      /\ v \in ReaderRecord /\ v.pc = t.pc /\ v.ctx = t.ctx /\ v.exc = t.exc
      /\ v.mailbox = t.mailbox /\ v.last = t.last /\ v.count = t.count /\ v.status = s
  BY <1>1 DEF ReaderRecord
<1>3. CountOf(u) /\ CountOf(v) /\ (~IsConnected(t) => ~IsConnected(u) /\ ~IsConnected(v))
  BY <1>1, <1>2 DEF CountOf, IsConnected
<1> QED BY <1>2, <1>3, PokeGood

LEMMA FlagGood ==
  ASSUME NEW t, Good(t), NEW b \in BOOLEAN
  PROVE  /\ Good([t EXCEPT !.backoff = b])
         /\ Good([t EXCEPT !.late = b])
         /\ Good([t EXCEPT !.event = b])
<1>1. t \in ReaderRecord /\ CountOf(t)
  BY DEF Good
<1> DEFINE Same(u) == /\ u \in ReaderRecord /\ u.pc = t.pc /\ u.ctx = t.ctx /\ u.exc = t.exc
                      /\ u.mailbox = t.mailbox /\ u.last = t.last /\ u.count = t.count
                      /\ u.status = t.status
<1>2. /\ Same([t EXCEPT !.backoff = b])
      /\ Same([t EXCEPT !.late = b])
      /\ Same([t EXCEPT !.event = b])
  BY <1>1 DEF ReaderRecord
<1>3. ASSUME NEW u, Same(u) PROVE Good(u)
  <2>1. CountOf(u) /\ (IsConnected(u) <=> IsConnected(t))
    BY <1>1, <1>3 DEF CountOf, IsConnected
  <2> QED BY <1>3, <2>1, PokeGood
<1> QED BY <1>2, <1>3

LEMMA TimePassesGood ==
  ASSUME ReadersGood, row \in RowRecord, TimePasses
  PROVE  ReadersGood' /\ row' \in RowRecord
<1>1. CASE RowBackoffElapses
  <2>1. row' \in RowRecord
    BY <1>1 DEF RowBackoffElapses, RowRecord
  <2>2. rd' = rd
    BY <1>1 DEF RowBackoffElapses
  <2> QED BY <2>1, <2>2 DEF ReadersGood, Good, CountOf, MailboxOf, ExceptOf, EndedOf, IsConnected
<1>2. ASSUME NEW r \in Readers, BackoffElapses(r) \/ ReadGetsLate(r)
      PROVE  ReadersGood' /\ row' \in RowRecord
  <2>1. Good(rd[r])
    BY DEF ReadersGood
  <2>2. CASE BackoffElapses(r)
    <3>1. rd' = [rd EXCEPT ![r] = [rd[r] EXCEPT !.backoff = FALSE]] /\ row' = row
      BY <2>2 DEF BackoffElapses
    <3> QED BY <2>1, <3>1, FlagGood, UpdateGood
  <2>3. CASE ReadGetsLate(r)
    <3>1. rd' = [rd EXCEPT ![r] = [rd[r] EXCEPT !.late = TRUE]] /\ row' = row
      BY <2>3 DEF ReadGetsLate
    <3> QED BY <2>1, <3>1, FlagGood, UpdateGood
  <2> QED BY <1>2, <2>2, <2>3
<1> QED BY <1>1, <1>2 DEF TimePasses
=============================================================================
