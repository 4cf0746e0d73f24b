---------------------------- MODULE SourceReader ----------------------------
(***************************************************************************)
(* The reader thread of one content source: SourceReader.run and the       *)
(* methods it calls (tasks/source_reader.py), with the overrides of its    *)
(* two families of subclasses: IMAPReader (tasks/imaplib2_source_reader.py)*)
(* and the PullSourceReaders.                                              *)
(*                                                                         *)
(* A reader is a record: its program counter, the attributes of the Python *)
(* object, and the pending exception.  The row of the source in the        *)
(* database (connection_error, error_backoff_until) outlives the thread.   *)
(* A step runs from one point where the thread may block (database,        *)
(* network, Event.wait) to the next; every test of `status` that is        *)
(* followed by such a point before the status is used is a step of its own.*)
(* Time appears as "the backoff is over" (BackoffElapses) and "the last    *)
(* read started long ago" (ReadGetsLate); the other comparisons of dates   *)
(* are nondeterministic.                                                   *)
(***************************************************************************)
EXTENDS Naturals

CONSTANTS
  Readers,          \* reader threads; each reads the same source
  Imap,             \* TRUE: IMAPReader, FALSE: a PullSourceReader
  TransientLimit,   \* transient_error_numlimit
  ClientLimit       \* client_error_numlimit

ASSUME LimitAssumption ==
  /\ Imap \in BOOLEAN
  /\ TransientLimit \in Nat \ {0}
  /\ ClientLimit \in Nat \ {0}

VARIABLES
  rd,               \* rd[r]: the reader object and its thread
  row               \* the source's row: [error, backoff]

readerVars == <<rd, row>>

Status == INSTANCE ReaderLifecycle WITH status <- [r \in Readers |-> rd[r].status]

(* No error (None), and an exception that is not a ReaderError. *)
None == "NONE"
Unexpected == "UNEXPECTED"

(* Where a thread may block, or has ended. *)
PCs == {"new", "setup", "backoff", "login", "read", "pushread", "importing",
        "readdone", "readend", "pause", "idle", "except", "tryclose", "closed",
        "done", "crashed"}

(* A thread object as __init__ leaves it.  A reader that does not exist yet *)
(* is the same record at "new".                                             *)
Fresh(pc) ==
  [pc |-> pc, status |-> "CREATED", last |-> None, count |-> 0, backoff |-> FALSE,
   event |-> FALSE, late |-> TRUE, canPush |-> FALSE, mailbox |-> "none",
   ctx |-> "login", exc |-> None]

ReaderRecord ==
  [pc : PCs, status : Status!ReaderStatus, last : Status!Errors \cup {None},
   count : Nat, backoff : BOOLEAN, event : BOOLEAN, late : BOOLEAN,
   canPush : BOOLEAN, mailbox : {"none", "open", "closed"},
   ctx : {"login", "read", "push"}, exc : Status!Errors \cup {None, Unexpected}]

RowRecord == [error : Status!ReaderStatus \cup {None}, backoff : BOOLEAN]

CleanRow == [error |-> None, backoff |-> FALSE]

IsConnected(t) == t.status \notin Status!Disconnected

(* What the server, the feed or the parser may make do_read raise. *)
ReadErrors == IF Imap THEN Status!Errors \cup {Unexpected} ELSE {"TRANSIENT_ERROR", Unexpected}

-----------------------------------------------------------------------------
(* The methods, as functions of the reader t.                              *)

(* The row after set_status(s): only a move into READING is saved, and what *)
(* is saved is the status that is being left.                               *)
RowSetStatus(t, s) ==
  IF s = "READING" /\ t.status # "READING" THEN [row EXCEPT !.error = t.status] ELSE row

(* reset_errors, as successful_read calls it. *)
ResetErrors(t) == [t EXCEPT !.last = None, !.count = 0, !.backoff = FALSE]

(* new_error(s): the status and count it arrives at.  Another status than   *)
(* the last one restarts the count; too many of the same one escalate.      *)
Repeated(t, s) == s = t.last

(* Mutant: every error restarts the count. *)
NewCountRestarts(t, s) == 1

NewCount(t, s) == IF Repeated(t, s) THEN t.count + 1 ELSE 1

(* Mutant: the limit is passed before it is noticed. *)
EscalatesLate(t, s) ==
  /\ Repeated(t, s)
  /\ t.count > (IF s = "TRANSIENT_ERROR" THEN TransientLimit ELSE ClientLimit)

Escalates(t, s) ==
  /\ Repeated(t, s)
  /\ NewCount(t, s) > (IF s = "TRANSIENT_ERROR" THEN TransientLimit ELSE ClientLimit)

FinalError(t, s) ==
  IF ~Escalates(t, s) THEN s
  ELSE IF s = "TRANSIENT_ERROR" THEN "CLIENT_ERROR" ELSE "IRRECOVERABLE_ERROR"

(* The branch `assert False`: an irrecoverable error after one. *)
AssertFails(t, s) == s = "IRRECOVERABLE_ERROR" /\ Repeated(t, s)

(* Mutant: only what is above CLIENT_ERROR changes the status. *)
NewErrorKeepsStatus(t, s) ==
  LET e == FinalError(t, s)
  IN  [t EXCEPT !.last = e, !.backoff = TRUE,
                !.count = IF Escalates(t, s) THEN 1 ELSE NewCount(t, s),
                !.status = IF e = "IRRECOVERABLE_ERROR" /\ t.status # "SHUTDOWN" THEN e ELSE @]

NewError(t, s) ==
  LET e == FinalError(t, s)
  IN  [t EXCEPT !.last = e, !.backoff = TRUE,
                !.count = IF Escalates(t, s) THEN 1 ELSE NewCount(t, s),
                !.status = IF e \in Status!Severe /\ t.status # "SHUTDOWN" THEN e ELSE @]

RowNewError(t, s) == [error |-> FinalError(t, s), backoff |-> TRUE]

(* do_close of the subclass: None or the ReaderError it raises.  A mailbox  *)
(* is never forgotten, so that closing it a second time is an error.        *)
CloseOutcomes(t) ==
  IF ~Imap \/ t.mailbox = "none" THEN {None}
  ELSE IF t.mailbox = "open" THEN {None} \cup Status!Severe
  ELSE Status!Severe

Closed(t) == [t EXCEPT !.mailbox = IF @ = "open" THEN "closed" ELSE @]

(* The end of close(), whoever calls it: do_close had the outcome e, its     *)
(* error counts for at most a CLIENT_ERROR, and finally SHUTDOWN.           *)
AfterClose(t, e) ==
  [(IF e = None THEN Closed(t) ELSE NewError(Closed(t), "CLIENT_ERROR"))
     EXCEPT !.status = "SHUTDOWN"]

RowAfterClose(t, e) == IF e = None THEN row ELSE RowNewError(t, "CLIENT_ERROR")

-----------------------------------------------------------------------------
(* Control: where run() goes on with the reader t.                         *)

(* Mutants: the outer loop ends with SHUTDOWN only; it needs a connection. *)
OuterHeadForever(t) ==
  IF t.status = "SHUTDOWN" THEN "done" ELSE IF t.backoff THEN "backoff" ELSE "login"

OuterHeadConnected(t) ==
  IF ~IsConnected(t) THEN "done" ELSE IF t.backoff THEN "backoff" ELSE "login"

(* The head of the outer loop. *)
OuterHead(t) ==
  IF t.status \in {"SHUTDOWN", "IRRECOVERABLE_ERROR"} THEN "done"
  ELSE IF t.backoff THEN "backoff" ELSE "login"

(* Mutant: the inner loop does not look at the connection. *)
InnerHeadAlways(t) == IF t.status # "SHUTDOWN" THEN "read" ELSE OuterHead(t)

(* The head of the inner loop; after_login lets its first turn read in      *)
(* any state but SHUTDOWN.                                                  *)
InnerHead(t) == IF IsConnected(t) THEN "read" ELSE OuterHead(t)

AfterLogin(t) == IF t.status # "SHUTDOWN" THEN "read" ELSE OuterHead(t)

At(r, pc) == rd[r].pc = pc

(* r becomes t and goes to pc. *)
Goto(r, t, pc) == rd' = [rd EXCEPT ![r] = [t EXCEPT !.pc = pc]]

(* Mutant: an idle reader closes without passing through CLOSED. *)
CycleNotClosed(r, t) ==
  IF ~IsConnected(t) THEN Goto(r, t, OuterHead(t))
  ELSE IF t.canPush THEN Goto(r, [t EXCEPT !.status = "WAIT_FOR_PUSH"], "idle")
  ELSE Goto(r, t, "pause") \/ Goto(r, t, "closed")

(* After a read: wait for a push, close an idle reader, or sleep. *)
Cycle(r, t) ==
  IF ~IsConnected(t) THEN Goto(r, t, OuterHead(t))
  ELSE IF t.canPush THEN Goto(r, [t EXCEPT !.status = "WAIT_FOR_PUSH"], "idle")
  ELSE \/ Goto(r, t, "pause")
       \/ Goto(r, [t EXCEPT !.status = "CLOSED"], "closed")

Raise(r, e, ctx) ==
  Goto(r, [rd[r] EXCEPT !.exc = e, !.ctx = ctx], "except")

(* Out of the try block, or of its except clause: both are local to run(). *)
Left(t) == [t EXCEPT !.exc = None, !.ctx = "login"]

(* Mutant: the except clause of a login forgets its `continue`. *)
AfterExceptFallsThrough(r, t) ==
  LET u == Left(t)
  IN  CASE t.ctx = "login" -> Goto(r, u, IF t.exc = Unexpected THEN "done" ELSE InnerHead(u))
        [] t.ctx = "read" -> IF t.exc = Unexpected THEN Goto(r, u, OuterHead(u)) ELSE Cycle(r, u)
        [] t.ctx = "push" -> Goto(r, u, InnerHead(u))

(* The end of an except clause: an unexpected exception of login ends the   *)
(* thread, one of read ends the inner loop, an error of read goes on below. *)
AfterExcept(r, t) ==
  LET u == Left(t)
  IN  CASE t.ctx = "login" -> Goto(r, u, IF t.exc = Unexpected THEN "done" ELSE OuterHead(u))
        [] t.ctx = "read" -> IF t.exc = Unexpected THEN Goto(r, u, OuterHead(u)) ELSE Cycle(r, u)
        [] t.ctx = "push" -> Goto(r, u, InnerHead(u))

-----------------------------------------------------------------------------
(* Steps.                                                                  *)

(* Mutant: the row's connection_error is taken even if there is none. *)
SetupUnguarded(r) ==
  /\ At(r, "setup")
  /\ LET t == [rd[r] EXCEPT !.backoff = row.backoff, !.status = row.error]
     IN  Goto(r, t, OuterHead(t))
  /\ UNCHANGED row

(* setup(): load the source; a recorded error becomes the status.  CREATED  *)
(* is stored as 0, which the test of connection_error takes for no error.   *)
Setup(r) ==
  /\ At(r, "setup")
  /\ LET t == [rd[r] EXCEPT
                 !.backoff = row.backoff,
                 !.status = IF row.error \in {None, "CREATED"} THEN @ ELSE row.error]
     IN  Goto(r, t, OuterHead(t))
  /\ UNCHANGED row

(* Mutant: only a prod ends the wait. *)
BackoffWaitForever(r) ==
  /\ At(r, "backoff")
  /\ rd[r].event
  /\ Goto(r, [rd[r] EXCEPT !.event = FALSE], "login")
  /\ UNCHANGED row

(* event.wait(interval) returns at the end of the backoff or when prodded. *)
BackoffWait(r) ==
  /\ At(r, "backoff")
  /\ rd[r].event \/ ~rd[r].backoff
  /\ Goto(r, [rd[r] EXCEPT !.event = FALSE], "login")
  /\ UNCHANGED row

BackoffElapses(r) ==
  /\ rd[r].pc \notin {"new", "done", "crashed"}
  /\ rd[r].backoff
  /\ rd' = [rd EXCEPT ![r].backoff = FALSE]
  /\ UNCHANGED row

RowBackoffElapses ==
  /\ row.backoff
  /\ row' = [row EXCEPT !.backoff = FALSE]
  /\ UNCHANGED rd

(* login() and successful_login(); the mailbox is kept only when all went   *)
(* well, can_push as soon as the server has told its capabilities.          *)
LoginOk(r) ==
  /\ At(r, "login")
  /\ \E push \in (IF Imap THEN {TRUE, rd[r].canPush} ELSE {FALSE}) :
       Goto(r, [rd[r] EXCEPT !.canPush = push, !.mailbox = IF Imap THEN "open" ELSE @],
            AfterLogin(rd[r]))
  /\ UNCHANGED row

LoginFails(r) ==
  /\ At(r, "login")
  /\ Imap
  /\ \E e \in Status!Errors \cup {Unexpected}, push \in {TRUE, rd[r].canPush} :
       Goto(r, [rd[r] EXCEPT !.exc = e, !.ctx = "login", !.canPush = push], "except")
  /\ UNCHANGED row

(* read() into do_read(): READING, and last_read_started is now.  (IMAP's   *)
(* do_read sets READING once more, with nothing between.)                   *)
Read(r) ==
  /\ At(r, "read")
  /\ row' = RowSetStatus(rd[r], "READING")
  /\ Goto(r, [rd[r] EXCEPT !.status = "READING", !.late = FALSE, !.ctx = "read"],
          "importing")

(* The do_read that a push starts leaves last_read_started as it was. *)
PushRead(r) ==
  /\ At(r, "pushread")
  /\ row' = RowSetStatus(rd[r], "READING")
  /\ Goto(r, [rd[r] EXCEPT !.status = "READING", !.ctx = "push"], "importing")

ReadGetsLate(r) ==
  /\ rd[r].pc \in {"importing", "pause", "idle"}
  /\ ~rd[r].late
  /\ rd' = [rd EXCEPT ![r].late = TRUE]
  /\ UNCHANGED row

(* The messages are all imported, or the loop saw a status other than READING. *)
Imported(r) ==
  /\ At(r, "importing")
  /\ Goto(r, rd[r], IF Imap THEN "readdone" ELSE "readend")
  /\ UNCHANGED row

ImportFails(r) ==
  /\ At(r, "importing")
  /\ \E e \in ReadErrors : Raise(r, e, rd[r].ctx)
  /\ UNCHANGED row

(* The end of IMAPReader.do_read: successful_read(), then PAUSED whatever   *)
(* the status has become.  After a push, wait_for_push goes on: it finds    *)
(* the reader connected, WAIT_FOR_PUSH, and run() waits again.              *)
ReadDone(r) ==
  /\ At(r, "readdone")
  /\ row' = CleanRow
  /\ LET t == ResetErrors(rd[r])
     IN  IF t.ctx = "push"
         THEN Goto(r, [Left(t) EXCEPT !.status = "WAIT_FOR_PUSH"], "idle")
         ELSE Goto(r, [t EXCEPT !.status = "PAUSED"], "readend")

(* The end of read(). *)
ReadEnd(r) ==
  /\ At(r, "readend")
  /\ row' = CleanRow
  /\ Cycle(r, [Left(ResetErrors(rd[r])) EXCEPT
                 !.status = IF @ \in {"READING", "WAIT_FOR_PUSH"} THEN "PAUSED" ELSE @])

Pause(r) ==
  /\ At(r, "pause")
  /\ Goto(r, [rd[r] EXCEPT !.event = FALSE], InnerHead(rd[r]))
  /\ UNCHANGED row

(* IMAPReader.wait_for_push: IDLE ends by a timeout, by an event of the     *)
(* mailbox or by end_wait_for_push, or it fails.  A timeout leaves PAUSED,  *)
(* which restarts the reading cycle; an event reads, unless the status has  *)
(* changed: then the reader waits again if it is connected.                 *)
IdleTimeout(r) ==
  /\ At(r, "idle")
  /\ Goto(r, [rd[r] EXCEPT !.status = "PAUSED"], "read")
  /\ UNCHANGED row

IdleEnds(r) ==
  /\ At(r, "idle")
  /\ IF rd[r].status = "WAIT_FOR_PUSH" THEN Goto(r, rd[r], "pushread")
     ELSE IF IsConnected(rd[r]) THEN Goto(r, [rd[r] EXCEPT !.status = "WAIT_FOR_PUSH"], "idle")
     ELSE Goto(r, rd[r], OuterHead(rd[r]))
  /\ UNCHANGED row

IdleFails(r) ==
  /\ At(r, "idle")
  /\ \E e \in Status!Severe \cup {Unexpected} : Raise(r, e, "push")
  /\ UNCHANGED row

(* The except clauses of run(): new_error, then the connection is closed if *)
(* the error is severe or was not expected.  A push that failed lightly is  *)
(* ended by end_wait_for_push.                                              *)
HandleError(r) ==
  /\ At(r, "except")
  /\ LET s == IF rd[r].exc = Unexpected THEN "CLIENT_ERROR" ELSE rd[r].exc
         t == NewError(rd[r], s)
         ended == IF t.status \in {"READING", "WAIT_FOR_PUSH"} THEN "PAUSED" ELSE t.status
     IN  IF AssertFails(rd[r], s)
         THEN Goto(r, [Left(rd[r]) EXCEPT !.count = @ + 1], "crashed") /\ UNCHANGED row
         ELSE /\ row' = RowNewError(rd[r], s)
              /\ IF t.exc = Unexpected \/ t.status \in Status!Severe
                 THEN Goto(r, t, "tryclose")
                 ELSE AfterExcept(r, [t EXCEPT !.status = IF t.ctx = "push" THEN ended ELSE @])

(* try_close(): a ReaderError of do_close counts for at most a CLIENT_ERROR. *)
TryClose(r) ==
  /\ At(r, "tryclose")
  /\ \E e \in CloseOutcomes(rd[r]) :
       IF e = None
       THEN AfterExcept(r, Closed(rd[r])) /\ UNCHANGED row
       ELSE /\ row' = RowNewError(rd[r], "CLIENT_ERROR")
            /\ AfterExcept(r, NewError(Closed(rd[r]), "CLIENT_ERROR"))

(* The rest of close(), which an idle reader calls on itself: do_close,     *)
(* its error, SHUTDOWN.  Then run() is over.                                *)
FinishClose(r) ==
  /\ At(r, "closed")
  /\ \E e \in CloseOutcomes(rd[r]) :
       Goto(r, AfterClose(rd[r], e), "done") /\ row' = RowAfterClose(rd[r], e)

-----------------------------------------------------------------------------
(* What the thread does by itself, and the passing of time. *)
ThreadStep(r) ==
  \/ Setup(r) \/ BackoffWait(r) \/ LoginOk(r) \/ LoginFails(r)
  \/ Read(r) \/ PushRead(r) \/ Imported(r) \/ ImportFails(r)
  \/ ReadDone(r) \/ ReadEnd(r) \/ Pause(r)
  \/ IdleTimeout(r) \/ IdleEnds(r) \/ IdleFails(r)
  \/ HandleError(r) \/ TryClose(r) \/ FinishClose(r)

TimePasses ==
  RowBackoffElapses \/ \E r \in Readers : BackoffElapses(r) \/ ReadGetsLate(r)

ReaderNext == TimePasses \/ \E r \in Readers : ThreadStep(r)

(* Type invariant. *)
TypeOK ==
  /\ rd \in [Readers -> ReaderRecord]
  /\ row \in RowRecord

(* error_count stays within the limit of the error it counts, so that the   *)
(* backoff, doubled error_count - 1 times, is bounded: each branch of        *)
(* new_error that counts up also escalates or fails.                        *)
CountBounded ==
  \A r \in Readers :
    /\ rd[r].last = "TRANSIENT_ERROR" => rd[r].count \in 1..TransientLimit
    /\ rd[r].last = "CLIENT_ERROR" => rd[r].count \in 1..ClientLimit
    /\ rd[r].last = None => rd[r].count = 0

(* An IMAPReader reads, closes or waits on a mailbox only after a login has *)
(* given it one: do_read and wait_for_push do not test self.mailbox.        *)
MailboxBeforeUse ==
  Imap => \A r \in Readers :
    rd[r].pc \in {"read", "pushread", "importing", "readdone", "idle"}
      => rd[r].mailbox # "none"

(* A thread whose run() has returned is not connected: the dispatcher prods *)
(* a reader that is_connected() and never looks whether its thread is alive.*)
EndedThreadIsDisconnected ==
  \A r \in Readers : rd[r].pc = "done" => ~IsConnected(rd[r])

-----------------------------------------------------------------------------
(* What makes these inductive.                                             *)

(* After a login a reader keeps its mailbox, closed or not, through every    *)
(* state but those that lead to the next login.                             *)
MailboxInv ==
  Imap => \A r \in Readers :
    (\/ rd[r].pc \in {"read", "pushread", "importing", "readdone", "readend", "pause",
                      "idle", "closed"}
     \/ rd[r].pc \in {"except", "tryclose"} /\ rd[r].ctx # "login")
      => rd[r].mailbox # "none"

(* An except clause has an exception to handle. *)
ExceptInv ==
  \A r \in Readers : rd[r].pc \in {"except", "tryclose"} => rd[r].exc # None

(* On its way out of a login that failed unexpectedly a thread is already    *)
(* disconnected, and nobody else connects it.                               *)
EndedInv ==
  \A r \in Readers :
    (\/ rd[r].pc = "done"
     \/ rd[r].pc = "tryclose" /\ rd[r].ctx = "login" /\ rd[r].exc = Unexpected)
      => ~IsConnected(rd[r])
=============================================================================
