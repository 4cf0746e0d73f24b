-------------------------- MODULE SourceDispatcher --------------------------
(***************************************************************************)
(* The process that reads one source: the dispatcher in its main thread    *)
(* (SourceDispatcher, tasks/source_reader.py), the reader threads it       *)
(* starts (SourceReader), the queue it consumes, the web requests that     *)
(* publish to the queue and reset the source's errors, and the restart of  *)
(* the process.                                                            *)
(*                                                                         *)
(* The dispatcher calls methods of the reader from its own thread, without *)
(* a lock: shutdown() and wake() interleave with run().  An exception that *)
(* leaves a callback ends the dispatcher ("dead") and leaves the message   *)
(* unacknowledged; the reader threads go on (`deamon` is not `daemon`).    *)
(***************************************************************************)
EXTENDS SourceReader, Sequences

CONSTANTS
  MaxMessages,      \* bound: messages published
  MaxRestarts       \* bound: restarts of the process

ASSUME BoundAssumption == MaxMessages \in Nat /\ MaxRestarts \in Nat

VARIABLES
  current,          \* readers[source_id], or None
  disp,             \* the dispatcher's program counter and pending exception
  queue,            \* messages published and not acknowledged
  resetPending,     \* a web request has reset the errors, uncommitted
  sent, restarts    \* what the bounds bound

processVars == <<current, disp>>
webVars == <<queue, resetPending, sent>>
vars == <<rd, row, current, disp, queue, resetPending, sent, restarts>>

Messages == {"wake", "force", "shutdown"}

DispatcherPCs ==
  {"idle", "endpush", "setclosed", "doclose", "finish", "start",
   "toolong", "toolongerror", "stopped", "dead"}

DispAt(pc) == disp.pc = pc

DispGoto(pc) == disp' = [disp EXCEPT !.pc = pc]

Ack == queue' = Tail(queue) /\ UNCHANGED <<resetPending, sent>>

Init ==
  /\ rd = [r \in Readers |-> Fresh("new")]
  /\ row = CleanRow
  /\ current = None
  /\ disp = [pc |-> "idle", exc |-> None]
  /\ queue = <<>>
  /\ resetPending = FALSE
  /\ sent = 0
  /\ restarts = 0

-----------------------------------------------------------------------------
(* Producers.                                                              *)

Publish(m) ==
  /\ sent < MaxMessages
  /\ sent' = sent + 1
  /\ queue' = Append(queue, m)
  /\ UNCHANGED <<rd, row, processVars, restarts>>

(* wake(source_id), from import_content or from a request without force;   *)
(* external_shutdown().                                                    *)
PublishPlain == \E m \in {"wake", "shutdown"} : Publish(m) /\ UNCHANGED resetPending

(* fetch_posts with force_restart resets the errors of the source and       *)
(* publishes; its transaction commits when the request has been answered.   *)
ForceRestart == Publish("force") /\ resetPending' = TRUE

CommitReset ==
  /\ resetPending
  /\ resetPending' = FALSE
  /\ row' = CleanRow
  /\ UNCHANGED <<rd, processVars, queue, sent, restarts>>

-----------------------------------------------------------------------------
(* callback(): the head of the queue is handled, then acknowledged.        *)

Reader == rd[current]

Receive(m) ==
  /\ DispAt("idle")
  /\ queue # <<>>
  /\ Head(queue) = m

(* The end of shutdown(): the reader becomes t, SHUTDOWN and prodded, and    *)
(* the dispatcher stops or starts another reader.                           *)
EndShutdown(t) ==
  /\ rd' = [rd EXCEPT ![current] = [t EXCEPT !.status = "SHUTDOWN", !.event = TRUE]]
  /\ IF Head(queue) = "shutdown" THEN DispGoto("stopped") /\ Ack
     ELSE DispGoto("start") /\ UNCHANGED webVars

(* shutdown() of the current reader as far as the first call that may block:*)
(* end_wait_for_push if it waits for a push, do_close if it has a mailbox.  *)
(* A reader whose setup() has not loaded the source has no session to close *)
(* at the end of close(): AttributeError, without the event.                *)
BeginShutdown ==
  IF IsConnected(Reader) /\ Reader.status = "WAIT_FOR_PUSH"
  THEN DispGoto("endpush") /\ UNCHANGED <<rd, webVars>>
  ELSE IF IsConnected(Reader) /\ Reader.mailbox # "none"
  THEN /\ rd' = [rd EXCEPT ![current].status = "CLOSED"]
       /\ DispGoto("doclose") /\ UNCHANGED webVars
  ELSE IF IsConnected(Reader) /\ Reader.pc = "setup"
  THEN /\ rd' = [rd EXCEPT ![current].status = "SHUTDOWN"]
       /\ DispGoto("dead") /\ UNCHANGED webVars
  ELSE EndShutdown(Reader)

ReceiveShutdown ==
  /\ Receive("shutdown")
  /\ IF current = None THEN DispGoto("stopped") /\ Ack /\ UNCHANGED rd
     ELSE BeginShutdown
  /\ UNCHANGED <<row, current, restarts>>

ReceiveForce ==
  /\ Receive("force")
  /\ IF current = None THEN DispGoto("start") /\ UNCHANGED <<rd, webVars>>
     ELSE BeginShutdown
  /\ UNCHANGED <<row, current, restarts>>

(* Mutant: the message is acknowledged before the reader is started. *)
ReceiveWakeAcksEarly ==
  /\ Receive("wake")
  /\ IF current = None THEN TRUE ELSE ~IsConnected(Reader)
  /\ DispGoto("start") /\ Ack
  /\ UNCHANGED <<rd, row, current, restarts>>

(* A wake for a source that has no connected reader starts one. *)
ReceiveWakeStarts ==
  /\ Receive("wake")
  /\ IF current = None THEN TRUE ELSE ~IsConnected(Reader)
  /\ DispGoto("start")
  /\ UNCHANGED <<rd, row, current, webVars, restarts>>

(* wake() of a connected reader.  Whether the last prod is long enough ago  *)
(* is left open.                                                            *)
ReceiveWake ==
  /\ Receive("wake")
  /\ current # None
  /\ IsConnected(Reader)
  /\ UNCHANGED <<row, current, restarts>>
  /\ \/ /\ Reader.status # "TRANSIENT_ERROR"
        /\ ~(Reader.status = "READING" /\ Reader.late)
        /\ DispGoto("idle") /\ Ack /\ UNCHANGED rd
     \/ /\ Reader.status \in {"PAUSED", "CLOSED"}
        /\ rd' = [rd EXCEPT ![current].event = TRUE]
        /\ DispGoto("idle") /\ Ack
     \/ /\ Reader.status = "TRANSIENT_ERROR"      \* max(last_prod, last_error_status): TypeError
        /\ DispGoto("dead") /\ UNCHANGED <<rd, webVars>>
     \/ /\ Reader.status = "READING" /\ Reader.late
        /\ DispGoto("toolong") /\ UNCHANGED <<rd, webVars>>

(* Reading takes too long: wake() closes the connection under the reader,   *)
(* then records ReadingForTooLong or the error of do_close itself.          *)
TooLongClose ==
  /\ DispAt("toolong")
  /\ \E e \in CloseOutcomes(Reader) :
       disp' = [pc |-> "toolongerror", exc |-> IF e = None THEN "CLIENT_ERROR" ELSE e]
  /\ rd' = [rd EXCEPT ![current] = Closed(@)]
  /\ UNCHANGED <<row, current, webVars, restarts>>

TooLongError ==
  /\ DispAt("toolongerror")
  /\ UNCHANGED <<current, restarts>>
  /\ IF AssertFails(Reader, disp.exc)
     THEN /\ rd' = [rd EXCEPT ![current].count = @ + 1]
          /\ disp' = [pc |-> "dead", exc |-> None]
          /\ UNCHANGED <<row, webVars>>
     ELSE /\ rd' = [rd EXCEPT ![current] = NewError(@, disp.exc)]
          /\ row' = RowNewError(Reader, disp.exc)
          /\ disp' = [pc |-> "idle", exc |-> None]
          /\ Ack

-----------------------------------------------------------------------------
(* The rest of shutdown() of a connected reader: end of IDLE, CLOSED,       *)
(* do_close, SHUTDOWN.                                                      *)

(* end_wait_for_push; without a mailbox its first line raises. *)
EndPush ==
  /\ DispAt("endpush")
  /\ IF Reader.mailbox = "none" THEN DispGoto("dead") /\ UNCHANGED rd
     ELSE /\ rd' = [rd EXCEPT ![current].status =
                      IF @ \in {"READING", "WAIT_FOR_PUSH"} THEN "PAUSED" ELSE @]
          /\ DispGoto("setclosed")
  /\ UNCHANGED <<row, current, webVars, restarts>>

SetClosed ==
  /\ DispAt("setclosed")
  /\ rd' = [rd EXCEPT ![current].status = "CLOSED"]
  /\ DispGoto("doclose")
  /\ UNCHANGED <<row, current, webVars, restarts>>

(* do_close, its error, and the `finally` of close(). *)
DoClose ==
  /\ DispAt("doclose")
  /\ \E e \in CloseOutcomes(Reader) :
       /\ rd' = [rd EXCEPT ![current] = AfterClose(@, e)]
       /\ row' = RowAfterClose(Reader, e)
  /\ DispGoto("finish")
  /\ UNCHANGED <<current, webVars, restarts>>

FinishShutdown ==
  /\ DispAt("finish")
  /\ EndShutdown(Reader)
  /\ UNCHANGED <<row, current, restarts>>

(* read() of the dispatcher as far as reader.start().  Its own reset_errors *)
(* of the source is not committed by anyone, and the test of                *)
(* connection_error against the enumeration is never true.                  *)
StartReader ==
  /\ DispAt("start")
  /\ \E r \in Readers :
       /\ rd[r].pc \in {"new", "done", "crashed"}
       /\ rd' = [rd EXCEPT ![r] = Fresh("setup")]
       /\ current' = r
  /\ DispGoto("idle")
  /\ Ack
  /\ UNCHANGED <<row, restarts>>

-----------------------------------------------------------------------------
(* The process is killed and started again: the threads are gone, the       *)
(* broker delivers what was not acknowledged, the row is as it was left.    *)
RestartProcess ==
  /\ restarts < MaxRestarts
  /\ restarts' = restarts + 1
  /\ rd' = [r \in Readers |-> Fresh("new")]
  /\ current' = None
  /\ disp' = [pc |-> "idle", exc |-> None]
  /\ UNCHANGED <<row, webVars>>

WebNext == PublishPlain \/ ForceRestart \/ CommitReset

DispatcherNext ==
  \/ ReceiveShutdown \/ ReceiveForce \/ ReceiveWakeStarts \/ ReceiveWake
  \/ TooLongClose \/ TooLongError
  \/ EndPush \/ SetClosed \/ DoClose \/ FinishShutdown \/ StartReader

ThreadsNext == ReaderNext /\ UNCHANGED <<processVars, webVars, restarts>>

Next == WebNext \/ DispatcherNext \/ ThreadsNext \/ RestartProcess

Spec == Init /\ [][Next]_vars

(* The main thread and the reader threads are scheduled, the server and the *)
(* database answer, the clock runs, and a web request ends.                 *)
Fairness ==
  /\ WF_vars(DispatcherNext)
  /\ WF_vars(CommitReset)
  /\ \A r \in Readers :
       /\ WF_vars(ThreadStep(r) /\ UNCHANGED <<processVars, webVars, restarts>>)
       /\ WF_vars(BackoffElapses(r) /\ UNCHANGED <<processVars, webVars, restarts>>)

FairSpec == Spec /\ Fairness

-----------------------------------------------------------------------------
DispatcherTypeOK ==
  /\ TypeOK
  /\ current \in Readers \cup {None}
  /\ disp \in [pc : DispatcherPCs, exc : Status!Severe \cup {None}]
  /\ queue \in Seq(Messages)
  /\ resetPending \in BOOLEAN
  /\ sent \in 0..MaxMessages
  /\ restarts \in 0..MaxRestarts

(* The source is not left alone: a message that finds it without a connected*)
(* reader leads to a read, unless the row says not to read or the dispatcher*)
(* ends.                                                                    *)
WakeIsServed ==
  (DispAt("idle") /\ queue # <<>> /\ (current = None \/ ~IsConnected(Reader))) ~>
    \/ \E r \in Readers : rd[r].pc = "importing"
    \/ row.error \in {"IRRECOVERABLE_ERROR", "SHUTDOWN"}
    \/ disp.pc \in {"stopped", "dead"}

-----------------------------------------------------------------------------
(* The inductive invariant behind the safety of the readers. *)

(* Inside a callback the dispatcher holds the unacknowledged message, and    *)
(* beyond the first step of it a reader.                                    *)
CallbackInv ==
  /\ disp.pc \notin {"idle", "stopped"} => queue # <<>>
  /\ disp.pc \in {"toolong", "toolongerror", "endpush", "setclosed", "doclose", "finish"}
       => current \in Readers
  /\ disp.pc = "toolongerror" => disp.exc # None

IInv ==
  /\ DispatcherTypeOK
  /\ CallbackInv
  /\ CountBounded
  /\ MailboxInv
  /\ ExceptInv
  /\ EndedInv
=============================================================================
