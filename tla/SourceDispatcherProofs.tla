----------------------- MODULE SourceDispatcherProofs -----------------------
(* Safety of SourceDispatcher for every set of readers, every limit and any *)
(* number of messages and restarts.                                         *)
EXTENDS SourceDispatcher, ReaderProofs

-----------------------------------------------------------------------------
(* The dispatcher. *)

ProcessGood ==
  /\ row \in RowRecord
  /\ current \in Readers \cup {None}
  /\ disp \in [pc : DispatcherPCs, exc : Status!Severe \cup {None}]
  /\ queue \in Seq(Messages)
  /\ resetPending \in BOOLEAN
  /\ sent \in 0..MaxMessages
  /\ restarts \in 0..MaxRestarts
  /\ CallbackInv

LEMMA IInvGood == IInv <=> ReadersGood /\ ProcessGood
BY DEF IInv, DispatcherTypeOK, TypeOK, CountBounded, MailboxInv, ExceptInv, EndedInv,
       ReadersGood, ProcessGood, Good, CountOf, MailboxOf, ExceptOf, EndedOf

LEMMA DispTypes ==
  ASSUME disp \in [pc : DispatcherPCs, exc : Status!Severe \cup {None}],
         NEW pc \in DispatcherPCs, DispGoto(pc)
  PROVE  /\ disp' \in [pc : DispatcherPCs, exc : Status!Severe \cup {None}]
         /\ disp'.pc = pc
BY DEF DispGoto

LEMMA AckTypes ==
  ASSUME queue \in Seq(Messages), queue # <<>>, Ack
  PROVE  queue' \in Seq(Messages) /\ resetPending' = resetPending /\ sent' = sent
BY DEF Ack

(* shutdown() of the reader, its first step or its last. *)
LEMMA EndShutdownGood ==
  ASSUME ReadersGood, ProcessGood, current \in Readers, queue # <<>>,
         EndShutdown(Reader), UNCHANGED <<row, current, restarts>>
  PROVE  ReadersGood' /\ ProcessGood'
<1>1. Good(Reader)
  BY DEF ReadersGood, Reader
<1> DEFINE u == [Reader EXCEPT !.status = "SHUTDOWN", !.event = TRUE]
<1>2. "SHUTDOWN" \in Status!ReaderStatus /\ "SHUTDOWN" \in Status!Disconnected
  BY DEF Status!ReaderStatus, Status!Disconnected
<1>3. Good(u)
  BY <1>1, <1>2, StatusGood
<1>4. rd' = [rd EXCEPT ![current] = u]
  BY DEF EndShutdown
<1>5. ReadersGood'
  BY <1>3, <1>4, UpdateGood
<1>6. CASE Head(queue) = "shutdown"
  <2>1. DispGoto("stopped") /\ Ack
    BY <1>6 DEF EndShutdown
  <2> QED BY <1>5, <2>1, DispTypes, AckTypes DEF ProcessGood, CallbackInv, DispatcherPCs
<1>7. CASE Head(queue) # "shutdown"
  <2>1. DispGoto("start") /\ UNCHANGED webVars
    BY <1>7 DEF EndShutdown
  <2> QED BY <1>5, <2>1, DispTypes DEF ProcessGood, CallbackInv, DispatcherPCs, webVars
<1> QED BY <1>6, <1>7

LEMMA BeginShutdownGood ==
  ASSUME ReadersGood, ProcessGood, current \in Readers, queue # <<>>,
         BeginShutdown, UNCHANGED <<row, current, restarts>>
  PROVE  ReadersGood' /\ ProcessGood'
<1>1. Good(Reader)
  BY DEF ReadersGood, Reader
<1>2. PICK pc \in {"endpush", "doclose", "dead"}, s \in {"CLOSED", "SHUTDOWN"} :
        \/ /\ DispGoto(pc) /\ UNCHANGED webVars
           /\ rd' = rd \/ rd' = [rd EXCEPT ![current].status = s]
        \/ EndShutdown(Reader)
  BY DEF BeginShutdown, webVars
<1>3. CASE EndShutdown(Reader)
  BY <1>3, EndShutdownGood
<1>4. CASE DispGoto(pc) /\ UNCHANGED webVars /\ (rd' = rd \/ rd' = [rd EXCEPT ![current].status = s])
  <2> DEFINE u == [Reader EXCEPT !.status = s]
  <2>1. Good(u)
    BY <1>1, StatusGood DEF Status!ReaderStatus, Status!Disconnected
  <2>2. rd' = rd \/ rd' = [rd EXCEPT ![current] = u]
    BY <1>4 DEF Reader
  <2>3. CASE rd' = rd
    <3>1. ReadersGood'
      BY <2>3 DEF ReadersGood, Good, CountOf, MailboxOf, ExceptOf, EndedOf, IsConnected
    <3> QED BY <1>4, <3>1, DispTypes DEF ProcessGood, CallbackInv, DispatcherPCs, webVars, None
  <2>4. CASE rd' = [rd EXCEPT ![current] = u]
    <3>1. ReadersGood'
      BY <2>1, <2>4, UpdateGood
    <3> QED BY <1>4, <3>1, DispTypes DEF ProcessGood, CallbackInv, DispatcherPCs, webVars, None
  <2> QED BY <2>2, <2>3, <2>4
<1> QED BY <1>2, <1>3, <1>4

(* A step of the dispatcher keeps every reader good, and its own state. *)
LEMMA DispatcherStepGood ==
  ASSUME ReadersGood, ProcessGood, DispatcherNext
  PROVE  ReadersGood' /\ ProcessGood'
<1> DEFINE t == rd[current]
<1>1. disp.pc \in {"toolong", "toolongerror", "endpush", "setclosed", "doclose", "finish"}
        => current \in Readers /\ queue # <<>>
  BY DEF ProcessGood, CallbackInv
<1>2. current \in Readers => Good(t) /\ t \in ReaderRecord /\ CountOf(t)
  BY DEF ReadersGood, Good
<1>3. rd' = rd => ReadersGood'
  BY DEF ReadersGood, Good, CountOf, MailboxOf, ExceptOf, EndedOf, IsConnected
<1>4. disp.pc = "start" => queue # <<>>
  BY DEF ProcessGood, CallbackInv
<1>5. CASE ReceiveShutdown
  <2>1. CASE current = None
    <3>1. DispGoto("stopped") /\ Ack /\ UNCHANGED <<rd, row, current, restarts>> /\ queue # <<>>
      BY <1>5, <2>1 DEF ReceiveShutdown, Receive
    <3> QED BY <1>3, <3>1, DispTypes, AckTypes DEF ProcessGood, CallbackInv, DispatcherPCs
  <2>2. CASE current # None
    <3>1. BeginShutdown /\ UNCHANGED <<row, current, restarts>> /\ queue # <<>>
      BY <1>5, <2>2 DEF ReceiveShutdown, Receive
    <3> QED BY <2>2, <3>1, BeginShutdownGood DEF ProcessGood
  <2> QED BY <2>1, <2>2
<1>6. CASE ReceiveForce
  <2>1. CASE current = None
    <3>1. DispGoto("start") /\ UNCHANGED <<rd, webVars, row, current, restarts>> /\ queue # <<>>
      BY <1>6, <2>1 DEF ReceiveForce, Receive
    <3> QED BY <1>3, <3>1, DispTypes DEF ProcessGood, CallbackInv, DispatcherPCs, webVars
  <2>2. CASE current # None
    <3>1. BeginShutdown /\ UNCHANGED <<row, current, restarts>> /\ queue # <<>>
      BY <1>6, <2>2 DEF ReceiveForce, Receive
    <3> QED BY <2>2, <3>1, BeginShutdownGood DEF ProcessGood
  <2> QED BY <2>1, <2>2
<1>7. CASE ReceiveWakeStarts
  <2>1. DispGoto("start") /\ UNCHANGED <<rd, row, current, webVars, restarts>> /\ queue # <<>>
    BY <1>7 DEF ReceiveWakeStarts, Receive
  <2> QED BY <1>3, <2>1, DispTypes DEF ProcessGood, CallbackInv, DispatcherPCs, webVars
<1>8. CASE ReceiveWake
  <2>1. current \in Readers /\ queue # <<>> /\ UNCHANGED <<row, current, restarts>>
    BY <1>8 DEF ReceiveWake, Receive, ProcessGood
  <2>2. \/ DispGoto("idle") /\ Ack /\ rd' = rd
        \/ DispGoto("idle") /\ Ack /\ rd' = [rd EXCEPT ![current].event = TRUE]
        \/ DispGoto("dead") /\ UNCHANGED <<rd, webVars>>
        \/ DispGoto("toolong") /\ UNCHANGED <<rd, webVars>>
    BY <1>8 DEF ReceiveWake
  <2>3. CASE DispGoto("idle") /\ Ack /\ rd' = rd
    BY <1>3, <2>1, <2>3, DispTypes, AckTypes DEF ProcessGood, CallbackInv, DispatcherPCs
  <2>4. CASE DispGoto("idle") /\ Ack /\ rd' = [rd EXCEPT ![current].event = TRUE]
    <3> DEFINE u == [t EXCEPT !.event = TRUE]
    <3>1. rd' = [rd EXCEPT ![current] = u]
      BY <2>4
    <3>2. Good(u)
      BY <1>2, <2>1, FlagGood
    <3>3. ReadersGood'
      BY <2>1, <3>1, <3>2, UpdateGood
    <3> QED BY <2>1, <2>4, <3>3, DispTypes, AckTypes DEF ProcessGood, CallbackInv, DispatcherPCs
  <2>5. CASE DispGoto("dead") /\ UNCHANGED <<rd, webVars>>
    BY <1>3, <2>1, <2>5, DispTypes DEF ProcessGood, CallbackInv, DispatcherPCs, webVars
  <2>6. CASE DispGoto("toolong") /\ UNCHANGED <<rd, webVars>>
    BY <1>3, <2>1, <2>6, DispTypes DEF ProcessGood, CallbackInv, DispatcherPCs, webVars
  <2> QED BY <2>2, <2>3, <2>4, <2>5, <2>6
<1>9. CASE TooLongClose
  <2>1. PICK e \in CloseOutcomes(t) :
          disp' = [pc |-> "toolongerror", exc |-> IF e = None THEN "CLIENT_ERROR" ELSE e]
    BY <1>9 DEF TooLongClose, Reader
  <2>2. /\ current \in Readers /\ queue # <<>>
        /\ rd' = [rd EXCEPT ![current] = Closed(t)]
        /\ UNCHANGED <<row, current, webVars, restarts>>
    BY <1>1, <1>9 DEF TooLongClose, DispAt
  <2>3. Good(Closed(t))
    <3>1. /\ Closed(t) \in ReaderRecord /\ CountOf(Closed(t))
          /\ Closed(t).pc = t.pc /\ Closed(t).status = t.status
          /\ Closed(t).ctx = t.ctx /\ Closed(t).exc = t.exc
          /\ t.mailbox # "none" => Closed(t).mailbox # "none"
      BY <1>2, <2>2, ClosedGood
    <3>2. IsConnected(Closed(t)) <=> IsConnected(t)
      BY <3>1 DEF IsConnected
    <3> QED BY <1>2, <2>2, <3>1, <3>2, PokeGood
  <2>4. ReadersGood'
    BY <2>2, <2>3, UpdateGood
  <2>5. e = None \/ e \in Status!Severe
    BY DEF CloseOutcomes
  <2>6. /\ disp' \in [pc : DispatcherPCs, exc : Status!Severe \cup {None}]
        /\ disp'.pc = "toolongerror" /\ disp'.exc # None
    BY <2>1, <2>5 DEF DispatcherPCs, Status!Severe, None
  <2> QED BY <2>2, <2>4, <2>6 DEF ProcessGood, CallbackInv, webVars
<1>10. CASE TooLongError
  <2>1. /\ current \in Readers /\ queue # <<>> /\ disp.exc \in Status!Severe
        /\ UNCHANGED <<current, restarts>>
    BY <1>1, <1>10 DEF TooLongError, DispAt, ProcessGood, CallbackInv
  <2>2. disp.exc \in Status!Errors
    BY <2>1 DEF Status!Severe, Status!Errors
  <2>3. CASE AssertFails(t, disp.exc)
    <3>1. /\ rd' = [rd EXCEPT ![current].count = @ + 1]
          /\ disp' = [pc |-> "dead", exc |-> None]
          /\ UNCHANGED <<row, webVars>>
      BY <1>10, <2>3 DEF TooLongError, Reader
    <3> DEFINE u == [t EXCEPT !.count = @ + 1]
    <3>2. /\ u \in ReaderRecord /\ u.last = "IRRECOVERABLE_ERROR" /\ u.pc = t.pc
          /\ u.ctx = t.ctx /\ u.exc = t.exc /\ u.mailbox = t.mailbox /\ u.status = t.status
      BY <1>2, <2>1, <2>3 DEF ReaderRecord, AssertFails, Repeated
    <3>3. CountOf(u) /\ (IsConnected(u) <=> IsConnected(t))
      BY <3>2 DEF CountOf, IsConnected, None
    <3>4. Good(u)
      BY <1>2, <2>1, <3>2, <3>3, PokeGood
    <3>5. rd' = [rd EXCEPT ![current] = u]
      BY <3>1
    <3>6. ReadersGood'
      BY <2>1, <3>4, <3>5, UpdateGood
    <3> QED BY <2>1, <3>1, <3>6 DEF ProcessGood, CallbackInv, DispatcherPCs, webVars
  <2>4. CASE ~AssertFails(t, disp.exc)
    <3> DEFINE u == NewError(t, disp.exc)
    <3>1. /\ rd' = [rd EXCEPT ![current] = u]
          /\ row' = RowNewError(t, disp.exc)
          /\ disp' = [pc |-> "idle", exc |-> None]
          /\ Ack
      BY <1>10, <2>4 DEF TooLongError, Reader
    <3>2. /\ u \in ReaderRecord /\ CountOf(u) /\ u.pc = t.pc /\ u.mailbox = t.mailbox
          /\ u.ctx = t.ctx /\ u.exc = t.exc /\ (~IsConnected(t) => ~IsConnected(u))
          /\ RowNewError(t, disp.exc) \in RowRecord
      BY <1>2, <2>1, <2>2, <2>4, NewErrorGood
    <3>3. Good(u)
      BY <1>2, <2>1, <3>2, PokeGood
    <3>4. ReadersGood'
      BY <2>1, <3>1, <3>3, UpdateGood
    <3>5. queue' \in Seq(Messages) /\ resetPending' = resetPending /\ sent' = sent
      BY <2>1, <3>1, AckTypes DEF ProcessGood
    <3> QED BY <2>1, <3>1, <3>2, <3>4, <3>5 DEF ProcessGood, CallbackInv, DispatcherPCs
  <2> QED BY <2>3, <2>4
<1>11. CASE EndPush
  <2>1. /\ current \in Readers /\ queue # <<>>
        /\ UNCHANGED <<row, current, webVars, restarts>>
    BY <1>1, <1>11 DEF EndPush, DispAt
  <2>2. CASE t.mailbox = "none"
    <3>1. DispGoto("dead") /\ rd' = rd
      BY <1>11, <2>2 DEF EndPush, Reader
    <3> QED BY <1>3, <2>1, <3>1, DispTypes DEF ProcessGood, CallbackInv, DispatcherPCs, webVars
  <2>3. CASE t.mailbox # "none"
    <3> DEFINE s == IF t.status \in {"READING", "WAIT_FOR_PUSH"} THEN "PAUSED" ELSE t.status
               u == [t EXCEPT !.status = s]
    <3>1. DispGoto("setclosed") /\ rd' = [rd EXCEPT ![current] = u]
      BY <1>11, <2>3 DEF EndPush, Reader
    <3>2. s \in Status!ReaderStatus /\ (~IsConnected(t) => s \in Status!Disconnected)
      BY <1>2, <2>1, RecordOf DEF IsConnected, Status!ReaderStatus, Status!Disconnected
    <3>3. Good(u)
      BY <1>2, <2>1, <3>2, StatusGood
    <3>4. ReadersGood'
      BY <2>1, <3>1, <3>3, UpdateGood
    <3> QED BY <2>1, <3>1, <3>4, DispTypes DEF ProcessGood, CallbackInv, DispatcherPCs, webVars
  <2> QED BY <2>2, <2>3
<1>12. CASE SetClosed
  <2>1. /\ current \in Readers /\ queue # <<>>
        /\ UNCHANGED <<row, current, webVars, restarts>>
        /\ DispGoto("doclose") /\ rd' = [rd EXCEPT ![current] = [t EXCEPT !.status = "CLOSED"]]
    BY <1>1, <1>12 DEF SetClosed, DispAt
  <2>2. Good([t EXCEPT !.status = "CLOSED"])
    BY <1>2, <2>1, StatusGood DEF Status!ReaderStatus, Status!Disconnected
  <2>3. ReadersGood'
    BY <2>1, <2>2, UpdateGood
  <2> QED BY <2>1, <2>3, DispTypes DEF ProcessGood, CallbackInv, DispatcherPCs, webVars
<1>13. CASE DoClose
  <2>1. /\ current \in Readers /\ queue # <<>>
        /\ UNCHANGED <<current, webVars, restarts>> /\ DispGoto("finish")
    BY <1>1, <1>13 DEF DoClose, DispAt
  <2>2. PICK e \in CloseOutcomes(t) :
          /\ rd' = [rd EXCEPT ![current] = AfterClose(t, e)]
          /\ row' = RowAfterClose(t, e)
    BY <1>13 DEF DoClose, Reader
  <2>3. /\ Good(AfterClose(t, e))
        /\ row' \in RowRecord
    <3>1. /\ AfterClose(t, e) \in ReaderRecord /\ CountOf(AfterClose(t, e))
          /\ ~IsConnected(AfterClose(t, e)) /\ AfterClose(t, e).pc = t.pc
          /\ AfterClose(t, e).ctx = t.ctx /\ AfterClose(t, e).exc = t.exc
          /\ t.mailbox # "none" => AfterClose(t, e).mailbox # "none"
          /\ row \in RowRecord => RowAfterClose(t, e) \in RowRecord
      BY <1>2, <2>1, AfterCloseGood
    <3> QED BY <1>2, <2>1, <2>2, <3>1, PokeGood DEF ProcessGood
  <2>4. ReadersGood'
    BY <2>1, <2>2, <2>3, UpdateGood
  <2> QED BY <2>1, <2>3, <2>4, DispTypes DEF ProcessGood, CallbackInv, DispatcherPCs, webVars
<1>14. CASE FinishShutdown
  <2>1. /\ current \in Readers /\ queue # <<>> /\ EndShutdown(Reader)
        /\ UNCHANGED <<row, current, restarts>>
    BY <1>1, <1>14 DEF FinishShutdown, DispAt
  <2> QED BY <2>1, EndShutdownGood
<1>15. CASE StartReader
  <2>1. PICK r \in Readers : rd' = [rd EXCEPT ![r] = Fresh("setup")] /\ current' = r
    BY <1>15 DEF StartReader
  <2>2. queue # <<>> /\ DispGoto("idle") /\ Ack /\ UNCHANGED <<row, restarts>>
    BY <1>4, <1>15 DEF StartReader, DispAt
  <2>3. ReadersGood'
    BY <2>1, FreshGood, UpdateGood
  <2> QED BY <2>1, <2>2, <2>3, DispTypes, AckTypes DEF ProcessGood, CallbackInv, DispatcherPCs
<1> QED
  BY <1>5, <1>6, <1>7, <1>8, <1>9, <1>10, <1>11, <1>12, <1>13, <1>14, <1>15 DEF DispatcherNext

LEMMA WebStepGood ==
  ASSUME ReadersGood, ProcessGood, WebNext
  PROVE  ReadersGood' /\ ProcessGood'
<1>1. rd' = rd => ReadersGood'
  BY DEF ReadersGood, Good, CountOf, MailboxOf, ExceptOf, EndedOf, IsConnected
<1>2. ASSUME NEW m \in Messages, Publish(m), resetPending' \in BOOLEAN
      PROVE  ReadersGood' /\ ProcessGood'
  <2>1. /\ sent < MaxMessages /\ sent' = sent + 1 /\ queue' = Append(queue, m)
        /\ UNCHANGED <<rd, row, current, disp, restarts>>
    BY <1>2 DEF Publish, processVars
  <2>2. queue' \in Seq(Messages) /\ queue' # <<>>
    BY <2>1 DEF ProcessGood
  <2>3. sent' \in 0..MaxMessages
    BY <2>1, BoundAssumption DEF ProcessGood
  <2> QED BY <1>1, <1>2, <2>1, <2>2, <2>3 DEF ProcessGood, CallbackInv
<1>3. CASE PublishPlain
  BY <1>2, <1>3 DEF PublishPlain, Messages, ProcessGood
<1>4. CASE ForceRestart
  BY <1>2, <1>4 DEF ForceRestart, Messages
<1>5. CASE CommitReset
  <2>1. /\ resetPending' = FALSE /\ row' = CleanRow /\ UNCHANGED <<rd, current, disp, queue, sent, restarts>>
    BY <1>5 DEF CommitReset, processVars
  <2>2. CleanRow \in RowRecord
    BY DEF CleanRow, RowRecord
  <2> QED BY <1>1, <2>1, <2>2 DEF ProcessGood, CallbackInv
<1> QED BY <1>3, <1>4, <1>5 DEF WebNext

LEMMA InitIInv == Init => IInv
<1> SUFFICES ASSUME Init PROVE IInv
  OBVIOUS
<1>1. ReadersGood
  <2>1. Good(Fresh("new"))
    BY FreshGood
  <2>2. Fresh("new") \in ReaderRecord
    BY <2>1 DEF Good
  <2> QED BY <2>1, <2>2 DEF Init, ReadersGood
<1>2. ProcessGood
  <2>1. CleanRow \in RowRecord
    BY DEF CleanRow, RowRecord
  <2>2. disp.pc = "idle" /\ disp \in [pc : DispatcherPCs, exc : Status!Severe \cup {None}]
    BY DEF Init, DispatcherPCs
  <2>3. <<>> \in Seq(Messages)
    OBVIOUS
  <2>4. sent \in 0..MaxMessages /\ restarts \in 0..MaxRestarts
    BY BoundAssumption DEF Init
  <2>5. CallbackInv
    BY <2>2 DEF CallbackInv
  <2> QED BY <2>1, <2>2, <2>3, <2>4, <2>5 DEF Init, ProcessGood
<1> QED BY <1>1, <1>2, IInvGood

LEMMA NextIInv == IInv /\ [Next]_vars => IInv'
<1> SUFFICES ASSUME IInv, [Next]_vars PROVE IInv'
  OBVIOUS
<1>1. ReadersGood /\ ProcessGood
  BY IInvGood
<1>2. CASE WebNext
  BY <1>1, <1>2, WebStepGood, IInvGood, PTL
<1>3. CASE DispatcherNext
  BY <1>1, <1>3, DispatcherStepGood, IInvGood, PTL
<1>4. CASE ThreadsNext
  <2>1. ReaderNext /\ UNCHANGED <<current, disp, queue, resetPending, sent, restarts>>
    BY <1>4 DEF ThreadsNext, processVars, webVars
  <2>2. ReadersGood' /\ row' \in RowRecord
    BY <1>1, <2>1, TimePassesGood, ThreadStepGood DEF ReaderNext, ProcessGood
  <2>3. ProcessGood'
    BY <1>1, <2>1, <2>2 DEF ProcessGood, CallbackInv
  <2> QED BY <2>2, <2>3, IInvGood, PTL
<1>5. CASE RestartProcess
  <2>1. /\ rd' = [r \in Readers |-> Fresh("new")]
        /\ current' = None /\ disp' = [pc |-> "idle", exc |-> None]
        /\ restarts < MaxRestarts /\ restarts' = restarts + 1
        /\ UNCHANGED <<row, queue, resetPending, sent>>
    BY <1>5 DEF RestartProcess, webVars
  <2>2. Good(Fresh("new")) /\ Fresh("new") \in ReaderRecord
    BY FreshGood DEF Good
  <2>3. ReadersGood'
    BY <2>1, <2>2 DEF ReadersGood, Good, CountOf, MailboxOf, ExceptOf, EndedOf, IsConnected
  <2>4. ProcessGood'
    BY <1>1, <2>1, BoundAssumption DEF ProcessGood, CallbackInv, DispatcherPCs
  <2> QED BY <2>3, <2>4, IInvGood, PTL
<1>6. CASE UNCHANGED vars
  <2>1. ReadersGood' /\ ProcessGood'
    BY <1>1, <1>6 DEF vars, ReadersGood, ProcessGood, CallbackInv, Good, CountOf, MailboxOf,
                      ExceptOf, EndedOf, IsConnected
  <2> QED BY <2>1, IInvGood, PTL
<1> QED BY <1>2, <1>3, <1>4, <1>5, <1>6 DEF Next

(* The inductive invariant of the process that reads a source. *)
THEOREM Invariance == Spec => []IInv
BY InitIInv, NextIInv, PTL DEF Spec

(* Every variable keeps its type, through every interleaving of dispatcher,  *)
(* readers, web requests and restarts.                                      *)
THEOREM TypeCorrect == Spec => []DispatcherTypeOK
<1>1. IInv => DispatcherTypeOK
  BY DEF IInv
<1> QED BY <1>1, Invariance, PTL

(* The count of an error never passes its limit, so that the doubled backoff *)
(* of new_error is bounded, whoever reports the errors.                     *)
THEOREM ErrorCountBounded == Spec => []CountBounded
<1>1. IInv => CountBounded
  BY DEF IInv
<1> QED BY <1>1, Invariance, PTL

(* An IMAPReader never reads, waits or searches before a login has given it  *)
(* a mailbox, whatever the dispatcher does to it.                           *)
THEOREM MailboxIsThere == Spec => []MailboxBeforeUse
<1>1. IInv => MailboxBeforeUse
  BY DEF IInv, MailboxInv, MailboxBeforeUse
<1> QED BY <1>1, Invariance, PTL

(* A reader whose run() has returned is never taken for connected, so that   *)
(* the next wake starts another.                                            *)
THEOREM EndedIsDisconnected == Spec => []EndedThreadIsDisconnected
<1>1. IInv => EndedThreadIsDisconnected
  BY DEF IInv, EndedInv, EndedThreadIsDisconnected
<1> QED BY <1>1, Invariance, PTL
=============================================================================
