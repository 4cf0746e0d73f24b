----------------------------- MODULE ReaderAlone -----------------------------
(***************************************************************************)
(* Reader threads left to themselves: no message reaches the dispatcher    *)
(* after it has started them.  What they promise then is the baseline for  *)
(* SourceDispatcher, where another thread changes their state.             *)
(***************************************************************************)
EXTENDS SourceReader

(* What an earlier process may have left in the row: READING is never saved.*)
RecordedRows ==
  [error : {None} \cup (Status!ReaderStatus \ IF Imap THEN {"READING"} ELSE {"READING", "WAIT_FOR_PUSH"}),
   backoff : BOOLEAN]

Init ==
  /\ rd = [r \in Readers |-> Fresh("setup")]
  /\ row \in RecordedRows

CleanInit == Init /\ row = CleanRow

(* Threads are scheduled, the server answers or drops the connection, and   *)
(* the clock runs.                                                          *)
Fairness ==
  \A r \in Readers : WF_readerVars(ThreadStep(r)) /\ WF_readerVars(BackoffElapses(r))

Spec == Init /\ [][ReaderNext]_readerVars /\ Fairness

CleanSpec == CleanInit /\ [][ReaderNext]_readerVars /\ Fairness

-----------------------------------------------------------------------------
(* run() does not log in with a status of IRRECOVERABLE_ERROR, whether the   *)
(* error is its own or one that setup() found in the row.                   *)
IrrecoverableNotContacted ==
  \A r \in Readers : rd[r].pc = "login" => rd[r].status # "IRRECOVERABLE_ERROR"

(* A connection on which a severe error was seen is not used again: the     *)
(* reader closes it, leaves both loops and logs in first.                   *)
ReadsOpenMailbox ==
  Imap => \A r \in Readers :
    rd[r].pc \in {"read", "pushread", "importing", "idle", "pause"}
      => rd[r].mailbox = "open"

(* A reader in CLIENT_ERROR is not forgotten: it logs in or reads again, or  *)
(* ends; the backoff that new_error has set always comes to an end.         *)
ErrorIsRetried ==
  \A r \in Readers :
    rd[r].status = "CLIENT_ERROR" ~> rd[r].pc \in {"login", "importing", "done"}

(* new_error: "escalate errors with repetition".  A source that only fails   *)
(* severely ends up IRRECOVERABLE and its thread stops retrying.            *)
EscalationEnds ==
  \A r \in Readers :
    <>[](rd[r].last \in Status!Severe) => <>(rd[r].pc = "done")

(* The status of a reader follows the documented table. *)
LifecycleRefined == Status!Spec

-----------------------------------------------------------------------------
(* The inductive invariants behind these.                                  *)

(* A thread that has given up is on its way to neither a login nor a wait   *)
(* for one, and closes its connection only after an error that counts.      *)
GivenUpInv ==
  \A r \in Readers :
    /\ rd[r].pc \in {"backoff", "login"} => rd[r].status \notin {"IRRECOVERABLE_ERROR", "SHUTDOWN"}
    /\ rd[r].pc = "tryclose" => ~IsConnected(rd[r])

(* From a login to try_close the mailbox stays open: nobody else closes it,  *)
(* and from try_close a reader, being disconnected, only goes to log in.     *)
OpenInv ==
  Imap => \A r \in Readers :
    (\/ rd[r].pc \in {"read", "pushread", "importing", "readdone", "readend", "pause",
                      "idle", "closed"}
     \/ rd[r].pc \in {"except", "tryclose"} /\ rd[r].ctx # "login")
      => rd[r].mailbox = "open"

AloneIInv ==
  /\ TypeOK
  /\ CountBounded
  /\ MailboxInv
  /\ ExceptInv
  /\ EndedInv
  /\ GivenUpInv
  /\ OpenInv

(* The statuses a pull reader may have at each place, if it is the only one  *)
(* and nothing is recorded when it begins.                                  *)
PullStatus(pc) ==
  CASE pc = "setup" -> {"CREATED"}
    [] pc \in {"backoff", "login", "read"} -> {"CREATED", "READING", "PAUSED", "CLIENT_ERROR"}
    [] pc \in {"importing", "readend", "except", "crashed"} -> {"READING"}
    [] pc = "pause" -> {"READING", "PAUSED"}
    [] pc = "tryclose" -> Status!Severe
    [] pc = "closed" -> {"CLOSED"}
    [] pc = "done" -> {"SHUTDOWN", "IRRECOVERABLE_ERROR"}
    [] OTHER -> {}

PullInv ==
  \A r \in Readers :
    /\ ~rd[r].canPush
    /\ rd[r].status \in PullStatus(rd[r].pc)
    /\ rd[r].pc \in {"importing", "except", "tryclose"} => rd[r].ctx = "read"
    /\ rd[r].pc = "setup" => row.error = None
=============================================================================
