-------------------------- MODULE ReaderLifecycle --------------------------
(***************************************************************************)
(* The states of a source reader and the transitions between them that the *)
(* code documents: the enumeration ReaderStatus, the table                 *)
(* known_transitions that set_status consults before it logs a change, and *)
(* the set disconnected_states.  It is the abstract specification of one   *)
(* reader: a status that only moves along the table.                       *)
(***************************************************************************)

CONSTANT Readers                     \* the reader threads
VARIABLE status                      \* status[r]: SourceReader.status

Errors == {"TRANSIENT_ERROR", "CLIENT_ERROR", "IRRECOVERABLE_ERROR"}

ReaderStatus ==
  {"CREATED", "READING", "WAIT_FOR_PUSH", "PAUSED", "CLOSED", "SHUTDOWN"} \cup Errors

(* disconnected_states: what is_connected() tests. *)
Disconnected == {"CLIENT_ERROR", "IRRECOVERABLE_ERROR", "CLOSED", "SHUTDOWN"}

(* The two errors above TRANSIENT_ERROR in the order of the enumeration. *)
Severe == {"CLIENT_ERROR", "IRRECOVERABLE_ERROR"}

KnownTransitions ==
  [s \in ReaderStatus |->
    CASE s = "CREATED" -> {"READING", "CLOSED"} \cup Severe
      [] s = "READING" -> ReaderStatus \ {"CREATED"}
      [] s = "PAUSED" -> {"CLOSED", "READING", "WAIT_FOR_PUSH"}
      [] s = "CLIENT_ERROR" -> {"SHUTDOWN", "READING"} \cup Severe
      [] s = "CLOSED" -> {"CLIENT_ERROR", "SHUTDOWN"}
      [] s = "IRRECOVERABLE_ERROR" -> {"IRRECOVERABLE_ERROR", "READING", "SHUTDOWN"}
      [] s = "TRANSIENT_ERROR" -> {"READING"}
      [] s = "WAIT_FOR_PUSH" -> {"CLOSED", "PAUSED", "READING", "WAIT_FOR_PUSH"} \cup Errors
      [] s = "SHUTDOWN" -> {"SHUTDOWN"}]

Init == status \in [Readers -> ReaderStatus]

Move(r) == \E s \in KnownTransitions[status[r]] : status' = [status EXCEPT ![r] = s]

Next == \E r \in Readers : Move(r)

Spec == Init /\ [][Next]_status
=============================================================================
