------------------------- MODULE TransactionStates -------------------------
(***************************************************************************)
(* What the client and the server transactions share: the states of        *)
(* TransactionState, the table Transaction::can_transition consults, and   *)
(* the response classes that decide which state a response leads to.       *)
(*                                                                         *)
(* A response is abstracted to its status.  One status stands for each     *)
(* class the code tells apart: 100, any other 1xx, 2xx, and several        *)
(* 3xx-6xx finals: two that peers and TUs choose, so that conflicting      *)
(* finals can be seen, and the 408 and 503 the stack makes itself.         *)
(***************************************************************************)
EXTENDS Naturals

TransactionState == {"Nothing", "Calling", "Trying", "Proceeding", "Accepted",
                     "Completed", "Confirmed", "Terminated"}

(***************************************************************************)
(* Transaction::can_transition: the states each state may move to.  Only   *)
(* respond and on_received_response ask it; transition itself does not.    *)
(***************************************************************************)
AllowedFrom ==
    [Nothing    |-> {"Calling", "Trying", "Proceeding", "Terminated"},
     Calling    |-> {"Calling", "Trying", "Proceeding", "Accepted", "Completed",
                     "Terminated"},
     Trying     |-> {"Trying", "Proceeding", "Accepted", "Completed",
                     "Confirmed", "Terminated"},
     Proceeding |-> {"Proceeding", "Accepted", "Completed", "Confirmed",
                     "Terminated"},
     Accepted   |-> {"Accepted", "Terminated"},
     Completed  |-> {"Confirmed", "Terminated"},
     Confirmed  |-> {"Terminated"},
     Terminated |-> {}]

CanTransition(from, to) == to \in AllowedFrom[from]

(***************************************************************************)
(* StatusCodeKind, over one representative status per class.               *)
(***************************************************************************)
Provisional == {"Trying", "Ringing"}
Successful  == {"OK"}
Failure     == {"BusyHere", "RequestTerminated", "RequestTimeout",
                "ServiceUnavailable"}
Finals      == Successful \cup Failure
StatusCode  == Provisional \cup Finals

None == "None"
=============================================================================
