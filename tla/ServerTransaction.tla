------------------------- MODULE ServerTransaction -------------------------
(***************************************************************************)
(* The server transactions of one endpoint: Transaction (server half of    *)
(* transaction.rs) and the part of EndpointInner that dispatches requests  *)
(* to them (endpoint.rs).                                                  *)
(*                                                                         *)
(* Three tasks interleave.  The endpoint task handles one transport        *)
(* message or one expired timer at a time and only ever appends to a       *)
(* transaction's TU channel.  The owner task takes the events of that      *)
(* channel in Transaction::receive, answers directly, or drops the         *)
(* transaction.  Any task may post a Respond event through tu_sender (the  *)
(* dialog layer does).                                                     *)
(*                                                                         *)
(* Invites are the INVITEs of one dialog: each has its own CSeq number, so *)
(* an element of Invites stands for the transaction key and for the        *)
(* (dialog, CSeq) pair that routes the ACK of a 2xx.                       *)
(***************************************************************************)
EXTENDS TransactionStates, Sequences, FiniteSets

CONSTANTS Invites,     \* keys of INVITE server transactions, one dialog
          NonInvites,  \* keys of the other server transactions
          Replies,     \* the statuses the transaction user answers with
          MaxQueue     \* bound on the events of a channel the peer or the TU adds

ASSUME ServerAssumption ==
    /\ Invites \cap NonInvites = {}
    /\ Replies \subseteq StatusCode
    /\ MaxQueue \in Nat \ {0}
    /\ None \notin Invites \cup NonInvites

Tx == Invites \cup NonInvites

VARIABLES
    reliable,         \* SipConnection::is_reliable of the connection
    state,            \* Transaction.state, None while no Transaction exists
    queue,            \* the TU channel: Received, Timer, Respond, Terminate events
    lastResponse,     \* Transaction.last_response
    timers,           \* the timers of the transaction armed in EndpointInner.timers
    transactions,     \* keys of EndpointInner.transactions
    finished,         \* EndpointInner.finished_transactions, None when absent
    waitingAck,       \* EndpointInner.waiting_ack of the dialog, None when absent
    waitingAckCseq,   \* the INVITEs EndpointInner.waiting_ack_cseq routes to
    wire,             \* history: the responses put on the wire
    handed,           \* history: ACKs and CANCELs receive handed to the TU (0, 1, 2 = more)
    expired           \* history: keys whose TimerCleanup has fired

endpointVars == <<transactions, finished, waitingAck, waitingAckCseq>>
vars == <<reliable, state, queue, lastResponse, timers, transactions, finished,
          waitingAck, waitingAckCseq, wire, handed, expired>>

(***************************************************************************)
(* TransactionTimer (server half) and TransactionEvent.  An event is a     *)
(* triple <<variant, payload, CSeq number of an ACK>>; a request other     *)
(* than ACK and CANCEL is "Request".                                       *)
(***************************************************************************)
ServerTimer == {"G", "D", "K", "L", "Cleanup"}
EventTimer  == ServerTimer \ {"Cleanup"}

Received(m, s) == <<"Received", m, s>>
Timer(x)       == <<"Timer", x, None>>
Respond(r)     == <<"Respond", r, None>>
Terminate      == <<"Terminate", None, None>>

Event == {Received(m, None) : m \in {"Request", "CANCEL"}}
         \cup {Received("ACK", s) : s \in Invites}
         \cup {Timer(x) : x \in EventTimer}
         \cup {Respond(r) : r \in Replies}
         \cup {Terminate}

TypeOK ==
    /\ reliable \in BOOLEAN
    /\ state \in [Tx -> TransactionState \cup {None}]
    /\ queue \in [Tx -> Seq(Event)]
    /\ lastResponse \in [Tx -> StatusCode \cup {None}]
    /\ timers \in [Tx -> SUBSET ServerTimer]
    /\ transactions \subseteq Tx
    /\ finished \in [Tx -> StatusCode \cup {None}]
    /\ waitingAck \in Invites \cup {None}
    /\ waitingAckCseq \subseteq Invites
    /\ wire \in [Tx -> SUBSET StatusCode]
    /\ handed \in [Tx -> [{"ACK", "CANCEL"} -> 0 .. 2]]
    /\ expired \subseteq Tx

Init ==
    /\ reliable \in BOOLEAN
    /\ state = [t \in Tx |-> None]
    /\ queue = [t \in Tx |-> <<>>]
    /\ lastResponse = [t \in Tx |-> None]
    /\ timers = [t \in Tx |-> {}]
    /\ transactions = {}
    /\ finished = [t \in Tx |-> None]
    /\ waitingAck = None
    /\ waitingAckCseq = {}
    /\ wire = [t \in Tx |-> {}]
    /\ handed = [t \in Tx |-> [m \in {"ACK", "CANCEL"} |-> 0]]
    /\ expired = {}

(***************************************************************************)
(* Helpers of the actions.                                                 *)
(***************************************************************************)
OnWire(t, r)    == wire' = [wire EXCEPT ![t] = @ \cup {r}]
SetState(t, s)  == state' = [state EXCEPT ![t] = s]
SetQueue(t, q)  == queue' = [queue EXCEPT ![t] = q]
Enqueue(t, e)   == SetQueue(t, Append(queue[t], e))
HandToTu(t, m)  == handed' = [handed EXCEPT ![t][m] = IF @ = 2 THEN 2 ELSE @ + 1]

(* EndpointInner::forget_waiting_ack: drop t's ACK routes, never another's. *)
ForgetWaitingAck(t) ==
    /\ waitingAckCseq' = waitingAckCseq \ {t}
    /\ waitingAck' = IF waitingAck = t THEN None ELSE waitingAck

(* cleanup_timer: all timers of the transaction; TimerCleanup has no id.   *)
CleanupTimer(t) == timers[t] \cap {"Cleanup"}

(***************************************************************************)
(* EndpointInner::detach_transaction, called by cleanup after it cancelled *)
(* the timers: the last message r, if any, answers retransmissions from    *)
(* finished_transactions until a TimerCleanup fires.                       *)
(***************************************************************************)
\* Faulty variant: only final responses are remembered.
DetachTransactionFinalOnly(t, r) ==
    /\ transactions' = transactions \ {t}
    /\ timers' = [timers EXCEPT ![t] = CleanupTimer(t) \cup
                                          IF r \in Finals THEN {"Cleanup"} ELSE {}]
    /\ finished' = [finished EXCEPT ![t] = IF r \in Finals THEN r ELSE @]

DetachTransaction(t, r) ==
    /\ transactions' = transactions \ {t}
    /\ timers' = [timers EXCEPT ![t] = CleanupTimer(t) \cup
                                          IF r # None THEN {"Cleanup"} ELSE {}]
    /\ finished' = [finished EXCEPT ![t] = IF r # None THEN r ELSE @]

(***************************************************************************)
(* Transaction::cleanup of t, once per transaction: the ACK routes are     *)
(* dropped unless a Completed INVITE still waits for its ACK, and the last *)
(* response r goes to the endpoint: a non-INVITE hands it over (take), an  *)
(* INVITE keeps it (clone).                                                *)
(***************************************************************************)
Cleanup(t, r) ==
    /\ DetachTransaction(t, r)
    /\ lastResponse' = [lastResponse EXCEPT ![t] = IF t \in Invites THEN r ELSE None]
    /\ IF state[t] = "Completed" THEN UNCHANGED <<waitingAck, waitingAckCseq>>
                                 ELSE ForgetWaitingAck(t)

(***************************************************************************)
(* Transaction::transition of t to s, when its last_response is r and q is *)
(* what is left of its channel: one operator per arm of the match.         *)
(***************************************************************************)
EnterPlain(t, s, r, q) ==
    /\ lastResponse' = [lastResponse EXCEPT ![t] = r]
    /\ SetState(t, s) /\ SetQueue(t, q)
    /\ UNCHANGED <<timers, endpointVars>>

\* Faulty variant: Timer L is not started.
EnterAcceptedNoDeadline(t, r, q) ==
    /\ lastResponse' = [lastResponse EXCEPT ![t] = r]
    /\ SetState(t, "Accepted") /\ SetQueue(t, q)
    /\ timers' = [timers EXCEPT ![t] = @ \cup {"G"}]
    /\ waitingAckCseq' = waitingAckCseq \cup {t}
    /\ waitingAck' = t
    /\ UNCHANGED <<transactions, finished>>

EnterAccepted(t, r, q) ==
    /\ lastResponse' = [lastResponse EXCEPT ![t] = r]
    /\ SetState(t, "Accepted") /\ SetQueue(t, q)
    /\ timers' = [timers EXCEPT ![t] = @ \cup {"L", "G"}]
    /\ waitingAckCseq' = waitingAckCseq \cup {t}
    /\ waitingAck' = t
    /\ UNCHANGED <<transactions, finished>>

EnterCompleted(t, r, q) ==
    /\ lastResponse' = [lastResponse EXCEPT ![t] = r]
    /\ SetState(t, "Completed") /\ SetQueue(t, q)
    /\ timers' = [timers EXCEPT ![t] = @ \cup {"D"} \cup IF reliable THEN {} ELSE {"G"}]
    /\ waitingAck' = t
    /\ UNCHANGED <<transactions, finished, waitingAckCseq>>

EnterConfirmed(t, q) ==
    /\ SetState(t, "Confirmed") /\ SetQueue(t, q)
    /\ timers' = [timers EXCEPT ![t] = CleanupTimer(t) \cup {"K"}]
    /\ ForgetWaitingAck(t)
    /\ UNCHANGED <<lastResponse, transactions, finished>>

EnterTerminated(t, r, q) ==
    /\ SetState(t, "Terminated") /\ SetQueue(t, Append(q, Terminate))
    /\ Cleanup(t, r)

(* transition, with its early return when t is in s already. *)
Transition(t, s, r, q) ==
    IF s = state[t] \/ s \in {"Trying", "Proceeding"} THEN EnterPlain(t, s, r, q)
    ELSE \/ s = "Accepted"   /\ EnterAccepted(t, r, q)
         \/ s = "Completed"  /\ EnterCompleted(t, r, q)
         \/ s = "Terminated" /\ EnterTerminated(t, r, q)

(***************************************************************************)
(* Transaction::respond.  The response is stored BEFORE the transport send *)
(* is awaited: when the send fails, the error returns with last_response   *)
(* replaced and the state where it was.                                    *)
(***************************************************************************)
StateAfter(t, r) ==
    IF r = "Trying" THEN "Trying"
    ELSE IF r \in Provisional THEN "Proceeding"
    ELSE IF t \in NonInvites THEN "Terminated"
    ELSE IF r \in Successful THEN "Accepted" ELSE "Completed"

\* Faulty variant: can_transition is not asked.
RespondSentUnchecked(t, r, q) ==
    /\ OnWire(t, r)
    /\ Transition(t, StateAfter(t, r), r, q)

RespondSent(t, r, q) ==
    /\ CanTransition(state[t], StateAfter(t, r))
    /\ OnWire(t, r)
    /\ Transition(t, StateAfter(t, r), r, q)

RespondFailed(t, r, q) ==
    /\ CanTransition(state[t], StateAfter(t, r))
    /\ lastResponse' = [lastResponse EXCEPT ![t] = r]
    /\ SetQueue(t, q)
    /\ UNCHANGED <<state, timers, endpointVars, wire>>

RespondRefused(t, r, q) ==
    /\ ~CanTransition(state[t], StateAfter(t, r))
    /\ SetQueue(t, q)
    /\ UNCHANGED <<state, lastResponse, timers, endpointVars, wire>>

DoRespond(t, r, q) ==
    RespondSent(t, r, q) \/ RespondFailed(t, r, q) \/ RespondRefused(t, r, q)

-----------------------------------------------------------------------------
(***************************************************************************)
(* EndpointInner::on_received_message: the endpoint task.                  *)
(***************************************************************************)

(* What a request for key t does once its transaction is known to be gone: *)
(* the finished response is sent again, except that an ACK is absorbed and *)
(* takes its routes with it.                                               *)
ArriveFinished(t, m) ==
    /\ finished[t] # None
    /\ IF m = "ACK"
       THEN ForgetWaitingAck(t) /\ UNCHANGED wire
       ELSE OnWire(t, finished[t]) /\ UNCHANGED <<waitingAck, waitingAckCseq>>
    /\ UNCHANGED <<reliable, state, queue, lastResponse, timers, transactions,
                   finished, handed, expired>>

(* A running transaction gets the message in its channel. *)
ArriveRunning(t, m, s) ==
    /\ finished[t] = None
    /\ t \in transactions
    /\ Len(queue[t]) < MaxQueue
    /\ Enqueue(t, Received(m, s))
    /\ UNCHANGED <<reliable, state, lastResponse, timers, endpointVars, wire, handed,
                   expired>>

(* No transaction: a request other than ACK and CANCEL starts one.  (A     *)
(* CANCEL is answered 481 and an ACK dropped, without a change of state.)  *)
ArriveNew(t) ==
    /\ finished[t] = None
    /\ t \notin transactions
    /\ SetState(t, "Trying")
    /\ lastResponse' = [lastResponse EXCEPT ![t] = None]
    /\ SetQueue(t, <<>>)
    /\ handed' = [handed EXCEPT ![t] = [m \in {"ACK", "CANCEL"} |-> 0]]
    /\ transactions' = transactions \cup {t}
    /\ UNCHANGED <<reliable, timers, finished, waitingAck, waitingAckCseq, wire, expired>>

(***************************************************************************)
(* The peer sends or retransmits a request until 64*T1 after it was        *)
(* answered, which is when TimerCleanup fires at the latest: a request for *)
(* an expired key does not arrive any more.                                *)
(***************************************************************************)
ArriveRequest(t) ==
    /\ t \notin expired
    /\ ArriveFinished(t, "Request") \/ ArriveRunning(t, "Request", None) \/ ArriveNew(t)

ArriveCancel(t) ==
    /\ t \in Invites \ expired
    /\ ArriveFinished(t, "CANCEL") \/ ArriveRunning(t, "CANCEL", None)

(* The ACK of a non-2xx carries the branch of its INVITE (TransactionKey   *)
(* maps it to the INVITE's key); the peer sends it once it saw a failure.  *)
ArriveAckOfFailure(t) ==
    /\ t \in Invites
    /\ wire[t] \cap Failure # {}
    /\ ArriveFinished(t, "ACK") \/ ArriveRunning(t, "ACK", t)

(* The ACK of a 2xx has a branch of its own: only waiting_ack_cseq can     *)
(* lead it to its INVITE; without a route it matches nothing.  A routed    *)
(* INVITE is running (RoutesHaveAnOwner), so its response is not finished. *)
\* Faulty variant: by dialog alone, as waiting_ack would.
AckTargetByDialog(t) == waitingAck
AckTarget(t) == IF t \in waitingAckCseq THEN t ELSE None

ArriveAckOfSuccess(t) ==
    /\ t \in Invites
    /\ wire[t] \cap Successful # {}
    /\ AckTarget(t) # None
    /\ ArriveRunning(AckTarget(t), "ACK", t)

(***************************************************************************)
(* EndpointInner::process_timer: the same task.                            *)
(***************************************************************************)
TimerFires(t, x) ==
    /\ x \in timers[t]
    /\ timers' = [timers EXCEPT ![t] = @ \ {x}]
    /\ IF t \in transactions THEN Enqueue(t, Timer(x)) ELSE UNCHANGED queue
    /\ UNCHANGED <<reliable, state, lastResponse, endpointVars, wire, handed, expired>>

TimerCleanupFires(t) ==
    /\ "Cleanup" \in timers[t]
    /\ timers' = [timers EXCEPT ![t] = @ \ {"Cleanup"}]
    /\ transactions' = transactions \ {t}
    /\ finished' = [finished EXCEPT ![t] = None]
    /\ ForgetWaitingAck(t)
    /\ expired' = expired \cup {t}
    /\ UNCHANGED <<reliable, state, queue, lastResponse, wire, handed>>

-----------------------------------------------------------------------------
(***************************************************************************)
(* The owner task: Transaction::receive takes the head of the channel.     *)
(***************************************************************************)
Takes(t, e) == queue[t] # <<>> /\ Head(queue[t]) = e
Rest(t)     == Tail(queue[t])
KeepTx(t)   == UNCHANGED <<state, lastResponse, timers, endpointVars>>

(* on_received_request, a CANCEL: forwarded to the TU only while no final  *)
(* response was given; it gets its own 200 or 481, which is not wire[t].   *)
\* Faulty variant: still forwarded while the ACK is awaited.
ReceiveCancelLate(t) ==
    /\ Takes(t, Received("CANCEL", None))
    /\ IF state[t] \in {"Trying", "Proceeding", "Completed"}
       THEN HandToTu(t, "CANCEL") ELSE UNCHANGED handed
    /\ SetQueue(t, Rest(t)) /\ KeepTx(t)
    /\ UNCHANGED <<reliable, wire, expired>>

ReceiveCancel(t) ==
    /\ Takes(t, Received("CANCEL", None))
    /\ IF state[t] \in {"Trying", "Proceeding"} THEN HandToTu(t, "CANCEL")
                                                ELSE UNCHANGED handed
    /\ SetQueue(t, Rest(t)) /\ KeepTx(t)
    /\ UNCHANGED <<reliable, wire, expired>>

(* on_received_request before a final response: the last response, if any, *)
(* is given again through respond, whatever request it was.                *)
ReceiveEarly(t, m, s) ==
    /\ Takes(t, Received(m, s)) /\ m # "CANCEL"
    /\ state[t] \in {"Trying", "Proceeding"}
    /\ IF lastResponse[t] = None
       THEN SetQueue(t, Rest(t)) /\ KeepTx(t) /\ UNCHANGED wire
       ELSE DoRespond(t, lastResponse[t], Rest(t))
    /\ UNCHANGED <<reliable, handed, expired>>

(* on_received_request, the ACK of the 2xx: it ends the transaction. *)
\* Faulty variant: the transaction stays in Accepted until Timer L.
ReceiveAckAcceptedStays(t) ==
    /\ Takes(t, Received("ACK", t))
    /\ state[t] = "Accepted"
    /\ SetQueue(t, Rest(t)) /\ KeepTx(t)
    /\ HandToTu(t, "ACK")
    /\ UNCHANGED <<reliable, wire, expired>>

ReceiveAckAccepted(t) ==
    /\ Takes(t, Received("ACK", t))
    /\ state[t] = "Accepted"
    /\ EnterTerminated(t, lastResponse[t], Rest(t))
    /\ HandToTu(t, "ACK")
    /\ UNCHANGED <<reliable, wire, expired>>

(* on_received_request, the ACK of a 3xx-6xx.  In Confirmed it is handed   *)
(* over again, without a change of state.                                  *)
ReceiveAckCompleted(t) ==
    /\ Takes(t, Received("ACK", t))
    /\ \/ state[t] = "Completed" /\ EnterConfirmed(t, Rest(t))
       \/ state[t] = "Confirmed" /\ SetQueue(t, Rest(t)) /\ KeepTx(t)
    /\ HandToTu(t, "ACK")
    /\ UNCHANGED <<reliable, wire, expired>>

(* on_received_request: every other request after the final is absorbed,   *)
(* an ACK whose CSeq is not the INVITE's among them.                       *)
ReceiveAbsorbed(t, m, s) ==
    /\ Takes(t, Received(m, s)) /\ m # "CANCEL"
    /\ \/ state[t] = "Terminated"
       \/ /\ state[t] \in {"Accepted", "Completed", "Confirmed"}
          /\ m = "Request" \/ s # t
    /\ SetQueue(t, Rest(t)) /\ KeepTx(t)
    /\ UNCHANGED <<reliable, wire, handed, expired>>

(* receive, TransactionEvent::Respond. *)
ReceiveRespond(t, r) ==
    /\ Takes(t, Respond(r))
    /\ DoRespond(t, r, Rest(t))
    /\ UNCHANGED <<reliable, handed, expired>>

(* on_timer, Timer G in Completed or Accepted: retransmit_last_response    *)
(* sends again and re-arms; a failed send returns before it re-arms.       *)
ReceiveTimerG(t, sent) ==
    /\ Takes(t, Timer("G"))
    /\ state[t] \in {"Completed", "Accepted"}
    /\ IF sent
       THEN /\ OnWire(t, lastResponse[t])
            /\ timers' = [timers EXCEPT ![t] = @ \cup {"G"}]
       ELSE UNCHANGED <<wire, timers>>
    /\ SetQueue(t, Rest(t))
    /\ UNCHANGED <<reliable, state, lastResponse, endpointVars, handed, expired>>

(* on_timer: the deadline that ends each state. *)
Ends(s, x) == \/ s = "Completed" /\ x \in {"D", "K"}
              \/ s = "Accepted"  /\ x = "L"
              \/ s = "Confirmed" /\ x = "K"

ReceiveDeadline(t, x) ==
    /\ Takes(t, Timer(x)) /\ Ends(state[t], x)
    /\ EnterTerminated(t, lastResponse[t], Rest(t))
    /\ UNCHANGED <<reliable, wire, handed, expired>>

(* on_timer: a timer that fired in an earlier state does nothing. *)
ReceiveStaleTimer(t, x) ==
    /\ Takes(t, Timer(x)) /\ ~Ends(state[t], x)
    /\ ~(x = "G" /\ state[t] \in {"Completed", "Accepted"})
    /\ SetQueue(t, Rest(t)) /\ KeepTx(t)
    /\ UNCHANGED <<reliable, wire, handed, expired>>

(* receive, TransactionEvent::Terminate: receive returns None. *)
ReceiveTerminate(t) ==
    /\ Takes(t, Terminate)
    /\ SetQueue(t, Rest(t)) /\ KeepTx(t)
    /\ UNCHANGED <<reliable, wire, handed, expired>>

Receive(t) ==
    \/ ReceiveCancel(t) \/ ReceiveAckAccepted(t) \/ ReceiveAckCompleted(t)
    \/ \E m \in {"Request", "ACK"}, s \in Invites \cup {None} :
           ReceiveEarly(t, m, s) \/ ReceiveAbsorbed(t, m, s)
    \/ \E r \in Replies : ReceiveRespond(t, r)
    \/ \E sent \in BOOLEAN : ReceiveTimerG(t, sent)
    \/ \E x \in EventTimer : ReceiveDeadline(t, x) \/ ReceiveStaleTimer(t, x)
    \/ ReceiveTerminate(t)

(* Transaction::respond called by the owner itself. *)
TuResponds(t, r) ==
    /\ state[t] # None
    /\ DoRespond(t, r, queue[t])
    /\ UNCHANGED <<reliable, handed, expired>>

(* A Respond event posted through tu_sender (accept, reject, ringing). *)
PostRespond(t, r) ==
    /\ state[t] # None
    /\ Len(queue[t]) < MaxQueue
    /\ Enqueue(t, Respond(r))
    /\ UNCHANGED <<reliable, state, lastResponse, timers, endpointVars, wire, handed,
                   expired>>

(* Drop for Transaction: cleanup unless Terminated did it already. *)
Drop(t) ==
    /\ state[t] # None
    /\ SetState(t, None) /\ SetQueue(t, <<>>)
    /\ IF state[t] = "Terminated"
       THEN UNCHANGED <<lastResponse, timers, endpointVars>>
       ELSE Cleanup(t, lastResponse[t])
    /\ UNCHANGED <<reliable, wire, handed, expired>>

-----------------------------------------------------------------------------
EndpointStep(t) ==
    \/ ArriveRequest(t) \/ ArriveCancel(t)
    \/ ArriveAckOfFailure(t) \/ ArriveAckOfSuccess(t)
    \/ \E x \in EventTimer : TimerFires(t, x)
    \/ TimerCleanupFires(t)

TuStep(t) == \/ \E r \in Replies : TuResponds(t, r) \/ PostRespond(t, r)
             \/ Drop(t)

Next == \E t \in Tx : EndpointStep(t) \/ Receive(t) \/ TuStep(t)

Spec == Init /\ [][Next]_vars

(***************************************************************************)
(* Fairness.  The owner does not leave an event in the channel: it awaits  *)
(* receive until it returns None, or leaves its loop earlier and drops the *)
(* transaction (handle_invite after the ACK, a `?` on an error).  The      *)
(* endpoint task fires every timer that is armed.  Nothing is assumed of   *)
(* the peer, of the sends or of what the TU answers.                       *)
(***************************************************************************)
Fairness == \A t \in Tx : /\ WF_vars(Receive(t) \/ (queue[t] # <<>> /\ Drop(t)))
                          /\ \A x \in EventTimer : WF_vars(TimerFires(t, x))
                          /\ WF_vars(TimerCleanupFires(t))

FairSpec == Spec /\ Fairness

-----------------------------------------------------------------------------
(***************************************************************************)
(* One request gets one final answer, whatever the TU's tasks post, which  *)
(* sends fail, and whether a later copy comes from a running transaction,  *)
(* from Timer G or from finished_transactions (respond's can_transition    *)
(* guard with last_response stored before the send).                       *)
(***************************************************************************)
OneFinalOnWire == \A t \in Tx : \A r1, r2 \in wire[t] \cap Finals : r1 = r2

(***************************************************************************)
(* The TU sees the ACK of a 2xx once, although the peer repeats it for     *)
(* every copy of the 2xx: the first one terminates the transaction, and    *)
(* the ones already queued behind it are dropped (on_received_request).    *)
(***************************************************************************)
AckHandedOnce ==
    \A t \in Tx : wire[t] \cap Successful # {} => handed[t]["ACK"] <= 1

(***************************************************************************)
(* Nothing leaks out of the routing maps: whoever waiting_ack or           *)
(* waiting_ack_cseq names either still runs and drops its route itself, or *)
(* has a TimerCleanup pending that does (cleanup keeps the route of a      *)
(* Completed INVITE).                                                      *)
(***************************************************************************)
RoutesHaveAnOwner ==
    /\ \A t \in waitingAckCseq : t \in transactions /\ state[t] = "Accepted"
    /\ waitingAck # None =>
          \/ waitingAck \in transactions
          \/ "Cleanup" \in timers[waitingAck]

(***************************************************************************)
(* No timer survives the state that armed it: after transition and cleanup *)
(* the wheel holds at most the timers of the current state, and none of a  *)
(* transaction that terminated or was dropped, so no late event can find   *)
(* the channel of another transaction with the same key.                   *)
(***************************************************************************)
TimersOf(s) == {x \in EventTimer : \/ s = "Accepted"  /\ x \in {"L", "G"}
                                   \/ s = "Completed" /\ x \in {"D", "G"}
                                   \/ s = "Confirmed" /\ x = "K"}

TimersMatchState(t) == /\ timers[t] \ {"Cleanup"} \subseteq TimersOf(state[t])
                       /\ "Cleanup" \in timers[t] <=> finished[t] # None

NoStrayTimers == \A t \in Tx : TimersMatchState(t)

(***************************************************************************)
(* RFC 3261 section 9.2, as on_received_request applies it: a CANCEL that  *)
(* was queued before the final answer but is taken after it never reaches  *)
(* the TU.                                                                 *)
(***************************************************************************)
CancelStopsAtFinal ==
    [][\A t \in Tx : handed'[t]["CANCEL"] > handed[t]["CANCEL"]
                         => wire[t] \cap Finals = {}]_vars

(***************************************************************************)
(* A retransmitted request never starts a second transaction once the      *)
(* first answered it in any way: on_received_message finds the transaction *)
(* or its finished response until the peer has stopped retransmitting.     *)
(***************************************************************************)
OneTransactionPerAnsweredRequest ==
    [][\A t \in Tx : t \in transactions' \ transactions
                         => state[t] = None /\ wire[t] = {}]_vars

(***************************************************************************)
(* The ACK of a 2xx reaches its own INVITE as long as that one waits for   *)
(* it, although newer re-INVITEs of the dialog were answered meanwhile and *)
(* older transactions dropped their routes (waiting_ack_cseq).             *)
(***************************************************************************)
AckReachesItsInvite == \A t \in Invites : state[t] = "Accepted" => AckTarget(t) = t

(***************************************************************************)
(* Every answered transaction terminates: also when each send fails, the   *)
(* ACK never comes and nobody posts anything (transition, on_timer).       *)
(***************************************************************************)
AnsweredTransactionsEnd ==
    \A t \in Tx : state[t] \in {"Accepted", "Completed", "Confirmed"}
                      ~> state[t] \in {"Terminated", None}

-----------------------------------------------------------------------------
(***************************************************************************)
(* The inductive invariant of Spec: what holds of one transaction between  *)
(* two steps of any task, then the routes and the timers.                  *)
(***************************************************************************)
BeforeFinal == {"Trying", "Proceeding"}
AfterFinal  == {"Accepted", "Completed", "Confirmed"}
Over        == {"Terminated", None}

FinalsOf(t) == wire[t] \cap Finals

(* Nothing is answered finally before the state says so; afterwards the    *)
(* answer is last_response, and only an INVITE waits for its ACK.          *)
AnswerMatchesState(t) ==
    /\ state[t] \in BeforeFinal \cup AfterFinal \cup Over
    /\ state[t] \in BeforeFinal => FinalsOf(t) = {}
    /\ state[t] \in AfterFinal => /\ t \in Invites
                                  /\ lastResponse[t] \in Finals
                                  /\ FinalsOf(t) = {lastResponse[t]}
    /\ state[t] = "Accepted" => lastResponse[t] \in Successful
    /\ state[t] \in {"Completed", "Confirmed"} => lastResponse[t] \in Failure
    /\ state[t] \in BeforeFinal /\ lastResponse[t] = None => wire[t] = {}

(* The endpoint's two maps: a running transaction is attached, an ended    *)
(* one has at most its finished response, which repeats the answer.        *)
MapsMatchState(t) ==
    /\ t \in transactions <=> state[t] \notin Over
    /\ state[t] = None => queue[t] = <<>>
    /\ finished[t] # None => state[t] \in Over /\ FinalsOf(t) \subseteq {finished[t]}
    /\ t \in expired => state[t] \in Over /\ finished[t] = None
    /\ state[t] \in Over /\ finished[t] = None /\ t \notin expired
           => state[t] = None /\ wire[t] = {}
    /\ state[t] = "Accepted" => t \in waitingAckCseq
    /\ \A r1, r2 \in FinalsOf(t) : r1 = r2

AcksMatchState(t) ==
    /\ state[t] \in BeforeFinal \cup {"Accepted"} => handed[t]["ACK"] = 0
    /\ wire[t] \cap Successful # {} => handed[t]["ACK"] <= 1
    /\ finished[t] \in Successful => handed[t]["ACK"] <= 1

TxInv(t) == /\ AnswerMatchesState(t) /\ MapsMatchState(t)
            /\ AcksMatchState(t) /\ TimersMatchState(t)

IInv == /\ TypeOK
        /\ \A t \in Tx : TxInv(t)
        /\ RoutesHaveAnOwner
=============================================================================
