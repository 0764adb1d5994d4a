------------------------- MODULE ClientTransaction -------------------------
(***************************************************************************)
(* One client transaction: Transaction (client half of transaction.rs) and *)
(* what EndpointInner does for its key (endpoint.rs): dispatch of the      *)
(* responses, the timers, and the ACK that finished_transactions repeats.  *)
(*                                                                         *)
(* The endpoint task and the owner task interleave as in                   *)
(* ServerTransaction.  The owner may also drop the future of receive while *)
(* send_ack awaits the transport, and it may drop the transaction.         *)
(*                                                                         *)
(* A To tag names the fork of the INVITE a response comes from.  A         *)
(* response is a pair <<status, tag>>; 100 Trying and the responses the    *)
(* transaction makes itself carry no tag.  An ACK is named by its tag.     *)
(***************************************************************************)
EXTENDS TransactionStates, Sequences, FiniteSets

CONSTANTS Tags,        \* To tags of the forks
          MaxQueue     \* bound on the events of the channel the peer adds

ASSUME ClientAssumption ==
    /\ MaxQueue \in Nat \ {0}
    /\ {None, "NoAck"} \cap Tags = {}

NoAck == "NoAck"

VARIABLES
    invite,        \* TransactionType is ClientInvite
    autoAck,       \* EndpointOption.auto_ack_2xx
    forwarding,    \* 2xx responses have an upstream Via (has_multiple_vias)
    link,          \* Transaction.connection: "none", "unreliable" or "stream"
    written,       \* the request was written to a transport
    retransmission,\* Transaction.retransmission
    state,         \* Transaction.state, None once dropped
    queue,         \* the TU channel: Response, Timer and Terminate events
    lastResponse,  \* Transaction.last_response
    lastAck,       \* Transaction.last_ack, NoAck when absent
    timers,        \* the timers of the transaction armed in EndpointInner.timers
    attached,      \* the key is in EndpointInner.transactions
    finished,      \* ACK in EndpointInner.finished_transactions, NoAck when absent
    heard,         \* history: how often receive returned each final (0, 1, 2 = more)
    told,          \* history: the last response receive returned
    acked          \* history: the forks whose 2xx an ACK was given to the transport for

setup == <<invite, autoAck, forwarding>>
vars  == <<invite, autoAck, forwarding, link, written, retransmission, state, queue,
           lastResponse, lastAck, timers, attached, finished, heard, told, acked>>

ClientTimer == {"A", "B", "C", "D", "M", "Cleanup"}
EventTimer  == ClientTimer \ {"Cleanup"}

FromPeer  == {<<"Trying", None>>} \cup ({"Ringing", "OK", "BusyHere"} \X Tags)
Synthetic == {<<"RequestTimeout", None>>, <<"ServiceUnavailable", None>>}
Response  == FromPeer \cup Synthetic

Status(r)  == r[1]
Tag(r)     == r[2]
IsFinal(r) == Status(r) \in Finals
Is2xx(r)   == Status(r) \in Successful

Received(r) == <<"Response", r>>
Timer(x)    == <<"Timer", x>>
Terminate   == <<"Terminate", None>>
Event       == {Received(r) : r \in Response} \cup {Timer(x) : x \in EventTimer}
               \cup {Terminate}

TypeOK ==
    /\ {invite, autoAck, forwarding, written, retransmission, attached} \subseteq BOOLEAN
    /\ link \in {"none", "unreliable", "stream"}
    /\ state \in TransactionState \cup {None}
    /\ queue \in Seq(Event)
    /\ lastResponse \in Response \cup {<<None, None>>}
    /\ {lastAck, finished} \subseteq Tags \cup {None, NoAck}
    /\ timers \subseteq ClientTimer
    /\ heard \in [{r \in Response : IsFinal(r)} -> 0 .. 2]
    /\ told \in Response \cup {<<None, None>>}
    /\ acked \subseteq Tags

Init ==
    /\ invite \in BOOLEAN
    /\ autoAck \in BOOLEAN
    /\ forwarding \in BOOLEAN
    /\ link = "none"
    /\ written = FALSE
    /\ retransmission = TRUE
    /\ state = "Nothing"
    /\ queue = <<>>
    /\ lastResponse = <<None, None>>
    /\ lastAck = NoAck
    /\ timers = {}
    /\ attached = TRUE
    /\ finished = NoAck
    /\ heard = [r \in {x \in Response : IsFinal(x)} |-> 0]
    /\ told = <<None, None>>
    /\ acked = {}

-----------------------------------------------------------------------------
(***************************************************************************)
(* The endpoint task.                                                      *)
(***************************************************************************)
(* on_received_message: the cached ACK answers a retransmitted final; its  *)
(* To tag is replaced by the one of the response.  The test for an ACK     *)
(* without a tag compares Option<Option<Tag>> with None and never holds.   *)
AnswersFromCache(r) == finished # NoAck /\ ~(forwarding /\ Is2xx(r))

ArriveFinished(r) ==
    /\ AnswersFromCache(r)
    /\ acked' = IF Is2xx(r) THEN acked \cup {Tag(r)} ELSE acked
    /\ UNCHANGED queue

ArriveRunning(r) ==
    /\ ~AnswersFromCache(r)
    /\ attached
    /\ Len(queue) < MaxQueue
    /\ queue' = Append(queue, Received(r))
    /\ UNCHANGED acked

(* A response may be repeated, reordered or lost; without a transaction    *)
(* and without a finished ACK it is dropped.                               *)
Arrive(r) ==
    /\ written
    /\ ArriveFinished(r) \/ ArriveRunning(r)
    /\ UNCHANGED <<setup, link, written, retransmission, state, lastResponse, lastAck,
                   timers, attached, finished, heard, told>>

(* process_timer. *)
TimerFires(x) ==
    /\ x \in timers
    /\ timers' = timers \ {x}
    /\ queue' = IF attached THEN Append(queue, Timer(x)) ELSE queue
    /\ UNCHANGED <<setup, link, written, retransmission, state, lastResponse, lastAck,
                   attached, finished, heard, told, acked>>

TimerCleanupFires ==
    /\ "Cleanup" \in timers
    /\ timers' = timers \ {"Cleanup"}
    /\ attached' = FALSE
    /\ finished' = NoAck
    /\ UNCHANGED <<setup, link, written, retransmission, state, queue, lastResponse,
                   lastAck, heard, told, acked>>

-----------------------------------------------------------------------------
(***************************************************************************)
(* The owner task.                                                         *)
(***************************************************************************)
Link     == {"none", "unreliable", "stream"}
Early    == {"Trying", "Proceeding"}
Takes(e) == queue # <<>> /\ Head(queue) = e
Rest     == Tail(queue)

(* receive returns the response r to the TU. *)
HandToTu(r) ==
    /\ told' = r
    /\ heard' = IF IsFinal(r) THEN [heard EXCEPT ![r] = IF @ = 2 THEN 2 ELSE @ + 1]
                              ELSE heard

(***************************************************************************)
(* Transaction::send: the first resolution of the connection decides about *)
(* Timer A.  A dialog that found no connection calls send a second time    *)
(* with its dial-back target (send_dialog_request), which changes only the *)
(* connection.  A failed write on a stream becomes a local 503.            *)
(***************************************************************************)
Send(first, second, ok) ==
    /\ state = "Nothing"
    /\ first # "none" => second = first
    /\ second = "none" => ~ok
    /\ link' = second
    /\ written' = ok
    /\ state' = "Calling"
    /\ timers' = {"B"} \cup IF first = "stream" THEN {} ELSE {"A"}
    /\ queue' = IF second = "stream" /\ ~ok
                THEN Append(queue, Received(<<"ServiceUnavailable", None>>)) ELSE queue
    /\ UNCHANGED <<setup, retransmission, lastResponse, lastAck, attached, finished,
                   heard, told, acked>>

(***************************************************************************)
(* Transaction::cleanup and detach_transaction, when last_response is r    *)
(* and last_ack is ack.  An INVITE that saw only provisional responses     *)
(* leaves a placeholder ACK made from the last one.                        *)
(***************************************************************************)
AckToKeep(r, ack) ==
    IF /\ invite /\ state \in Early /\ ack = NoAck
       /\ r # <<None, None>> /\ (autoAck \/ ~Is2xx(r))
    THEN Tag(r) ELSE ack

Cleanup(r, ack) ==
    /\ attached' = FALSE
    /\ finished' = AckToKeep(r, ack)
    /\ timers' = IF AckToKeep(r, ack) # NoAck THEN {"Cleanup"} ELSE {}
    /\ lastAck' = NoAck

EnterTerminated(r, ack) ==
    /\ state' = "Terminated"
    /\ queue' = Append(Rest, Terminate)
    /\ Cleanup(r, ack)

(* transition to Trying or Proceeding: an INVITE trades Timer B for Timer  *)
(* C, once; a non-INVITE keeps Timer B.                                    *)
EarlyTimers(s) ==
    IF s = state THEN timers
    ELSE IF ~invite THEN timers \ {"A"}
    ELSE (timers \ {"A", "B"}) \cup IF state \in Early THEN {} ELSE {"C"}

(* transition to Accepted or Completed; Accepted keeps its first Timer M.  *)
\* Faulty variant: the deadline is not started.
FinalTimersNoDeadline(s) == timers \ {"A", "B", "C"}

FinalTimers(s) ==
    IF s = state THEN timers
    ELSE (timers \ {"A", "B", "C"}) \cup IF s = "Accepted" THEN {"M"} ELSE {"D"}

(* on_received_response: the state a response leads to. *)
StateAfter(r) ==
    IF Status(r) = "Trying" THEN "Trying"
    ELSE IF ~IsFinal(r) THEN "Proceeding"
    ELSE IF ~invite THEN "Terminated"
    ELSE IF ~Is2xx(r) THEN "Completed"
    ELSE IF autoAck THEN "Accepted" ELSE "Terminated"

(* send_ack: the cached ACK is reused unless the tags say another fork.    *)
\* Faulty variant: the cached ACK is reused whatever the tags.
AckForCached(r) == IF lastAck # NoAck THEN lastAck ELSE Tag(r)

AckFor(r) ==
    IF lastAck # NoAck /\ (None \in {lastAck, Tag(r)} \/ lastAck = Tag(r))
    THEN lastAck ELSE Tag(r)

Forwards(r) == invite /\ forwarding /\ Is2xx(r)

(* What can_transition lets through.                                       *)
\* Faulty variant: can_transition is not asked.
AdmitsAll(r) == state # None

Admits(r) == CanTransition(state, IF Forwards(r) THEN "Accepted" ELSE StateAfter(r))

(***************************************************************************)
(* on_received_response, one action per outcome.                           *)
(***************************************************************************)
ReceiveForwarded(r) ==
    /\ Takes(Received(r)) /\ Forwards(r) /\ Admits(r)
    /\ state' = "Accepted" /\ timers' = FinalTimers("Accepted")
    /\ queue' = Rest /\ lastResponse' = r
    /\ HandToTu(r)
    /\ UNCHANGED <<setup, link, written, retransmission, lastAck, attached, finished,
                   acked>>

ReceiveRefused(r) ==
    /\ Takes(Received(r)) /\ ~Admits(r)
    /\ queue' = Rest
    /\ UNCHANGED <<setup, link, written, retransmission, state, lastResponse, lastAck,
                   timers, attached, finished, heard, told, acked>>

(* A provisional response with the status and body of the last one is not  *)
(* handed over again.  Copies of one response have one body; two forks may *)
(* have sent the same body or not.                                         *)
ReceiveDuplicate(r) ==
    /\ Takes(Received(r)) /\ ~IsFinal(r) /\ Admits(r)
    /\ state = StateAfter(r) /\ Status(lastResponse) = Status(r)
    /\ queue' = Rest
    /\ UNCHANGED <<setup, link, written, retransmission, state, lastResponse, lastAck,
                   timers, attached, finished, heard, told, acked>>

ReceiveProvisional(r) ==
    /\ Takes(Received(r)) /\ ~IsFinal(r) /\ Admits(r)
    /\ ~(state = StateAfter(r) /\ lastResponse = r)
    /\ state' = StateAfter(r) /\ timers' = EarlyTimers(StateAfter(r))
    /\ queue' = Rest /\ lastResponse' = r
    /\ HandToTu(r)
    /\ UNCHANGED <<setup, link, written, retransmission, lastAck, attached, finished,
                   acked>>

(* The final of a non-INVITE, and the 2xx of an INVITE in proxy mode. *)
ReceiveLast(r) ==
    /\ Takes(Received(r)) /\ ~Forwards(r) /\ StateAfter(r) = "Terminated" /\ Admits(r)
    /\ EnterTerminated(r, lastAck)
    /\ lastResponse' = r
    /\ HandToTu(r)
    /\ UNCHANGED <<setup, link, written, retransmission, acked>>

ReceiveSuccess(r) ==
    /\ Takes(Received(r)) /\ ~Forwards(r) /\ StateAfter(r) = "Accepted" /\ Admits(r)
    /\ state' = "Accepted" /\ timers' = FinalTimers("Accepted")
    /\ queue' = Rest /\ lastResponse' = r
    /\ lastAck' = AckFor(r) /\ acked' = acked \cup {AckFor(r)}
    /\ HandToTu(r)
    /\ UNCHANGED <<setup, link, written, retransmission, attached, finished>>

(* Completed lasts only while send_ack runs: the ACK ends the transaction. *)
ReceiveFailure(r) ==
    /\ Takes(Received(r)) /\ StateAfter(r) = "Completed" /\ Admits(r)
    /\ state' = "Terminated"
    /\ queue' = Append(Rest, Terminate) /\ lastResponse' = r
    /\ attached' = FALSE /\ finished' = AckFor(r) /\ timers' = {"Cleanup"}
    /\ lastAck' = NoAck
    /\ HandToTu(r)
    /\ UNCHANGED <<setup, link, written, retransmission, acked>>

(* The owner drops the future of receive while send_ack awaits a lookup    *)
(* (2xx only, nothing stored yet) or the write of the ACK; a response the  *)
(* transaction made itself has no connection to await.                     *)
ReceiveAbandoned(r, stored) ==
    /\ Takes(Received(r)) /\ ~Forwards(r) /\ Tag(r) # None
    /\ StateAfter(r) \in {"Accepted", "Completed"} /\ Admits(r)
    /\ stored \/ Is2xx(r)
    /\ state' = StateAfter(r) /\ timers' = FinalTimers(StateAfter(r))
    /\ queue' = Rest /\ lastResponse' = r
    /\ lastAck' = IF stored THEN AckFor(r) ELSE lastAck
    /\ acked' = IF stored /\ Is2xx(r) THEN acked \cup {AckFor(r)} ELSE acked
    /\ UNCHANGED <<setup, link, written, retransmission, attached, finished, heard, told>>

ReceiveResponse ==
    \E r \in Response :
        \/ ReceiveForwarded(r) \/ ReceiveRefused(r) \/ ReceiveDuplicate(r)
        \/ ReceiveProvisional(r) \/ ReceiveLast(r)
        \/ ReceiveSuccess(r) \/ ReceiveFailure(r)
        \/ \E stored \in BOOLEAN : ReceiveAbandoned(r, stored)

(***************************************************************************)
(* on_timer.                                                               *)
(***************************************************************************)
(* Timer A: look the connection up again if there is none, resend, re-arm. *)
(* A failed stream write ends the retransmissions with a local 503; so     *)
(* does, silently, an owner that drops the future in the middle.           *)
ReceiveTimerA(l, outcome) ==
    /\ Takes(Timer("A")) /\ state \in {"Calling", "Trying"} /\ retransmission
    /\ link # "none" => l = link
    /\ outcome = "sent" => l # "none"
    /\ link' = l
    /\ written' = (written \/ outcome = "sent")
    /\ LET dead == outcome = "failed" /\ l = "stream" IN
       /\ timers' = IF dead \/ outcome = "abandoned" THEN timers ELSE timers \cup {"A"}
       /\ queue' = IF dead THEN Append(Rest, Received(<<"ServiceUnavailable", None>>))
                           ELSE Rest
    /\ UNCHANGED <<setup, retransmission, state, lastResponse, lastAck, attached,
                   finished, heard, told, acked>>

(* Timers B (F) and C report a local 408, through the channel. *)
TimesOut(x) == \/ x = "B" /\ state \in {"Calling", "Trying"}
               \/ x = "B" /\ state = "Proceeding" /\ ~invite
               \/ x = "C" /\ state = "Proceeding"

ReceiveTimeout(x) ==
    /\ Takes(Timer(x)) /\ TimesOut(x)
    /\ queue' = Append(Rest, Received(<<"RequestTimeout", None>>))
    /\ UNCHANGED <<setup, link, written, retransmission, state, lastResponse, lastAck,
                   timers, attached, finished, heard, told, acked>>

Ends(x) == \/ x = "D" /\ state = "Completed"
           \/ x = "M" /\ state = "Accepted"

ReceiveDeadline(x) ==
    /\ Takes(Timer(x)) /\ Ends(x)
    /\ EnterTerminated(lastResponse, lastAck)
    /\ UNCHANGED <<setup, link, written, retransmission, lastResponse, heard, told, acked>>

(* Every other event of a timer is ignored, Timer C in Trying among them. *)
ReceiveStaleTimer(x) ==
    /\ Takes(Timer(x)) /\ ~TimesOut(x) /\ ~Ends(x)
    /\ ~(x = "A" /\ state \in {"Calling", "Trying"} /\ retransmission)
    /\ queue' = Rest
    /\ UNCHANGED <<setup, link, written, retransmission, state, lastResponse, lastAck,
                   timers, attached, finished, heard, told, acked>>

ReceiveTerminate ==
    /\ Takes(Terminate)
    /\ queue' = Rest
    /\ UNCHANGED <<setup, link, written, retransmission, state, lastResponse, lastAck,
                   timers, attached, finished, heard, told, acked>>

Receive ==
    \/ ReceiveResponse
    \/ \E l \in Link, outcome \in {"sent", "failed", "abandoned"} :
           ReceiveTimerA(l, outcome)
    \/ \E x \in EventTimer :
           ReceiveTimeout(x) \/ ReceiveDeadline(x) \/ ReceiveStaleTimer(x)
    \/ ReceiveTerminate

(* stop_retransmissions. *)
StopRetransmissions ==
    /\ state # None /\ retransmission
    /\ retransmission' = FALSE
    /\ timers' = timers \ {"A"}
    /\ UNCHANGED <<setup, link, written, state, queue, lastResponse, lastAck, attached,
                   finished, heard, told, acked>>

(* Drop for Transaction. *)
Drop ==
    /\ state # None
    /\ state' = None /\ queue' = <<>>
    /\ IF state = "Terminated" THEN UNCHANGED <<lastAck, timers, attached, finished>>
                               ELSE Cleanup(lastResponse, lastAck)
    /\ UNCHANGED <<setup, link, written, retransmission, lastResponse, heard, told, acked>>

-----------------------------------------------------------------------------
EndpointStep == \/ \E r \in FromPeer : Arrive(r)
                \/ \E x \in EventTimer : TimerFires(x)
                \/ TimerCleanupFires

OwnerStep == \/ \E first, second \in Link, ok \in BOOLEAN : Send(first, second, ok)
             \/ StopRetransmissions \/ Drop

Next == EndpointStep \/ Receive \/ OwnerStep

Spec == Init /\ [][Next]_vars

(***************************************************************************)
(* Fairness: the owner does not leave an event in the channel for ever, it *)
(* awaits receive or drops the transaction, and the endpoint task fires    *)
(* every timer that is armed.  No message of the peer is ever certain.     *)
(***************************************************************************)
Fairness == /\ WF_vars(Receive \/ (queue # <<>> /\ Drop))
            /\ \A x \in EventTimer : WF_vars(TimerFires(x))
            /\ WF_vars(TimerCleanupFires)

FairSpec == Spec /\ Fairness

-----------------------------------------------------------------------------
(***************************************************************************)
(* The TU gets one verdict: at most one 3xx-6xx, real or made locally by   *)
(* Timer B, Timer C or a failed write, and never besides a 2xx; only an    *)
(* INVITE may hear of more than one 2xx (the race of a local 408 or 503    *)
(* already in the channel with the real final).  In whatever order the     *)
(* network gives the responses, no provisional follows a final.            *)
(***************************************************************************)
Heard(S) == {r \in DOMAIN heard : heard[r] > 0 /\ Status(r) \in S}

OneVerdict ==
    /\ \A r1, r2 \in Heard(Finals) :
           Status(r1) \in Failure \/ ~invite => r1 = r2 /\ heard[r1] = 1
    /\ ~autoAck /\ ~forwarding =>
           \A r1, r2 \in Heard(Finals) : r1 = r2 /\ heard[r1] = 1
    /\ Heard(Finals) # {} => IsFinal(told)

(***************************************************************************)
(* A user agent's transaction acknowledges every 2xx it hands to the TU,   *)
(* each fork with an ACK of its own (send_ack, cached_ack_matches_response)*)
(* and no other: the ACK of a 2xx with an upstream recipient belongs to    *)
(* the originating UA, and neither the transaction nor the ACK it left     *)
(* behind when it failed or was dropped ever answers one.                  *)
(***************************************************************************)
HandedSuccessIsAcked ==
    /\ invite /\ autoAck /\ ~forwarding
           => {Tag(r) : r \in Heard(Successful)} \subseteq acked
    /\ forwarding => acked = {}

(***************************************************************************)
(* Although no response and no write ever succeeds, a request ends: a      *)
(* non-INVITE in every state, an INVITE in Calling, and one in Proceeding  *)
(* as long as its Timer C was not spent in Trying.  After a final the      *)
(* transaction ends as well, also when receive was abandoned in the middle *)
(* of it, and the finished ACK is forgotten (Timers B, C, D, M and         *)
(* TimerCleanup).                                                          *)
(***************************************************************************)
Resolved == state \in {"Accepted", "Completed", "Terminated", None}
Pending(x) == x \in timers \/ \E i \in DOMAIN queue : queue[i] = Timer(x)

TransactionsEnd ==
    /\ ~invite /\ state = "Calling" ~> Resolved
    /\ invite /\ state = "Calling" ~> state # "Calling"
    /\ invite /\ state = "Proceeding" /\ Pending("C") ~> Resolved
    /\ state \in {"Accepted", "Completed"} ~> state \in {"Terminated", None}
    /\ finished # NoAck ~> finished = NoAck

(***************************************************************************)
(* What mod.rs says of the timers: "TimerC - Proceeding timeout for client *)
(* INVITE" (line 222), "Handle retransmissions and timeouts" (line 292):   *)
(* every INVITE that was sent ends.                                        *)
(***************************************************************************)
InvitesTimeOut == invite /\ state = "Calling" ~> Resolved
=============================================================================
