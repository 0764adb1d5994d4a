----------------------------- MODULE InviteUas -----------------------------
(***************************************************************************)
(* The UAS half of an INVITE dialog (invite_dialog.rs, dialog.rs) on top   *)
(* of its INVITE server transaction.                                       *)
(*                                                                         *)
(* Three kinds of task share the DialogInner.  The task that runs          *)
(* handle(tx) for the INVITE owns the transaction.  Application tasks call *)
(* ringing, accept, reject and bye: they never touch the transaction, they *)
(* post the response to its channel and then move the dialog.  Each        *)
(* mid-dialog request has a task that runs handle(tx) for it.              *)
(*                                                                         *)
(* With several threads a task may be suspended anywhere; on a cooperative *)
(* executor only at an await, so no other task runs while one is inside a  *)
(* section of code without one.                                            *)
(*                                                                         *)
(* Of the transaction only the state and the channel are kept: its timers  *)
(* D, K and L all end it (Deadline), and ServerTransaction says the rest.  *)
(***************************************************************************)
EXTENDS TransactionStates, Sequences

CONSTANTS Calls,      \* application tasks, one method call each
          Requests,   \* mid-dialog requests of the peer, a handler task each
          Executors,  \* the kinds of executor: {TRUE} several threads, {FALSE} one
          MaxQueue    \* bound on the events in the transaction's channel

ASSUME UasAssumption ==
    /\ Calls \cap Requests = {}
    /\ Executors \subseteq BOOLEAN
    /\ MaxQueue \in Nat \ {0}

VARIABLES
    threads,   \* whether the executor runs tasks on several threads
    state,     \* DialogInner.state
    reason,    \* its TerminatedReason, None before
    tx,        \* Transaction.state of the INVITE
    unsent,    \* the final response that is last_response but was never sent
    queue,     \* the TU channel of the INVITE transaction
    invite,    \* where handle_invite is
    call,      \* where each application task is
    request,   \* where the handler of each mid-dialog request is
    answered,  \* history: the 2xx of the INVITE is on the wire
    acked,     \* history: its ACK was taken
    byes,      \* history: BYEs given to a transaction (2 = several)
    peerBye    \* history: the peer's BYE was handled

txVars == <<tx, unsent, queue, answered>>
vars   == <<threads, state, reason, tx, unsent, queue, invite, call, request,
            answered, acked, byes, peerBye>>

(* DialogState.  Updated, Info, Notify, Options and Refer are never stored. *)
DialogState == {"Calling", "Early", "WaitAck", "Confirmed", "Message", "Terminated"}
Reason      == {"UacCancel", "UacBye", "UasBye", "UasDecline", "Timeout"}
CanCancel   == state \in {"Calling", "Early"}

(* One failure stands for whatever status the application rejects with.    *)
Rejection == "BusyHere"
Post      == {"Ringing", "OK", Rejection}
Event     == Post \cup {"INVITE", "CANCEL", "ACK"}

(* Phases between two steps.  A task in a Cut phase holds no await: on a   *)
(* cooperative executor nobody else runs until it has left it.             *)
InviteCut   == {"starting", "left", "unacked"}
InvitePhase == InviteCut \cup {"spawned", "receiving", "cancelled", "done"}
CallCut     == {"mayRing", "rang", "accepted", "mayReject", "rejected", "mayBye"}
CallPhase   == CallCut \cup {"idle", "returned"}
RequestCut  == {"isMessage", "reUnacked"}
RequestPhase == RequestCut \cup {"idle", "event", "message", "reinvite", "reAccepted",
                                 "reRefused", "handled"}

TypeOK ==
    /\ threads \in BOOLEAN
    /\ state \in DialogState
    /\ reason \in Reason \cup {None}
    /\ tx \in TransactionState
    /\ unsent \in Finals \cup {None}
    /\ queue \in Seq(Event)
    /\ invite \in InvitePhase
    /\ call \in [Calls -> CallPhase]
    /\ request \in [Requests -> RequestPhase]
    /\ answered \in BOOLEAN /\ acked \in BOOLEAN /\ peerBye \in BOOLEAN
    /\ byes \in 0 .. 2

Init ==
    /\ threads \in Executors
    /\ state = "Calling" /\ reason = None
    /\ tx = "Trying" /\ unsent = None /\ queue = <<>>
    /\ invite = "spawned"
    /\ call = [c \in Calls |-> "idle"]
    /\ request = [r \in Requests |-> "idle"]
    /\ answered = FALSE /\ acked = FALSE
    /\ byes = 0 /\ peerBye = FALSE

(***************************************************************************)
(* Who may run: the task itself when it is in a Cut phase, else anybody.   *)
(***************************************************************************)
CallsCut(C)    == \E c \in C : call[c] \in CallCut
RequestsCut(R) == \E r \in R : request[r] \in RequestCut

InviteMay == threads \/ (~CallsCut(Calls) /\ ~RequestsCut(Requests))
CallMay(c) ==
    threads \/ (invite \notin InviteCut /\ ~CallsCut(Calls \ {c}) /\ ~RequestsCut(Requests))
RequestMay(r) ==
    threads \/ (invite \notin InviteCut /\ ~CallsCut(Calls) /\ ~RequestsCut(Requests \ {r}))

(***************************************************************************)
(* DialogInner::transition, under the state lock.  A terminated dialog     *)
(* stays so, and an accept that comes after the ACK is ignored.            *)
(***************************************************************************)
Ignored(s) == state = "Terminated" \/ (state = "Confirmed" /\ s = "WaitAck")

Transition(s) ==
    /\ state' = IF Ignored(s) THEN state ELSE s
    /\ UNCHANGED reason

TerminateFor(why) ==
    /\ state' = "Terminated"
    /\ reason' = IF state = "Terminated" THEN reason ELSE why

KeepDialog == UNCHANGED <<state, reason>>

(* send_bye, UAS: Terminated is notified, then the BYE goes out.           *)
EndsWithBye(why) ==
    /\ TerminateFor(why)
    /\ byes' = IF byes = 2 THEN 2 ELSE byes + 1

(***************************************************************************)
(* Transaction::respond, as ServerTransaction has it: refused by           *)
(* can_transition, sent, or stored although the transport failed.          *)
(***************************************************************************)
StateAfter(r) == IF r = "Ringing" THEN "Proceeding"
                 ELSE IF r \in Successful THEN "Accepted" ELSE "Completed"

Responds(r) ==
    \/ /\ ~CanTransition(tx, StateAfter(r))
       /\ UNCHANGED <<tx, unsent, answered>>
    \/ /\ CanTransition(tx, StateAfter(r))
       /\ tx' = StateAfter(r)
       /\ unsent' = None
       /\ answered' = (answered \/ r = "OK")
    \/ /\ CanTransition(tx, StateAfter(r))
       /\ unsent' = IF r \in Finals THEN r ELSE None
       /\ UNCHANGED <<tx, answered>>

(* tu_sender.send: the channel is closed once handle has returned and the  *)
(* transaction is dropped; nobody reads it once the loop is left.          *)
Reading == invite \in {"spawned", "starting", "receiving"}

Posts(r) ==
    /\ invite # "done"
    /\ queue' = IF Reading THEN Append(queue, r) ELSE queue
CannotPost == invite = "done" /\ UNCHANGED queue

-----------------------------------------------------------------------------
(***************************************************************************)
(* The application's calls.                                                *)
(***************************************************************************)
CallStep(c, from, to) ==
    /\ CallMay(c)
    /\ call[c] = from
    /\ call' = [call EXCEPT ![c] = to]
    /\ UNCHANGED <<threads, tx, unsent, invite, request, answered, acked, peerBye>>

(* ringing: can_cancel is tested, 180 posted, the dialog moved to Early.   *)
RingingTests(c) ==
    /\ CanCancel
    /\ CallStep(c, "idle", "mayRing")
    /\ KeepDialog /\ UNCHANGED <<queue, byes>>

RingingPosts(c) ==
    /\ \/ CallStep(c, "mayRing", "rang") /\ Posts("Ringing")
       \/ CallStep(c, "mayRing", "returned") /\ CannotPost
    /\ KeepDialog /\ UNCHANGED byes

RingingMoves(c) ==
    /\ CallStep(c, "rang", "returned")
    /\ Transition("Early")
    /\ UNCHANGED <<queue, byes>>

(* accept: 200 posted without a test, the dialog moved to WaitAck.         *)
AcceptPosts(c) ==
    /\ \/ CallStep(c, "idle", "accepted") /\ Posts("OK")
       \/ CallStep(c, "idle", "returned") /\ CannotPost
    /\ KeepDialog /\ UNCHANGED byes

AcceptMoves(c) ==
    /\ CallStep(c, "accepted", "returned")
    /\ Transition("WaitAck")
    /\ UNCHANGED <<queue, byes>>

(* reject: tested, posted (a failure to post is ignored), terminated.      *)
RejectTests(c) ==
    /\ state \notin {"Terminated", "Confirmed"}
    /\ CallStep(c, "idle", "mayReject")
    /\ KeepDialog /\ UNCHANGED <<queue, byes>>

RejectPosts(c) ==
    /\ CallStep(c, "mayReject", "rejected")
    /\ Posts(Rejection) \/ CannotPost
    /\ KeepDialog /\ UNCHANGED byes

RejectMoves(c) ==
    /\ CallStep(c, "rejected", "returned")
    /\ TerminateFor("UasDecline")
    /\ UNCHANGED <<queue, byes>>

(* bye, and hangup once the dialog cannot be cancelled: an error outside   *)
(* Confirmed and WaitAck.                                                  *)
ByeTests(c) ==
    /\ state \in {"Confirmed", "WaitAck"}
    /\ CallStep(c, "idle", "mayBye")
    /\ KeepDialog /\ UNCHANGED <<queue, byes>>

ByeEnds(c) ==
    /\ CallStep(c, "mayBye", "returned")
    /\ EndsWithBye("UasBye")
    /\ UNCHANGED queue

Application(c) ==
    \/ RingingTests(c) \/ RingingPosts(c) \/ RingingMoves(c)
    \/ AcceptPosts(c) \/ AcceptMoves(c)
    \/ RejectTests(c) \/ RejectPosts(c) \/ RejectMoves(c)
    \/ ByeTests(c) \/ ByeEnds(c)

-----------------------------------------------------------------------------
(***************************************************************************)
(* The peer, as far as the INVITE transaction hears it: it retransmits the *)
(* INVITE, cancels it, and acknowledges a final response it has seen.      *)
(***************************************************************************)
PeerMaySend(e) == e = "ACK" => answered \/ tx = "Completed"

Arrives(e) ==
    /\ InviteMay
    /\ Reading
    /\ Len(queue) < MaxQueue
    /\ PeerMaySend(e)
    /\ queue' = Append(queue, e)
    /\ UNCHANGED <<threads, state, reason, tx, unsent, invite, call, request,
                   answered, acked, byes, peerBye>>

-----------------------------------------------------------------------------
(***************************************************************************)
(* handle_invite.                                                          *)
(***************************************************************************)
InviteStep(from, to) ==
    /\ InviteMay
    /\ invite = from
    /\ invite' = to
    /\ UNCHANGED <<threads, call, request, peerBye>>

(* A dialog in Calling is moved to Calling again, for the notification     *)
(* (and 100 is sent, which leaves the transaction in Trying).              *)
Starts ==
    /\ InviteStep("spawned", IF state = "Calling" THEN "starting" ELSE "receiving")
    /\ KeepDialog /\ UNCHANGED <<txVars, acked, byes>>

NotifiesCalling ==
    /\ InviteStep("starting", "receiving")
    /\ Transition("Calling")
    /\ UNCHANGED <<txVars, acked, byes>>

Takes(e) == queue # <<>> /\ Head(queue) = e /\ queue' = Tail(queue)

(* receive, a posted response. *)
ReceivesRespond(r) ==
    /\ InviteStep("receiving", "receiving")
    /\ Takes(r)
    /\ Responds(r)
    /\ KeepDialog /\ UNCHANGED <<acked, byes>>

(* receive, what the transaction keeps to itself: before a final response  *)
(* the last response is given again, later everything but ACK is absorbed. *)
Early == tx \in {"Trying", "Proceeding"}

ReceivesInternal(e) ==
    /\ InviteStep("receiving", "receiving")
    /\ Takes(e)
    /\ \/ /\ Early /\ e # "CANCEL"
          /\ IF unsent = None THEN UNCHANGED <<tx, unsent, answered>> ELSE Responds(unsent)
       \/ /\ ~Early /\ e # "ACK"
          /\ UNCHANGED <<tx, unsent, answered>>
    /\ KeepDialog /\ UNCHANGED <<acked, byes>>

(* receive hands a CANCEL over before a final response only; it is         *)
(* answered 487.  When the answer fails handle returns the error and the    *)
(* dialog is left as it was.                                               *)
\* Faulty variant: a CANCEL is handed over after the 2xx as well.
CancelReachesAccepted == Early \/ tx = "Accepted"
CancelReaches == Early

ReceivesCancel ==
    /\ Takes("CANCEL")
    /\ CancelReaches
    /\ \/ /\ CanTransition(tx, "Completed")
          /\ InviteStep("receiving", "cancelled")
          /\ tx' = "Completed" /\ unsent' = None
       \/ /\ InviteStep("receiving", "done")
          /\ UNCHANGED <<tx, unsent>>
    /\ KeepDialog /\ UNCHANGED <<answered, acked, byes>>

CancelMoves ==
    /\ InviteStep("cancelled", "left")
    /\ TerminateFor("UacCancel")
    /\ UNCHANGED <<txVars, acked, byes>>

(* receive hands the ACK over: of the 2xx, or of a failure.  The dialog is *)
(* confirmed unless it was terminated.                                     *)
ReceivesAck ==
    /\ Takes("ACK")
    /\ \/ tx = "Accepted" /\ tx' = "Terminated" /\ acked' = TRUE
       \/ tx = "Completed" /\ tx' = "Confirmed" /\ UNCHANGED acked
    /\ InviteStep("receiving", "left")
    /\ Transition("Confirmed")
    /\ UNCHANGED <<unsent, answered, byes>>

(* Timer D or L: receive returns None.  64*T1 is longer than any section   *)
(* of code without an await.                                               *)
Deadline ==
    /\ tx \in {"Accepted", "Completed"}
    /\ ~CallsCut(Calls) /\ ~RequestsCut(Requests)
    /\ InviteStep("receiving", "left")
    /\ tx' = "Terminated"
    /\ KeepDialog /\ UNCHANGED <<unsent, queue, answered, acked, byes>>

(* end_session_without_ack, after the loop. *)
EndsSession ==
    /\ InviteStep("left", IF state = "WaitAck" /\ tx = "Terminated" THEN "unacked" ELSE "done")
    /\ queue' = <<>>
    /\ KeepDialog /\ UNCHANGED <<tx, unsent, answered, acked, byes>>

\* Faulty variant: the peer is not told.
EndsUnackedSilently ==
    /\ InviteStep("unacked", "done")
    /\ TerminateFor("Timeout")
    /\ UNCHANGED <<txVars, acked, byes>>

EndsUnacked ==
    /\ InviteStep("unacked", "done")
    /\ EndsWithBye("Timeout")
    /\ UNCHANGED <<txVars, acked>>

HandleInvite ==
    \/ Starts \/ NotifiesCalling
    \/ \E r \in Post : ReceivesRespond(r)
    \/ \E e \in {"INVITE", "CANCEL", "ACK"} : ReceivesInternal(e)
    \/ ReceivesCancel \/ CancelMoves \/ ReceivesAck
    \/ EndsSession \/ EndsUnacked

-----------------------------------------------------------------------------
(***************************************************************************)
(* The requests of the peer within the dialog, once a response told it the *)
(* dialog's tag.  Only a confirmed dialog handles them, except a BYE.  A   *)
(* re-INVITE that overtakes the ACK is given to handle_invite, on a        *)
(* transaction nobody can post to: it changes nothing here.                *)
(***************************************************************************)
RequestStep(r, from, to) ==
    /\ RequestMay(r)
    /\ request[r] = from
    /\ request' = [request EXCEPT ![r] = to]
    /\ UNCHANGED <<threads, txVars, invite, call, acked>>

PeerKnowsDialog == answered \/ tx = "Proceeding"

(* handle_bye: the INVITE, if it is still unanswered, stays so.            *)
HandlesBye(r) ==
    /\ PeerKnowsDialog
    /\ RequestStep(r, "idle", "handled")
    /\ TerminateFor("UacBye")
    /\ peerBye' = TRUE
    /\ UNCHANGED byes

(* handle: the state is tested, then handle_info, handle_update,           *)
(* handle_notify (event), handle_message or handle_reinvite begins.        *)
\* Faulty variant: a request is handled as soon as the 2xx was sent.
DispatchesWaitAck(r) ==
    /\ PeerKnowsDialog
    /\ state \in {"Confirmed", "WaitAck"}
    /\ \E m \in {"event", "isMessage", "reinvite"} : RequestStep(r, "idle", m)
    /\ KeepDialog /\ UNCHANGED <<byes, peerBye>>

Dispatches(r) ==
    /\ PeerKnowsDialog
    /\ state = "Confirmed"
    /\ \E m \in {"event", "isMessage", "reinvite"} : RequestStep(r, "idle", m)
    /\ KeepDialog /\ UNCHANGED <<byes, peerBye>>

(* handle_message: unlike the other events, Message becomes the state.     *)
EntersMessage(r) ==
    /\ RequestStep(r, "isMessage", "message")
    /\ Transition("Message")
    /\ UNCHANGED <<byes, peerBye>>

(* process_transaction_handle has answered, at the latest 501 after its    *)
(* timeout; return_to_confirmed.                                           *)
Returns(r) ==
    /\ \E m \in {"event", "message"} : RequestStep(r, m, "handled")
    /\ Transition("Confirmed")
    /\ UNCHANGED <<byes, peerBye>>

(* handle_reinvite: answered 2xx, or refused; then the ACK, or no ACK.     *)
AnswersReinvite(r) ==
    /\ \E s \in {"reAccepted", "reRefused", "handled"} : RequestStep(r, "reinvite", s)
    /\ KeepDialog /\ UNCHANGED <<byes, peerBye>>

ReinviteAcked(r) ==
    /\ \E s \in {"reAccepted", "reRefused"} : RequestStep(r, s, "handled")
    /\ Transition("Confirmed")
    /\ UNCHANGED <<byes, peerBye>>

\* Faulty variant: whether the dialog has ended meanwhile is not asked.
ReinviteDeadlineUnchecked(r) ==
    /\ ~CallsCut(Calls) /\ ~RequestsCut(Requests) /\ invite \notin InviteCut
    /\ \/ RequestStep(r, "reAccepted", "reUnacked")
       \/ RequestStep(r, "reRefused", "handled")
    /\ KeepDialog /\ UNCHANGED <<byes, peerBye>>

ReinviteDeadline(r) ==
    /\ ~CallsCut(Calls) /\ ~RequestsCut(Requests) /\ invite \notin InviteCut
    /\ \/ RequestStep(r, "reAccepted",
                       IF state = "Terminated" THEN "handled" ELSE "reUnacked")
       \/ RequestStep(r, "reRefused", "handled")
    /\ KeepDialog /\ UNCHANGED <<byes, peerBye>>

ReinviteUnacked(r) ==
    /\ RequestStep(r, "reUnacked", "handled")
    /\ EndsWithBye("Timeout")
    /\ UNCHANGED peerBye

HandleRequest(r) ==
    \/ HandlesBye(r) \/ Dispatches(r) \/ EntersMessage(r) \/ Returns(r)
    \/ AnswersReinvite(r) \/ ReinviteAcked(r) \/ ReinviteDeadline(r) \/ ReinviteUnacked(r)

-----------------------------------------------------------------------------
Next ==
    \/ \E c \in Calls : Application(c)
    \/ \E e \in {"INVITE", "CANCEL", "ACK"} : Arrives(e)
    \/ HandleInvite
    \/ Deadline
    \/ \E r \in Requests : HandleRequest(r)

Spec == Init /\ [][Next]_vars

(* A task that is ready is polled (the calls and requests are finitely     *)
(* many, so a cooperative executor cannot starve the others), Timer L      *)
(* fires, and process_transaction_handle has a timeout.  Nothing is        *)
(* assumed of the peer, nor that the application calls anything.           *)
Fairness ==
    /\ WF_vars(HandleInvite)
    /\ WF_vars(Deadline)
    /\ \A c \in Calls :
          WF_vars(RingingPosts(c) \/ RingingMoves(c) \/ AcceptMoves(c)
                  \/ RejectPosts(c) \/ RejectMoves(c) \/ ByeEnds(c))
    /\ \A r \in Requests :
          WF_vars(EntersMessage(r) \/ Returns(r) \/ AnswersReinvite(r)
                  \/ ReinviteDeadline(r) \/ ReinviteUnacked(r))

FairSpec == Spec /\ Fairness

-----------------------------------------------------------------------------
(***************************************************************************)
(* Safety.                                                                 *)
(***************************************************************************)
(* bye, a missing ACK of the INVITE and a missing ACK of a re-INVITE may   *)
(* all want to end the session; on a cooperative executor one of them      *)
(* sends a BYE, and the dialog ended for that reason.                      *)
CooperativeOneTeardown ==
    ~threads => byes = 0 \/ (byes = 1 /\ reason \in {"UasBye", "Timeout"})

(* However the calls, the CANCEL, the ACK and the peer's requests          *)
(* interleave: a dialog that ended although its INVITE was answered 2xx    *)
(* has ended the peer's session too, with a BYE of one side.  Not after    *)
(* reject, which sends no BYE when the 2xx was there first.                *)
AnsweredSessionIsEnded ==
    state = "Terminated" /\ answered /\ reason # "UasDecline" => byes > 0 \/ peerBye

(* The inductive invariant of the proofs: the reason of a termination says *)
(* what ended the peer's session; a cancelled INVITE was not answered and  *)
(* is not read any more; on a cooperative executor one task at most is     *)
(* between two awaits, so the state a teardown has tested still holds.     *)
EndedWell ==
    /\ reason = None <=> state # "Terminated"
    /\ reason = "UacBye" => peerBye
    /\ reason \in {"UasBye", "Timeout"} => byes > 0

CancelledUnanswered ==
    /\ answered => tx \in {"Accepted", "Terminated"}
    /\ invite = "cancelled" => ~answered
    /\ reason = "UacCancel" => ~answered /\ ~Reading /\ invite # "cancelled"

Exclusive ==
    ~threads =>
        /\ \A c, d \in Calls : call[c] \in CallCut /\ call[d] \in CallCut => c = d
        /\ \A q, r \in Requests :
              request[q] \in RequestCut /\ request[r] \in RequestCut => q = r
        /\ ~(CallsCut(Calls) /\ RequestsCut(Requests))
        /\ invite \in InviteCut => ~CallsCut(Calls) /\ ~RequestsCut(Requests)

TestedIsOpen ==
    ~threads /\ state = "Terminated" =>
        /\ \A c \in Calls : call[c] # "mayBye"
        /\ \A r \in Requests : request[r] # "reUnacked"
        /\ invite # "unacked"

IInv ==
    /\ TypeOK
    /\ EndedWell
    /\ CancelledUnanswered
    /\ Exclusive
    /\ TestedIsOpen
    /\ CooperativeOneTeardown

(* accept and the ACK race for the state, mid-dialog requests set          *)
(* Confirmed again when they are done: on a cooperative executor an        *)
(* established dialog was acknowledged by the peer.                        *)
CooperativeConfirmedIsAcked ==
    ~threads /\ state \in {"Confirmed", "Message"} => answered /\ acked

(***************************************************************************)
(* Liveness.                                                               *)
(***************************************************************************)
(* On a cooperative executor an answered dialog does not wait for its ACK  *)
(* for ever: end_session_without_ack ends it after 64*T1.                  *)
CooperativeAnswerIsSettled ==
    ~threads /\ answered /\ state = "WaitAck"
        ~> state \in {"Confirmed", "Message", "Terminated"}

=============================================================================
