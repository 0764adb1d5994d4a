---------------------------- MODULE WrapperCall ----------------------------
(***************************************************************************)
(* A call from end to end: a ClientInviteDialog (client_dialog.rs) at the  *)
(* caller and a ServerInviteDialog (server_dialog.rs) at the callee, the   *)
(* wrappers of one role that keep handlers of their own beside             *)
(* InviteDialog, with the INVITE, its ACK and CANCEL, and the requests of  *)
(* both sides crossing on the network.                                     *)
(*                                                                         *)
(* Transactions repeat a request over UDP until it is answered and give    *)
(* each one to the dialog once it is taken; over a stream (TCP, WebSocket) *)
(* nothing is repeated.  Tasks take what arrived in any order.  No request *)
(* and no final response is lost for good, except the ACK over UDP.        *)
(* The application calls that do not await are single steps here, see      *)
(* module InviteUas for their parts.                                       *)
(***************************************************************************)
EXTENDS Naturals, Sequences, FiniteSets

CONSTANT Midcalls   \* the requests within the dialog: [by, method, seq]

Sides == {"caller", "callee"}
Peer(s) == CHOOSE p \in Sides : p # s
Hangup(s) == [by |-> s, method |-> "BYE", seq |-> 9]
AllMidcalls == Midcalls \cup {Hangup(s) : s \in Sides}

VARIABLES
    stream,   \* the transport repeats nothing
    side,     \* per side: DialogState, TerminatedReason and remote_seq
    uas,      \* state of the server transaction of the INVITE
    serving,  \* handle_invite runs: tu_sender has a receiver
    posted,   \* events waiting in the queue of that transaction
    wire,     \* responses to the INVITE and CANCEL, ACK on their way
    midcall   \* per request within the dialog: how far it is

callVars == <<stream, side, uas, serving, posted, wire, midcall>>

States == {"Calling", "Trying", "Early", "WaitAck", "Confirmed", "Message", "Terminated"}
Reasons == {"", "UacBye", "UasBye", "UacCancel", "UasDecline", "UasOther", "Timeout"}
Stages == {"idle", "sent", "handled", "accepted", "answered", "ignored", "done"}

CallTypeOK ==
    /\ stream \in BOOLEAN /\ serving \in BOOLEAN
    /\ side \in [Sides -> [state : States, why : Reasons, seen : Nat]]
    /\ uas \in {"new", "trying", "accepted", "completed", "terminated"}
    /\ posted \in Seq({"180", "200", "603", "ACK", "CANCEL"})
    /\ wire \subseteq {"100", "180", "200", "487", "603", "ACK", "CANCEL"}
    /\ midcall \in [AllMidcalls -> Stages]

CallInit ==
    /\ stream \in BOOLEAN
    /\ side = [s \in Sides |-> [state |-> "Calling", why |-> "", seen |-> 0]]
    /\ uas = "new" /\ serving = TRUE /\ posted = <<>> /\ wire = {}
    /\ midcall = [r \in AllMidcalls |-> "idle"]

-----------------------------------------------------------------------------
(***************************************************************************)
(* DialogInner::transition: nothing leaves Terminated, and WaitAck does    *)
(* not replace Confirmed.  Events such as Updated and Info are notified    *)
(* without being stored; Message is stored.                                *)
(***************************************************************************)
State(s) == side[s].state
Ended(s) == State(s) = "Terminated"

SideMoved(s, state, why) ==
    IF \/ Ended(s)
       \/ State(s) = "Confirmed" /\ state = "WaitAck"
    THEN side ELSE [side EXCEPT ![s].state = state, ![s].why = why]

Moves(s, state) == side' = SideMoved(s, state, "")
Terminates(s, why) == side' = SideMoved(s, "Terminated", why)

CallCanCancel(s) == State(s) \in {"Calling", "Trying", "Early"}

-----------------------------------------------------------------------------
(***************************************************************************)
(* The caller drives its INVITE (process_invite): the transaction has      *)
(* acknowledged a 2xx before the dialog sees it.                           *)
(***************************************************************************)
CallerHears(resp) ==
    /\ CallCanCancel("caller") /\ resp \in wire \ {"ACK", "CANCEL"}
    /\ wire' = (wire \ {resp}) \cup (IF resp = "200" THEN {"ACK"} ELSE {})
    /\ CASE resp = "100" -> Moves("caller", "Trying")
         [] resp = "180" -> Moves("caller", "Early")
         [] resp = "200" -> Moves("caller", "Confirmed")
         [] OTHER        -> Terminates("caller", "UasOther")
    /\ UNCHANGED <<stream, uas, serving, posted, midcall>>

(* cancel: nothing is sent before the first provisional response.          *)
CallerCancels ==
    /\ State("caller") \in {"Trying", "Early"}
    /\ wire' = wire \cup {"CANCEL"}
    /\ UNCHANGED <<stream, side, uas, serving, posted, midcall>>

-----------------------------------------------------------------------------
(***************************************************************************)
(* The callee's application: ringing, accept and reject post a response    *)
(* for the transaction of the INVITE and store the dialog's state.  A post *)
(* that finds no receiver is an error of ringing and accept.               *)
(***************************************************************************)
MaxPosted == 2   \* bound of the queue: one more for ACK and CANCEL

Posts(x) == Len(posted) < MaxPosted /\ posted' = IF serving THEN Append(posted, x) ELSE posted

CalleeRings ==
    /\ CallCanCancel("callee") /\ serving /\ Posts("180")
    /\ Moves("callee", "Early")
    /\ UNCHANGED <<stream, uas, serving, wire, midcall>>

CalleeAccepts ==
    /\ serving /\ Posts("200")
    /\ Moves("callee", "WaitAck")
    /\ UNCHANGED <<stream, uas, serving, wire, midcall>>

CalleeRejects ==
    /\ State("callee") \notin {"Terminated", "Confirmed"} /\ Posts("603")
    /\ Terminates("callee", "UasDecline")
    /\ UNCHANGED <<stream, uas, serving, wire, midcall>>

(***************************************************************************)
(* handle_invite: it stores Calling whatever the dialog was unless it is   *)
(* confirmed, answers 100 and serves the transaction until its ACK or a    *)
(* CANCEL ends it.                                                         *)
(***************************************************************************)
Restarts == IF State("callee") = "Confirmed" THEN side ELSE SideMoved("callee", "Calling", "")

CalleeServes ==
    /\ uas = "new" /\ uas' = "trying"
    /\ side' = Restarts /\ wire' = wire \cup {"100"}
    /\ UNCHANGED <<stream, serving, posted, midcall>>

(* The endpoint queues CANCEL and ACK behind what was posted; only an      *)
(* accepted INVITE has a route for the ACK.                                *)
CalleeQueues(x) ==
    /\ x \in wire \cap {"ACK", "CANCEL"} /\ wire' = wire \ {x}
    /\ Len(posted) <= MaxPosted
    /\ posted' = IF serving /\ uas # "terminated" THEN Append(posted, x) ELSE posted
    /\ UNCHANGED <<stream, side, uas, serving, midcall>>

FinalOf(x) == IF x = "200" THEN "accepted" ELSE "completed"

(* Transaction::respond of a posted response.                              *)
CalleeResponds ==
    /\ posted # <<>> /\ Head(posted) \in {"180", "200", "603"} /\ uas # "new"
    /\ posted' = Tail(posted)
    /\ IF uas = "trying"
       THEN /\ wire' = wire \cup {Head(posted)}
            /\ uas' = IF Head(posted) = "180" THEN uas ELSE FinalOf(Head(posted))
       ELSE UNCHANGED <<wire, uas>>
    /\ UNCHANGED <<stream, side, serving, midcall>>

CalleeTakesCancel ==
    /\ posted # <<>> /\ Head(posted) = "CANCEL" /\ uas # "new"
    /\ IF uas = "trying"
       THEN /\ wire' = wire \cup {"487"} /\ uas' = "completed"
            /\ Terminates("callee", "UacCancel") /\ serving' = FALSE /\ posted' = <<>>
       ELSE posted' = Tail(posted) /\ UNCHANGED <<side, uas, serving, wire>>
    /\ UNCHANGED <<stream, midcall>>

(* The loop ends with the ACK whether the dialog ended meanwhile or not.   *)
CalleeTakesAck ==
    /\ posted # <<>> /\ Head(posted) = "ACK" /\ uas = "accepted"
    /\ Moves("callee", "Confirmed")
    /\ uas' = "terminated" /\ serving' = FALSE /\ posted' = <<>>
    /\ UNCHANGED <<stream, wire, midcall>>

(***************************************************************************)
(* A BYE of side s joins the requests on their way; end_session_without_ack*)
(* sends it when the ACK of a 2xx never came.                              *)
(***************************************************************************)
HungUp(s) == midcall[Hangup(s)] # "idle"
SendsHangup(m, s) == IF HungUp(s) THEN m ELSE [m EXCEPT ![Hangup(s)] = "sent"]

\* Faulty variant: the dialog ends without a BYE.
EndsWithoutAckSilently(s, m) ==
    IF Ended(s) THEN midcall' = m /\ UNCHANGED side
    ELSE Terminates(s, "Timeout") /\ midcall' = m

EndsWithoutAck(s, m) ==
    IF Ended(s) THEN midcall' = m /\ UNCHANGED side
    ELSE Terminates(s, "Timeout") /\ midcall' = SendsHangup(m, s)

(* Timer L: every copy of the ACK was lost.                                *)
CalleeMissesAck ==
    /\ ~stream /\ uas = "accepted" /\ "ACK" \notin {posted[i] : i \in DOMAIN posted}
    /\ uas' = "terminated" /\ serving' = FALSE /\ posted' = <<>>
    /\ wire' = wire \ {"ACK"}
    /\ IF State("callee") = "WaitAck" THEN EndsWithoutAck("callee", midcall)
       ELSE UNCHANGED <<side, midcall>>
    /\ UNCHANGED stream

-----------------------------------------------------------------------------
(***************************************************************************)
(* bye_with_headers.  send_bye terminates a UAS before the BYE is sent, a  *)
(* UAC once it is answered.                                                *)
(***************************************************************************)
MayHangUp(s) ==
    State(s) = "Confirmed" \/ (s = "callee" /\ State(s) = "WaitAck")

CallerHangsUp ==
    /\ MayHangUp("caller") /\ ~HungUp("caller")
    /\ midcall' = SendsHangup(midcall, "caller")
    /\ UNCHANGED <<stream, side, uas, serving, posted, wire>>

CalleeHangsUp ==
    /\ MayHangUp("callee") /\ ~HungUp("callee")
    /\ midcall' = SendsHangup(midcall, "callee")
    /\ Terminates("callee", "UasBye")
    /\ UNCHANGED <<stream, uas, serving, posted, wire>>

(* reinvite, update, info, message, ...: refused unless confirmed.  An     *)
(* application that hung up sends no more.                                 *)
MayRequest(r) == State(r.by) = "Confirmed" /\ ~HungUp(r.by)

CallSends(r) ==
    /\ r \in Midcalls /\ midcall[r] = "idle" /\ MayRequest(r)
    /\ midcall' = [midcall EXCEPT ![r] = "sent"]
    /\ UNCHANGED <<stream, side, uas, serving, posted, wire>>

-----------------------------------------------------------------------------
(***************************************************************************)
(* A request of the other side reaches handle.  One with an older number   *)
(* is discarded by the callee and answered 500 by the caller.              *)
(***************************************************************************)
IsOld(r) == r.seq < side[Peer(r.by)].seen

SeesOld(r) ==
    /\ IsOld(r)
    /\ midcall' = [midcall EXCEPT ![r] = IF r.by = "caller" THEN "ignored" ELSE "answered"]
    /\ UNCHANGED side

Sees(r, new) == [new EXCEPT ![Peer(r.by)].seen = r.seq]

(* handle_bye.  Only the callee takes a BYE whatever its state.            *)
TakesBye(r) == Peer(r.by) = "callee" \/ State(Peer(r.by)) = "Confirmed"

ByeReason(s) == IF s = "callee" THEN "UacBye" ELSE "UasBye"

SeesBye(r) ==
    /\ r.method = "BYE" /\ TakesBye(r)
    /\ side' = Sees(r, SideMoved(Peer(r.by), "Terminated", ByeReason(Peer(r.by))))
    /\ midcall' = [midcall EXCEPT ![r] = "answered"]

(* handle_message and handle_reinvite hand the request to the application. *)
SeesRequest(r) ==
    /\ r.method # "BYE" /\ State(Peer(r.by)) = "Confirmed"
    /\ side' = Sees(r, IF r.method = "MESSAGE" THEN SideMoved(Peer(r.by), "Message", "") ELSE side)
    /\ midcall' = [midcall EXCEPT ![r] = "handled"]

(* A re-INVITE that finds the callee unconfirmed is served as a new INVITE,*)
(* which nobody answers.                                                   *)
SeesInvite(r) ==
    /\ r.method = "INVITE" /\ Peer(r.by) = "callee" /\ State("callee") # "Confirmed"
    /\ side' = Sees(r, Restarts)
    /\ midcall' = [midcall EXCEPT ![r] = "ignored"]

(* handle returns without an answer: over UDP another copy follows.        *)
SeesInVain(r) ==
    /\ IF r.method = "BYE" THEN ~TakesBye(r)
       ELSE State(Peer(r.by)) # "Confirmed" /\ (r.method = "MESSAGE" \/ r.by = "callee")
    /\ side' = Sees(r, side)
    /\ midcall' = [midcall EXCEPT ![r] = IF stream THEN "ignored" ELSE @]

(* The caller knows its dialog by the tag of a response.                   *)
KnowsDialog(s) == s = "callee" \/ State(s) \notin {"Calling", "Trying"}

CallArrives(r) ==
    /\ midcall[r] = "sent" /\ KnowsDialog(Peer(r.by))
    /\ \/ SeesOld(r)
       \/ ~IsOld(r) /\ (SeesBye(r) \/ SeesRequest(r) \/ SeesInvite(r) \/ SeesInVain(r))
    /\ UNCHANGED <<stream, uas, serving, posted, wire>>

(***************************************************************************)
(* The application answers, or process_transaction_handle does with 501.   *)
(* A MESSAGE returns the dialog to Confirmed; a re-INVITE answered with a  *)
(* 2xx waits for its ACK.                                                  *)
(***************************************************************************)
MessageFinishes(r) ==
    /\ r.method = "MESSAGE" /\ midcall[r] = "handled"
    /\ midcall' = [midcall EXCEPT ![r] = "answered"]
    /\ Moves(Peer(r.by), "Confirmed")
    /\ UNCHANGED <<stream, uas, serving, posted, wire>>

ReinviteFinishes(r) ==
    /\ r.method = "INVITE" /\ midcall[r] = "handled"
    /\ \E stage \in {"accepted", "answered"} : midcall' = [midcall EXCEPT ![r] = stage]
    /\ UNCHANGED <<stream, side, uas, serving, posted, wire>>

CallReinviteAcked(r) ==
    /\ midcall[r] = "accepted"
    /\ midcall' = [midcall EXCEPT ![r] = "answered"]
    /\ IF Peer(r.by) = "callee" THEN Moves("callee", "Confirmed") ELSE UNCHANGED side
    /\ UNCHANGED <<stream, uas, serving, posted, wire>>

CallReinviteUnacked(r) ==
    /\ ~stream /\ midcall[r] = "accepted"
    /\ EndsWithoutAck(Peer(r.by), [midcall EXCEPT ![r] = "answered"])
    /\ UNCHANGED <<stream, uas, serving, posted, wire>>

(* The BYE of the caller was answered, or its transaction timed out.       *)
HangupReturns ==
    /\ midcall[Hangup("caller")] \in {"answered", "ignored"}
    /\ midcall' = [midcall EXCEPT ![Hangup("caller")] = "done"]
    /\ Terminates("caller", "UacBye")
    /\ UNCHANGED <<stream, uas, serving, posted, wire>>

-----------------------------------------------------------------------------
CallerStep ==
    (\E resp \in wire : CallerHears(resp)) \/ CallerCancels \/ CallerHangsUp \/ HangupReturns

CalleeStep ==
    \/ CalleeRings \/ CalleeAccepts \/ CalleeRejects \/ CalleeServes \/ CalleeHangsUp
    \/ CalleeResponds \/ CalleeTakesCancel \/ CalleeTakesAck \/ CalleeMissesAck
    \/ \E x \in wire : CalleeQueues(x)

MidcallStep(r) ==
    \/ CallSends(r) \/ CallArrives(r) \/ MessageFinishes(r) \/ ReinviteFinishes(r)
    \/ CallReinviteAcked(r) \/ CallReinviteUnacked(r)

CallNext == CallerStep \/ CalleeStep \/ \E r \in AllMidcalls : MidcallStep(r)

(***************************************************************************)
(* Tasks run, handlers are answered by their deadline, and what is on its  *)
(* way arrives.  The applications owe nothing.                             *)
(***************************************************************************)
CallerProgress == \E resp \in wire : CallerHears(resp)

CalleeProgress ==
    \/ CalleeServes \/ CalleeResponds \/ CalleeTakesCancel \/ CalleeTakesAck
    \/ \E x \in wire : CalleeQueues(x)

RequestProgress(r) ==
    \/ CallArrives(r) \/ MessageFinishes(r) \/ ReinviteFinishes(r)

CallSpec ==
    /\ CallInit /\ [][CallNext]_callVars
    /\ WF_callVars(CallerProgress) /\ WF_callVars(CalleeProgress) /\ WF_callVars(HangupReturns)
    /\ \A r \in AllMidcalls : WF_callVars(RequestProgress(r))

-----------------------------------------------------------------------------
(***************************************************************************)
(* A session one side ended ends for the other side too: when the caller   *)
(* ended it, and over UDP when the callee did.  Left out: reject after the *)
(* 2xx, which sends no BYE (server_dialog.rs:292), and a BYE over a stream *)
(* that the caller drops, see ByeTerminates.                               *)
(***************************************************************************)
Established(s) == State(s) \in {"WaitAck", "Confirmed", "Message"}

HangupEndsBoth ==
    \A s \in Sides :
        /\ Ended(s) /\ side[s].why # "UasDecline" /\ Established(Peer(s))
        /\ ~(stream /\ s = "callee")
        ~> Ended(Peer(s))

(***************************************************************************)
(* What client_dialog.rs says of handle (line 566): "`BYE` - Terminates    *)
(* the dialog".                                                            *)
(***************************************************************************)
ByeTerminates == \A s \in Sides : HungUp(s) ~> Ended(Peer(s))
=============================================================================
