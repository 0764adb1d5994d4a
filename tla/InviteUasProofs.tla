-------------------------- MODULE InviteUasProofs --------------------------
(***************************************************************************)
(* Theorems about InviteUas, for every set of calls and requests.          *)
(*                                                                         *)
(* What a step does to the phases is the same for all actions of one kind  *)
(* of task, so Exclusive is proved once per kind; the rest of the          *)
(* invariant is proved action by action.                                   *)
(***************************************************************************)
EXTENDS InviteUas, TLAPS

(***************************************************************************)
(* A step of an application task: on a cooperative executor no other task  *)
(* is between two awaits, before and after it.                             *)
(***************************************************************************)
LEMMA CallExclusion ==
    ASSUME TypeOK, Exclusive, NEW c \in Calls, NEW from \in CallPhase,
           NEW to \in CallPhase, CallStep(c, from, to)
    PROVE  /\ Exclusive'
           /\ call' \in [Calls -> CallPhase]
           /\ call'[c] = to
           /\ ~threads => /\ \A d \in Calls \ {c} : call'[d] = call[d] /\ call[d] \notin CallCut
                          /\ \A r \in Requests : request[r] \notin RequestCut
                          /\ invite \notin InviteCut
<1>1. /\ call' = [call EXCEPT ![c] = to]
      /\ UNCHANGED <<threads, invite, request>>
      /\ CallMay(c)
  BY DEF CallStep
<1>2. /\ call \in [Calls -> CallPhase]
      /\ request \in [Requests -> RequestPhase]
  BY DEF TypeOK
<1>3. \A d \in Calls : call'[d] = IF d = c THEN to ELSE call[d]
  BY <1>1, <1>2
<1>4. ~threads => /\ \A d \in Calls \ {c} : call[d] \notin CallCut
                  /\ \A r \in Requests : request[r] \notin RequestCut
                  /\ invite \notin InviteCut
  BY <1>1 DEF CallMay, CallsCut, RequestsCut
<1>5. Exclusive'
  BY <1>1, <1>3, <1>4 DEF Exclusive, CallsCut, RequestsCut
<1> QED
  BY <1>1, <1>2, <1>3, <1>4, <1>5

(* The same for the task of handle_invite.                                 *)
LEMMA InviteExclusion ==
    ASSUME TypeOK, Exclusive, NEW from \in InvitePhase,
           NEW to \in InvitePhase, InviteStep(from, to)
    PROVE  /\ Exclusive'
           /\ ~threads => /\ \A c \in Calls : call[c] \notin CallCut
                          /\ \A r \in Requests : request[r] \notin RequestCut
<1>1. /\ UNCHANGED <<threads, call, request>>
      /\ InviteMay
  BY DEF InviteStep
<1>2. ~threads => /\ \A c \in Calls : call[c] \notin CallCut
                  /\ \A r \in Requests : request[r] \notin RequestCut
  BY <1>1 DEF InviteMay, CallsCut, RequestsCut
<1> QED
  BY <1>1, <1>2 DEF Exclusive, CallsCut, RequestsCut

(* The same for the handler of a request within the dialog.                *)
LEMMA RequestExclusion ==
    ASSUME TypeOK, Exclusive, NEW r \in Requests, NEW from \in RequestPhase,
           NEW to \in RequestPhase, RequestStep(r, from, to)
    PROVE  /\ Exclusive'
           /\ request' \in [Requests -> RequestPhase]
           /\ request'[r] = to
           /\ ~threads => /\ \A q \in Requests \ {r} : request'[q] = request[q] /\ request[q] \notin RequestCut
                          /\ \A c \in Calls : call[c] \notin CallCut
                          /\ invite \notin InviteCut
<1>1. /\ request' = [request EXCEPT ![r] = to]
      /\ UNCHANGED <<threads, invite, call>>
      /\ RequestMay(r)
  BY DEF RequestStep
<1>2. request \in [Requests -> RequestPhase]
  BY DEF TypeOK
<1>3. \A q \in Requests : request'[q] = IF q = r THEN to ELSE request[q]
  BY <1>1, <1>2
<1>4. ~threads => /\ \A q \in Requests \ {r} : request[q] \notin RequestCut
                  /\ \A c \in Calls : call[c] \notin CallCut
                  /\ invite \notin InviteCut
  BY <1>1 DEF RequestMay, CallsCut, RequestsCut
<1>5. Exclusive'
  BY <1>1, <1>3, <1>4 DEF Exclusive, CallsCut, RequestsCut
<1> QED
  BY <1>1, <1>2, <1>3, <1>4, <1>5

(***************************************************************************)
(* transition to a state other than Terminated, and the three ways to      *)
(* terminate.                                                              *)
(***************************************************************************)
LEMMA TransitionKeeps ==
    ASSUME TypeOK, EndedWell, NEW s \in DialogState \ {"Terminated"}, Transition(s),
           UNCHANGED <<byes, peerBye>>
    PROVE  /\ state' \in DialogState
           /\ reason' = reason
           /\ state' = "Terminated" <=> state = "Terminated"
           /\ EndedWell'
  BY DEF Transition, Ignored, TypeOK, EndedWell, DialogState

(* TerminateFor keeps the reason of the first termination.                 *)
LEMMA TerminationKeeps ==
    ASSUME TypeOK, EndedWell, NEW why \in Reason, TerminateFor(why),
           byes' \in 0 .. 2, peerBye' \in BOOLEAN, byes > 0 => byes' > 0, peerBye => peerBye',
           why = "UacBye" => peerBye',
           why \in {"UasBye", "Timeout"} => byes' > 0
    PROVE  /\ state' = "Terminated"
           /\ reason' \in Reason
           /\ reason # None => reason' = reason
           /\ reason = None => reason' = why
           /\ EndedWell'
  BY DEF TerminateFor, TypeOK, EndedWell, Reason, None

(* A BYE is sent once if the dialog was not terminated.                    *)
LEMMA ByeOnce ==
    ASSUME TypeOK, EndedWell, CooperativeOneTeardown, ~threads => state # "Terminated",
           NEW why \in {"UasBye", "Timeout"}, EndsWithBye(why), UNCHANGED <<threads, peerBye>>
    PROVE  /\ state' = "Terminated"
           /\ byes' \in 0 .. 2
           /\ reason' \in Reason
           /\ reason # None => reason' = reason
           /\ reason = None => reason' = why
           /\ EndedWell'
           /\ CooperativeOneTeardown'
<1>1. byes \in 0 .. 2 /\ byes' \in 1 .. 2 /\ (byes = 0 => byes' = 1)
  BY DEF EndsWithBye, TypeOK
<1>2. TerminateFor(why) /\ peerBye' \in BOOLEAN /\ peerBye' = peerBye
  BY DEF EndsWithBye, TypeOK
<1>3. /\ state' = "Terminated"
      /\ reason' \in Reason
      /\ reason # None => reason' = reason
      /\ reason = None => reason' = why
      /\ EndedWell'
  BY <1>1, <1>2, TerminationKeeps DEF Reason
<1>4. CASE threads
  BY <1>1, <1>3, <1>4 DEF CooperativeOneTeardown
<1>5. CASE ~threads
  <2>1. reason = None
    BY <1>5 DEF EndedWell
  <2>2. byes = 0
    BY <1>5, <2>1 DEF CooperativeOneTeardown, None
  <2> QED
    BY <1>1, <1>3, <2>1, <2>2 DEF CooperativeOneTeardown
<1> QED
  BY <1>1, <1>3, <1>4, <1>5 DEF TypeOK

(***************************************************************************)
(* What an action of each kind of task has to show besides its phases.     *)
(***************************************************************************)
LEMMA CallFrame ==
    ASSUME IInv, NEW c \in Calls, NEW from \in CallPhase, NEW to \in CallPhase,
           CallStep(c, from, to),
           queue' \in Seq(Event), state' \in DialogState, reason' \in Reason \cup {None},
           byes' \in 0 .. 2, EndedWell', CooperativeOneTeardown',
           reason' = "UacCancel" => reason = "UacCancel",
           to = "mayBye" => state' # "Terminated"
    PROVE  IInv'
<1>1. TypeOK /\ Exclusive /\ CancelledUnanswered
  BY DEF IInv
<1>2. UNCHANGED <<threads, tx, unsent, invite, request, answered, acked, peerBye>>
  BY DEF CallStep
<1>3. /\ Exclusive'
      /\ call' \in [Calls -> CallPhase]
      /\ call'[c] = to
      /\ ~threads => /\ \A d \in Calls \ {c} : call'[d] = call[d] /\ call[d] \notin CallCut
                     /\ \A r \in Requests : request[r] \notin RequestCut
                     /\ invite \notin InviteCut
  BY <1>1, CallExclusion
<1>4. TypeOK'
  BY <1>1, <1>2, <1>3 DEF TypeOK
<1>5. CancelledUnanswered'
  BY <1>1, <1>2 DEF CancelledUnanswered, Reading
<1>6. TestedIsOpen'
  BY <1>2, <1>3 DEF TestedIsOpen, CallCut, RequestCut, InviteCut
<1> QED
  BY <1>3, <1>4, <1>5, <1>6 DEF IInv

(* A step of handle_invite that keeps the dialog well keeps the invariant. *)
LEMMA InviteFrame ==
    ASSUME IInv, NEW from \in InvitePhase, NEW to \in InvitePhase, InviteStep(from, to),
           tx' \in TransactionState, unsent' \in Finals \cup {None}, queue' \in Seq(Event),
           answered' \in BOOLEAN, acked' \in BOOLEAN,
           state' \in DialogState, reason' \in Reason \cup {None}, byes' \in 0 .. 2,
           EndedWell', CooperativeOneTeardown', CancelledUnanswered',
           to = "unacked" => state' # "Terminated"
    PROVE  IInv'
<1>1. TypeOK /\ Exclusive
  BY DEF IInv
<1>2. UNCHANGED <<threads, call, request, peerBye>> /\ invite' = to
  BY DEF InviteStep
<1>3. /\ Exclusive'
      /\ ~threads => /\ \A c \in Calls : call[c] \notin CallCut
                     /\ \A r \in Requests : request[r] \notin RequestCut
  BY <1>1, InviteExclusion
<1>4. TypeOK'
  BY <1>1, <1>2 DEF TypeOK
<1>5. TestedIsOpen'
  BY <1>2, <1>3 DEF TestedIsOpen, CallCut, RequestCut
<1> QED
  BY <1>3, <1>4, <1>5 DEF IInv

(* The same for the handler of a request within the dialog.                *)
LEMMA RequestFrame ==
    ASSUME IInv, NEW r \in Requests, NEW from \in RequestPhase, NEW to \in RequestPhase,
           RequestStep(r, from, to),
           state' \in DialogState, reason' \in Reason \cup {None},
           byes' \in 0 .. 2, peerBye' \in BOOLEAN, EndedWell', CooperativeOneTeardown',
           reason' = "UacCancel" => reason = "UacCancel",
           to = "reUnacked" => state' # "Terminated"
    PROVE  IInv'
<1>1. TypeOK /\ Exclusive /\ CancelledUnanswered
  BY DEF IInv
<1>2. UNCHANGED <<threads, tx, unsent, queue, answered, invite, call, acked>>
  BY DEF RequestStep, txVars
<1>3. /\ Exclusive'
      /\ request' \in [Requests -> RequestPhase]
      /\ request'[r] = to
      /\ ~threads => /\ \A q \in Requests \ {r} : request'[q] = request[q] /\ request[q] \notin RequestCut
                     /\ \A c \in Calls : call[c] \notin CallCut
                     /\ invite \notin InviteCut
  BY <1>1, RequestExclusion
<1>4. TypeOK'
  BY <1>1, <1>2, <1>3 DEF TypeOK
<1>5. CancelledUnanswered'
  BY <1>1, <1>2 DEF CancelledUnanswered, Reading
<1>6. TestedIsOpen'
  BY <1>2, <1>3 DEF TestedIsOpen, CallCut, RequestCut, InviteCut
<1> QED
  BY <1>3, <1>4, <1>5, <1>6 DEF IInv

(* A step that leaves the dialog alone keeps what is said about its end,   *)
(* and so does a transition to a state other than Terminated.              *)
LEMMA DialogUntouched ==
    ASSUME IInv, UNCHANGED <<threads, state, reason, byes, peerBye>>
    PROVE  /\ state' \in DialogState
           /\ reason' \in Reason \cup {None}
           /\ byes' \in 0 .. 2
           /\ EndedWell' /\ CooperativeOneTeardown'
  BY DEF IInv, TypeOK, EndedWell, CooperativeOneTeardown

(* Transition to a state other than Terminated keeps how the dialog ended. *)
LEMMA DialogMoved ==
    ASSUME IInv, NEW s \in DialogState \ {"Terminated"}, Transition(s),
           UNCHANGED <<threads, byes, peerBye>>
    PROVE  /\ state' \in DialogState
           /\ reason' = reason /\ reason' \in Reason \cup {None}
           /\ byes' \in 0 .. 2
           /\ EndedWell' /\ CooperativeOneTeardown'
           /\ state' = "Terminated" <=> state = "Terminated"
<1>1. TypeOK /\ EndedWell /\ CooperativeOneTeardown
  BY DEF IInv
<1>2. /\ state' \in DialogState
      /\ reason' = reason
      /\ state' = "Terminated" <=> state = "Terminated"
      /\ EndedWell'
  BY <1>1, TransitionKeeps
<1> QED
  BY <1>1, <1>2 DEF TypeOK, CooperativeOneTeardown

(* A termination without a BYE of this side.                               *)
LEMMA DialogEnded ==
    ASSUME IInv, NEW why \in {"UacCancel", "UacBye", "UasDecline"}, TerminateFor(why),
           UNCHANGED <<threads, byes>>, peerBye' \in BOOLEAN, peerBye => peerBye',
           why = "UacBye" => peerBye'
    PROVE  /\ state' \in DialogState
           /\ reason' \in Reason \cup {None}
           /\ reason' \in {reason, why}
           /\ byes' \in 0 .. 2
           /\ EndedWell' /\ CooperativeOneTeardown'
<1>1. TypeOK /\ EndedWell /\ CooperativeOneTeardown
  BY DEF IInv
<1>2. why \in Reason /\ byes' = byes /\ byes \in 0 .. 2
  BY <1>1 DEF Reason, TypeOK
<1>3. /\ state' = "Terminated"
      /\ reason' \in Reason
      /\ reason # None => reason' = reason
      /\ reason = None => reason' = why
      /\ EndedWell'
  BY <1>1, <1>2, TerminationKeeps
<1>4. CooperativeOneTeardown'
  BY <1>1, <1>2, <1>3 DEF CooperativeOneTeardown, None
<1> QED
  BY <1>2, <1>3, <1>4 DEF DialogState

-----------------------------------------------------------------------------
(***************************************************************************)
(* The actions.                                                            *)
(***************************************************************************)
LEMMA PostTyped ==
    ASSUME TypeOK, NEW r \in Post, Posts(r) \/ CannotPost
    PROVE  queue' \in Seq(Event)
  BY DEF Posts, CannotPost, TypeOK, Event

(* ringing, accept, reject and bye keep the invariant.                     *)
LEMMA CallKeeps ==
    ASSUME IInv, NEW c \in Calls, Application(c)
    PROVE  IInv'
<1> USE DEF CallPhase, CallCut
<1>0. TypeOK /\ queue \in Seq(Event)
  BY DEF IInv, TypeOK
<1>1. CASE RingingTests(c)
  <2>1. CallStep(c, "idle", "mayRing") /\ UNCHANGED <<threads, state, reason, byes, peerBye, queue>>
    BY <1>1 DEF RingingTests, KeepDialog, CallStep
  <2> QED
    BY <1>0, <2>1, DialogUntouched, CallFrame
<1>2. CASE RingingPosts(c)
  <2>1. UNCHANGED <<threads, state, reason, byes, peerBye>>
    BY <1>2 DEF RingingPosts, KeepDialog, CallStep
  <2>2. queue' \in Seq(Event)
    BY <1>0, <1>2, PostTyped DEF RingingPosts, Post
  <2>3. PICK to \in {"rang", "returned"} : CallStep(c, "mayRing", to)
    BY <1>2 DEF RingingPosts
  <2> QED
    BY <2>1, <2>2, <2>3, DialogUntouched, CallFrame
<1>3. CASE RingingMoves(c)
  <2>1. CallStep(c, "rang", "returned") /\ Transition("Early")
        /\ UNCHANGED <<threads, byes, peerBye, queue>>
    BY <1>3 DEF RingingMoves, CallStep
  <2> QED
    BY <1>0, <2>1, DialogMoved, CallFrame DEF DialogState
<1>4. CASE AcceptPosts(c)
  <2>1. UNCHANGED <<threads, state, reason, byes, peerBye>>
    BY <1>4 DEF AcceptPosts, KeepDialog, CallStep
  <2>2. queue' \in Seq(Event)
    BY <1>0, <1>4, PostTyped DEF AcceptPosts, Post
  <2>3. PICK to \in {"accepted", "returned"} : CallStep(c, "idle", to)
    BY <1>4 DEF AcceptPosts
  <2> QED
    BY <2>1, <2>2, <2>3, DialogUntouched, CallFrame
<1>5. CASE AcceptMoves(c)
  <2>1. CallStep(c, "accepted", "returned") /\ Transition("WaitAck")
        /\ UNCHANGED <<threads, byes, peerBye, queue>>
    BY <1>5 DEF AcceptMoves, CallStep
  <2> QED
    BY <1>0, <2>1, DialogMoved, CallFrame DEF DialogState
<1>6. CASE RejectTests(c)
  <2>1. CallStep(c, "idle", "mayReject") /\ UNCHANGED <<threads, state, reason, byes, peerBye, queue>>
    BY <1>6 DEF RejectTests, KeepDialog, CallStep
  <2> QED
    BY <1>0, <2>1, DialogUntouched, CallFrame
<1>7. CASE RejectPosts(c)
  <2>1. CallStep(c, "mayReject", "rejected") /\ UNCHANGED <<threads, state, reason, byes, peerBye>>
    BY <1>7 DEF RejectPosts, KeepDialog, CallStep
  <2>2. queue' \in Seq(Event)
    BY <1>0, <1>7, PostTyped DEF RejectPosts, Post
  <2> QED
    BY <2>1, <2>2, DialogUntouched, CallFrame
<1>8. CASE RejectMoves(c)
  <2>1. CallStep(c, "rejected", "returned") /\ TerminateFor("UasDecline")
        /\ UNCHANGED <<threads, byes, peerBye, queue>>
    BY <1>8 DEF RejectMoves, CallStep
  <2>2. peerBye' \in BOOLEAN
    BY <1>0, <2>1 DEF TypeOK
  <2> QED
    BY <1>0, <2>1, <2>2, DialogEnded, CallFrame
<1>9. CASE ByeTests(c)
  <2>1. CallStep(c, "idle", "mayBye") /\ UNCHANGED <<threads, state, reason, byes, peerBye, queue>>
    BY <1>9 DEF ByeTests, KeepDialog, CallStep
  <2>2. state # "Terminated"
    BY <1>9 DEF ByeTests
  <2> QED
    BY <1>0, <2>1, <2>2, DialogUntouched, CallFrame
<1>10. CASE ByeEnds(c)
  <2>1. CallStep(c, "mayBye", "returned") /\ EndsWithBye("UasBye")
        /\ UNCHANGED <<threads, peerBye, queue>>
    BY <1>10 DEF ByeEnds, CallStep
  <2>2. ~threads => state # "Terminated"
    BY <2>1 DEF IInv, TestedIsOpen, CallStep
  <2>3. /\ state' = "Terminated" /\ byes' \in 0 .. 2 /\ reason' \in Reason
        /\ reason' \in {reason, "UasBye"}
        /\ EndedWell' /\ CooperativeOneTeardown'
    BY <2>1, <2>2, ByeOnce DEF IInv
  <2> QED
    BY <1>0, <2>1, <2>3, CallFrame DEF DialogState
<1> QED
  BY <1>1, <1>2, <1>3, <1>4, <1>5, <1>6, <1>7, <1>8, <1>9, <1>10 DEF Application

(* The handlers of the requests within the dialog keep the invariant.      *)
LEMMA RequestKeeps ==
    ASSUME IInv, NEW r \in Requests, HandleRequest(r)
    PROVE  IInv'
<1> USE DEF RequestPhase, RequestCut
<1>0. TypeOK
  BY DEF IInv
<1>1. CASE HandlesBye(r)
  <2>1. RequestStep(r, "idle", "handled") /\ TerminateFor("UacBye")
        /\ peerBye' = TRUE /\ UNCHANGED <<threads, byes>>
    BY <1>1 DEF HandlesBye, RequestStep
  <2>2. /\ state' \in DialogState /\ reason' \in Reason \cup {None}
        /\ reason' \in {reason, "UacBye"} /\ byes' \in 0 .. 2
        /\ EndedWell' /\ CooperativeOneTeardown'
    BY <2>1, DialogEnded
  <2> QED
    BY <2>1, <2>2, RequestFrame
<1>2. CASE Dispatches(r)
  <2>1. UNCHANGED <<threads, state, reason, byes, peerBye>>
    BY <1>2 DEF Dispatches, KeepDialog, RequestStep
  <2>2. PICK m \in {"event", "isMessage", "reinvite"} : RequestStep(r, "idle", m)
    BY <1>2 DEF Dispatches
  <2>3. peerBye' \in BOOLEAN
    BY <1>0, <2>1 DEF TypeOK
  <2> QED
    BY <2>1, <2>2, <2>3, DialogUntouched, RequestFrame
<1>3. CASE EntersMessage(r)
  <2>1. RequestStep(r, "isMessage", "message") /\ Transition("Message")
        /\ UNCHANGED <<threads, byes, peerBye>>
    BY <1>3 DEF EntersMessage, RequestStep
  <2>2. peerBye' \in BOOLEAN
    BY <1>0, <2>1 DEF TypeOK
  <2> QED
    BY <2>1, <2>2, DialogMoved, RequestFrame DEF DialogState
<1>4. CASE Returns(r)
  <2>1. Transition("Confirmed") /\ UNCHANGED <<threads, byes, peerBye>>
    BY <1>4 DEF Returns, RequestStep
  <2>2. PICK m \in {"event", "message"} : RequestStep(r, m, "handled")
    BY <1>4 DEF Returns
  <2>3. peerBye' \in BOOLEAN
    BY <1>0, <2>1 DEF TypeOK
  <2> QED
    BY <2>1, <2>2, <2>3, DialogMoved, RequestFrame DEF DialogState
<1>5. CASE AnswersReinvite(r)
  <2>1. UNCHANGED <<threads, state, reason, byes, peerBye>>
    BY <1>5 DEF AnswersReinvite, KeepDialog, RequestStep
  <2>2. PICK m \in {"reAccepted", "reRefused", "handled"} : RequestStep(r, "reinvite", m)
    BY <1>5 DEF AnswersReinvite
  <2>3. peerBye' \in BOOLEAN
    BY <1>0, <2>1 DEF TypeOK
  <2> QED
    BY <2>1, <2>2, <2>3, DialogUntouched, RequestFrame
<1>6. CASE ReinviteAcked(r)
  <2>1. Transition("Confirmed") /\ UNCHANGED <<threads, byes, peerBye>>
    BY <1>6 DEF ReinviteAcked, RequestStep
  <2>2. PICK m \in {"reAccepted", "reRefused"} : RequestStep(r, m, "handled")
    BY <1>6 DEF ReinviteAcked
  <2>3. peerBye' \in BOOLEAN
    BY <1>0, <2>1 DEF TypeOK
  <2> QED
    BY <2>1, <2>2, <2>3, DialogMoved, RequestFrame DEF DialogState
<1>7. CASE ReinviteDeadline(r)
  <2>1. UNCHANGED <<threads, state, reason, byes, peerBye>>
    BY <1>7 DEF ReinviteDeadline, KeepDialog, RequestStep
  <2>2. PICK from \in {"reAccepted", "reRefused"}, to \in {"handled", "reUnacked"} :
            /\ RequestStep(r, from, to)
            /\ to = "reUnacked" => state # "Terminated"
    BY <1>7 DEF ReinviteDeadline
  <2>3. peerBye' \in BOOLEAN
    BY <1>0, <2>1 DEF TypeOK
  <2> QED
    BY <2>1, <2>2, <2>3, DialogUntouched, RequestFrame
<1>8. CASE ReinviteUnacked(r)
  <2>1. RequestStep(r, "reUnacked", "handled") /\ EndsWithBye("Timeout")
        /\ UNCHANGED <<threads, peerBye>>
    BY <1>8 DEF ReinviteUnacked, RequestStep
  <2>2. ~threads => state # "Terminated"
    BY <2>1 DEF IInv, TestedIsOpen, RequestStep
  <2>3. /\ state' = "Terminated" /\ byes' \in 0 .. 2 /\ reason' \in Reason
        /\ reason' \in {reason, "Timeout"}
        /\ EndedWell' /\ CooperativeOneTeardown'
    BY <2>1, <2>2, ByeOnce DEF IInv
  <2>4. peerBye' \in BOOLEAN
    BY <1>0, <2>1 DEF TypeOK
  <2> QED
    BY <2>1, <2>3, <2>4, RequestFrame DEF DialogState
<1> QED
  BY <1>1, <1>2, <1>3, <1>4, <1>5, <1>6, <1>7, <1>8 DEF HandleRequest

(***************************************************************************)
(* respond: what is sent was allowed by can_transition, so an answer that  *)
(* is on the wire has moved the transaction past the states of a CANCEL.   *)
(***************************************************************************)
LEMMA RespondKeeps ==
    ASSUME TypeOK, answered => tx \in {"Accepted", "Terminated"},
           NEW r \in Finals \cup {"Ringing"}, Responds(r)
    PROVE  /\ tx' \in TransactionState
           /\ unsent' \in Finals \cup {None}
           /\ answered' \in BOOLEAN
           /\ answered' => tx' \in {"Accepted", "Terminated"}
<1>1. StateAfter(r) \in TransactionState
  BY DEF StateAfter, TransactionState
<1>2. CASE /\ CanTransition(tx, StateAfter(r))
           /\ tx' = StateAfter(r)
           /\ unsent' = None
           /\ answered' = (answered \/ r = "OK")
  <2>1. CASE answered
    <3>1. StateAfter(r) \in {"Accepted", "Terminated"}
      BY <1>2, <2>1 DEF CanTransition, AllowedFrom
    <3> QED
      BY <1>1, <1>2, <2>1, <3>1
  <2>2. CASE ~answered
    <3>1. r = "OK" => StateAfter(r) = "Accepted"
      BY DEF StateAfter, Successful
    <3> QED
      BY <1>1, <1>2, <2>2, <3>1
  <2> QED
    BY <2>1, <2>2 DEF TypeOK
<1>3. CASE UNCHANGED <<tx, answered>> /\ unsent' \in Finals \cup {None}
  BY <1>3 DEF TypeOK
<1> QED
  BY <1>2, <1>3 DEF Responds, TypeOK

(* Taking an event leaves a channel of events.                             *)
LEMMA TakeTyped ==
    ASSUME TypeOK, NEW e, Takes(e)
    PROVE  queue' \in Seq(Event)
  BY DEF TypeOK, Takes

(* handle_invite and end_session_without_ack keep the invariant.           *)
LEMMA InviteKeeps ==
    ASSUME IInv, HandleInvite
    PROVE  IInv'
<1> USE DEF InvitePhase, InviteCut
<1>0. TypeOK /\ CancelledUnanswered
  BY DEF IInv
<1>1. CASE Starts
  <2>1. /\ InviteStep("spawned", "starting") \/ InviteStep("spawned", "receiving")
        /\ UNCHANGED <<threads, state, reason, byes, peerBye, tx, unsent, queue, answered, acked>>
    BY <1>1 DEF Starts, KeepDialog, InviteStep, txVars
  <2>2. CancelledUnanswered'
    BY <1>0, <2>1 DEF CancelledUnanswered, InviteStep, Reading
  <2>3. PICK to \in {"starting", "receiving"} : InviteStep("spawned", to)
    BY <2>1
  <2> QED
    BY <1>0, <2>1, <2>2, <2>3, DialogUntouched, InviteFrame DEF TypeOK
<1>2. CASE NotifiesCalling
  <2>1. /\ InviteStep("starting", "receiving") /\ Transition("Calling")
        /\ UNCHANGED <<threads, byes, peerBye, tx, unsent, queue, answered, acked>>
    BY <1>2 DEF NotifiesCalling, InviteStep, txVars
  <2>2. CancelledUnanswered'
    BY <1>0, <2>1 DEF CancelledUnanswered, InviteStep, Reading, Transition
  <2> QED
    BY <1>0, <2>1, <2>2, DialogMoved, InviteFrame DEF TypeOK, DialogState
<1>3. ASSUME NEW r \in Post, ReceivesRespond(r) PROVE IInv'
  <2>1. /\ InviteStep("receiving", "receiving") /\ Takes(r) /\ Responds(r)
        /\ UNCHANGED <<threads, state, reason, byes, peerBye, acked>>
    BY <1>3 DEF ReceivesRespond, KeepDialog, InviteStep
  <2>2. /\ tx' \in TransactionState /\ unsent' \in Finals \cup {None}
        /\ answered' \in BOOLEAN /\ (answered' => tx' \in {"Accepted", "Terminated"})
    BY <1>0, <2>1, RespondKeeps DEF CancelledUnanswered, Post, Rejection, Finals, Successful, Failure
  <2>3. CancelledUnanswered'
    BY <1>0, <2>1, <2>2 DEF CancelledUnanswered, InviteStep, Reading
  <2> QED
    BY <1>0, <2>1, <2>2, <2>3, TakeTyped, DialogUntouched, InviteFrame DEF TypeOK
<1>4. ASSUME NEW e \in {"INVITE", "CANCEL", "ACK"}, ReceivesInternal(e) PROVE IInv'
  <2>1. /\ InviteStep("receiving", "receiving") /\ Takes(e)
        /\ UNCHANGED <<threads, state, reason, byes, peerBye, acked>>
    BY <1>4 DEF ReceivesInternal, KeepDialog, InviteStep
  <2>2. /\ tx' \in TransactionState /\ unsent' \in Finals \cup {None}
        /\ answered' \in BOOLEAN /\ (answered' => tx' \in {"Accepted", "Terminated"})
    <3>1. CASE UNCHANGED <<tx, unsent, answered>>
      BY <1>0, <3>1 DEF CancelledUnanswered, TypeOK
    <3>2. CASE unsent # None /\ Responds(unsent)
      BY <1>0, <3>2, RespondKeeps DEF CancelledUnanswered, TypeOK
    <3> QED
      BY <1>4, <3>1, <3>2 DEF ReceivesInternal
  <2>3. CancelledUnanswered'
    BY <1>0, <2>1, <2>2 DEF CancelledUnanswered, InviteStep, Reading
  <2> QED
    BY <1>0, <2>1, <2>2, <2>3, TakeTyped, DialogUntouched, InviteFrame DEF TypeOK
<1>5. CASE ReceivesCancel
  <2>1. /\ Takes("CANCEL") /\ ~answered
        /\ UNCHANGED <<threads, state, reason, byes, peerBye, answered, acked>>
    BY <1>0, <1>5 DEF ReceivesCancel, KeepDialog, InviteStep, CancelReaches, Early, CancelledUnanswered
  <2>2. PICK to \in {"cancelled", "done"} : InviteStep("receiving", to)
    BY <1>5 DEF ReceivesCancel
  <2>3. tx' \in TransactionState /\ unsent' \in Finals \cup {None}
    BY <1>0, <1>5 DEF ReceivesCancel, TransactionState, TypeOK
  <2>4. CancelledUnanswered'
    BY <1>0, <2>1, <2>2 DEF CancelledUnanswered, InviteStep, Reading
  <2> QED
    BY <1>0, <2>1, <2>2, <2>3, <2>4, TakeTyped, DialogUntouched, InviteFrame DEF TypeOK
<1>6. CASE CancelMoves
  <2>1. /\ InviteStep("cancelled", "left") /\ TerminateFor("UacCancel")
        /\ UNCHANGED <<threads, byes, peerBye, tx, unsent, queue, answered, acked>>
    BY <1>6 DEF CancelMoves, InviteStep, txVars
  <2>2. peerBye' \in BOOLEAN
    BY <1>0, <2>1 DEF TypeOK
  <2>3. CancelledUnanswered'
    BY <1>0, <2>1 DEF CancelledUnanswered, InviteStep, Reading
  <2> QED
    BY <1>0, <2>1, <2>2, <2>3, DialogEnded, InviteFrame DEF TypeOK
<1>7. CASE ReceivesAck
  <2>1. /\ InviteStep("receiving", "left") /\ Transition("Confirmed") /\ Takes("ACK")
        /\ UNCHANGED <<threads, byes, peerBye, unsent, answered>>
        /\ tx' \in {"Terminated", "Confirmed"} /\ acked' \in {acked, TRUE}
        /\ (tx' = "Confirmed" => tx = "Completed")
    BY <1>7 DEF ReceivesAck, InviteStep
  <2>2. CancelledUnanswered'
    BY <1>0, <2>1 DEF CancelledUnanswered, InviteStep, Reading, Transition
  <2> QED
    BY <1>0, <2>1, <2>2, TakeTyped, DialogMoved, InviteFrame DEF TypeOK, DialogState, TransactionState
<1>8. CASE EndsSession
  <2>1. /\ queue' = <<>>
        /\ UNCHANGED <<threads, state, reason, byes, peerBye, tx, unsent, answered, acked>>
    BY <1>8 DEF EndsSession, KeepDialog, InviteStep
  <2>2. PICK to \in {"unacked", "done"} :
            InviteStep("left", to) /\ (to = "unacked" => state # "Terminated")
    BY <1>8 DEF EndsSession
  <2>3. CancelledUnanswered'
    BY <1>0, <2>1, <2>2 DEF CancelledUnanswered, InviteStep, Reading
  <2>4. queue' \in Seq(Event)
    BY <2>1
  <2> QED
    BY <1>0, <2>1, <2>2, <2>3, <2>4, DialogUntouched, InviteFrame DEF TypeOK
<1>9. CASE EndsUnacked
  <2>1. /\ InviteStep("unacked", "done") /\ EndsWithBye("Timeout")
        /\ UNCHANGED <<threads, peerBye, tx, unsent, queue, answered, acked>>
    BY <1>9 DEF EndsUnacked, InviteStep, txVars
  <2>2. ~threads => state # "Terminated"
    BY <2>1 DEF IInv, TestedIsOpen, InviteStep
  <2>3. /\ state' = "Terminated" /\ byes' \in 0 .. 2 /\ reason' \in Reason
        /\ reason' \in {reason, "Timeout"}
        /\ EndedWell' /\ CooperativeOneTeardown'
    BY <2>1, <2>2, ByeOnce DEF IInv
  <2>4. CancelledUnanswered'
    BY <1>0, <2>1, <2>3 DEF CancelledUnanswered, InviteStep, Reading
  <2> QED
    BY <1>0, <2>1, <2>3, <2>4, InviteFrame DEF TypeOK, DialogState
<1> QED
  BY <1>1, <1>2, <1>3, <1>4, <1>5, <1>6, <1>7, <1>8, <1>9 DEF HandleInvite

(* Timer D or L keeps the invariant.                                       *)
LEMMA DeadlineKeeps ==
    ASSUME IInv, Deadline
    PROVE  IInv'
<1>1. TypeOK /\ CancelledUnanswered
  BY DEF IInv
<1>2. /\ InviteStep("receiving", "left") /\ tx' = "Terminated"
      /\ UNCHANGED <<threads, state, reason, byes, peerBye, unsent, queue, answered, acked>>
  BY DEF Deadline, KeepDialog, InviteStep
<1>3. CancelledUnanswered'
  BY <1>1, <1>2 DEF CancelledUnanswered, InviteStep, Reading
<1> QED
  BY <1>1, <1>2, <1>3, DialogUntouched, InviteFrame DEF TypeOK, TransactionState, InvitePhase, InviteCut

(* A message of the peer for the INVITE transaction keeps the invariant.   *)
LEMMA ArrivalKeeps ==
    ASSUME IInv, NEW e \in {"INVITE", "CANCEL", "ACK"}, Arrives(e)
    PROVE  IInv'
<1>1. /\ queue' = Append(queue, e)
      /\ UNCHANGED <<threads, state, reason, tx, unsent, invite, call, request,
                     answered, acked, byes, peerBye>>
  BY DEF Arrives
<1>2. TypeOK'
  BY <1>1 DEF IInv, TypeOK, Event
<1> QED
  BY <1>1, <1>2 DEF IInv, EndedWell, CancelledUnanswered, Reading, Exclusive,
                    CallsCut, RequestsCut, TestedIsOpen, CooperativeOneTeardown

(* So does a step that changes nothing.                                    *)
LEMMA StutterKeeps ==
    ASSUME IInv, UNCHANGED vars
    PROVE  IInv'
  BY DEF vars, IInv, TypeOK, EndedWell, CancelledUnanswered, Reading, Exclusive,
         CallsCut, RequestsCut, TestedIsOpen, CooperativeOneTeardown

(***************************************************************************)
(* The inductive invariant.                                                *)
(***************************************************************************)
LEMMA InitHolds ==
    ASSUME Init
    PROVE  IInv
<1>1. TypeOK
  <2>1. queue \in Seq(Event)
    BY DEF Init
  <2>2. call \in [Calls -> CallPhase] /\ request \in [Requests -> RequestPhase]
    BY DEF Init, CallPhase, RequestPhase
  <2>3. threads \in BOOLEAN
    BY UasAssumption DEF Init
  <2>4. /\ state \in DialogState /\ tx \in TransactionState /\ invite \in InvitePhase
        /\ reason \in Reason \cup {None} /\ unsent \in Finals \cup {None}
    BY DEF Init, DialogState, TransactionState, InvitePhase
  <2>5. answered \in BOOLEAN /\ acked \in BOOLEAN /\ peerBye \in BOOLEAN
    BY Zenon DEF Init
  <2>6. byes \in 0 .. 2
    BY DEF Init
  <2> QED
    BY <2>1, <2>2, <2>3, <2>4, <2>5, <2>6 DEF TypeOK
<1>2. Exclusive /\ TestedIsOpen
  BY DEF Init, Exclusive, TestedIsOpen, CallsCut, RequestsCut, CallCut, RequestCut, InviteCut
<1> QED
  BY <1>1, <1>2 DEF Init, IInv, EndedWell, CancelledUnanswered, CooperativeOneTeardown, None

(* IInv holds whatever the calls, the peer and the executor do.            *)
THEOREM InvariantHolds == Spec => []IInv
<1>1. Init => IInv
  BY InitHolds
<1>2. IInv /\ [Next]_vars => IInv'
  <2> SUFFICES ASSUME IInv, [Next]_vars
               PROVE  IInv'
    OBVIOUS
  <2> QED
    BY CallKeeps, ArrivalKeeps, InviteKeeps, DeadlineKeeps, RequestKeeps, StutterKeeps DEF Next
<1> QED
  BY <1>1, <1>2, PTL DEF Spec

(***************************************************************************)
(* A dialog that ended although its INVITE was answered 2xx has ended the  *)
(* peer's session too: end_session_without_ack, send_bye and handle_bye    *)
(* are the only ways to end it, reject apart, since a CANCEL is handed     *)
(* over only while nothing was answered.  On any executor.                 *)
(***************************************************************************)
THEOREM SessionEnds == Spec => []AnsweredSessionIsEnded
<1>1. IInv => AnsweredSessionIsEnded
  BY DEF IInv, TypeOK, EndedWell, CancelledUnanswered, AnsweredSessionIsEnded, Reason
<1> QED
  BY <1>1, InvariantHolds, PTL

(***************************************************************************)
(* bye_with_headers and end_session_without_ack test the state before they *)
(* move it.  When no task is interrupted between the two, one BYE is sent. *)
(***************************************************************************)
THEOREM OneTeardown == Spec => []CooperativeOneTeardown
<1>1. IInv => CooperativeOneTeardown
  BY DEF IInv
<1> QED
  BY <1>1, InvariantHolds, PTL

-----------------------------------------------------------------------------
(***************************************************************************)
(* An established dialog was acknowledged.                                 *)
(***************************************************************************)
(* Whether the channel of the INVITE transaction holds an event.           *)
Queued(e) == \E i \in 1 .. Len(queue) : queue[i] = e

(* A rejection that was posted, stored or sent ended the dialog, or its    *)
(* task is about to: so the ACK of a failure confirms no dialog.           *)
Rejecting == Queued(Rejection) \/ unsent = Rejection \/ (Reading /\ tx = "Completed")

RejectionEnds == Rejecting => state = "Terminated" \/ \E c \in Calls : call[c] = "rejected"

(* The ACK of the 2xx is of a 2xx that was sent.                           *)
AckOfAnswer ==
    /\ unsent \in {None, "OK", Rejection}
    /\ tx = "Accepted" => answered
    /\ acked => answered

(* On a cooperative executor a request the dialog handles, a BYE apart,    *)
(* found it established.                                                   *)
HandledAfterAck ==
    ~threads => \A r \in Requests : request[r] \notin {"idle", "handled"} => answered /\ acked

AckInv == RejectionEnds /\ AckOfAnswer /\ HandledAfterAck /\ CooperativeConfirmedIsAcked

(* What a post adds to the channel, and what a take removes from it.       *)
LEMMA AppendQueued ==
    ASSUME queue \in Seq(Event), NEW r \in Event, queue' = Append(queue, r)
    PROVE  Queued(Rejection)' => Queued(Rejection) \/ r = Rejection
<1> SUFFICES ASSUME Queued(Rejection)' PROVE Queued(Rejection) \/ r = Rejection
  OBVIOUS
<1>1. PICK i \in 1 .. Len(queue') : queue'[i] = Rejection
  BY DEF Queued
<1>2. i \in 1 .. Len(queue) \/ i = Len(queue) + 1
  BY <1>1
<1>3. CASE i \in 1 .. Len(queue)
  BY <1>1, <1>3 DEF Queued
<1>4. CASE i = Len(queue) + 1
  BY <1>1, <1>4
<1> QED
  BY <1>2, <1>3, <1>4

(* What is taken was queued, and nothing is queued by it.                  *)
LEMMA TakeQueued ==
    ASSUME queue \in Seq(Event), NEW e, Takes(e)
    PROVE  Queued(e) /\ (Queued(Rejection)' => Queued(Rejection))
<1>1. queue # <<>> /\ Head(queue) = e /\ queue' = Tail(queue)
  BY DEF Takes
<1>2. 1 \in 1 .. Len(queue) /\ queue[1] = e
  BY <1>1
<1>3. ASSUME NEW i \in 1 .. Len(queue') PROVE i + 1 \in 1 .. Len(queue) /\ queue'[i] = queue[i + 1]
  BY <1>1
<1> QED
  BY <1>2, <1>3 DEF Queued

(***************************************************************************)
(* What an action of each kind of task has to show for AckInv.             *)
(***************************************************************************)
LEMMA CallAckFrame ==
    ASSUME IInv, AckInv, NEW c \in Calls, NEW from \in CallPhase, NEW to \in CallPhase,
           CallStep(c, from, to),
           from = "rejected" => state' = "Terminated",
           Queued(Rejection)' => Queued(Rejection) \/ to = "rejected",
           state = "Terminated" => state' = "Terminated",
           state' \in {"Confirmed", "Message"} => state' = state
    PROVE  AckInv'
<1>1. /\ UNCHANGED <<threads, tx, unsent, invite, request, answered, acked>>
      /\ call' = [call EXCEPT ![c] = to] /\ call[c] = from
  BY DEF CallStep
<1>2. \A d \in Calls : call'[d] = IF d = c THEN to ELSE call[d]
  BY <1>1 DEF IInv, TypeOK
<1>3. RejectionEnds'
  <2> SUFFICES ASSUME Rejecting' PROVE state' = "Terminated" \/ \E d \in Calls : call'[d] = "rejected"
    BY DEF RejectionEnds
  <2>1. CASE Rejecting
    <3>1. state = "Terminated" \/ \E d \in Calls : call[d] = "rejected"
      BY <2>1 DEF AckInv, RejectionEnds
    <3> QED
      BY <1>1, <1>2, <3>1
  <2>2. CASE to = "rejected"
    BY <1>2, <2>2
  <2> QED
    BY <1>1, <2>1, <2>2 DEF Rejecting, Reading
<1>4. AckOfAnswer' /\ HandledAfterAck'
  BY <1>1 DEF AckInv, AckOfAnswer, HandledAfterAck
<1>5. CooperativeConfirmedIsAcked'
  BY <1>1 DEF AckInv, CooperativeConfirmedIsAcked
<1> QED
  BY <1>3, <1>4, <1>5 DEF AckInv

(* The same for the task of handle_invite.                                 *)
LEMMA InviteAckFrame ==
    ASSUME IInv, AckInv, UNCHANGED <<threads, call, request>>,
           Rejecting' => Rejecting, AckOfAnswer',
           answered => answered', acked => acked',
           state = "Terminated" => state' = "Terminated",
           ~threads /\ state' \in {"Confirmed", "Message"} => state' = state \/ (answered' /\ acked')
    PROVE  AckInv'
<1>1. RejectionEnds'
  BY DEF AckInv, RejectionEnds
<1>2. HandledAfterAck'
  BY DEF AckInv, HandledAfterAck
<1>3. CooperativeConfirmedIsAcked'
  BY DEF AckInv, CooperativeConfirmedIsAcked
<1> QED
  BY <1>1, <1>2, <1>3 DEF AckInv

(* The same for the handler of a request within the dialog.                *)
LEMMA RequestAckFrame ==
    ASSUME IInv, AckInv, NEW r \in Requests, NEW from \in RequestPhase, NEW to \in RequestPhase,
           RequestStep(r, from, to),
           state = "Terminated" => state' = "Terminated",
           state' \in {"Confirmed", "Message"} => state' = state \/ from \notin {"idle", "handled"},
           from = "idle" => to = "handled" \/ state = "Confirmed",
           from # "handled"
    PROVE  AckInv'
<1>1. /\ UNCHANGED <<threads, tx, unsent, queue, answered, invite, call, acked>>
      /\ request' = [request EXCEPT ![r] = to] /\ request[r] = from
  BY DEF RequestStep, txVars
<1>2. \A q \in Requests : request'[q] = IF q = r THEN to ELSE request[q]
  BY <1>1 DEF IInv, TypeOK
<1>3. RejectionEnds' /\ AckOfAnswer'
  BY <1>1 DEF AckInv, RejectionEnds, Rejecting, Queued, Reading, AckOfAnswer
<1>4. ~threads /\ from \notin {"idle", "handled"} => answered /\ acked
  BY <1>1 DEF AckInv, HandledAfterAck
<1>5. ~threads /\ state = "Confirmed" => answered /\ acked
  BY DEF AckInv, CooperativeConfirmedIsAcked
<1>6. HandledAfterAck'
  BY <1>1, <1>2, <1>4, <1>5 DEF AckInv, HandledAfterAck
<1>7. CooperativeConfirmedIsAcked'
  BY <1>1, <1>4 DEF AckInv, CooperativeConfirmedIsAcked
<1> QED
  BY <1>3, <1>6, <1>7 DEF AckInv

(* The calls of the application establish no dialog, and only a rejection  *)
(* that ends it posts one.                                                 *)
LEMMA CallAcks ==
    ASSUME IInv, AckInv, NEW c \in Calls, Application(c)
    PROVE  AckInv'
<1> USE DEF CallPhase, CallCut, KeepDialog
<1>0. queue \in Seq(Event)
  BY DEF IInv, TypeOK
<1>1. ASSUME NEW r \in Post, Posts(r) \/ CannotPost
      PROVE  Queued(Rejection)' => Queued(Rejection) \/ (r = Rejection /\ Posts(r))
  <2>1. CASE queue' = queue
    BY <2>1 DEF Queued
  <2>2. CASE Posts(r) /\ queue' = Append(queue, r)
    BY <1>0, <2>2, AppendQueued DEF Event
  <2> QED
    BY <1>1, <2>1, <2>2 DEF Posts, CannotPost
<1>2. queue' = queue => (Queued(Rejection)' => Queued(Rejection))
  BY DEF Queued
<1>3. CASE RingingTests(c)
  BY <1>2, <1>3, CallAckFrame DEF RingingTests
<1>4. CASE RingingPosts(c)
  <2>1. PICK to \in {"rang", "returned"} : CallStep(c, "mayRing", to)
    BY <1>4 DEF RingingPosts
  <2>2. Queued(Rejection)' => Queued(Rejection)
    BY <1>1, <1>4 DEF RingingPosts, Post, Rejection
  <2> QED
    BY <1>4, <2>1, <2>2, CallAckFrame DEF RingingPosts
<1>5. CASE RingingMoves(c)
  BY <1>2, <1>5, CallAckFrame DEF RingingMoves, Transition, Ignored
<1>6. CASE AcceptPosts(c)
  <2>1. PICK to \in {"accepted", "returned"} : CallStep(c, "idle", to)
    BY <1>6 DEF AcceptPosts
  <2>2. Queued(Rejection)' => Queued(Rejection)
    BY <1>1, <1>6 DEF AcceptPosts, Post, Rejection
  <2> QED
    BY <1>6, <2>1, <2>2, CallAckFrame DEF AcceptPosts
<1>7. CASE AcceptMoves(c)
  BY <1>2, <1>7, CallAckFrame DEF AcceptMoves, Transition, Ignored
<1>8. CASE RejectTests(c)
  BY <1>2, <1>8, CallAckFrame DEF RejectTests
<1>9. CASE RejectPosts(c)
  BY <1>9, CallAckFrame DEF RejectPosts
<1>10. CASE RejectMoves(c)
  BY <1>2, <1>10, CallAckFrame DEF RejectMoves, TerminateFor
<1>11. CASE ByeTests(c)
  BY <1>2, <1>11, CallAckFrame DEF ByeTests
<1>12. CASE ByeEnds(c)
  BY <1>2, <1>12, CallAckFrame DEF ByeEnds, EndsWithBye, TerminateFor
<1> QED
  BY <1>3, <1>4, <1>5, <1>6, <1>7, <1>8, <1>9, <1>10, <1>11, <1>12 DEF Application

(* respond sends a rejection only if it was asked to, and what makes the   *)
(* transaction Accepted is the 2xx.                                        *)
LEMMA RespondAcks ==
    ASSUME TypeOK, AckOfAnswer, NEW r \in Post, Responds(r), acked' = acked
    PROVE  /\ AckOfAnswer'
           /\ answered => answered'
           /\ unsent' = Rejection => unsent = Rejection \/ r = Rejection
           /\ tx' = "Completed" => tx = "Completed" \/ r = Rejection
  BY DEF AckOfAnswer, Responds, StateAfter, Post, Rejection, Successful, Finals, Failure, TypeOK, None

(* The task of the INVITE confirms the dialog when the 2xx was             *)
(* acknowledged: the ACK of a rejection finds it terminated.               *)
LEMMA InviteAcks ==
    ASSUME IInv, AckInv, HandleInvite
    PROVE  AckInv'
<1> USE DEF KeepDialog
<1>0. TypeOK /\ queue \in Seq(Event) /\ AckOfAnswer
  BY DEF IInv, TypeOK, AckInv
<1>1. CASE Starts
  <2>1. UNCHANGED <<threads, call, request, state, tx, unsent, queue, answered, acked>> /\ (Reading' => Reading)
    BY <1>1 DEF Starts, InviteStep, txVars, Reading
  <2>2. Rejecting' => Rejecting
    BY <2>1 DEF Rejecting, Queued
  <2> QED
    BY <1>0, <2>1, <2>2, InviteAckFrame DEF AckOfAnswer
<1>2. CASE NotifiesCalling
  <2>1. /\ UNCHANGED <<threads, call, request, tx, unsent, queue, answered, acked>> /\ (Reading' => Reading)
        /\ Transition("Calling")
    BY <1>2 DEF NotifiesCalling, InviteStep, txVars, Reading
  <2>2. Rejecting' => Rejecting
    BY <2>1 DEF Rejecting, Queued
  <2> QED
    BY <1>0, <2>1, <2>2, InviteAckFrame DEF AckOfAnswer, Transition, Ignored
<1>3. ASSUME NEW r \in Post, ReceivesRespond(r) PROVE AckInv'
  <2>1. /\ UNCHANGED <<threads, call, request, state, acked>> /\ Reading /\ Takes(r) /\ Responds(r)
    BY <1>3 DEF ReceivesRespond, InviteStep, Reading
  <2>2. /\ AckOfAnswer' /\ (answered => answered')
        /\ unsent' = Rejection => unsent = Rejection \/ r = Rejection
        /\ tx' = "Completed" => tx = "Completed" \/ r = Rejection
    BY <1>0, <2>1, RespondAcks
  <2>3. Queued(r) /\ (Queued(Rejection)' => Queued(Rejection))
    BY <1>0, <2>1, TakeQueued
  <2>4. Rejecting' => Rejecting
    BY <2>1, <2>2, <2>3 DEF Rejecting
  <2> QED
    BY <2>1, <2>2, <2>4, InviteAckFrame
<1>4. ASSUME NEW e \in {"INVITE", "CANCEL", "ACK"}, ReceivesInternal(e) PROVE AckInv'
  <2>1. /\ UNCHANGED <<threads, call, request, state, acked>> /\ Reading /\ Takes(e)
    BY <1>4 DEF ReceivesInternal, InviteStep, Reading
  <2>2. Queued(Rejection)' => Queued(Rejection)
    BY <1>0, <2>1, TakeQueued
  <2>3. CASE UNCHANGED <<tx, unsent, answered>>
    <3>1. Rejecting' => Rejecting
      BY <2>1, <2>2, <2>3 DEF Rejecting
    <3> QED
      BY <1>0, <2>1, <2>3, <3>1, InviteAckFrame DEF AckOfAnswer
  <2>4. CASE unsent # None /\ Responds(unsent)
    <3>1. unsent \in Post
      BY <1>0, <2>4 DEF AckOfAnswer, Post
    <3>2. /\ AckOfAnswer' /\ (answered => answered')
          /\ unsent' = Rejection => unsent = Rejection
          /\ tx' = "Completed" => tx = "Completed" \/ unsent = Rejection
      BY <1>0, <2>1, <2>4, <3>1, RespondAcks
    <3>3. Rejecting' => Rejecting
      BY <2>1, <2>2, <3>2 DEF Rejecting
    <3> QED
      BY <2>1, <3>2, <3>3, InviteAckFrame
  <2> QED
    BY <1>4, <2>3, <2>4 DEF ReceivesInternal
<1>5. CASE ReceivesCancel
  <2>1. /\ UNCHANGED <<threads, call, request, state, answered, acked>> /\ Takes("CANCEL")
        /\ ~Reading'
        /\ unsent' \in {None, unsent} /\ (tx' = "Completed" \/ tx' = tx)
    BY <1>5 DEF ReceivesCancel, InviteStep, Reading
  <2>2. Rejecting' => Rejecting
    BY <1>0, <2>1, TakeQueued DEF Rejecting, None, Rejection
  <2>3. AckOfAnswer'
    BY <1>0, <2>1 DEF AckOfAnswer
  <2> QED
    BY <2>1, <2>2, <2>3, InviteAckFrame
<1>6. CASE CancelMoves
  <2>1. /\ UNCHANGED <<threads, call, request, tx, unsent, queue, answered, acked>> /\ ~Reading'
        /\ state' = "Terminated"
    BY <1>6 DEF CancelMoves, InviteStep, txVars, Reading, TerminateFor
  <2>2. Rejecting' => Rejecting
    BY <2>1 DEF Rejecting, Queued
  <2> QED
    BY <1>0, <2>1, <2>2, InviteAckFrame DEF AckOfAnswer
<1>7. CASE ReceivesAck
  <2>1. /\ UNCHANGED <<threads, call, request, unsent, answered>> /\ Takes("ACK") /\ Reading /\ ~Reading'
        /\ Transition("Confirmed") /\ InviteMay
    BY <1>7 DEF ReceivesAck, InviteStep, Reading
  <2>2. (tx = "Accepted" /\ tx' = "Terminated" /\ acked') \/ (tx = "Completed" /\ tx' = "Confirmed" /\ acked' = acked)
    BY <1>7 DEF ReceivesAck
  <2>3. Rejecting' => Rejecting
    BY <1>0, <2>1, TakeQueued DEF Rejecting
  <2>4. AckOfAnswer' /\ (acked => acked')
    BY <1>0, <2>1, <2>2 DEF AckOfAnswer
  <2>5. CASE tx = "Accepted"
    BY <1>0, <2>1, <2>2, <2>3, <2>4, <2>5, InviteAckFrame DEF AckOfAnswer, Transition, Ignored
  <2>6. CASE tx = "Completed" /\ ~threads
    <3>1. state = "Terminated"
      BY <2>1, <2>6 DEF AckInv, RejectionEnds, Rejecting, InviteMay, CallsCut, CallCut
    <3> QED
      BY <2>1, <2>3, <2>4, <3>1, InviteAckFrame DEF Transition, Ignored
  <2>7. CASE threads
    BY <2>1, <2>3, <2>4, <2>7, InviteAckFrame DEF Transition, Ignored
  <2> QED
    BY <2>2, <2>5, <2>6, <2>7
<1>8. CASE EndsSession
  <2>1. /\ UNCHANGED <<threads, call, request, state, tx, unsent, answered, acked>> /\ queue' = <<>> /\ ~Reading'
    BY <1>8 DEF EndsSession, InviteStep, Reading
  <2>2. ~Queued(Rejection)'
    BY <2>1 DEF Queued
  <2>3. Rejecting' => Rejecting
    BY <2>1, <2>2 DEF Rejecting
  <2> QED
    BY <1>0, <2>1, <2>3, InviteAckFrame DEF AckOfAnswer
<1>9. CASE EndsUnacked
  <2>1. /\ UNCHANGED <<threads, call, request, tx, unsent, queue, answered, acked>> /\ ~Reading'
        /\ state' = "Terminated"
    BY <1>9 DEF EndsUnacked, EndsWithBye, InviteStep, txVars, Reading, TerminateFor
  <2>2. Rejecting' => Rejecting
    BY <2>1 DEF Rejecting, Queued
  <2> QED
    BY <1>0, <2>1, <2>2, InviteAckFrame DEF AckOfAnswer
<1> QED
  BY <1>1, <1>2, <1>3, <1>4, <1>5, <1>6, <1>7, <1>8, <1>9 DEF HandleInvite

(* Timer D or L, and what the peer sends, establish nothing.               *)
LEMMA OutsideAcks ==
    ASSUME IInv, AckInv, Deadline \/ \E e \in {"INVITE", "CANCEL", "ACK"} : Arrives(e)
    PROVE  AckInv'
<1>0. queue \in Seq(Event) /\ AckOfAnswer
  BY DEF IInv, TypeOK, AckInv
<1>1. CASE Deadline
  <2>1. /\ UNCHANGED <<threads, call, request, state, unsent, queue, answered, acked>> /\ ~Reading'
        /\ tx' = "Terminated"
    BY <1>1 DEF Deadline, InviteStep, KeepDialog, Reading
  <2>2. Rejecting' => Rejecting
    BY <2>1 DEF Rejecting, Queued
  <2> QED
    BY <1>0, <2>1, <2>2, InviteAckFrame DEF AckOfAnswer
<1>2. ASSUME NEW e \in {"INVITE", "CANCEL", "ACK"}, Arrives(e) PROVE AckInv'
  <2>1. /\ UNCHANGED <<threads, call, request, state, tx, unsent, invite, answered, acked>>
        /\ queue' = Append(queue, e) /\ e \in Event /\ e # Rejection
    BY <1>2 DEF Arrives, Event, Rejection
  <2>2. Rejecting' => Rejecting
    BY <1>0, <2>1, AppendQueued DEF Rejecting, Reading
  <2> QED
    BY <1>0, <2>1, <2>2, InviteAckFrame DEF AckOfAnswer
<1> QED
  BY <1>1, <1>2

(* A request that sets the dialog Confirmed again found it so.             *)
LEMMA RequestAcks ==
    ASSUME IInv, AckInv, NEW r \in Requests, HandleRequest(r)
    PROVE  AckInv'
<1> USE DEF RequestPhase, RequestCut, KeepDialog
<1>1. CASE HandlesBye(r)
  BY <1>1, RequestAckFrame DEF HandlesBye, TerminateFor
<1>2. CASE Dispatches(r)
  <2>1. PICK m \in {"event", "isMessage", "reinvite"} : RequestStep(r, "idle", m)
    BY <1>2 DEF Dispatches
  <2> QED
    BY <1>2, <2>1, RequestAckFrame DEF Dispatches
<1>3. CASE EntersMessage(r)
  BY <1>3, RequestAckFrame DEF EntersMessage, Transition, Ignored
<1>4. CASE Returns(r)
  <2>1. PICK m \in {"event", "message"} : RequestStep(r, m, "handled")
    BY <1>4 DEF Returns
  <2> QED
    BY <1>4, <2>1, RequestAckFrame DEF Returns, Transition, Ignored
<1>5. CASE AnswersReinvite(r)
  <2>1. PICK to \in {"reAccepted", "reRefused", "handled"} : RequestStep(r, "reinvite", to)
    BY <1>5 DEF AnswersReinvite
  <2> QED
    BY <1>5, <2>1, RequestAckFrame DEF AnswersReinvite
<1>6. CASE ReinviteAcked(r)
  <2>1. PICK from \in {"reAccepted", "reRefused"} : RequestStep(r, from, "handled")
    BY <1>6 DEF ReinviteAcked
  <2> QED
    BY <1>6, <2>1, RequestAckFrame DEF ReinviteAcked, Transition, Ignored
<1>7. CASE ReinviteDeadline(r)
  <2>1. PICK from \in {"reAccepted", "reRefused"}, to \in {"handled", "reUnacked"} : RequestStep(r, from, to)
    BY <1>7 DEF ReinviteDeadline
  <2> QED
    BY <1>7, <2>1, RequestAckFrame DEF ReinviteDeadline
<1>8. CASE ReinviteUnacked(r)
  BY <1>8, RequestAckFrame DEF ReinviteUnacked, EndsWithBye, TerminateFor
<1> QED
  BY <1>1, <1>2, <1>3, <1>4, <1>5, <1>6, <1>7, <1>8 DEF HandleRequest

(***************************************************************************)
(* On a cooperative executor a dialog is Confirmed, or handles a MESSAGE,  *)
(* only after the ACK of its 2xx: neither the ACK of a rejection nor a     *)
(* request that returns to Confirmed makes one that was not acknowledged.  *)
(***************************************************************************)
THEOREM ConfirmedIsAcked == Spec => []CooperativeConfirmedIsAcked
<1>1. Init => AckInv
  <2> SUFFICES ASSUME Init PROVE AckInv
    OBVIOUS
  <2>1. ~Rejecting
    BY DEF Init, Rejecting, Queued, None, Rejection
  <2> QED
    BY <2>1 DEF Init, AckInv, RejectionEnds, AckOfAnswer, HandledAfterAck, CooperativeConfirmedIsAcked
<1>2. IInv /\ AckInv /\ [Next]_vars => AckInv'
  <2> SUFFICES ASSUME IInv, AckInv, [Next]_vars PROVE AckInv'
    OBVIOUS
  <2>1. CASE Next
    BY <2>1, CallAcks, InviteAcks, OutsideAcks, RequestAcks DEF Next
  <2>2. CASE UNCHANGED vars
    BY <2>2 DEF vars, AckInv, RejectionEnds, Rejecting, Queued, Reading, AckOfAnswer,
                HandledAfterAck, CooperativeConfirmedIsAcked
  <2> QED
    BY <2>1, <2>2
<1>3. AckInv => CooperativeConfirmedIsAcked
  BY DEF AckInv
<1> QED
  BY <1>1, <1>2, <1>3, InvariantHolds, PTL DEF Spec

=============================================================================
