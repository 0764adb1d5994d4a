----------------------------- MODULE InviteUac -----------------------------
(***************************************************************************)
(* The UAC half of an INVITE (invitation.rs, invite_dialog.rs, dialog.rs): *)
(* do_invite with its guard and do_invite_async, process_invite with its   *)
(* PRACKs and its one retry with credentials, the drainer of the accepted  *)
(* transaction, the task that cancels an abandoned INVITE, and the         *)
(* application's cancel, hangup and DialogGuard.                           *)
(*                                                                         *)
(* The callee may fork: every fork that answers 2xx has a session, which   *)
(* the UAC acknowledges as soon as its transaction takes the 2xx.          *)
(* ClientTransaction says how the transaction itself behaves; here it is   *)
(* reduced to what it gives its user.  The network loses, repeats and      *)
(* reorders: a response can be taken any time after it was sent, or never. *)
(***************************************************************************)
EXTENDS Naturals

CONSTANTS Forks,  \* branches of the callee
          Apps,   \* application tasks, one method call each
          NoFork

VARIABLES
    guarded,     \* do_invite, whose future may be dropped; else do_invite_async
    credential,  \* the dialog has a credential
    taking,      \* applications end the dialog with take_dialog or DialogGuard
    pc,          \* where the INVITE's task is
    guard,       \* where the task of the dropped guard is
    dropped,     \* where do_invite was when its future was dropped, or "no"
    app,         \* where each application task is
    state,       \* DialogInner.state
    reason,      \* its TerminatedReason
    attempt,     \* which INVITE is running: 1, or 2 with credentials
    named,       \* the INVITE initial_request holds, the one a CANCEL names
    tx,          \* the client transaction of the running INVITE
    entry,       \* what the registry holds for the dialog
    confirmed,   \* the fork of dialog_id, NoFork before the 2xx
    seen,        \* the drainer's seen_forks
    peer,        \* each fork: "invited" or "up"
    refusal,     \* the failure the callee gave the running INVITE
    acked,       \* history: forks whose 2xx was acknowledged
    byes,        \* history: BYEs given to a transaction, by fork (2 = several)
    provisional, \* history: attempts with a provisional response
    cancelled,   \* history: attempts a CANCEL named
    peerBye      \* history: the peer's BYE was handled

setting  == <<guarded, credential, taking>>
dialog   == <<state, reason>>
callee   == <<peer, refusal>>
history  == <<acked, byes, provisional, cancelled, peerBye>>
vars == <<setting, pc, guard, dropped, app, dialog, attempt, named, tx, entry, confirmed,
          seen, callee, history>>

Failure == {"Busy", "Challenge"}

TypeOK ==
    /\ guarded \in BOOLEAN /\ credential \in BOOLEAN /\ taking \in BOOLEAN
    /\ pc \in {"sending", "receiving", "pracking", "resending", "draining", "ending", "done"}
    /\ guard \in {"idle", "first", "race", "last", "bye", "done"}
    /\ dropped \in {"no", "sending", "receiving", "pracking", "resending"}
    /\ app \in [Apps -> {"idle", "cancelling", "taken", "byeing", "returned"}]
    /\ state \in {"Calling", "Trying", "Early", "Confirmed", "Terminated"}
    /\ reason \in {"None", "UacCancel", "UacBye", "UasBye", "UasOther", "ProxyAuthRequired"}
    /\ attempt \in 1 .. 2 /\ named \in 1 .. attempt
    /\ tx \in {"Nothing", "Calling", "Proceeding", "Accepted", "Ended", "Dropped"}
    /\ entry \in {"early", "confirmed", "none"}
    /\ confirmed \in Forks \cup {NoFork}
    /\ seen \subseteq Forks
    /\ peer \in [Forks -> {"invited", "up"}]
    /\ refusal \in Failure \cup {"None"}
    /\ acked \subseteq Forks
    /\ byes \in [Forks -> 0 .. 2]
    /\ provisional \subseteq 1 .. 2 /\ cancelled \subseteq 1 .. 2
    /\ peerBye \in BOOLEAN

(* create_client_invite_dialog, and the early entry of do_invite.          *)
Init ==
    /\ guarded \in BOOLEAN /\ credential \in BOOLEAN /\ taking \in BOOLEAN
    /\ pc = "sending" /\ guard = "idle" /\ dropped = "no" /\ app = [a \in Apps |-> "idle"]
    /\ state = "Calling" /\ reason = "None"
    /\ attempt = 1 /\ named = 1 /\ tx = "Nothing"
    /\ entry = "early" /\ confirmed = NoFork /\ seen = {}
    /\ peer = [f \in Forks |-> "invited"] /\ refusal = "None"
    /\ acked = {} /\ byes = [f \in Forks |-> 0]
    /\ provisional = {} /\ cancelled = {} /\ peerBye = FALSE

-----------------------------------------------------------------------------
(***************************************************************************)
(* The callee.  It answers the INVITE it has; a failure only when no fork  *)
(* answered 2xx, a challenge only the first time or again with refused     *)
(* credentials.                                                            *)
(***************************************************************************)
OnWire == tx \in {"Calling", "Proceeding", "Accepted", "Ended", "Dropped"}

CalleeStep ==
    UNCHANGED <<setting, pc, guard, dropped, app, dialog, attempt, named, tx, entry, confirmed,
                seen, history>>

Answers(f) ==
    /\ OnWire /\ refusal = "None" /\ peer[f] = "invited"
    /\ peer' = [peer EXCEPT ![f] = "up"]
    /\ UNCHANGED refusal
    /\ CalleeStep

Refuses ==
    /\ OnWire /\ refusal = "None" /\ \A f \in Forks : peer[f] = "invited"
    /\ refusal' \in Failure
    /\ UNCHANGED peer
    /\ CalleeStep

(* A CANCEL that arrives before any final response of the INVITE it names. *)
HearsCancel ==
    /\ attempt \in cancelled
    /\ OnWire /\ refusal = "None" /\ \A f \in Forks : peer[f] = "invited"
    /\ refusal' = "Busy"
    /\ UNCHANGED peer
    /\ CalleeStep

-----------------------------------------------------------------------------
(***************************************************************************)
(* What Transaction::receive gives its user.                               *)
(***************************************************************************)
Waiting == tx \in {"Calling", "Proceeding"}

TakesProvisional ==
    /\ Waiting
    /\ tx' = "Proceeding"
    /\ provisional' = provisional \cup {attempt}
    /\ UNCHANGED acked

(* A 2xx, acknowledged before it is handed over. *)
TakesSuccess(f) ==
    /\ tx \in {"Calling", "Proceeding", "Accepted"}
    /\ peer[f] = "up"
    /\ tx' = "Accepted"
    /\ acked' = acked \cup {f}
    /\ UNCHANGED provisional

(* A failure of the callee, or the 408 of Timers B and C.                  *)
TakesFailure(k) ==
    /\ Waiting
    /\ k = refusal \/ k = "Busy"
    /\ tx' = "Ended"
    /\ UNCHANGED <<acked, provisional>>

TimerM == tx = "Accepted" /\ tx' = "Ended" /\ UNCHANGED <<acked, provisional>>

KeepTx == UNCHANGED <<tx, acked, provisional>>

-----------------------------------------------------------------------------
(***************************************************************************)
(* DialogInner::transition.                                                *)
(***************************************************************************)
Transition(s) ==
    /\ state' = IF state = "Terminated" THEN state ELSE s
    /\ UNCHANGED reason

TerminateFor(why) ==
    /\ state' = "Terminated"
    /\ reason' = IF state = "Terminated" THEN reason ELSE why

SendsBye(f) == byes' = [byes EXCEPT ![f] = IF @ = 2 THEN 2 ELSE @ + 1]

-----------------------------------------------------------------------------
(***************************************************************************)
(* process_invite, and what do_invite does with its result.                *)
(***************************************************************************)
InviteStep(from, to) ==
    /\ pc = from
    /\ pc' = to
    /\ UNCHANGED <<setting, guard, dropped, app, cancelled, peerBye, callee>>

(* The first send: it fails, or the transaction runs.                      *)
Sends ==
    /\ \/ InviteStep("sending", "receiving") /\ tx' = "Calling" /\ UNCHANGED entry
       \/ InviteStep("sending", "done") /\ tx' = "Dropped" /\ entry' = "none"
    /\ UNCHANGED <<dialog, attempt, named, confirmed, seen, acked, provisional, byes>>

ReceivesTrying ==
    /\ InviteStep("receiving", "receiving")
    /\ TakesProvisional
    /\ Transition("Trying")
    /\ UNCHANGED <<attempt, named, entry, confirmed, seen, byes>>

(* handle_provisional_response: a reliable one is first PRACKed.           *)
ReceivesRinging ==
    /\ TakesProvisional
    /\ \/ InviteStep("receiving", "receiving") /\ Transition("Early")
       \/ InviteStep("receiving", "pracking") /\ UNCHANGED dialog
    /\ UNCHANGED <<attempt, named, entry, confirmed, seen, byes>>

PrackDone ==
    /\ \/ /\ InviteStep("pracking", "receiving")
          /\ Transition("Early") \/ TerminateFor("ProxyAuthRequired")
          /\ UNCHANGED <<tx, entry>>
       \/ /\ InviteStep("pracking", "done")
          /\ UNCHANGED dialog
          /\ tx' = "Dropped" /\ entry' = "none"
    /\ UNCHANGED <<attempt, named, confirmed, seen, acked, provisional, byes>>

(* The first challenge, with a credential: a new INVITE takes the place of *)
(* the transaction before it is sent.                                      *)
ReceivesChallenge ==
    /\ attempt = 1 /\ credential
    /\ InviteStep("receiving", "resending")
    /\ Waiting /\ refusal = "Challenge"
    /\ tx' = "Nothing" /\ attempt' = 2
    /\ UNCHANGED <<dialog, named, entry, confirmed, seen, acked, provisional, byes>>

(* initial_request follows once the send has returned; the dialog's state  *)
(* is still that of the first INVITE.                                      *)
Resends ==
    /\ \/ InviteStep("resending", "receiving") /\ named' = attempt /\ UNCHANGED <<tx, entry>>
          /\ tx # "Nothing"
       \/ InviteStep("resending", "done") /\ tx' = "Dropped" /\ entry' = "none" /\ UNCHANGED named
    /\ UNCHANGED <<dialog, attempt, confirmed, seen, acked, provisional, byes>>

(* The bytes leave while send is still awaited.                            *)
ResendWrites ==
    /\ InviteStep("resending", "resending")
    /\ tx = "Nothing" /\ tx' = "Calling"
    /\ UNCHANGED <<dialog, attempt, named, entry, confirmed, seen, acked, provisional, byes>>

ReceivesFailure ==
    /\ InviteStep("receiving", "done")
    /\ \/ TakesFailure("Busy") /\ TerminateFor("UasOther")
       \/ /\ attempt = 2 \/ ~credential
          /\ TakesFailure("Challenge") /\ TerminateFor("ProxyAuthRequired")
    /\ entry' = "none"
    /\ UNCHANGED <<attempt, named, confirmed, seen, byes>>

(* Confirmed, the early entry removed, the confirmed one inserted, the     *)
(* drainer spawned.                                                        *)
ReceivesSuccess(f) ==
    /\ InviteStep("receiving", "draining")
    /\ TakesSuccess(f)
    /\ Transition("Confirmed")
    /\ confirmed' = f
    /\ entry' = "confirmed"
    /\ UNCHANGED <<attempt, named, seen, byes>>

(* end_forked_branch: the 2xx of another fork is ended with one BYE, which *)
(* is awaited.                                                             *)
IsExtra(f) == f # confirmed /\ f \notin seen

Drains(f) ==
    /\ TakesSuccess(f)
    /\ IF IsExtra(f)
       THEN InviteStep("draining", "ending") /\ seen' = seen \cup {f} /\ SendsBye(f)
       ELSE InviteStep("draining", "draining") /\ UNCHANGED <<seen, byes>>
    /\ UNCHANGED <<dialog, attempt, named, entry, confirmed>>

BranchEnded ==
    /\ InviteStep("ending", "draining")
    /\ KeepTx
    /\ UNCHANGED <<dialog, attempt, named, entry, confirmed, seen, byes>>

Drained ==
    /\ InviteStep("draining", "done")
    /\ TimerM
    /\ UNCHANGED <<dialog, attempt, named, entry, confirmed, seen, byes>>

Invite ==
    \/ Sends \/ ReceivesTrying \/ ReceivesRinging \/ PrackDone
    \/ ReceivesChallenge \/ Resends \/ ResendWrites \/ ReceivesFailure
    \/ \E f \in Forks : ReceivesSuccess(f) \/ Drains(f)
    \/ BranchEnded \/ Drained

-----------------------------------------------------------------------------
(***************************************************************************)
(* The future of do_invite is dropped at an await: DialogGuardFor-         *)
(* Unconfirmed removes the entry and gives the transaction to a task.      *)
(***************************************************************************)
Abandons ==
    /\ guarded
    /\ pc \in {"sending", "receiving", "pracking", "resending"}
    /\ dropped' = pc /\ pc' = "done" /\ entry' = "none"
    /\ CASE state = "Terminated" -> /\ guard' = "done" /\ tx' = "Dropped"
                                    /\ UNCHANGED dialog
         [] state = "Calling" -> /\ guard' = "first" /\ TerminateFor("UacCancel")
                                 /\ UNCHANGED tx
         [] OTHER -> guard' = "race" /\ UNCHANGED <<tx, dialog>>
    /\ UNCHANGED <<setting, app, attempt, named, confirmed, seen, callee, history>>

GuardStep(from, to) ==
    /\ guard = from
    /\ guard' = to
    /\ UNCHANGED <<setting, pc, dropped, app, attempt, named, entry, seen, callee, peerBye>>

(* A dialog in Calling: the first response within 64*T1; a provisional one *)
(* is answered with the CANCEL.                                            *)
\* Faulty variant: whatever comes first ends the wait for good.
FirstProvisionalForgets ==
    /\ GuardStep("first", "done")
    /\ TakesProvisional
    /\ UNCHANGED <<dialog, confirmed, byes, cancelled>>

FirstProvisional ==
    /\ GuardStep("first", "race")
    /\ TakesProvisional
    /\ UNCHANGED <<dialog, confirmed, byes, cancelled>>

FirstFinal ==
    /\ \/ \E k \in Failure : TakesFailure(k) /\ GuardStep("first", "done") /\ UNCHANGED confirmed
       \/ \E f \in Forks : TakesSuccess(f) /\ GuardStep("first", "bye") /\ confirmed' = f
    /\ UNCHANGED <<dialog, byes, cancelled>>

\* Faulty variant: the first response is awaited without a limit.
NeverTimesOut ==
    /\ GuardStep("first", "done") /\ tx = "Dropped"
    /\ KeepTx /\ UNCHANGED <<dialog, confirmed, byes, cancelled>>

FirstTimesOut ==
    /\ GuardStep("first", "done")
    /\ tx' = "Dropped"
    /\ UNCHANGED <<dialog, confirmed, acked, provisional, byes, cancelled>>

(* The CANCEL names what initial_request holds.  Its transaction and the   *)
(* INVITE's are raced for two seconds.                                     *)
RaceCancels ==
    /\ named \notin cancelled
    /\ GuardStep("race", "race")
    /\ cancelled' = cancelled \cup {named}
    /\ KeepTx
    /\ UNCHANGED <<dialog, confirmed, byes>>

RaceProvisional ==
    /\ GuardStep("race", "race")
    /\ TakesProvisional
    /\ UNCHANGED <<dialog, confirmed, byes, cancelled>>

(* A final response ends the race and makes further waiting unnecessary.   *)
RaceFinal ==
    /\ TerminateFor("UacCancel")
    /\ \/ \E k \in Failure : TakesFailure(k) /\ GuardStep("race", "done") /\ UNCHANGED confirmed
       \/ \E f \in Forks : TakesSuccess(f) /\ GuardStep("race", "bye") /\ confirmed' = f
    /\ UNCHANGED <<byes, cancelled>>

(* Two seconds are over, or the CANCEL failed.  The CANCEL was polled      *)
(* first, so it was given to its transaction.                              *)
RaceEnds ==
    /\ named \in cancelled
    /\ GuardStep("race", "last")
    /\ TerminateFor("UacCancel")
    /\ KeepTx /\ UNCHANGED <<confirmed, byes, cancelled>>

(* wait_response for the final one, then the transaction is dropped.       *)
LastProvisional ==
    /\ GuardStep("last", "last")
    /\ TakesProvisional
    /\ UNCHANGED <<dialog, confirmed, byes, cancelled>>

LastFinal ==
    /\ \/ \E k \in Failure : TakesFailure(k) /\ GuardStep("last", "done") /\ UNCHANGED confirmed
       \/ \E f \in Forks : TakesSuccess(f) /\ GuardStep("last", "bye") /\ confirmed' = f
    /\ UNCHANGED <<dialog, byes, cancelled>>

LastTimesOut ==
    /\ GuardStep("last", "done")
    /\ tx' = "Dropped"
    /\ UNCHANGED <<dialog, confirmed, acked, provisional, byes, cancelled>>

(* drop(invite_tx), then bye_if_2xx.                                       *)
\* Faulty variant: the 2xx that crossed the CANCEL is only acknowledged.
ByeOfNothing ==
    /\ GuardStep("bye", "done")
    /\ tx' = "Dropped"
    /\ UNCHANGED <<dialog, confirmed, acked, provisional, byes, cancelled>>

ByeIf2xx ==
    /\ GuardStep("bye", "done")
    /\ tx' = "Dropped"
    /\ SendsBye(confirmed)
    /\ UNCHANGED <<dialog, confirmed, acked, provisional, cancelled>>

Guard ==
    \/ FirstProvisional \/ FirstFinal \/ FirstTimesOut
    \/ RaceCancels \/ RaceProvisional \/ RaceFinal \/ RaceEnds
    \/ LastProvisional \/ LastFinal \/ LastTimesOut \/ ByeIf2xx

-----------------------------------------------------------------------------
(***************************************************************************)
(* The application, and the peer's BYE.                                    *)
(***************************************************************************)
AppStep(a, from, to) ==
    /\ app[a] = from
    /\ app' = [app EXCEPT ![a] = to]
    /\ UNCHANGED <<setting, pc, guard, dropped, attempt, named, tx, confirmed, seen, callee,
                   acked, provisional, peerBye>>

(* cancel, and hangup while the dialog can be cancelled.                   *)
Cancels(a) ==
    /\ state \in {"Trying", "Early"}
    /\ AppStep(a, "idle", "cancelling")
    /\ cancelled' = cancelled \cup {named}
    /\ UNCHANGED <<dialog, entry, byes>>

(* Its response, 2xx or not, moves nothing.                                *)
CancelReturns(a) ==
    /\ AppStep(a, "cancelling", "returned")
    /\ UNCHANGED <<dialog, entry, byes, cancelled>>

(* take_dialog, or a DialogGuard that is dropped: the dialog is hung up by *)
(* whoever removed it.                                                     *)
\* Faulty variant: get_dialog, then remove_dialog.
TakesShared(a) ==
    /\ taking
    /\ entry \in {"confirmed", "none"} /\ confirmed # NoFork
    /\ AppStep(a, "idle", "taken")
    /\ entry' = "none"
    /\ UNCHANGED <<dialog, byes, cancelled>>

Takes(a) ==
    /\ taking
    /\ entry = "confirmed"
    /\ AppStep(a, "idle", "taken")
    /\ entry' = "none"
    /\ UNCHANGED <<dialog, byes, cancelled>>

(* bye_with_headers: Confirmed, and the BYE is sent before the dialog is   *)
(* terminated.                                                             *)
HangsUp(a) ==
    /\ state = "Confirmed"
    /\ \/ taking /\ AppStep(a, "taken", "byeing")
       \/ ~taking /\ AppStep(a, "idle", "byeing")
    /\ SendsBye(confirmed)
    /\ UNCHANGED <<dialog, entry, cancelled>>

(* A terminated dialog: silent.                                            *)
HangsUpNothing(a) ==
    /\ state = "Terminated"
    /\ AppStep(a, "taken", "returned")
    /\ UNCHANGED <<dialog, entry, byes, cancelled>>

ByeReturns(a) ==
    /\ AppStep(a, "byeing", "returned")
    /\ TerminateFor("UacBye")
    /\ UNCHANGED <<entry, byes, cancelled>>

Application(a) ==
    \/ Cancels(a) \/ CancelReturns(a) \/ Takes(a)
    \/ HangsUp(a) \/ HangsUpNothing(a) \/ ByeReturns(a)

(* handle_bye, when the registry finds the dialog by the tags of the BYE.  *)
PeerByes ==
    /\ entry = "confirmed" /\ ~peerBye
    /\ TerminateFor("UasBye")
    /\ peerBye' = TRUE
    /\ UNCHANGED <<setting, pc, guard, dropped, app, attempt, named, tx, entry, confirmed, seen,
                   callee, acked, byes, provisional, cancelled>>

-----------------------------------------------------------------------------
Next ==
    \/ \E f \in Forks : Answers(f)
    \/ Refuses \/ HearsCancel
    \/ Invite \/ Abandons \/ Guard
    \/ \E a \in Apps : Application(a)
    \/ PeerByes

Spec == Init /\ [][Next]_vars

(* The task of a dropped guard runs, and each of its waits has a limit.    *)
(* No response is certain, nor that the transaction's own timers end it.   *)
Fairness ==
    /\ WF_vars(RaceCancels \/ ByeIf2xx)
    /\ WF_vars(FirstTimesOut) /\ WF_vars(RaceEnds) /\ WF_vars(LastTimesOut)

FairSpec == Spec /\ Fairness

-----------------------------------------------------------------------------
(***************************************************************************)
(* Safety.                                                                 *)
(***************************************************************************)
Settled == pc = "done" /\ guard \in {"idle", "done"}

(* No session is left behind: once the tasks of the INVITE have ended,     *)
(* every fork whose 2xx was acknowledged is the dialog's, or was sent a    *)
(* BYE, or ended the dialog itself.  Not when a challenge to a PRACK       *)
(* terminated the dialog before its 2xx.                                   *)
AcknowledgedIsOwned ==
    Settled /\ reason # "ProxyAuthRequired" =>
        \A f \in acked :
            \/ byes[f] > 0
            \/ f = confirmed /\ (state = "Confirmed" \/ peerBye)

(* However often a 2xx is repeated and however many tasks want to end the  *)
(* dialog, a session is sent one BYE, provided the tasks take the dialog   *)
(* out of the registry first.                                              *)
OneByePerSession == taking => \A f \in Forks : byes[f] <= 1

(* An abandoned INVITE that rings is cancelled or its final response is    *)
(* taken.  Not when it was abandoned while the INVITE with credentials was *)
(* being sent, which initial_request does not hold yet, nor as said below. *)
IsCancelled ==
    guard = "done" /\ attempt \in provisional /\ reason = "UacCancel" =>
        attempt \in cancelled \/ tx = "Ended" \/ acked # {}

AbandonedIsCancelled == dropped \notin {"pracking", "resending"} => IsCancelled

(* invitation.rs: "a Calling dialog ends now, its INVITE is CANCELed once  *)
(* a provisional arrives": the reliable one whose PRACK is awaited has     *)
(* arrived, and the dialog is still Calling.                               *)
CallingIsCancelled == dropped # "resending" => IsCancelled

(***************************************************************************)
(* Liveness: an abandoned INVITE ends, whatever is lost and wherever the   *)
(* future was dropped.                                                     *)
(***************************************************************************)
AbandonedSettles == dropped # "no" ~> Settled
=============================================================================
