-------------------------- MODULE InviteUacProofs --------------------------
(***************************************************************************)
(* The safety of InviteUac for every set of forks and of application       *)
(* tasks.                                                                  *)
(*                                                                         *)
(* None of the three properties is inductive.  What they need besides is   *)
(* who is responsible for the fork of the dialog at each moment: nobody    *)
(* before its 2xx (Answered), then the dialog, the task of the dropped     *)
(* guard or the application that took it out of the registry (Ending,      *)
(* Holder), while the drainer answers for the other forks (Branches); and  *)
(* for an abandoned INVITE what the guard's task has learnt so far         *)
(* (Cancelling).                                                           *)
(***************************************************************************)
EXTENDS InviteUac, TLAPS

Awaiting == {"sending", "receiving", "pracking", "resending"}
Waits    == {"first", "race", "last"}

(* The guard's task runs once the future is gone; a dialog has a reason    *)
(* when it is terminated.                                                  *)
Phases ==
    /\ guard = "idle" <=> dropped = "no"
    /\ guard # "idle" => pc = "done"
    /\ state = "Terminated" <=> reason # "None"
    /\ pc \in Awaiting /\ state = "Terminated" => reason = "ProxyAuthRequired"

(* An application holds the dialog, or awaits the BYE it sent.             *)
HeldByApp == \E a \in Apps : app[a] \in {"taken", "byeing"}

(* Whoever waits for the final has acknowledged none; the drainer has, and *)
(* so has a dialog that is Confirmed, in the registry or with a task.      *)
Answered ==
    /\ pc \in Awaiting \/ guard \in Waits => acked = {}
    /\ guard = "bye" \/ pc \in {"draining", "ending"} => acked # {}
    /\ state = "Confirmed" \/ entry = "confirmed" \/ HeldByApp
           => acked # {} /\ guard = "idle"

(* Every acknowledged fork is the dialog's or one that was ended with a    *)
(* BYE, and no other fork was sent one.                                    *)
Branches ==
    /\ acked \subseteq {confirmed} \cup seen
    /\ acked = {} => seen = {} /\ \A f \in Forks : byes[f] = 0
    /\ acked # {} => confirmed \in Forks \ seen
    /\ \A f \in Forks : /\ f \in seen => byes[f] = 1
                        /\ f \notin seen \cup {confirmed} => byes[f] = 0

(* Who ends the dialog's own fork.                                         *)
Ending ==
    acked # {} =>
        /\ guard = "idle" => \/ state = "Confirmed" \/ reason = "ProxyAuthRequired"
                             \/ byes[confirmed] > 0 \/ peerBye
        /\ guard = "bye" => byes[confirmed] = 0
        /\ guard = "done" => byes[confirmed] = 1
        /\ (\E a \in Apps : app[a] = "byeing") => byes[confirmed] > 0

(* With taking, one task at most holds the dialog.                         *)
Holder ==
    taking =>
        /\ \A a \in Apps : app[a] = "taken" => entry # "confirmed" /\ byes[confirmed] = 0
        /\ \A a, b \in Apps : app[a] = "taken" /\ app[b] = "taken" => a = b
        /\ entry = "confirmed" => byes[confirmed] = 0
        /\ acked # {} => byes[confirmed] <= 1

(* What the guard's task knows of the CANCEL.                              *)
Cancelling ==
    /\ pc \in Awaiting \ {"resending"} => named = attempt
    /\ pc \in Awaiting \ {"pracking"} /\ state = "Calling" => provisional = {}
    /\ dropped \in {"sending", "receiving"} =>
           /\ named = attempt
           /\ guard = "first" => provisional = {}
    /\ guard = "last" => named \in cancelled
    /\ dropped \in {"sending", "receiving"} /\ guard = "done" =>
           \/ acked # {} \/ tx = "Ended" \/ reason = "ProxyAuthRequired"
           \/ named \in cancelled \/ attempt \notin provisional

Parts == Phases /\ Answered /\ Branches /\ Ending /\ Holder /\ Cancelling

IInv == TypeOK /\ Parts

-----------------------------------------------------------------------------
(* A BYE is counted for its fork and for no other; the dialog's own fork   *)
(* is none before the 2xx, and then nothing is counted.                    *)
LEMMA ByeCounted ==
    ASSUME TypeOK, NEW f \in Forks \cup {NoFork}, SendsBye(f)
    PROVE  /\ byes' \in [Forks -> 0 .. 2]
           /\ \A g \in Forks \ {f} : byes'[g] = byes[g]
           /\ f \in Forks => /\ byes'[f] > 0
                             /\ byes[f] = 0 => byes'[f] = 1
  <1>1. /\ byes \in [Forks -> 0 .. 2]
        /\ byes' = [byes EXCEPT ![f] = IF @ = 2 THEN 2 ELSE @ + 1]
    BY DEF TypeOK, SendsBye
  <1>2. \A g \in Forks : byes[g] \in 0 .. 2
    BY <1>1
  <1>3. \A g \in Forks :
           byes'[g] = IF g = f THEN IF byes[f] = 2 THEN 2 ELSE byes[f] + 1 ELSE byes[g]
    BY <1>1
  <1>4. \A g \in Forks : byes'[g] \in 0 .. 2
    BY <1>2, <1>3
  <1>5. byes' \in [Forks -> 0 .. 2]
    BY <1>1, <1>4
  <1>6. f \in Forks => byes'[f] > 0 /\ (byes[f] = 0 => byes'[f] = 1)
    BY <1>2, <1>3
  <1> QED
    BY <1>3, <1>5, <1>6

(***************************************************************************)
(* Types.                                                                  *)
(***************************************************************************)
(* What Transaction::receive gives its user keeps the types of what it     *)
(* changes.                                                                *)
LEMMA TxTypes ==
    ASSUME TypeOK,
           \/ TakesProvisional \/ TimerM \/ KeepTx
           \/ \E f \in Forks : TakesSuccess(f)
           \/ \E k \in Failure : TakesFailure(k)
    PROVE  /\ tx' \in {"Nothing", "Calling", "Proceeding", "Accepted", "Ended", "Dropped"}
           /\ acked' \subseteq Forks
           /\ provisional' \subseteq 1 .. 2
  BY DEF TypeOK, TakesProvisional, TakesSuccess, TakesFailure, TimerM, KeepTx

(* DialogInner::transition keeps the types of the dialog.                  *)
LEMMA DialogTypes ==
    ASSUME TypeOK,
           \/ UNCHANGED dialog
           \/ \E s \in {"Trying", "Early", "Confirmed"} : Transition(s)
           \/ \E why \in {"UacCancel", "UacBye", "UasBye", "UasOther", "ProxyAuthRequired"} :
                  TerminateFor(why)
    PROVE  /\ state' \in {"Calling", "Trying", "Early", "Confirmed", "Terminated"}
           /\ reason' \in {"None", "UacCancel", "UacBye", "UasBye", "UasOther",
                           "ProxyAuthRequired"}
  BY DEF TypeOK, dialog, Transition, TerminateFor

(* A step of the INVITE's task keeps the types.                            *)
LEMMA InviteTypes ==
    ASSUME TypeOK, Invite PROVE TypeOK'
  <1> USE DEF InviteStep, setting, dialog, callee
  <1>1. CASE Sends
    BY <1>1 DEF TypeOK, Sends
  <1>2. CASE ReceivesTrying
    BY <1>2, TxTypes, DialogTypes DEF TypeOK, ReceivesTrying
  <1>3. CASE ReceivesRinging
    BY <1>3, TxTypes, DialogTypes DEF TypeOK, ReceivesRinging
  <1>4. CASE PrackDone
    BY <1>4, DialogTypes DEF TypeOK, PrackDone
  <1>5. CASE ReceivesChallenge
    BY <1>5 DEF TypeOK, ReceivesChallenge
  <1>6. CASE Resends
    <2>1. /\ named' \in 1 .. attempt /\ UNCHANGED <<attempt, dialog, confirmed, seen, acked, provisional, byes>>
          /\ tx' \in {tx, "Dropped"} /\ entry' \in {entry, "none"}
          /\ pc' \in {"receiving", "done"}
          /\ UNCHANGED <<guarded, credential, taking, guard, dropped, app, cancelled, peerBye, callee>>
      BY <1>6 DEF TypeOK, Resends
    <2> QED
      BY <2>1 DEF TypeOK
  <1>7. CASE ResendWrites
    BY <1>7 DEF TypeOK, ResendWrites
  <1>8. CASE ReceivesFailure
    BY <1>8, TxTypes, DialogTypes DEF TypeOK, ReceivesFailure, Failure
  <1>9. ASSUME NEW f \in Forks, ReceivesSuccess(f) PROVE TypeOK'
    BY <1>9, TxTypes, DialogTypes DEF TypeOK, ReceivesSuccess
  <1>10. ASSUME NEW f \in Forks, Drains(f) PROVE TypeOK'
    <2>1. /\ pc' \in {"ending", "draining"}
          /\ UNCHANGED <<guarded, credential, taking, guard, dropped, app, cancelled, peerBye, callee>>
          /\ UNCHANGED <<dialog, attempt, named, entry, confirmed>>
          /\ seen' \subseteq Forks
      BY <1>10 DEF TypeOK, Drains
    <2>2. byes' \in [Forks -> 0 .. 2]
      BY <1>10, ByeCounted DEF TypeOK, Drains
    <2>3. TakesSuccess(f)
      BY <1>10 DEF Drains
    <2> QED
      BY <2>1, <2>2, <2>3, TxTypes DEF TypeOK
  <1>11. CASE BranchEnded
    BY <1>11, TxTypes DEF TypeOK, BranchEnded
  <1>12. CASE Drained
    BY <1>12, TxTypes DEF TypeOK, Drained
  <1> QED
    BY <1>1, <1>2, <1>3, <1>4, <1>5, <1>6, <1>7, <1>8, <1>9, <1>10, <1>11, <1>12 DEF Invite

(* A step of the task that ends an abandoned INVITE keeps the types.       *)
LEMMA GuardTypes ==
    ASSUME TypeOK, Guard PROVE TypeOK'
  <1> USE DEF GuardStep, setting, dialog, callee
  <1>1. CASE FirstProvisional \/ RaceProvisional \/ LastProvisional
    BY <1>1, TxTypes DEF TypeOK, FirstProvisional, RaceProvisional, LastProvisional
  <1>2. CASE FirstFinal
    BY <1>2, TxTypes DEF TypeOK, FirstFinal
  <1>3. CASE RaceFinal
    BY <1>3, TxTypes, DialogTypes DEF TypeOK, RaceFinal
  <1>4. CASE LastFinal
    BY <1>4, TxTypes DEF TypeOK, LastFinal
  <1>5. CASE FirstTimesOut \/ LastTimesOut
    BY <1>5 DEF TypeOK, FirstTimesOut, LastTimesOut
  <1>6. CASE RaceCancels
    BY <1>6, TxTypes DEF TypeOK, RaceCancels
  <1>7. CASE RaceEnds
    BY <1>7, TxTypes, DialogTypes DEF TypeOK, RaceEnds
  <1>8. CASE ByeIf2xx
    <2>1. byes' \in [Forks -> 0 .. 2]
      BY <1>8, ByeCounted DEF TypeOK, ByeIf2xx
    <2> QED
      BY <1>8, <2>1 DEF TypeOK, ByeIf2xx
  <1> QED
    BY <1>1, <1>2, <1>3, <1>4, <1>5, <1>6, <1>7, <1>8 DEF Guard

(* A call of the application keeps the types.                              *)
LEMMA AppTypes ==
    ASSUME TypeOK, NEW a \in Apps, Application(a) PROVE TypeOK'
  <1> USE DEF AppStep, setting, dialog, callee
  <1>1. CASE Cancels(a)
    <2>1. cancelled' \subseteq 1 .. 2
      BY <1>1 DEF TypeOK, Cancels
    <2> QED
      BY <1>1, <2>1 DEF TypeOK, Cancels
  <1>2. CASE CancelReturns(a) \/ Takes(a) \/ HangsUpNothing(a)
    BY <1>2 DEF TypeOK, CancelReturns, Takes, HangsUpNothing
  <1>3. CASE HangsUp(a)
    <2>1. byes' \in [Forks -> 0 .. 2]
      BY <1>3, ByeCounted DEF TypeOK, HangsUp
    <2>2. app' = [app EXCEPT ![a] = "byeing"]
      BY <1>3 DEF HangsUp
    <2> QED
      BY <1>3, <2>1, <2>2 DEF TypeOK, HangsUp
  <1>4. CASE ByeReturns(a)
    BY <1>4, DialogTypes DEF TypeOK, ByeReturns
  <1> QED
    BY <1>1, <1>2, <1>3, <1>4 DEF Application

(* The variables keep their types.                                         *)
LEMMA TypeStep == TypeOK /\ [Next]_vars => TypeOK'
  <1> SUFFICES ASSUME TypeOK, [Next]_vars PROVE TypeOK'
    OBVIOUS
  <1>1. ASSUME NEW f \in Forks, Answers(f) PROVE TypeOK'
    BY <1>1 DEF TypeOK, Answers, CalleeStep, setting, dialog, history
  <1>2. CASE Refuses \/ HearsCancel
    <2>1. refusal' \in Failure /\ UNCHANGED peer /\ CalleeStep
      BY <1>2 DEF Refuses, HearsCancel, Failure
    <2> QED
      BY <2>1 DEF TypeOK, CalleeStep, setting, dialog, history
  <1>3. CASE Abandons
    BY <1>3 DEF TypeOK, Abandons, TerminateFor, setting, dialog, callee, history
  <1>4. CASE PeerByes
    BY <1>4, DialogTypes DEF TypeOK, PeerByes, setting, callee
  <1>5. CASE UNCHANGED vars
    BY <1>5 DEF TypeOK, vars, setting, dialog, callee, history
  <1> QED
    BY <1>1, <1>2, <1>3, <1>4, <1>5, InviteTypes, GuardTypes, AppTypes DEF Next

-----------------------------------------------------------------------------
(***************************************************************************)
(* The other parts of the invariant, action by action.                     *)
(***************************************************************************)
(* A step of the INVITE's task.                                            *)
LEMMA InviteParts ==
    ASSUME TypeOK, Parts, Invite PROVE Parts'
  <1> USE DEF Parts, Phases, Answered, HeldByApp, Branches, Ending, Holder, Cancelling,
      Awaiting, Waits, InviteStep, setting, dialog, callee
  <1>1. CASE Sends
    BY <1>1 DEF TypeOK, Sends
  <1>2. CASE ReceivesTrying
    BY <1>2 DEF TypeOK, ReceivesTrying, TakesProvisional, Transition
  <1>3. CASE ReceivesRinging
    BY <1>3 DEF TypeOK, ReceivesRinging, TakesProvisional, Transition
  <1>4. CASE PrackDone
    BY <1>4 DEF TypeOK, PrackDone, Transition, TerminateFor
  <1>5. CASE ReceivesChallenge
    BY <1>5 DEF TypeOK, ReceivesChallenge
  <1>6. CASE Resends
    BY <1>6 DEF TypeOK, Resends
  <1>7. CASE ResendWrites
    BY <1>7 DEF TypeOK, ResendWrites
  <1>8. CASE ReceivesFailure
    BY <1>8 DEF TypeOK, ReceivesFailure, TakesFailure, TerminateFor
  <1>9. ASSUME NEW f \in Forks, ReceivesSuccess(f) PROVE Parts'
    BY <1>9 DEF TypeOK, ReceivesSuccess, TakesSuccess, Transition
  <1>10. ASSUME NEW f \in Forks, Drains(f) PROVE Parts'
    <2>1. acked' = acked \cup {f} /\ acked # {} /\ confirmed \in Forks \ seen
      BY <1>10 DEF Drains, TakesSuccess
    <2>2. CASE IsExtra(f)
      <3>1. SendsBye(f) /\ seen' = seen \cup {f} /\ f # confirmed /\ f \notin seen
        BY <1>10, <2>2 DEF Drains, IsExtra
      <3>2. byes'[f] = 1 /\ \A g \in Forks \ {f} : byes'[g] = byes[g]
        BY <3>1, ByeCounted
      <3> QED
        BY <1>10, <2>1, <3>1, <3>2 DEF TypeOK, Drains, TakesSuccess
    <2>3. CASE ~IsExtra(f)
      BY <1>10, <2>1, <2>3 DEF TypeOK, Drains, TakesSuccess, IsExtra
    <2> QED
      BY <2>2, <2>3
  <1>11. CASE BranchEnded
    BY <1>11 DEF TypeOK, BranchEnded, KeepTx
  <1>12. CASE Drained
    BY <1>12 DEF TypeOK, Drained, TimerM
  <1> QED
    BY <1>1, <1>2, <1>3, <1>4, <1>5, <1>6, <1>7, <1>8, <1>9, <1>10, <1>11, <1>12 DEF Invite

(* A step of the task that ends an abandoned INVITE.                       *)
LEMMA GuardParts ==
    ASSUME TypeOK, Parts, Guard PROVE Parts'
  <1> USE DEF Parts, Phases, Answered, HeldByApp, Branches, Ending, Holder, Cancelling,
      Awaiting, Waits, GuardStep, setting, dialog, callee
  <1>1. CASE FirstProvisional \/ RaceProvisional \/ LastProvisional
    BY <1>1 DEF TypeOK, FirstProvisional, RaceProvisional, LastProvisional, TakesProvisional
  <1>2. ASSUME NEW k \in Failure, NEW from \in Waits, TakesFailure(k), GuardStep(from, "done"),
               UNCHANGED <<confirmed, byes, cancelled>>,
               UNCHANGED dialog \/ TerminateFor("UacCancel")
        PROVE  Parts'
    BY <1>2 DEF TypeOK, TakesFailure, TerminateFor
  <1>3. ASSUME NEW f \in Forks, NEW from \in Waits, TakesSuccess(f), GuardStep(from, "bye"),
               confirmed' = f, UNCHANGED <<byes, cancelled>>,
               UNCHANGED dialog \/ TerminateFor("UacCancel")
        PROVE  Parts'
    BY <1>3 DEF TypeOK, TakesSuccess, TerminateFor
  <1>4. CASE FirstFinal \/ RaceFinal \/ LastFinal
    BY <1>2, <1>3, <1>4 DEF FirstFinal, RaceFinal, LastFinal
  <1>5. CASE FirstTimesOut
    BY <1>5 DEF TypeOK, FirstTimesOut
  <1>6. CASE RaceCancels
    BY <1>6 DEF TypeOK, RaceCancels, KeepTx
  <1>7. CASE RaceEnds
    BY <1>7 DEF TypeOK, RaceEnds, KeepTx, TerminateFor
  <1>8. CASE LastTimesOut
    BY <1>8 DEF TypeOK, LastTimesOut
  <1>9. CASE ByeIf2xx
    <2>1. /\ SendsBye(confirmed) /\ confirmed \in Forks \ seen
          /\ byes[confirmed] = 0
      BY <1>9 DEF ByeIf2xx
    <2>2. byes'[confirmed] = 1 /\ \A g \in Forks \ {confirmed} : byes'[g] = byes[g]
      BY <2>1, ByeCounted
    <2> QED
      BY <1>9, <2>1, <2>2 DEF TypeOK, ByeIf2xx
  <1> QED
    BY <1>1, <1>4, <1>5, <1>6, <1>7, <1>8, <1>9 DEF Guard

(* A call of the application.                                              *)
LEMMA AppParts ==
    ASSUME TypeOK, Parts, NEW a \in Apps, Application(a) PROVE Parts'
  <1> USE DEF Parts, Phases, Answered, HeldByApp, Branches, Ending, Holder, Cancelling,
      Awaiting, Waits, AppStep, setting, dialog, callee
  <1>1. CASE Cancels(a)
    BY <1>1 DEF TypeOK, Cancels
  <1>2. CASE CancelReturns(a)
    BY <1>2 DEF TypeOK, CancelReturns
  <1>3. CASE Takes(a)
    BY <1>3 DEF TypeOK, Takes
  <1>4. CASE HangsUp(a)
    <2>1. /\ SendsBye(confirmed) /\ confirmed \in Forks \ seen
          /\ acked # {} /\ guard = "idle" /\ state = "Confirmed"
      BY <1>4 DEF HangsUp
    <2>2. /\ byes'[confirmed] > 0 /\ \A g \in Forks \ {confirmed} : byes'[g] = byes[g]
          /\ byes[confirmed] = 0 => byes'[confirmed] = 1
      BY <2>1, ByeCounted
    <2>3. /\ app \in [Apps -> {"idle", "cancelling", "taken", "byeing", "returned"}]
          /\ app' = [app EXCEPT ![a] = "byeing"]
          /\ taking => app[a] = "taken"
      BY <1>4 DEF HangsUp, TypeOK
    <2>4. \A b \in Apps : app'[b] = IF b = a THEN "byeing" ELSE app[b]
      BY <2>3
    <2>5. UNCHANGED <<taking, entry, confirmed, acked>>
      BY <1>4 DEF HangsUp
    <2>6. taking => /\ entry # "confirmed" /\ byes'[confirmed] = 1
                    /\ \A b \in Apps : app'[b] # "taken"
      BY <2>2, <2>3, <2>4
    <2>7. Holder'
      BY <2>5, <2>6
    <2>8. Answered' /\ Branches' /\ Ending'
      BY <1>4, <2>1, <2>2, <2>4 DEF HangsUp
    <2>9. Phases' /\ Cancelling'
      BY <1>4 DEF HangsUp
    <2> QED
      BY <2>7, <2>8, <2>9
  <1>5. CASE HangsUpNothing(a)
    BY <1>5 DEF TypeOK, HangsUpNothing
  <1>6. CASE ByeReturns(a)
    BY <1>6 DEF TypeOK, ByeReturns, TerminateFor
  <1> QED
    BY <1>1, <1>2, <1>3, <1>4, <1>5, <1>6 DEF Application

(* Every step.                                                             *)
LEMMA PartsStep == TypeOK /\ Parts /\ [Next]_vars => Parts'
  <1> SUFFICES ASSUME TypeOK, Parts, [Next]_vars PROVE Parts'
    OBVIOUS
  <1> USE DEF Parts, Phases, Answered, HeldByApp, Branches, Ending, Holder, Cancelling,
      Awaiting, Waits, setting, dialog, callee, history
  <1>1. CASE (\E f \in Forks : Answers(f)) \/ Refuses \/ HearsCancel
    BY <1>1 DEF Answers, Refuses, HearsCancel, CalleeStep
  <1>2. CASE Abandons
    BY <1>2 DEF TypeOK, Abandons, TerminateFor
  <1>3. CASE PeerByes
    BY <1>3 DEF TypeOK, PeerByes, TerminateFor
  <1>4. CASE UNCHANGED vars
    BY <1>4 DEF vars
  <1> QED
    BY <1>1, <1>2, <1>3, <1>4, InviteParts, GuardParts, AppParts DEF Next

-----------------------------------------------------------------------------
(* Nothing was sent: the invariant holds.                                  *)
LEMMA InitInv == Init => IInv
  <1> SUFFICES ASSUME Init PROVE IInv
    OBVIOUS
  <1>1. TypeOK
    <2>1. /\ app \in [Apps -> {"idle", "cancelling", "taken", "byeing", "returned"}]
          /\ peer \in [Forks -> {"invited", "up"}]
          /\ byes \in [Forks -> 0 .. 2]
      BY DEF Init
    <2>2. attempt \in 1 .. 2 /\ named \in 1 .. attempt
      BY DEF Init
    <2>3. /\ seen \subseteq Forks /\ acked \subseteq Forks
          /\ provisional \subseteq 1 .. 2 /\ cancelled \subseteq 1 .. 2
      BY DEF Init
    <2> QED
      BY <2>1, <2>2, <2>3 DEF Init, TypeOK
  <1>2. \A f \in Forks : byes[f] = 0
    BY DEF Init
  <1>3. \A a \in Apps : app[a] = "idle"
    BY DEF Init
  <1>4. Parts
    BY <1>2, <1>3 DEF Init, Parts, Phases, Answered, HeldByApp, Branches, Ending, Holder,
       Cancelling, Awaiting, Waits
  <1> QED
    BY <1>1, <1>4 DEF IInv

(* The invariant is inductive.                                             *)
LEMMA StepInv == IInv /\ [Next]_vars => IInv'
  BY TypeStep, PartsStep DEF IInv

(* IInv holds in every behaviour of the UAC.                               *)
LEMMA Invariance == Spec => []IInv
  BY InitInv, StepInv, PTL DEF Spec

(***************************************************************************)
(* The variables keep their types.                                         *)
(***************************************************************************)
THEOREM Typing == Spec => []TypeOK
  BY Invariance, PTL DEF IInv

(***************************************************************************)
(* For every set of forks and of application tasks: once the tasks of the  *)
(* INVITE have ended, each fork whose 2xx was acknowledged is the dialog's *)
(* or was sent a BYE, wherever the future of do_invite was dropped         *)
(* (end_forked_branch of the drainer, bye_if_2xx of the guard).            *)
(***************************************************************************)
THEOREM Ownership == Spec => []AcknowledgedIsOwned
  <1>1. ASSUME IInv, Settled, reason # "ProxyAuthRequired", NEW f \in acked
        PROVE  byes[f] > 0 \/ (f = confirmed /\ (state = "Confirmed" \/ peerBye))
    <2>1. CASE f \in seen
      BY <1>1, <2>1 DEF IInv, TypeOK, Parts, Branches
    <2>2. CASE f = confirmed
      BY <1>1, <2>2 DEF IInv, Parts, Ending, Settled
    <2> QED
      BY <1>1, <2>1, <2>2 DEF IInv, Parts, Branches
  <1>2. IInv => AcknowledgedIsOwned
    BY <1>1 DEF AcknowledgedIsOwned
  <1> QED
    BY <1>2, Invariance, PTL

(***************************************************************************)
(* For every set of forks and of application tasks: a session is sent one  *)
(* BYE when the tasks take the dialog out of the registry first            *)
(* (take_dialog, DialogGuard), however they interleave with the drainer.   *)
(***************************************************************************)
THEOREM OneBye == Spec => []OneByePerSession
  <1>1. ASSUME IInv, taking, NEW f \in Forks PROVE byes[f] <= 1
    <2>1. CASE f = confirmed /\ acked # {}
      BY <1>1, <2>1 DEF IInv, Parts, Holder
    <2>2. CASE f \in seen \/ acked = {} \/ f \notin seen \cup {confirmed}
      BY <1>1, <2>2 DEF IInv, Parts, Branches
    <2> QED
      BY <2>1, <2>2
  <1>2. IInv => OneByePerSession
    BY <1>1 DEF OneByePerSession
  <1> QED
    BY <1>2, Invariance, PTL

(***************************************************************************)
(* For every set of forks: an INVITE that was abandoned while it was sent  *)
(* or its responses were awaited, and that rings, is cancelled by the      *)
(* guard's task or ends with the final response that task takes.           *)
(***************************************************************************)
THEOREM Cancelled == Spec => []AbandonedIsCancelled
  <1>1. IInv => AbandonedIsCancelled
    BY DEF IInv, TypeOK, Parts, Phases, Cancelling, AbandonedIsCancelled, IsCancelled
  <1> QED
    BY <1>1, Invariance, PTL
=============================================================================
