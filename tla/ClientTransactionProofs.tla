---------------------- MODULE ClientTransactionProofs ----------------------
(***************************************************************************)
(* The safety of ClientTransaction for every set of forks and a channel of *)
(* every length.                                                           *)
(*                                                                         *)
(* What the TU has heard does not show in one variable: it follows from    *)
(* the state the transaction is in and from what can_transition lets       *)
(* through from there.  VerdictMatchesState says how, Detached that        *)
(* nothing reaches a transaction that has ended, and AcksHaveATag that the *)
(* ACK send_ack stores always names a fork, so that a 2xx is never         *)
(* answered with an ACK that fits none.                                    *)
(***************************************************************************)
EXTENDS ClientTransaction, TLAPS

BeforeFinal == {"Nothing", "Calling"} \cup Early

(* An ended transaction is out of the map; a dropped one has no channel.   *)
Detached ==
    /\ state \in {"Terminated", None} => ~attached
    /\ state = None => queue = <<>>

(* No final was handed over in the states that precede one, Completed      *)
(* included, which a receive that was abandoned leaves behind unheard;     *)
(* Accepted is left to the INVITEs that may hear several 2xx.              *)
VerdictMatchesState ==
    /\ state \in BeforeFinal \cup {"Completed"} => Heard(Finals) = {}
    /\ state = "Accepted" => invite /\ (autoAck \/ forwarding) /\ Heard(Failure) = {}
    /\ state # "Confirmed"

AcksHaveATag == lastAck # None

IInv == /\ TypeOK
        /\ Detached
        /\ AcksHaveATag
        /\ VerdictMatchesState
        /\ OneVerdict
        /\ HandedSuccessIsAcked

-----------------------------------------------------------------------------
(* Sequences of events stay sequences of events.                           *)
LEMMA QueueSteps ==
    ASSUME NEW q \in Seq(Event)
    PROVE  /\ \A e \in Event : Append(q, e) \in Seq(Event)
           /\ q # <<>> => Tail(q) \in Seq(Event)
  OBVIOUS

(* What the code puts into the channel is an Event.                        *)
LEMMA EventsAreEvents ==
    /\ \A r \in Response : Received(r) \in Event
    /\ \A x \in EventTimer : Timer(x) \in Event
    /\ Terminate \in Event
  BY DEF Event

(* A response has a status of its class; every 2xx names its fork, since   *)
(* the ones the transaction makes itself are failures.                     *)
LEMMA Responses ==
    /\ \A r \in Response : /\ Status(r) \in Provisional \cup Finals
                           /\ Tag(r) \in Tags \cup {None}
                           /\ Is2xx(r) => IsFinal(r) /\ Tag(r) \in Tags
                           /\ IsFinal(r) => Is2xx(r) \/ Status(r) \in Failure
    /\ FromPeer \subseteq Response
    /\ <<"RequestTimeout", None>> \in Response
    /\ <<"ServiceUnavailable", None>> \in Response
    /\ Finals = Successful \cup Failure
    /\ Successful \cap Failure = {}
    /\ None \notin Tags /\ NoAck \notin Tags /\ None # NoAck
  <1>1. /\ Synthetic \subseteq Response /\ FromPeer \subseteq Response
        /\ <<"RequestTimeout", None>> \in Synthetic
        /\ <<"ServiceUnavailable", None>> \in Synthetic
    BY DEF Response, Synthetic
  <1>2. /\ Finals = Successful \cup Failure
        /\ Successful \cap Failure = {}
        /\ None \notin Tags /\ NoAck \notin Tags /\ None # NoAck
    BY ClientAssumption DEF Finals, Successful, Failure, None, NoAck
  <1>3. ASSUME NEW r \in Response
        PROVE  /\ Status(r) \in Provisional \cup Finals
               /\ Tag(r) \in Tags \cup {None}
               /\ Is2xx(r) => IsFinal(r) /\ Tag(r) \in Tags
               /\ IsFinal(r) => Is2xx(r) \/ Status(r) \in Failure
    <2>1. CASE r \in {<<"Trying", None>>} \cup Synthetic
      BY <2>1 DEF Synthetic, Status, Tag, Is2xx, IsFinal, Provisional, Finals,
         Successful, Failure
    <2>2. CASE r \in {"Ringing", "OK", "BusyHere"} \X Tags
      BY <2>2 DEF Status, Tag, Is2xx, IsFinal, Provisional, Finals, Successful, Failure
    <2> QED
      BY <2>1, <2>2 DEF Response, FromPeer
  <1> QED
    BY <1>1, <1>2, <1>3

(* The states a response leads to, by its class and the transaction's.     *)
LEMMA StateAfterIs ==
    ASSUME NEW r \in Response, invite \in BOOLEAN, autoAck \in BOOLEAN
    PROVE  \/ ~IsFinal(r) /\ StateAfter(r) \in Early
           \/ IsFinal(r) /\ StateAfter(r) = "Terminated" /\ (~invite \/ (Is2xx(r) /\ ~autoAck))
           \/ IsFinal(r) /\ StateAfter(r) = "Completed" /\ invite /\ ~Is2xx(r)
           \/ Is2xx(r) /\ StateAfter(r) = "Accepted" /\ invite /\ autoAck
  BY DEF StateAfter, Early, IsFinal, Is2xx, Finals, Successful, Failure

(* What can_transition lets through, and from where.                       *)
LEMMA AdmittedFrom ==
    ASSUME NEW s \in TransactionState, NEW to \in TransactionState, CanTransition(s, to)
    PROVE  /\ s # "Terminated"
           /\ to \in Early => s \in {"Nothing", "Calling"} \cup Early
           /\ to = "Completed" => s \in {"Calling"} \cup Early
           /\ to = "Accepted" => s \in {"Calling", "Accepted"} \cup Early
  BY DEF CanTransition, AllowedFrom, TransactionState, Early

(* HandToTu(r) for a final r: only its own count moves, and r is told.     *)
LEMMA HandingFinal ==
    ASSUME TypeOK, NEW r \in Response, IsFinal(r), HandToTu(r)
    PROVE  /\ heard' \in [{x \in Response : IsFinal(x)} -> 0 .. 2]
           /\ \A x \in DOMAIN heard \ {r} : heard'[x] = heard[x]
           /\ heard'[r] > 0
           /\ heard[r] = 0 => heard'[r] = 1
           /\ told' = r
           /\ Heard(Finals)' = Heard(Finals) \cup {r}
           /\ Heard(Failure)' = Heard(Failure) \cup (IF Is2xx(r) THEN {} ELSE {r})
           /\ Heard(Successful)' = Heard(Successful) \cup (IF Is2xx(r) THEN {r} ELSE {})
  <1>1. /\ heard \in [{x \in Response : IsFinal(x)} -> 0 .. 2]
        /\ r \in {x \in Response : IsFinal(x)}
        /\ heard' = [heard EXCEPT ![r] = IF @ = 2 THEN 2 ELSE @ + 1]
        /\ told' = r
    BY DEF TypeOK, HandToTu
  <1>2. heard[r] \in 0 .. 2
    BY <1>1
  <1>3. /\ heard' \in [{x \in Response : IsFinal(x)} -> 0 .. 2]
        /\ \A x \in DOMAIN heard \ {r} : heard'[x] = heard[x]
        /\ heard'[r] > 0
        /\ heard[r] = 0 => heard'[r] = 1
    BY <1>1, <1>2
  <1>4. ASSUME NEW S
        PROVE  Heard(S)' = Heard(S) \cup (IF Status(r) \in S THEN {r} ELSE {})
    BY <1>1, <1>3 DEF Heard
  <1>5. Status(r) \in Finals /\ (Status(r) \in Failure <=> ~Is2xx(r))
    BY Responses DEF IsFinal, Is2xx
  <1>6. Heard(Finals)' = Heard(Finals) \cup {r}
    BY <1>4, <1>5
  <1>7. Heard(Failure)' = Heard(Failure) \cup (IF Is2xx(r) THEN {} ELSE {r})
    BY <1>4, <1>5
  <1>8. Heard(Successful)' = Heard(Successful) \cup (IF Is2xx(r) THEN {r} ELSE {})
    BY <1>4 DEF Is2xx
  <1> QED
    BY <1>1, <1>3, <1>6, <1>7, <1>8

(* The states the code writes are states.                                  *)
LEMMA StatesAre ==
    /\ {"Nothing", "Calling", "Accepted", "Completed", "Terminated"} \cup Early
          \subseteq TransactionState
    /\ None \notin TransactionState
    /\ {"Trying", "Proceeding"} = Early
  BY DEF TransactionState, Early, None

-----------------------------------------------------------------------------
(***************************************************************************)
(* Types.                                                                  *)
(***************************************************************************)
(* The ACK send_ack picks for a response of a fork names that fork or is   *)
(* the stored one.                                                         *)
LEMMA AckForIs ==
    ASSUME TypeOK, AcksHaveATag, NEW r \in Response
    PROVE  /\ AckFor(r) \in Tags \cup {None}
           /\ Tag(r) # None => AckFor(r) = Tag(r)
  BY Responses DEF AckFor, TypeOK, AcksHaveATag

(* The ACK cleanup keeps has the tag of the last response, or is absent.   *)
LEMMA AckToKeepIs ==
    ASSUME TypeOK, NEW r \in Response \cup {<<None, None>>},
           NEW ack \in Tags \cup {None, NoAck}
    PROVE  AckToKeep(r, ack) \in Tags \cup {None, NoAck}
  BY Responses DEF AckToKeep

(* Cleanup keeps the types of what it changes and stores no ACK.           *)
LEMMA CleanupTypes ==
    ASSUME TypeOK, NEW r \in Response \cup {<<None, None>>}, Cleanup(r, lastAck)
    PROVE  /\ attached' = FALSE
           /\ lastAck' = NoAck
           /\ finished' \in Tags \cup {None, NoAck}
           /\ timers' \subseteq ClientTimer
  BY AckToKeepIs DEF Cleanup, TypeOK, ClientTimer

(* Every step keeps the types, and no step stores an ACK without a tag.    *)
LEMMA TypeStep == TypeOK /\ AcksHaveATag /\ [Next]_vars => TypeOK' /\ AcksHaveATag'
  <1> SUFFICES ASSUME TypeOK, AcksHaveATag, [Next]_vars
               PROVE  TypeOK' /\ AcksHaveATag'
    OBVIOUS
  <1> USE DEF TypeOK, AcksHaveATag, setup
  <1>1. \A e \in Event : Append(queue, e) \in Seq(Event)
    BY QueueSteps
  <1>2. queue # <<>> => /\ Rest \in Seq(Event)
                        /\ \A e \in Event : Append(Rest, e) \in Seq(Event)
    BY QueueSteps DEF Rest
  <1>3. ASSUME NEW r \in FromPeer, Arrive(r) PROVE TypeOK' /\ AcksHaveATag'
    BY <1>1, <1>3, EventsAreEvents, Responses DEF Arrive, ArriveFinished, ArriveRunning
  <1>4. ASSUME NEW x \in EventTimer, TimerFires(x) PROVE TypeOK' /\ AcksHaveATag'
    BY <1>1, <1>4, EventsAreEvents DEF TimerFires
  <1>5. CASE TimerCleanupFires
    BY <1>5 DEF TimerCleanupFires
  <1>6. ASSUME NEW first \in Link, NEW second \in Link, NEW ok \in BOOLEAN,
               Send(first, second, ok)
        PROVE  TypeOK' /\ AcksHaveATag'
    BY <1>1, <1>6, EventsAreEvents, StatesAre, Responses DEF Send, Link, ClientTimer
  <1>7. CASE StopRetransmissions
    BY <1>7 DEF StopRetransmissions
  <1>8. CASE Drop
    <2>1. <<>> \in Seq(Event)
      OBVIOUS
    <2>2. CASE state = "Terminated"
      BY <1>8, <2>1, <2>2 DEF Drop
    <2>3. CASE state # "Terminated"
      BY <1>8, <2>1, <2>3, CleanupTypes, Responses DEF Drop
    <2> QED
      BY <2>2, <2>3
  <1>9. ASSUME NEW r \in Response, ReceiveForwarded(r) PROVE TypeOK' /\ AcksHaveATag'
    <2>1. heard' \in [{x \in Response : IsFinal(x)} -> 0 .. 2] /\ told' = r
      BY <1>9, HandingFinal, Responses DEF ReceiveForwarded, Forwards
    <2> QED
      BY <1>2, <1>9, <2>1, StatesAre DEF ReceiveForwarded, Takes, FinalTimers, ClientTimer
  <1>10. ASSUME NEW r \in Response, ReceiveRefused(r) PROVE TypeOK' /\ AcksHaveATag'
    BY <1>2, <1>10 DEF ReceiveRefused, Takes
  <1>11. ASSUME NEW r \in Response, ReceiveDuplicate(r) PROVE TypeOK' /\ AcksHaveATag'
    BY <1>2, <1>11 DEF ReceiveDuplicate, Takes
  <1>12. ASSUME NEW r \in Response, ReceiveProvisional(r) PROVE TypeOK' /\ AcksHaveATag'
    BY <1>2, <1>12, StateAfterIs, StatesAre
       DEF ReceiveProvisional, Takes, HandToTu, EarlyTimers, ClientTimer
  <1>13. ASSUME NEW r \in Response, ReceiveLast(r) PROVE TypeOK' /\ AcksHaveATag'
    <2>1. heard' \in [{x \in Response : IsFinal(x)} -> 0 .. 2] /\ told' = r
      BY <1>13, HandingFinal, StateAfterIs, StatesAre DEF ReceiveLast, Early
    <2> QED
      BY <1>2, <1>13, <2>1, CleanupTypes, StatesAre, EventsAreEvents, Responses
         DEF ReceiveLast, EnterTerminated, Takes
  <1>14. ASSUME NEW r \in Response, ReceiveSuccess(r) PROVE TypeOK' /\ AcksHaveATag'
    <2>1. Is2xx(r) /\ AckFor(r) \in Tags
      BY <1>14, StateAfterIs, Responses, AckForIs DEF ReceiveSuccess, Early
    <2>2. heard' \in [{x \in Response : IsFinal(x)} -> 0 .. 2] /\ told' = r
      BY <1>14, <2>1, HandingFinal, Responses DEF ReceiveSuccess
    <2> QED
      BY <1>2, <1>14, <2>1, <2>2, StatesAre, Responses
         DEF ReceiveSuccess, Takes, FinalTimers, ClientTimer
  <1>15. ASSUME NEW r \in Response, ReceiveFailure(r) PROVE TypeOK' /\ AcksHaveATag'
    <2>1. heard' \in [{x \in Response : IsFinal(x)} -> 0 .. 2] /\ told' = r
      BY <1>15, HandingFinal, StateAfterIs DEF ReceiveFailure, Early
    <2> QED
      BY <1>2, <1>15, <2>1, AckForIs, StatesAre, EventsAreEvents, Responses
         DEF ReceiveFailure, Takes, ClientTimer
  <1>16. ASSUME NEW r \in Response, NEW stored \in BOOLEAN, ReceiveAbandoned(r, stored)
         PROVE  TypeOK' /\ AcksHaveATag'
    <2>1. AckFor(r) \in Tags
      BY <1>16, AckForIs, Responses DEF ReceiveAbandoned
    <2> QED
      BY <1>2, <1>16, <2>1, StatesAre, Responses
         DEF ReceiveAbandoned, Takes, FinalTimers, ClientTimer
  <1>17. ASSUME NEW l \in Link, NEW outcome \in {"sent", "failed", "abandoned"},
                ReceiveTimerA(l, outcome)
         PROVE  TypeOK' /\ AcksHaveATag'
    BY <1>2, <1>17, EventsAreEvents, Responses DEF ReceiveTimerA, Takes, Link, ClientTimer
  <1>18. ASSUME NEW x \in EventTimer, ReceiveTimeout(x) PROVE TypeOK' /\ AcksHaveATag'
    BY <1>2, <1>18, EventsAreEvents, Responses DEF ReceiveTimeout, Takes
  <1>19. ASSUME NEW x \in EventTimer, ReceiveDeadline(x) PROVE TypeOK' /\ AcksHaveATag'
    BY <1>2, <1>19, CleanupTypes, StatesAre, EventsAreEvents, Responses
       DEF ReceiveDeadline, EnterTerminated, Takes
  <1>20. ASSUME NEW x \in EventTimer, ReceiveStaleTimer(x) PROVE TypeOK' /\ AcksHaveATag'
    BY <1>2, <1>20 DEF ReceiveStaleTimer, Takes
  <1>21. CASE ReceiveTerminate
    BY <1>2, <1>21 DEF ReceiveTerminate, Takes
  <1>22. CASE UNCHANGED vars
    BY <1>22 DEF vars
  <1> QED
    BY <1>3, <1>4, <1>5, <1>6, <1>7, <1>8, <1>9, <1>10, <1>11, <1>12, <1>13, <1>14,
       <1>15, <1>16, <1>17, <1>18, <1>19, <1>20, <1>21, <1>22
       DEF Next, EndpointStep, OwnerStep, Receive, ReceiveResponse

-----------------------------------------------------------------------------
(***************************************************************************)
(* The map and the channel of a transaction that has ended.                *)
(***************************************************************************)
(* A transaction that has a channel stays in a state; only Drop leaves it. *)
LEMMA DetachedStep ==
    TypeOK /\ Detached /\ [Next]_vars => Detached'
  <1> SUFFICES ASSUME TypeOK, Detached, [Next]_vars
               PROVE  Detached'
    OBVIOUS
  <1> USE DEF Detached, TypeOK
  <1>1. ASSUME NEW r \in FromPeer, Arrive(r) PROVE Detached'
    BY <1>1 DEF Arrive, ArriveFinished, ArriveRunning
  <1>2. ASSUME NEW x \in EventTimer, TimerFires(x) PROVE Detached'
    BY <1>2 DEF TimerFires
  <1>3. CASE TimerCleanupFires
    BY <1>3 DEF TimerCleanupFires
  <1>4. ASSUME NEW first \in Link, NEW second \in Link, NEW ok \in BOOLEAN,
               Send(first, second, ok)
        PROVE  Detached'
    BY <1>4 DEF Send, None
  <1>5. CASE StopRetransmissions
    BY <1>5 DEF StopRetransmissions
  <1>6. CASE Drop
    BY <1>6 DEF Drop, Cleanup
  <1>7. CASE Receive
    <2>1. queue # <<>> /\ state # None
      BY <1>7 DEF Receive, ReceiveResponse, Takes, ReceiveForwarded, ReceiveRefused,
         ReceiveDuplicate, ReceiveProvisional, ReceiveLast, ReceiveSuccess,
         ReceiveFailure, ReceiveAbandoned, ReceiveTimerA, ReceiveTimeout,
         ReceiveDeadline, ReceiveStaleTimer, ReceiveTerminate
    <2>2. ASSUME NEW r \in Response, ReceiveForwarded(r) PROVE Detached'
      BY <2>2 DEF ReceiveForwarded, None
    <2>3. ASSUME NEW r \in Response, ReceiveProvisional(r) PROVE Detached'
      BY <2>3, StateAfterIs DEF ReceiveProvisional, Early, None
    <2>4. ASSUME NEW r \in Response,
                 \/ ReceiveLast(r) \/ ReceiveFailure(r)
                 \/ \E x \in EventTimer : ReceiveDeadline(x)
          PROVE  Detached'
      BY <2>4 DEF ReceiveLast, ReceiveFailure, ReceiveDeadline, EnterTerminated, Cleanup,
         None
    <2>5. ASSUME NEW r \in Response, NEW stored \in BOOLEAN,
                 ReceiveSuccess(r) \/ ReceiveAbandoned(r, stored)
          PROVE  Detached'
      BY <2>5 DEF ReceiveSuccess, ReceiveAbandoned, None
    <2>6. CASE UNCHANGED <<state, attached>>
      BY <2>1, <2>6
    <2>7. ASSUME NEW r \in Response,
                 \/ ReceiveRefused(r) \/ ReceiveDuplicate(r) \/ ReceiveTerminate
                 \/ \E l \in Link, outcome \in {"sent", "failed", "abandoned"} :
                        ReceiveTimerA(l, outcome)
                 \/ \E x \in EventTimer : ReceiveTimeout(x) \/ ReceiveStaleTimer(x)
          PROVE  Detached'
      BY <2>6, <2>7 DEF ReceiveRefused, ReceiveDuplicate, ReceiveTimerA, ReceiveTimeout,
         ReceiveStaleTimer, ReceiveTerminate
    <2>8. \E r \in Response : TRUE
      BY Responses
    <2> QED
      BY <1>7, <2>2, <2>3, <2>4, <2>5, <2>7, <2>8 DEF Receive, ReceiveResponse
  <1>8. CASE UNCHANGED vars
    BY <1>8 DEF vars
  <1> QED
    BY <1>1, <1>2, <1>3, <1>4, <1>5, <1>6, <1>7, <1>8 DEF Next, EndpointStep, OwnerStep

-----------------------------------------------------------------------------
(***************************************************************************)
(* What the TU has heard.                                                  *)
(***************************************************************************)
(* A step that hands nothing over leaves the verdict; the states it may    *)
(* move between keep what they say of it.                                  *)
LEMMA QuietStep ==
    ASSUME TypeOK, VerdictMatchesState, OneVerdict,
           UNCHANGED <<setup, heard, told>>,
           \/ state' = state
           \/ state' \in {"Terminated", None}
           \/ state \in BeforeFinal /\ state' \in {"Calling", "Completed"}
           \/ /\ state \in BeforeFinal \cup {"Accepted"} /\ state' = "Accepted"
              /\ invite /\ (autoAck \/ forwarding)
    PROVE  VerdictMatchesState' /\ OneVerdict'
  <1>1. \A S : Heard(S)' = Heard(S)
    BY DEF Heard
  <1>2. OneVerdict'
    BY <1>1 DEF OneVerdict, setup
  <1>3. Heard(Failure) \subseteq Heard(Finals)
    BY DEF Heard, Finals
  <1>4. VerdictMatchesState'
    BY <1>1, <1>3 DEF VerdictMatchesState, BeforeFinal, Early, setup, None
  <1> QED
    BY <1>2, <1>4

(* The first final the TU hears: the transaction moves to Terminated, or   *)
(* a 2xx of an INVITE that may hear more moves it to Accepted.             *)
LEMMA FirstFinal ==
    ASSUME TypeOK, VerdictMatchesState, NEW r \in Response, IsFinal(r), HandToTu(r),
           UNCHANGED setup, state \in BeforeFinal \cup {"Completed"},
           \/ state' = "Terminated"
           \/ state' = "Accepted" /\ Is2xx(r) /\ invite /\ (autoAck \/ forwarding)
    PROVE  VerdictMatchesState' /\ OneVerdict'
  <1>1. Heard(Finals) = {} /\ Heard(Failure) = {}
    BY DEF VerdictMatchesState, Heard, Finals
  <1>2. Heard(Finals)' = {r} /\ (Is2xx(r) => Heard(Failure)' = {}) /\ told' = r
    BY <1>1, HandingFinal
  <1>3. heard[r] = 0
    <2>1. r \in DOMAIN heard /\ heard[r] \in 0 .. 2 /\ Status(r) \in Finals
      BY DEF TypeOK, IsFinal
    <2> QED
      BY <1>1, <2>1 DEF Heard
  <1>4. heard'[r] = 1
    BY <1>3, HandingFinal
  <1>5. OneVerdict'
    BY <1>2, <1>3, <1>4 DEF OneVerdict
  <1>6. VerdictMatchesState'
    BY <1>2 DEF VerdictMatchesState, BeforeFinal, Early, setup
  <1> QED
    BY <1>5, <1>6

(* Another 2xx for an INVITE in Accepted.                                  *)
LEMMA AnotherSuccess ==
    ASSUME TypeOK, VerdictMatchesState, NEW r \in Response, Is2xx(r), HandToTu(r),
           UNCHANGED setup, state = "Accepted", state' = "Accepted"
    PROVE  VerdictMatchesState' /\ OneVerdict'
  <1>1. IsFinal(r) /\ Status(r) \notin Failure
    BY Responses DEF Is2xx
  <1>2. invite /\ (autoAck \/ forwarding) /\ Heard(Failure) = {}
    BY DEF VerdictMatchesState
  <1>3. Heard(Failure)' = {} /\ told' = r
    BY <1>1, <1>2, HandingFinal
  <1>4. VerdictMatchesState'
    BY <1>2, <1>3 DEF VerdictMatchesState, BeforeFinal, Early, setup
  <1>5. \A x \in Heard(Finals)' : Status(x) \notin Failure
    BY <1>3 DEF Heard
  <1>6. OneVerdict'
    BY <1>1, <1>2, <1>3, <1>5 DEF OneVerdict, setup, IsFinal
  <1> QED
    BY <1>4, <1>6

(* A provisional precedes every final the TU hears.                        *)
LEMMA HandingProvisional ==
    ASSUME TypeOK, VerdictMatchesState, NEW r \in Response, ~IsFinal(r), HandToTu(r),
           UNCHANGED setup, state \in BeforeFinal, state' \in Early
    PROVE  VerdictMatchesState' /\ OneVerdict'
  <1>1. heard' = heard
    BY DEF HandToTu
  <1>2. \A S : Heard(S)' = Heard(S)
    BY <1>1 DEF Heard
  <1>3. Heard(Finals) = {}
    BY DEF VerdictMatchesState
  <1> QED
    BY <1>2, <1>3 DEF VerdictMatchesState, OneVerdict, BeforeFinal, Early

(* What the TU has heard is one verdict, whatever step comes next.         *)
LEMMA VerdictStep ==
    TypeOK /\ Detached /\ VerdictMatchesState /\ OneVerdict /\ [Next]_vars
        => VerdictMatchesState' /\ OneVerdict'
  <1> SUFFICES ASSUME TypeOK, Detached, VerdictMatchesState, OneVerdict, [Next]_vars
               PROVE  VerdictMatchesState' /\ OneVerdict'
    OBVIOUS
  <1> DEFINE Goal == VerdictMatchesState' /\ OneVerdict'
  <1>1. /\ state \in TransactionState \cup {None}
        /\ state # "Confirmed"
        /\ invite \in BOOLEAN /\ autoAck \in BOOLEAN
    BY DEF TypeOK, VerdictMatchesState
  <1>2. CASE UNCHANGED <<setup, state, heard, told>>
    BY <1>2, QuietStep
  <1>3. CASE EndpointStep
    BY <1>2, <1>3 DEF EndpointStep, Arrive, TimerFires, TimerCleanupFires
  <1>4. CASE OwnerStep
    BY <1>2, <1>4, QuietStep DEF OwnerStep, Send, StopRetransmissions, Drop, BeforeFinal
  <1>5. ASSUME NEW r \in Response, Takes(Received(r)), Admits(r)
        PROVE  /\ state \in TransactionState \ {"Terminated", "Confirmed"}
               /\ (IF Forwards(r) THEN "Accepted" ELSE StateAfter(r)) \in TransactionState
               /\ CanTransition(state, IF Forwards(r) THEN "Accepted" ELSE StateAfter(r))
    <2>1. state # None
      BY <1>5 DEF Detached, Takes
    <2>2. (IF Forwards(r) THEN "Accepted" ELSE StateAfter(r)) \in TransactionState
      BY <1>1, StateAfterIs, StatesAre
    <2> QED
      BY <1>1, <1>5, <2>1, <2>2, AdmittedFrom DEF Admits
  <1>6. ASSUME NEW r \in Response, ReceiveForwarded(r) PROVE Goal
    <2>1. /\ state \in {"Calling", "Accepted"} \cup Early
          /\ invite /\ forwarding /\ Is2xx(r) /\ IsFinal(r)
      BY <1>5, <1>6, AdmittedFrom, Responses DEF ReceiveForwarded, Forwards
    <2>2. CASE state = "Accepted"
      BY <1>6, <2>1, <2>2, AnotherSuccess DEF ReceiveForwarded
    <2>3. CASE state # "Accepted"
      BY <1>6, <2>1, <2>3, FirstFinal DEF ReceiveForwarded, BeforeFinal
    <2> QED
      BY <2>2, <2>3
  <1>7. ASSUME NEW r \in Response, ReceiveProvisional(r) PROVE Goal
    <2>1. StateAfter(r) \in Early /\ ~Forwards(r)
      BY <1>1, <1>7, StateAfterIs, Responses DEF ReceiveProvisional, Early, Forwards
    <2>2. state \in BeforeFinal
      BY <1>5, <1>7, <2>1, AdmittedFrom DEF ReceiveProvisional, BeforeFinal
    <2> QED
      BY <1>7, <2>1, <2>2, HandingProvisional DEF ReceiveProvisional
  <1>8. ASSUME NEW r \in Response, ReceiveLast(r) PROVE Goal
    <2>1. IsFinal(r) /\ (~invite \/ (Is2xx(r) /\ ~autoAck /\ ~forwarding))
      BY <1>1, <1>8, StateAfterIs DEF ReceiveLast, Early, Forwards
    <2>2. state # "Accepted"
      BY <2>1 DEF VerdictMatchesState
    <2>3. state \in BeforeFinal \cup {"Completed"}
      BY <1>5, <1>8, <2>2 DEF ReceiveLast, TransactionState, BeforeFinal, Early
    <2> QED
      BY <1>8, <2>1, <2>3, FirstFinal DEF ReceiveLast, EnterTerminated
  <1>9. ASSUME NEW r \in Response, ReceiveSuccess(r) PROVE Goal
    <2>1. /\ state \in {"Calling", "Accepted"} \cup Early
          /\ invite /\ autoAck /\ Is2xx(r) /\ IsFinal(r)
      BY <1>1, <1>5, <1>9, AdmittedFrom, StateAfterIs, Responses DEF ReceiveSuccess, Early
    <2>2. CASE state = "Accepted"
      BY <1>9, <2>1, <2>2, AnotherSuccess DEF ReceiveSuccess
    <2>3. CASE state # "Accepted"
      BY <1>9, <2>1, <2>3, FirstFinal DEF ReceiveSuccess, BeforeFinal
    <2> QED
      BY <2>2, <2>3
  <1>10. ASSUME NEW r \in Response, ReceiveFailure(r) PROVE Goal
    <2>1. IsFinal(r) /\ ~Is2xx(r) /\ ~Forwards(r)
      BY <1>1, <1>10, StateAfterIs DEF ReceiveFailure, Early, Forwards
    <2>2. state \in BeforeFinal
      BY <1>5, <1>10, <2>1, AdmittedFrom DEF ReceiveFailure, BeforeFinal
    <2> QED
      BY <1>10, <2>1, <2>2, FirstFinal DEF ReceiveFailure
  <1>11. ASSUME NEW r \in Response, NEW stored \in BOOLEAN, ReceiveAbandoned(r, stored)
         PROVE  Goal
    <2>1. /\ state' = StateAfter(r) /\ StateAfter(r) \in {"Accepted", "Completed"}
          /\ StateAfter(r) = "Accepted" => invite /\ autoAck
          /\ CanTransition(state, StateAfter(r))
          /\ UNCHANGED <<setup, heard, told>>
      BY <1>1, <1>5, <1>11, StateAfterIs DEF ReceiveAbandoned, Early
    <2>2. /\ StateAfter(r) = "Completed" => state \in BeforeFinal
          /\ StateAfter(r) = "Accepted" => state \in BeforeFinal \cup {"Accepted"}
      BY <1>5, <1>11, <2>1, AdmittedFrom, StatesAre DEF ReceiveAbandoned, BeforeFinal
    <2> QED
      BY <2>1, <2>2, QuietStep
  <1>12. ASSUME NEW x \in EventTimer, ReceiveDeadline(x) PROVE Goal
    BY <1>12, QuietStep DEF ReceiveDeadline, EnterTerminated
  <1>13. CASE UNCHANGED vars
    BY <1>2, <1>13 DEF vars, setup
  <1>14. ASSUME NEW r \in Response, ReceiveRefused(r) \/ ReceiveDuplicate(r) PROVE Goal
    BY <1>2, <1>14 DEF ReceiveRefused, ReceiveDuplicate
  <1>15. ASSUME NEW x \in EventTimer,
                \/ ReceiveTimeout(x) \/ ReceiveStaleTimer(x) \/ ReceiveTerminate
                \/ \E l \in Link, outcome \in {"sent", "failed", "abandoned"} :
                       ReceiveTimerA(l, outcome)
         PROVE  Goal
    BY <1>2, <1>15 DEF ReceiveTimeout, ReceiveStaleTimer, ReceiveTerminate, ReceiveTimerA
  <1>16. "A" \in EventTimer
    BY DEF EventTimer, ClientTimer
  <1>17. CASE ReceiveResponse
    BY <1>6, <1>7, <1>8, <1>9, <1>10, <1>11, <1>14, <1>17 DEF ReceiveResponse
  <1>18. CASE Receive
    BY <1>12, <1>15, <1>16, <1>17, <1>18 DEF Receive
  <1> QED
    BY <1>3, <1>4, <1>13, <1>18 DEF Next

-----------------------------------------------------------------------------
(***************************************************************************)
(* The ACKs of the 2xx.                                                    *)
(***************************************************************************)
(* No step answers a 2xx that has an upstream recipient, and the step that *)
(* hands a 2xx over has given its ACK to the transport.                    *)
LEMMA AckStep ==
    TypeOK /\ AcksHaveATag /\ HandedSuccessIsAcked /\ [Next]_vars
        => HandedSuccessIsAcked'
  <1> SUFFICES ASSUME TypeOK, AcksHaveATag, HandedSuccessIsAcked, [Next]_vars
               PROVE  HandedSuccessIsAcked'
    OBVIOUS
  <1>1. /\ invite \in BOOLEAN /\ autoAck \in BOOLEAN
        /\ \A r \in Response : IsFinal(r) <=> r \in DOMAIN heard
    BY DEF TypeOK
  <1>2. ASSUME UNCHANGED <<setup, heard>>, acked \subseteq acked', forwarding => acked' = acked
        PROVE  HandedSuccessIsAcked'
    BY <1>2 DEF HandedSuccessIsAcked, Heard, setup
  <1>3. ASSUME UNCHANGED setup, NEW r \in Response, HandToTu(r), acked \subseteq acked',
               ~forwarding \/ acked' = acked,
               invite /\ autoAck /\ ~forwarding /\ Is2xx(r) => Tag(r) \in acked'
        PROVE  HandedSuccessIsAcked'
    <2>1. CASE ~IsFinal(r)
      BY <1>2, <1>3, <2>1 DEF HandToTu
    <2>2. CASE IsFinal(r)
      <3>1. Heard(Successful)' = Heard(Successful) \cup (IF Is2xx(r) THEN {r} ELSE {})
        BY <1>3, <2>2, HandingFinal
      <3> QED
        BY <1>3, <3>1 DEF HandedSuccessIsAcked, setup
    <2> QED
      BY <2>1, <2>2
  <1>4. ASSUME NEW r \in FromPeer, Arrive(r) PROVE HandedSuccessIsAcked'
    BY <1>2, <1>4 DEF Arrive, ArriveFinished, ArriveRunning, AnswersFromCache
  <1>5. ASSUME NEW r \in Response, ReceiveSuccess(r) PROVE HandedSuccessIsAcked'
    <2>1. Is2xx(r) /\ invite /\ ~forwarding
      BY <1>1, <1>5, StateAfterIs DEF ReceiveSuccess, Forwards, Early
    <2>2. acked' = acked \cup {Tag(r)}
      BY <1>5, <2>1, AckForIs, Responses DEF ReceiveSuccess
    <2> QED
      BY <1>3, <1>5, <2>1, <2>2 DEF ReceiveSuccess
  <1>6. ASSUME NEW r \in Response, NEW stored \in BOOLEAN, ReceiveAbandoned(r, stored)
        PROVE  HandedSuccessIsAcked'
    <2>1. Is2xx(r) => ~forwarding
      BY <1>1, <1>6, StateAfterIs DEF ReceiveAbandoned, Forwards, Early
    <2> QED
      BY <1>2, <1>6, <2>1 DEF ReceiveAbandoned
  <1>7. ASSUME NEW r \in Response,
               \/ ReceiveForwarded(r) \/ ReceiveProvisional(r)
               \/ ReceiveLast(r) \/ ReceiveFailure(r)
        PROVE  HandedSuccessIsAcked'
    <2>1. UNCHANGED <<setup, acked>> /\ HandToTu(r)
      BY <1>7 DEF ReceiveForwarded, ReceiveProvisional, ReceiveLast, ReceiveFailure
    <2>2. Is2xx(r) => forwarding \/ ~invite \/ ~autoAck
      BY <1>1, <1>7, StateAfterIs, Responses
         DEF ReceiveForwarded, ReceiveProvisional, ReceiveLast, ReceiveFailure, Forwards, Early
    <2> QED
      BY <1>3, <2>1, <2>2
  <1>8. ASSUME NEW r \in Response, ReceiveRefused(r) \/ ReceiveDuplicate(r)
        PROVE  HandedSuccessIsAcked'
    BY <1>2, <1>8 DEF ReceiveRefused, ReceiveDuplicate
  <1>9. CASE ReceiveResponse
    BY <1>5, <1>6, <1>7, <1>8, <1>9 DEF ReceiveResponse
  <1>10. CASE EndpointStep
    BY <1>2, <1>4, <1>10 DEF EndpointStep, TimerFires, TimerCleanupFires
  <1>11. CASE OwnerStep
    BY <1>2, <1>11 DEF OwnerStep, Send, StopRetransmissions, Drop
  <1>12. CASE Receive
    BY <1>2, <1>9, <1>12 DEF Receive, ReceiveTimerA, ReceiveTimeout, ReceiveDeadline,
       ReceiveStaleTimer, ReceiveTerminate
  <1>13. CASE UNCHANGED vars
    BY <1>2, <1>13 DEF vars, setup
  <1> QED
    BY <1>10, <1>11, <1>12, <1>13 DEF Next

-----------------------------------------------------------------------------
(* Nothing was sent and nothing heard: the invariant holds.                *)
LEMMA InitInv == Init => IInv
  <1> SUFFICES ASSUME Init PROVE IInv
    OBVIOUS
  <1>1. <<>> \in Seq(Event) /\ TRUE \in BOOLEAN /\ FALSE \in BOOLEAN
    OBVIOUS
  <1>2. heard \in [{r \in Response : IsFinal(r)} -> 0 .. 2]
    BY DEF Init
  <1>3. TypeOK
    BY <1>1, <1>2, StatesAre DEF Init, TypeOK
  <1>4. \A S : Heard(S) = {}
    BY DEF Init, Heard
  <1>5. Heard(Finals) = {} /\ Heard(Successful) = {} /\ Heard(Failure) = {}
    BY <1>4
  <1>6. OneVerdict /\ HandedSuccessIsAcked
    BY <1>5 DEF Init, OneVerdict, HandedSuccessIsAcked
  <1>7. Detached /\ AcksHaveATag /\ VerdictMatchesState
    BY <1>5 DEF Init, Detached, AcksHaveATag, VerdictMatchesState, None, NoAck
  <1> QED
    BY <1>3, <1>6, <1>7 DEF IInv

(* IInv is inductive.                                                      *)
LEMMA StepInv == IInv /\ [Next]_vars => IInv'
  BY TypeStep, DetachedStep, VerdictStep, AckStep DEF IInv

(* IInv holds in every behaviour of the transaction.                       *)
LEMMA Invariance == Spec => []IInv
  BY InitInv, StepInv, PTL DEF Spec

(***************************************************************************)
(* The variables keep their types; no step stores an ACK without a tag,    *)
(* hands over what is no response or counts past its bound.                *)
(***************************************************************************)
THEOREM Typing == Spec => []TypeOK
  BY Invariance, PTL DEF IInv

(***************************************************************************)
(* For every set of forks and every order in which their responses come,   *)
(* are repeated or race the local 408 and 503, also when receive is        *)
(* abandoned and polled again: the TU hears one verdict, and no            *)
(* provisional after it (on_received_response with can_transition).        *)
(***************************************************************************)
THEOREM Verdict == Spec => []OneVerdict
  BY Invariance, PTL DEF IInv

(***************************************************************************)
(* For every set of forks: a user agent acknowledges each fork whose 2xx   *)
(* it hands over, and a proxy none (send_ack, cached_ack_matches_response, *)
(* the finished ACK of on_received_message).                               *)
(***************************************************************************)
THEOREM Acknowledged == Spec => []HandedSuccessIsAcked
  BY Invariance, PTL DEF IInv
=============================================================================
