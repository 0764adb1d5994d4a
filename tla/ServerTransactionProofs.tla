---------------------- MODULE ServerTransactionProofs ----------------------
(***************************************************************************)
(* The safety of ServerTransaction for every set of transactions, every    *)
(* set of replies and channels of every length.                            *)
(*                                                                         *)
(* IInv is inductive: TxInv, its part about one transaction, depends on    *)
(* the state of that transaction only, so a step of t leaves the others'   *)
(* parts alone, and for t there is one lemma per operation of transaction. *)
(***************************************************************************)
EXTENDS ServerTransaction, TLAPS

(* Sequences of events stay sequences of events. *)
LEMMA QueueSteps ==
    ASSUME NEW q \in Seq(Event)
    PROVE  /\ \A e \in Event : Append(q, e) \in Seq(Event)
           /\ q # <<>> => Tail(q) \in Seq(Event)
  OBVIOUS

(* Every event the code puts into a channel is an Event.                   *)
LEMMA EventsAreEvents ==
    /\ Terminate \in Event
    /\ \A r \in Replies : Respond(r) \in Event
    /\ \A x \in EventTimer : Timer(x) \in Event
    /\ \A m \in {"Request", "CANCEL"} : Received(m, None) \in Event
    /\ \A s \in Invites : Received("ACK", s) \in Event
  BY DEF Event

(* The statuses fall into three classes, and so do the states they lead to. *)
LEMMA Classes ==
    /\ StatusCode = Provisional \cup Successful \cup Failure
    /\ Finals = Successful \cup Failure
    /\ Provisional \cap Finals = {} /\ Successful \cap Failure = {}
    /\ \A r1, r2 \in Successful : r1 = r2
    /\ None \notin StatusCode /\ None \notin Successful
  BY DEF StatusCode, Provisional, Finals, Successful, Failure, None

(* The states respond moves to.                                            *)
LEMMA StateAfterIs ==
    ASSUME NEW t \in Tx, NEW r \in StatusCode
    PROVE  \/ r \in Provisional /\ StateAfter(t, r) \in BeforeFinal
           \/ r \in Successful /\ t \in Invites /\ StateAfter(t, r) = "Accepted"
           \/ r \in Failure /\ t \in Invites /\ StateAfter(t, r) = "Completed"
           \/ r \in Finals /\ t \in NonInvites /\ StateAfter(t, r) = "Terminated"
  BY ServerAssumption DEF StateAfter, Tx, StatusCode, Provisional, Finals, Successful,
     Failure, BeforeFinal

(* Nothing has happened yet: the invariant holds.                          *)
LEMMA InitInv == Init => IInv
  <1> SUFFICES ASSUME Init PROVE IInv
    OBVIOUS
  <1>1. TypeOK
    BY DEF Init, TypeOK, TransactionState, None
  <1>2. \A t \in Tx : TxInv(t)
    BY DEF Init, TxInv, AnswerMatchesState, MapsMatchState, AcksMatchState,
       TimersMatchState, BeforeFinal, AfterFinal, Over, FinalsOf, None
  <1>3. RoutesHaveAnOwner
    BY DEF Init, RoutesHaveAnOwner, None
  <1> QED
    BY <1>1, <1>2, <1>3 DEF IInv

(***************************************************************************)
(* Everything TxInv says of a transaction is a function of its own         *)
(* entries: a step that changes only those of t is judged at t.            *)
(***************************************************************************)
Same(u) == /\ state'[u] = state[u] /\ queue'[u] = queue[u]
           /\ lastResponse'[u] = lastResponse[u] /\ timers'[u] = timers[u]
           /\ (u \in transactions' <=> u \in transactions)
           /\ finished'[u] = finished[u] /\ wire'[u] = wire[u]
           /\ handed'[u] = handed[u] /\ (u \in expired' <=> u \in expired)
           /\ (u \in waitingAckCseq' <=> u \in waitingAckCseq)

(* A step that touches one transaction keeps TxInv of the others.          *)
LEMMA StepOfOne ==
    ASSUME IInv, NEW t \in Tx, \A u \in Tx \ {t} : Same(u),
           TypeOK', TxInv(t)', RoutesHaveAnOwner'
    PROVE  IInv'
  <1>1. ASSUME NEW u \in Tx, u # t PROVE TxInv(u)'
    BY <1>1 DEF IInv, Same, TxInv, AnswerMatchesState, MapsMatchState, AcksMatchState,
       TimersMatchState, FinalsOf
  <1> QED
    BY <1>1 DEF IInv

(***************************************************************************)
(* The operations of a transaction, each for a running transaction t.      *)
(***************************************************************************)
(* What receive hands to the TU is counted for t and that method only. *)
LEMMA Handing ==
    ASSUME TypeOK, NEW t \in Tx, NEW m \in {"ACK", "CANCEL"}, HandToTu(t, m)
    PROVE  /\ handed' \in [Tx -> [{"ACK", "CANCEL"} -> 0 .. 2]]
           /\ \A u \in Tx \ {t} : handed'[u] = handed[u]
           /\ \A n \in {"ACK", "CANCEL"} \ {m} : handed'[t][n] = handed[t][n]
           /\ handed[t][m] = 0 => handed'[t][m] = 1
  <1> DEFINE c == IF handed[t][m] = 2 THEN 2 ELSE handed[t][m] + 1
             h == [handed[t] EXCEPT ![m] = c]
  <1>1. handed \in [Tx -> [{"ACK", "CANCEL"} -> 0 .. 2]] /\ handed' = [handed EXCEPT ![t] = h]
    BY DEF TypeOK, HandToTu
  <1>2. handed[t] \in [{"ACK", "CANCEL"} -> 0 .. 2] /\ handed[t][m] \in 0 .. 2
    BY <1>1
  <1>3. c \in 0 .. 2 /\ (handed[t][m] = 0 => c = 1)
    BY <1>2
  <1> HIDE DEF c
  <1>4. h \in [{"ACK", "CANCEL"} -> 0 .. 2] /\ h[m] = c
    BY <1>2, <1>3
  <1>5. \A n \in {"ACK", "CANCEL"} \ {m} : h[n] = handed[t][n]
    BY <1>2
  <1> HIDE DEF h
  <1>6. handed'[t] = h /\ \A u \in Tx \ {t} : handed'[u] = handed[u]
    BY <1>1
  <1> QED
    BY <1>1, <1>3, <1>4, <1>5, <1>6

(* The channel changes, and at most a CANCEL is counted. *)
LEMMA ChannelInv ==
    ASSUME IInv, NEW t \in Tx, NEW q \in Seq(Event), state[t] # None,
           SetQueue(t, q), handed' = handed \/ HandToTu(t, "CANCEL"),
           UNCHANGED <<reliable, state, lastResponse, timers, endpointVars, wire, expired>>
    PROVE  IInv'
  <1> USE DEF IInv, SetQueue, endpointVars
  <1>1. /\ handed' \in [Tx -> [{"ACK", "CANCEL"} -> 0 .. 2]]
        /\ handed'[t]["ACK"] = handed[t]["ACK"]
        /\ \A u \in Tx \ {t} : handed'[u] = handed[u]
    BY Handing DEF TypeOK
  <1>2. TypeOK'
    BY <1>1 DEF TypeOK
  <1>3. TxInv(t)'
    BY <1>1 DEF TypeOK, TxInv, AnswerMatchesState, MapsMatchState, AcksMatchState,
       TimersMatchState, FinalsOf
  <1>4. RoutesHaveAnOwner' /\ \A u \in Tx \ {t} : Same(u)
    BY <1>1 DEF TypeOK, RoutesHaveAnOwner, Same
  <1> QED
    BY <1>2, <1>3, <1>4, StepOfOne

(* transition to a state without side effects.                             *)
LEMMA EnterPlainInv ==
    ASSUME IInv, NEW t \in Tx, NEW r \in StatusCode, NEW q \in Seq(Event),
           NEW s \in BeforeFinal \cup {"Accepted"}, EnterPlain(t, s, r, q),
           \/ s \in BeforeFinal /\ state[t] \in BeforeFinal
           \/ s = state[t] /\ s = "Accepted" /\ r \in Successful,
           wire' \in [Tx -> SUBSET StatusCode], \A u \in Tx \ {t} : wire'[u] = wire[u],
           FinalsOf(t)' = FinalsOf(t), UNCHANGED <<reliable, handed, expired>>
    PROVE  IInv'
  <1> USE DEF EnterPlain, SetState, SetQueue, endpointVars, BeforeFinal, AfterFinal, Over
  <1>1. TypeOK'
    BY DEF IInv, TypeOK, TransactionState
  <1>2. wire'[t] \cap Successful = wire[t] \cap Successful
    BY Classes DEF FinalsOf
  <1>3. TxInv(t)'
    BY <1>2, Classes DEF IInv, TypeOK, TxInv, AnswerMatchesState, MapsMatchState,
       AcksMatchState, TimersMatchState, TimersOf, None
  <1>4. RoutesHaveAnOwner' /\ \A u \in Tx \ {t} : Same(u)
    BY DEF IInv, TypeOK, RoutesHaveAnOwner, Same
  <1> QED
    BY <1>1, <1>3, <1>4, StepOfOne

(* transition to Accepted, which adds the two routes of the ACK.           *)
LEMMA EnterAcceptedInv ==
    ASSUME IInv, NEW t \in Invites, NEW r \in Successful, NEW q \in Seq(Event),
           EnterAccepted(t, r, q), state[t] \in BeforeFinal, OnWire(t, r),
           UNCHANGED <<reliable, handed, expired>>
    PROVE  IInv'
  <1> USE DEF EnterAccepted, SetState, SetQueue, OnWire, BeforeFinal, AfterFinal, Over
  <1>0. t \in Tx /\ r \in StatusCode
    BY Classes DEF Tx
  <1>1. TypeOK'
    BY <1>0 DEF IInv, TypeOK, TransactionState, ServerTimer
  <1>2. FinalsOf(t)' = {r}
    BY <1>0, Classes DEF IInv, TypeOK, TxInv, AnswerMatchesState, FinalsOf
  <1>3. TxInv(t)'
    <2>1. AcksMatchState(t)'
      BY <1>0, Classes DEF IInv, TypeOK, TxInv, MapsMatchState, AcksMatchState, None
    <2>2. AnswerMatchesState(t)'
      BY <1>0, <1>2, Classes DEF IInv, TypeOK, AnswerMatchesState, None
    <2>3. MapsMatchState(t)'
      BY <1>0, <1>2 DEF IInv, TypeOK, TxInv, MapsMatchState, None
    <2>4. TimersMatchState(t)'
      BY <1>0
      DEF IInv, TypeOK, TxInv, TimersMatchState, TimersOf, EventTimer, ServerTimer
    <2> QED
      BY <2>1, <2>2, <2>3, <2>4 DEF TxInv
  <1>4. RoutesHaveAnOwner' /\ \A u \in Tx \ {t} : Same(u)
    BY <1>0 DEF IInv, TypeOK, TxInv, MapsMatchState, RoutesHaveAnOwner, Same, None
  <1> QED
    BY <1>0, <1>1, <1>3, <1>4, StepOfOne

(* transition to Completed.                                                *)
LEMMA EnterCompletedInv ==
    ASSUME IInv, NEW t \in Invites, NEW r \in Failure, NEW q \in Seq(Event),
           EnterCompleted(t, r, q), state[t] \in BeforeFinal, OnWire(t, r),
           UNCHANGED <<reliable, handed, expired>>
    PROVE  IInv'
  <1> USE DEF EnterCompleted, SetState, SetQueue, OnWire, BeforeFinal, AfterFinal, Over
  <1>0. t \in Tx /\ r \in StatusCode
    BY Classes DEF Tx
  <1>1. TypeOK'
    BY <1>0 DEF IInv, TypeOK, TransactionState, ServerTimer
  <1>2. FinalsOf(t)' = {r}
    BY <1>0, Classes DEF IInv, TypeOK, TxInv, AnswerMatchesState, FinalsOf
  <1>3. TxInv(t)'
    BY <1>0, <1>2, Classes DEF IInv, TypeOK, TxInv, AnswerMatchesState, MapsMatchState,
       AcksMatchState, TimersMatchState, TimersOf, EventTimer, ServerTimer, None, FinalsOf
  <1>4. RoutesHaveAnOwner' /\ \A u \in Tx \ {t} : Same(u)
    BY <1>0 DEF IInv, TypeOK, TxInv, MapsMatchState, RoutesHaveAnOwner, Same, None
  <1> QED
    BY <1>0, <1>1, <1>3, <1>4, StepOfOne

(* transition to Confirmed.                                                *)
LEMMA EnterConfirmedInv ==
    ASSUME IInv, NEW t \in Tx, NEW q \in Seq(Event), EnterConfirmed(t, q),
           state[t] = "Completed", HandToTu(t, "ACK"), UNCHANGED <<reliable, wire, expired>>
    PROVE  IInv'
  <1> USE DEF EnterConfirmed, SetState, SetQueue, ForgetWaitingAck, CleanupTimer
  <1>1. /\ handed' \in [Tx -> [{"ACK", "CANCEL"} -> 0 .. 2]]
        /\ \A u \in Tx \ {t} : handed'[u] = handed[u]
    BY Handing DEF IInv
  <1>2. TypeOK'
    BY <1>1 DEF IInv, TypeOK, TransactionState, ServerTimer
  <1>3. wire[t] \cap Successful = {}
    BY Classes DEF IInv, TxInv, AnswerMatchesState, AfterFinal, FinalsOf
  <1>4. TxInv(t)'
    BY <1>1, <1>3, Classes DEF IInv, TypeOK, TxInv, AnswerMatchesState, MapsMatchState,
       AcksMatchState, TimersMatchState, TimersOf, EventTimer, ServerTimer, BeforeFinal,
       AfterFinal, Over, FinalsOf, None
  <1>5. RoutesHaveAnOwner' /\ \A u \in Tx \ {t} : Same(u)
    BY <1>1 DEF IInv, TypeOK, RoutesHaveAnOwner, Same, Tx
  <1> QED
    BY <1>2, <1>4, <1>5, StepOfOne

(* cleanup: the routes of t go with it, unless a TimerCleanup takes them. *)
LEMMA CleanupRoutes ==
    ASSUME IInv, NEW t \in Tx, NEW r, Cleanup(t, r),
           \A u \in Tx \ {t} : state'[u] = state[u],
           state[t] = "Completed" => r # None
    PROVE  RoutesHaveAnOwner'
  <1> USE DEF Cleanup, DetachTransaction, ForgetWaitingAck, CleanupTimer
  <1>1. \A u \in waitingAckCseq' : u \in transactions' /\ state'[u] = "Accepted"
    BY DEF IInv, TypeOK, RoutesHaveAnOwner, Tx
  <1>2. waitingAck' # None => waitingAck' \in transactions' \/ "Cleanup" \in timers'[waitingAck']
    BY DEF IInv, TypeOK, RoutesHaveAnOwner, Tx
  <1> QED
    BY <1>1, <1>2 DEF RoutesHaveAnOwner

(* transition to Terminated, with cleanup.                                 *)
LEMMA EnterTerminatedInv ==
    ASSUME IInv, NEW t \in Tx, NEW r \in StatusCode, NEW q \in Seq(Event),
           EnterTerminated(t, r, q), state[t] \notin Over,
           wire' \in [Tx -> SUBSET StatusCode], FinalsOf(t)' \subseteq {r},
           handed' \in [Tx -> [{"ACK", "CANCEL"} -> 0 .. 2]],
           wire'[t] \cap Successful # {} \/ r \in Successful => handed'[t]["ACK"] <= 1,
           \A u \in Tx \ {t} : wire'[u] = wire[u] /\ handed'[u] = handed[u],
           UNCHANGED <<reliable, expired>>
    PROVE  IInv'
  <1> USE DEF EnterTerminated, SetState, SetQueue
  <1>1. TypeOK'
    BY QueueSteps, EventsAreEvents
    DEF IInv, TypeOK, Cleanup, DetachTransaction, ForgetWaitingAck, CleanupTimer,
        ServerTimer, TransactionState, None
  <1>2. TxInv(t)'
    BY Classes
    DEF IInv, TypeOK, TxInv, AnswerMatchesState, MapsMatchState, AcksMatchState,
        TimersMatchState, FinalsOf, Cleanup, DetachTransaction, CleanupTimer, BeforeFinal,
        AfterFinal, Over, None
  <1>3. RoutesHaveAnOwner'
    BY CleanupRoutes, Classes DEF IInv, TypeOK
  <1>4. \A u \in Tx \ {t} : Same(u)
    BY DEF IInv, TypeOK, Cleanup, DetachTransaction, ForgetWaitingAck, Same
  <1> QED
    BY <1>1, <1>2, <1>3, <1>4, StepOfOne

(***************************************************************************)
(* respond: three outcomes, the first with one case per class of status.   *)
(***************************************************************************)
LEMMA RespondSentInv ==
    ASSUME IInv, NEW t \in Tx, NEW r \in StatusCode, NEW q \in Seq(Event),
           state[t] # None, RespondSent(t, r, q), UNCHANGED <<reliable, handed, expired>>
    PROVE  IInv'
  <1> DEFINE s == StateAfter(t, r)
  <1>1. CanTransition(state[t], s) /\ OnWire(t, r) /\ Transition(t, s, r, q)
    BY DEF RespondSent
  <1>2. /\ wire' = [wire EXCEPT ![t] = @ \cup {r}]
        /\ wire \in [Tx -> SUBSET StatusCode] /\ handed \in [Tx -> [{"ACK", "CANCEL"} -> 0 .. 2]]
        /\ TxInv(t)
    BY <1>1 DEF OnWire, IInv, TypeOK
  <1>3. /\ wire' \in [Tx -> SUBSET StatusCode]
        /\ \A u \in Tx \ {t} : wire'[u] = wire[u] /\ handed'[u] = handed[u]
    BY <1>2
  <1>4. \/ state[t] \in BeforeFinal
        \/ state[t] = "Accepted" /\ t \in Invites
    BY <1>1, <1>2, StateAfterIs, ServerAssumption
    DEF CanTransition, AllowedFrom, TxInv, AnswerMatchesState, BeforeFinal,
        AfterFinal, Over, None
  <1>5. CASE r \in Provisional
    <2>1. s \in BeforeFinal /\ state[t] \in BeforeFinal
      BY <1>1, <1>4, <1>5, StateAfterIs, Classes
      DEF BeforeFinal, CanTransition, AllowedFrom
    <2>2. FinalsOf(t)' = FinalsOf(t)
      BY <1>2, <1>5, Classes DEF FinalsOf
    <2> QED
      BY <1>1, <1>3, <2>1, <2>2, EnterPlainInv DEF Transition, BeforeFinal
  <1>6. CASE r \in Successful /\ t \in Invites
    <2>1. s = "Accepted"
      BY <1>6, StateAfterIs, ServerAssumption, Classes
    <2>2. CASE state[t] = "Accepted"
      <3>1. FinalsOf(t)' = FinalsOf(t)
        BY <1>2, <1>6, <2>2, Classes DEF FinalsOf, TxInv, AnswerMatchesState, AfterFinal
      <3> QED
        BY <1>1, <1>3, <1>6, <2>1, <2>2, <3>1, EnterPlainInv DEF Transition
    <2>3. CASE state[t] \in BeforeFinal
      BY <1>1, <1>6, <2>1, <2>3, EnterAcceptedInv DEF Transition, BeforeFinal
    <2> QED
      BY <1>4, <2>2, <2>3
  <1>7. CASE r \in Failure /\ t \in Invites
    <2>1. s = "Completed" /\ state[t] \in BeforeFinal
      BY <1>1, <1>4, <1>7, StateAfterIs, ServerAssumption, Classes
      DEF CanTransition, AllowedFrom
    <2> QED
      BY <1>1, <1>7, <2>1, EnterCompletedInv DEF Transition, BeforeFinal
  <1>8. CASE r \in Finals /\ t \in NonInvites
    <2>1. s = "Terminated" /\ state[t] \in BeforeFinal
      BY <1>4, <1>8, StateAfterIs, ServerAssumption, Classes
    <2>2. FinalsOf(t)' \subseteq {r}
      BY <1>2, <2>1 DEF FinalsOf, TxInv, AnswerMatchesState
    <2>3. handed'[t]["ACK"] <= 1
      BY <1>2, <2>1 DEF TxInv, AcksMatchState
    <2>4. EnterTerminated(t, r, q) /\ state[t] \notin Over
      BY <1>1, <2>1 DEF Transition, BeforeFinal, Over, None
    <2> QED
      BY <1>2, <1>3, <2>2, <2>3, <2>4, EnterTerminatedInv
  <1> QED
    BY <1>5, <1>6, <1>7, <1>8, Classes DEF Tx

(* The send failed: last_response is replaced, which in Accepted can only  *)
(* be by another 2xx.                                                      *)
LEMMA RespondFailedInv ==
    ASSUME IInv, NEW t \in Tx, NEW r \in StatusCode, NEW q \in Seq(Event),
           state[t] # None, RespondFailed(t, r, q), UNCHANGED <<reliable, handed, expired>>
    PROVE  IInv'
  <1> USE DEF RespondFailed, SetQueue, endpointVars
  <1>1. \/ state[t] \in BeforeFinal
        \/ state[t] = "Accepted" /\ r \in Successful
    BY StateAfterIs, ServerAssumption
    DEF CanTransition, AllowedFrom, IInv, TxInv, AnswerMatchesState, BeforeFinal,
        AfterFinal, Over, None
  <1>2. TypeOK'
    BY DEF IInv, TypeOK
  <1>3. TxInv(t)'
    BY <1>1, Classes
    DEF IInv, TypeOK, TxInv, AnswerMatchesState, MapsMatchState, AcksMatchState,
        TimersMatchState, FinalsOf, BeforeFinal, AfterFinal, Over
  <1>4. RoutesHaveAnOwner' /\ \A u \in Tx \ {t} : Same(u)
    BY DEF IInv, TypeOK, RoutesHaveAnOwner, Same
  <1> QED
    BY <1>2, <1>3, <1>4, StepOfOne

(* respond: sent, stored although the send failed, or refused.             *)
LEMMA DoRespondInv ==
    ASSUME IInv, NEW t \in Tx, NEW r \in StatusCode, NEW q \in Seq(Event),
           state[t] # None, DoRespond(t, r, q), UNCHANGED <<reliable, handed, expired>>
    PROVE  IInv'
  <1>1. RespondRefused(t, r, q) => IInv'
    BY ChannelInv DEF RespondRefused
  <1> QED
    BY <1>1, RespondSentInv, RespondFailedInv DEF DoRespond

(***************************************************************************)
(* The endpoint task.                                                      *)
(***************************************************************************)
LEMMA ArriveFinishedInv ==
    ASSUME IInv, NEW t \in Tx, NEW m, ArriveFinished(t, m)
    PROVE  IInv'
  <1> USE DEF ArriveFinished, ForgetWaitingAck
  <1>0. /\ wire' \in [Tx -> SUBSET StatusCode]
        /\ wire'[t] = wire[t] \/ wire'[t] = wire[t] \cup {finished[t]}
        /\ \A u \in Tx \ {t} : wire'[u] = wire[u]
    <2>1. /\ wire \in [Tx -> SUBSET StatusCode] /\ finished[t] \in StatusCode
          /\ wire' = wire \/ wire' = [wire EXCEPT ![t] = @ \cup {finished[t]}]
      BY DEF IInv, TypeOK, OnWire
    <2> QED
      BY <2>1
  <1>1. TypeOK'
    BY <1>0 DEF IInv, TypeOK
  <1>2. /\ FinalsOf(t)' \subseteq FinalsOf(t) \cup {finished[t]}
        /\ finished[t] \in StatusCode /\ finished[t] # None
    BY <1>0 DEF IInv, TypeOK, FinalsOf
  <1>3. TxInv(t)'
    <2>0. TxInv(t) /\ TypeOK /\ state[t] \in Over
      BY <1>2 DEF IInv, TxInv, MapsMatchState
    <2> USE <1>0, <1>2, <2>0 DEF TxInv, TypeOK, BeforeFinal, AfterFinal, Over, None
    <2>1. AnswerMatchesState(t)' /\ AcksMatchState(t)'
      BY DEF AnswerMatchesState, AcksMatchState
    <2>2. MapsMatchState(t)'
      BY DEF MapsMatchState
    <2>3. TimersMatchState(t)'
      BY DEF TimersMatchState
    <2> QED
      BY <2>1, <2>2, <2>3
  <1>4. RoutesHaveAnOwner' /\ \A u \in Tx \ {t} : Same(u)
    BY <1>0 DEF IInv, TypeOK, RoutesHaveAnOwner, Same, Tx
  <1> QED
    BY <1>1, <1>3, <1>4, StepOfOne

(* on_received_message for a running transaction.                          *)
LEMMA ArriveRunningInv ==
    ASSUME IInv, NEW t \in Tx, NEW m, NEW s, Received(m, s) \in Event, ArriveRunning(t, m, s)
    PROVE  IInv'
  <1>1. state[t] # None /\ queue[t] \in Seq(Event)
    BY DEF ArriveRunning, IInv, TypeOK, TxInv, MapsMatchState, Over
  <1>2. Append(queue[t], Received(m, s)) \in Seq(Event)
    BY <1>1, QueueSteps
  <1> QED
    BY <1>1, <1>2, ChannelInv DEF ArriveRunning, Enqueue

(* on_received_message that starts a transaction.                          *)
LEMMA ArriveNewInv ==
    ASSUME IInv, NEW t \in Tx, t \notin expired, ArriveNew(t)
    PROVE  IInv'
  <1> USE DEF ArriveNew, SetState, SetQueue
  <1>1. TypeOK'
    BY DEF IInv, TypeOK, TransactionState
  <1>2. TxInv(t)'
    <2>1. AcksMatchState(t)'
      BY DEF IInv, TypeOK, AcksMatchState
    <2>2. state[t] = None /\ wire[t] = {} /\ finished[t] = None
      BY DEF IInv, TxInv, MapsMatchState, Over
    <2>3. AnswerMatchesState(t)' /\ MapsMatchState(t)'
      BY <2>2
      DEF IInv, TypeOK, AnswerMatchesState, MapsMatchState, FinalsOf, BeforeFinal,
          AfterFinal, Over, None
    <2>4. TimersMatchState(t)'
      BY <2>2 DEF IInv, TypeOK, TxInv, TimersMatchState, TimersOf, None
    <2> QED
      BY <2>1, <2>3, <2>4 DEF TxInv
  <1>3. RoutesHaveAnOwner' /\ \A u \in Tx \ {t} : Same(u)
    BY DEF IInv, TypeOK, TxInv, RoutesHaveAnOwner, Same, Tx
  <1> QED
    BY <1>1, <1>2, <1>3, StepOfOne

(* process_timer, a timer of a transaction.                                *)
LEMMA TimerFiresInv ==
    ASSUME IInv, NEW t \in Tx, NEW x \in EventTimer, TimerFires(t, x)
    PROVE  IInv'
  <1> USE DEF TimerFires, Enqueue, SetQueue, endpointVars
  <1>1. /\ queue' \in [Tx -> Seq(Event)]
        /\ \A u \in Tx \ {t} : queue'[u] = queue[u]
        /\ t \notin transactions => queue'[t] = queue[t]
    <2>1. Append(queue[t], Timer(x)) \in Seq(Event)
      BY QueueSteps, EventsAreEvents DEF IInv, TypeOK
    <2> QED
      BY <2>1 DEF IInv, TypeOK
  <1>2. TypeOK'
    BY <1>1 DEF IInv, TypeOK
  <1>3. TxInv(t)'
    BY <1>1
    DEF IInv, TypeOK, TxInv, AnswerMatchesState, MapsMatchState, AcksMatchState,
        TimersMatchState, FinalsOf, Over, EventTimer
  <1>4. RoutesHaveAnOwner' /\ \A u \in Tx \ {t} : Same(u)
    BY <1>1 DEF IInv, TypeOK, RoutesHaveAnOwner, Same, Tx, EventTimer
  <1> QED
    BY <1>2, <1>3, <1>4, StepOfOne

(* process_timer, TimerCleanup.                                            *)
LEMMA TimerCleanupFiresInv ==
    ASSUME IInv, NEW t \in Tx, TimerCleanupFires(t)
    PROVE  IInv'
  <1> USE DEF TimerCleanupFires, ForgetWaitingAck
  <1>1. TypeOK'
    BY DEF IInv, TypeOK
  <1>2. TxInv(t)'
    <2>0. TxInv(t) /\ TypeOK /\ state[t] \in Over
      BY DEF IInv, TxInv, MapsMatchState, TimersMatchState
    <2> USE <2>0 DEF TxInv, TypeOK, BeforeFinal, AfterFinal, Over, None
    <2>1. AnswerMatchesState(t)' /\ AcksMatchState(t)'
      BY Classes DEF AnswerMatchesState, AcksMatchState, FinalsOf
    <2>2. MapsMatchState(t)' /\ TimersMatchState(t)'
      BY DEF MapsMatchState, TimersMatchState, FinalsOf
    <2> QED
      BY <2>1, <2>2
  <1>3. RoutesHaveAnOwner' /\ \A u \in Tx \ {t} : Same(u)
    BY DEF IInv, TypeOK, RoutesHaveAnOwner, Same, Tx
  <1> QED
    BY <1>1, <1>2, <1>3, StepOfOne
(***************************************************************************)
(* The owner task.                                                         *)
(***************************************************************************)
LEMMA TakesFacts ==
    ASSUME IInv, NEW t \in Tx, NEW e, Takes(t, e)
    PROVE  state[t] # None /\ Rest(t) \in Seq(Event)
  BY QueueSteps DEF Takes, Rest, IInv, TypeOK, TxInv, MapsMatchState

(* on_received_request with an ACK, in Accepted or Completed.              *)
LEMMA ReceiveAckInv ==
    ASSUME IInv, NEW t \in Tx, ReceiveAckAccepted(t) \/ ReceiveAckCompleted(t)
    PROVE  IInv'
  <1>0. /\ Takes(t, Received("ACK", t)) /\ HandToTu(t, "ACK")
        /\ UNCHANGED <<reliable, wire, expired>>
        /\ TypeOK /\ TxInv(t)
    BY DEF ReceiveAckAccepted, ReceiveAckCompleted, IInv
  <1>1. state[t] # None /\ Rest(t) \in Seq(Event)
    BY <1>0, TakesFacts
  <1>2. /\ handed' \in [Tx -> [{"ACK", "CANCEL"} -> 0 .. 2]]
        /\ \A u \in Tx \ {t} : handed'[u] = handed[u]
        /\ handed[t]["ACK"] = 0 => handed'[t]["ACK"] = 1
    BY <1>0, Handing
  <1>3. CASE state[t] = "Accepted" /\ EnterTerminated(t, lastResponse[t], Rest(t))
    <2>1. lastResponse[t] \in StatusCode /\ FinalsOf(t)' \subseteq {lastResponse[t]}
      BY <1>0, <1>3, Classes DEF TxInv, AnswerMatchesState, AfterFinal, FinalsOf
    <2>2. handed'[t]["ACK"] <= 1
      BY <1>0, <1>2, <1>3 DEF TxInv, AcksMatchState
    <2> QED
      BY <1>0, <1>1, <1>2, <1>3, <2>1, <2>2, EnterTerminatedInv DEF Over, None, TypeOK
  <1>4. CASE state[t] = "Completed" /\ EnterConfirmed(t, Rest(t))
    BY <1>0, <1>1, <1>4, EnterConfirmedInv
  <1>5. CASE state[t] = "Confirmed" /\ SetQueue(t, Rest(t)) /\ KeepTx(t)
    <2> USE <1>0, <1>1, <1>2, <1>5 DEF SetQueue, KeepTx, endpointVars
    <2>1. TypeOK'
      BY DEF TypeOK
    <2>2. wire[t] \cap Successful = {} /\ finished[t] = None
      BY Classes DEF TxInv, AnswerMatchesState, MapsMatchState, AfterFinal, Over, FinalsOf, None
    <2>3. TxInv(t)'
      BY <2>2, Classes
      DEF TypeOK, TxInv, AnswerMatchesState, MapsMatchState, AcksMatchState,
          TimersMatchState, FinalsOf, BeforeFinal
    <2>4. RoutesHaveAnOwner' /\ \A u \in Tx \ {t} : Same(u)
      BY DEF IInv, TypeOK, RoutesHaveAnOwner, Same
    <2> QED
      BY <2>1, <2>3, <2>4, StepOfOne
  <1> QED
    BY <1>3, <1>4, <1>5 DEF ReceiveAckAccepted, ReceiveAckCompleted

(* on_timer with Timer G.                                                  *)
LEMMA ReceiveTimerGInv ==
    ASSUME IInv, NEW t \in Tx, NEW sent \in BOOLEAN, ReceiveTimerG(t, sent)
    PROVE  IInv'
  <1> USE DEF ReceiveTimerG, SetQueue, endpointVars
  <1>1. state[t] # None /\ Rest(t) \in Seq(Event)
    BY TakesFacts
  <1>2. /\ state[t] \in {"Accepted", "Completed"} /\ TxInv(t) /\ TypeOK
        /\ lastResponse[t] \in StatusCode /\ FinalsOf(t) = {lastResponse[t]}
    BY Classes DEF IInv, TxInv, AnswerMatchesState, AfterFinal
  <1>3. /\ wire' \in [Tx -> SUBSET StatusCode]
        /\ wire'[t] = wire[t]
        /\ \A u \in Tx \ {t} : wire'[u] = wire[u]
    <2>1. wire \in [Tx -> SUBSET StatusCode] /\ lastResponse[t] \in wire[t]
      BY <1>2 DEF TypeOK, FinalsOf
    <2>2. wire' = wire \/ wire' = [wire EXCEPT ![t] = @ \cup {lastResponse[t]}]
      BY DEF OnWire
    <2> QED
      BY <2>1, <2>2
  <1>4. /\ timers' \in [Tx -> SUBSET ServerTimer]
        /\ timers'[t] \subseteq timers[t] \cup {"G"} /\ timers[t] \subseteq timers'[t]
        /\ \A u \in Tx \ {t} : timers'[u] = timers[u]
    <2>1. timers \in [Tx -> SUBSET ServerTimer] /\ "G" \in ServerTimer
      BY <1>2 DEF TypeOK, ServerTimer
    <2>2. timers' = timers \/ timers' = [timers EXCEPT ![t] = @ \cup {"G"}]
      OBVIOUS
    <2> QED
      BY <2>1, <2>2
  <1>5. TypeOK'
    BY <1>1, <1>2, <1>3, <1>4 DEF TypeOK
  <1>6. TxInv(t)'
    BY <1>1, <1>2, <1>3, <1>4
    DEF TypeOK, TxInv, AnswerMatchesState, MapsMatchState, AcksMatchState,
        TimersMatchState, TimersOf, EventTimer, ServerTimer, FinalsOf
  <1>7. RoutesHaveAnOwner' /\ \A u \in Tx \ {t} : Same(u)
    <2>1. \A u \in Tx : timers[u] \subseteq timers'[u]
      BY <1>4
    <2>2. RoutesHaveAnOwner'
      BY <2>1, ServerAssumption DEF IInv, TypeOK, RoutesHaveAnOwner, Tx
    <2> QED
      BY <1>2, <1>3, <1>4, <2>2 DEF TypeOK, Same
  <1> QED
    BY <1>5, <1>6, <1>7, StepOfOne

(* on_timer with Timer D, K or L.                                          *)
LEMMA ReceiveDeadlineInv ==
    ASSUME IInv, NEW t \in Tx, NEW x \in EventTimer, ReceiveDeadline(t, x)
    PROVE  IInv'
  <1>1. /\ EnterTerminated(t, lastResponse[t], Rest(t)) /\ Rest(t) \in Seq(Event)
        /\ UNCHANGED <<reliable, wire, handed, expired>> /\ TypeOK /\ TxInv(t)
    BY TakesFacts DEF ReceiveDeadline, IInv
  <1>2. state[t] \in AfterFinal /\ state[t] \notin Over
    BY DEF ReceiveDeadline, Ends, AfterFinal, Over, None
  <1>3. /\ lastResponse[t] \in StatusCode /\ FinalsOf(t)' \subseteq {lastResponse[t]}
        /\ wire[t] \cap Successful # {} => handed[t]["ACK"] <= 1
    BY <1>1, <1>2, Classes DEF TxInv, AnswerMatchesState, AcksMatchState, FinalsOf
  <1>4. lastResponse[t] \in Successful => handed[t]["ACK"] <= 1
    BY <1>1, <1>2, Classes DEF TxInv, AnswerMatchesState, AcksMatchState, FinalsOf
  <1> QED
    BY <1>1, <1>2, <1>3, <1>4, EnterTerminatedInv DEF TypeOK

(* Every action that changes the channel only. *)
LEMMA ReceiveNothingInv ==
    ASSUME IInv, NEW t \in Tx,
           \/ ReceiveCancel(t) \/ ReceiveTerminate(t)
           \/ \E m \in {"Request", "ACK"}, s \in Invites \cup {None} : ReceiveAbsorbed(t, m, s)
           \/ \E x \in EventTimer : ReceiveStaleTimer(t, x)
    PROVE  IInv'
  <1>1. /\ \E e : Takes(t, e)
        /\ SetQueue(t, Rest(t)) /\ KeepTx(t)
        /\ handed' = handed \/ HandToTu(t, "CANCEL")
        /\ UNCHANGED <<reliable, wire, expired>>
    BY DEF ReceiveCancel, ReceiveTerminate, ReceiveAbsorbed, ReceiveStaleTimer
  <1>2. state[t] # None /\ Rest(t) \in Seq(Event)
    BY <1>1, TakesFacts
  <1> QED
    BY <1>1, <1>2, ChannelInv DEF KeepTx

(* Drop for Transaction.                                                   *)
LEMMA DropInv ==
    ASSUME IInv, NEW t \in Tx, Drop(t)
    PROVE  IInv'
  <1> USE DEF Drop, SetState, SetQueue
  <1>1. CASE state[t] = "Terminated"
    <2>1. TypeOK'
      BY <1>1, QueueSteps DEF IInv, TypeOK, endpointVars
    <2>2. TxInv(t)'
      <3> USE <1>1 DEF IInv, TypeOK, TxInv, endpointVars, BeforeFinal, AfterFinal, Over,
                       None
      <3>1. AnswerMatchesState(t)' /\ AcksMatchState(t)'
        BY DEF AnswerMatchesState, AcksMatchState
      <3>2. MapsMatchState(t)'
        BY DEF MapsMatchState, FinalsOf
      <3>3. TimersMatchState(t)'
        BY DEF TimersMatchState, TimersOf
      <3> QED
        BY <3>1, <3>2, <3>3
    <2>3. RoutesHaveAnOwner' /\ \A u \in Tx \ {t} : Same(u)
      BY <1>1 DEF IInv, TypeOK, RoutesHaveAnOwner, Same, endpointVars
    <2> QED
      BY <2>1, <2>2, <2>3, StepOfOne
  <1>2. CASE state[t] # "Terminated"
    <2> USE <1>2
    <2>0. Cleanup(t, lastResponse[t]) /\ state[t] \in BeforeFinal \cup AfterFinal
      BY DEF IInv, TxInv, AnswerMatchesState, Over
    <2>1. TypeOK'
      BY <2>0, QueueSteps
      DEF IInv, TypeOK, Cleanup, DetachTransaction, ForgetWaitingAck, CleanupTimer,
          ServerTimer, None
    <2>2. TxInv(t)'
      BY <2>0, Classes
      DEF IInv, TypeOK, TxInv, AnswerMatchesState, MapsMatchState, AcksMatchState,
          TimersMatchState, TimersOf, FinalsOf, Cleanup, DetachTransaction, CleanupTimer,
          BeforeFinal, AfterFinal, Over, None
    <2>3. RoutesHaveAnOwner'
      BY <2>0, CleanupRoutes, Classes
      DEF IInv, TypeOK, TxInv, AnswerMatchesState, AfterFinal
    <2>4. \A u \in Tx \ {t} : Same(u)
      BY <2>0 DEF IInv, TypeOK, Cleanup, DetachTransaction, ForgetWaitingAck, Same
    <2> QED
      BY <2>1, <2>2, <2>3, <2>4, StepOfOne
  <1> QED
    BY <1>1, <1>2
(***************************************************************************)
(* Every step of every task keeps IInv.                                    *)
(***************************************************************************)
LEMMA EndpointStepInv ==
    ASSUME IInv, NEW t \in Tx, EndpointStep(t)
    PROVE  IInv'
  <1>1. CASE ArriveRequest(t)
    BY <1>1, EventsAreEvents, ArriveFinishedInv, ArriveRunningInv, ArriveNewInv
    DEF ArriveRequest
  <1>2. CASE ArriveCancel(t)
    BY <1>2, EventsAreEvents, ArriveFinishedInv, ArriveRunningInv DEF ArriveCancel
  <1>3. CASE ArriveAckOfFailure(t)
    BY <1>3, EventsAreEvents, ArriveFinishedInv, ArriveRunningInv DEF ArriveAckOfFailure
  <1>4. CASE ArriveAckOfSuccess(t)
    <2>1. AckTarget(t) \in Tx /\ t \in Invites
      BY <1>4 DEF ArriveAckOfSuccess, AckTarget
    <2> QED
      BY <1>4, <2>1, EventsAreEvents, ArriveRunningInv DEF ArriveAckOfSuccess
  <1>5. CASE \E x \in EventTimer : TimerFires(t, x)
    BY <1>5, TimerFiresInv
  <1>6. CASE TimerCleanupFires(t)
    BY <1>6, TimerCleanupFiresInv
  <1> QED
    BY <1>1, <1>2, <1>3, <1>4, <1>5, <1>6 DEF EndpointStep

(* Whatever the owner takes from the channel.                              *)
LEMMA ReceiveInv ==
    ASSUME IInv, NEW t \in Tx, Receive(t)
    PROVE  IInv'
  <1>1. CASE ReceiveAckAccepted(t) \/ ReceiveAckCompleted(t)
    BY <1>1, ReceiveAckInv
  <1>2. ASSUME NEW m \in {"Request", "ACK"}, NEW s \in Invites \cup {None},
               ReceiveEarly(t, m, s)
        PROVE  IInv'
    <2>1. state[t] # None /\ Rest(t) \in Seq(Event)
      BY <1>2, TakesFacts DEF ReceiveEarly
    <2>2. CASE lastResponse[t] = None
      BY <1>2, <2>1, <2>2, ChannelInv DEF ReceiveEarly, KeepTx
    <2>3. CASE lastResponse[t] # None
      <3>1. lastResponse[t] \in StatusCode
        BY <2>3 DEF IInv, TypeOK
      <3> QED
        BY <1>2, <2>1, <2>3, <3>1, DoRespondInv DEF ReceiveEarly
    <2> QED
      BY <2>2, <2>3
  <1>3. ASSUME NEW r \in Replies, ReceiveRespond(t, r) PROVE IInv'
    <2>1. state[t] # None /\ Rest(t) \in Seq(Event) /\ r \in StatusCode
      BY <1>3, TakesFacts, ServerAssumption DEF ReceiveRespond
    <2> QED
      BY <1>3, <2>1, DoRespondInv DEF ReceiveRespond
  <1>4. ASSUME NEW sent \in BOOLEAN, ReceiveTimerG(t, sent) PROVE IInv'
    BY <1>4, ReceiveTimerGInv
  <1>5. ASSUME NEW x \in EventTimer, ReceiveDeadline(t, x) PROVE IInv'
    BY <1>5, ReceiveDeadlineInv
  <1> QED
    BY <1>1, <1>2, <1>3, <1>4, <1>5, ReceiveNothingInv DEF Receive

(* Whatever the TU does.                                                   *)
LEMMA TuStepInv ==
    ASSUME IInv, NEW t \in Tx, TuStep(t)
    PROVE  IInv'
  <1>1. queue[t] \in Seq(Event)
    BY DEF IInv, TypeOK
  <1>2. ASSUME NEW r \in Replies, TuResponds(t, r) PROVE IInv'
    BY <1>1, <1>2, DoRespondInv, ServerAssumption DEF TuResponds
  <1>3. ASSUME NEW r \in Replies, PostRespond(t, r) PROVE IInv'
    <2>1. Append(queue[t], Respond(r)) \in Seq(Event)
      BY <1>1, QueueSteps, EventsAreEvents
    <2> QED
      BY <1>3, <2>1, ChannelInv DEF PostRespond, Enqueue
  <1> QED
    BY <1>2, <1>3, DropInv DEF TuStep

(* Every step keeps the invariant.                                         *)
LEMMA Induction == IInv /\ [Next]_vars => IInv'
  <1>1. ASSUME IInv, UNCHANGED vars PROVE IInv'
    BY <1>1
    DEF vars, IInv, TypeOK, TxInv, AnswerMatchesState, MapsMatchState, AcksMatchState,
        TimersMatchState, FinalsOf, RoutesHaveAnOwner
  <1> QED
    BY <1>1, EndpointStepInv, ReceiveInv, TuStepInv DEF Next

(* IInv holds in every reachable state.                                    *)
LEMMA Invariant == Spec => []IInv
  BY InitInv, Induction, PTL DEF Spec

(***************************************************************************)
(* Every variable keeps its type: in particular the statuses that Timer G  *)
(* and finished_transactions send again are statuses (on_timer,            *)
(* on_received_message).                                                   *)
(***************************************************************************)
THEOREM Typing == Spec => []TypeOK
  <1>1. IInv => TypeOK
    BY DEF IInv
  <1> QED
    BY <1>1, Invariant, PTL

(***************************************************************************)
(* One request gets one final answer, whoever responds and whichever task  *)
(* repeats it (respond, retransmit_last_response, on_received_message).    *)
(***************************************************************************)
THEOREM SingleAnswer == Spec => []OneFinalOnWire
  <1>1. IInv => OneFinalOnWire
    BY DEF IInv, TxInv, MapsMatchState, FinalsOf, OneFinalOnWire
  <1> QED
    BY <1>1, Invariant, PTL

(***************************************************************************)
(* The TU is told of the ACK of a 2xx at most once (on_received_request).  *)
(***************************************************************************)
THEOREM SingleAck == Spec => []AckHandedOnce
  <1>1. IInv => AckHandedOnce
    BY DEF IInv, TxInv, AcksMatchState, AckHandedOnce
  <1> QED
    BY <1>1, Invariant, PTL

(***************************************************************************)
(* waiting_ack and waiting_ack_cseq never keep an entry nobody will remove *)
(* (transition, cleanup, forget_waiting_ack).                              *)
(***************************************************************************)
THEOREM RoutesAreOwned == Spec => []RoutesHaveAnOwner
  <1>1. IInv => RoutesHaveAnOwner
    BY DEF IInv
  <1> QED
    BY <1>1, Invariant, PTL

(***************************************************************************)
(* No timer outlives its state or its transaction (cleanup_timer).         *)
(***************************************************************************)
THEOREM TimersAreTimely == Spec => []NoStrayTimers
  <1>1. IInv => NoStrayTimers
    BY DEF IInv, TxInv, NoStrayTimers
  <1> QED
    BY <1>1, Invariant, PTL

(***************************************************************************)
(* While an INVITE waits for the ACK of its 2xx, waiting_ack_cseq leads    *)
(* that ACK to it, whatever the other INVITEs of the dialog do (respond,   *)
(* forget_waiting_ack, on_received_message).                               *)
(***************************************************************************)
THEOREM AcksAreRouted == Spec => []AckReachesItsInvite
  <1>1. IInv => AckReachesItsInvite
    BY DEF IInv, TxInv, MapsMatchState, AckReachesItsInvite, AckTarget, Tx
  <1> QED
    BY <1>1, Invariant, PTL

(* Only a request for an unknown key attaches a transaction. *)
LEMMA AttachedByArrival ==
    ASSUME NEW u \in Tx, EndpointStep(u) \/ Receive(u) \/ TuStep(u)
    PROVE  (ArriveNew(u) /\ u \notin expired) \/ transactions' \subseteq transactions
  <1> USE DEF endpointVars, KeepTx
  <1>1. ASSUME NEW r, NEW q, EnterTerminated(u, r, q)
        PROVE  transactions' \subseteq transactions
    BY <1>1 DEF EnterTerminated, Cleanup, DetachTransaction
  <1>2. ASSUME NEW r, NEW q, DoRespond(u, r, q)
        PROVE  transactions' \subseteq transactions
    BY <1>1, <1>2
    DEF DoRespond, RespondSent, RespondFailed, RespondRefused, Transition, EnterPlain,
        EnterAccepted, EnterCompleted
  <1>3. EndpointStep(u) => (ArriveNew(u) /\ u \notin expired) \/ transactions' \subseteq transactions
    BY DEF EndpointStep, ArriveRequest, ArriveCancel, ArriveAckOfFailure,
           ArriveAckOfSuccess, ArriveFinished, ArriveRunning, TimerFires,
           TimerCleanupFires
  <1>4. Receive(u) => transactions' \subseteq transactions
    BY <1>1, <1>2
    DEF Receive, ReceiveCancel, ReceiveAckAccepted, ReceiveAckCompleted, ReceiveEarly,
        ReceiveAbsorbed, ReceiveRespond, ReceiveTimerG, ReceiveDeadline,
        ReceiveStaleTimer, ReceiveTerminate, EnterConfirmed
  <1>5. TuStep(u) => transactions' \subseteq transactions
    BY <1>2 DEF TuStep, TuResponds, PostRespond, Drop, Cleanup, DetachTransaction
  <1> QED
    BY <1>3, <1>4, <1>5

(***************************************************************************)
(* A request that was answered in any way never starts a second            *)
(* transaction (on_received_message, detach_transaction).                  *)
(***************************************************************************)
THEOREM NoSecondTransaction == Spec => OneTransactionPerAnsweredRequest
  <1>1. ASSUME IInv, NEW u \in Tx, ArriveNew(u), u \notin expired,
               NEW t \in Tx, t \in transactions' \ transactions
        PROVE  state[t] = None /\ wire[t] = {}
    BY <1>1 DEF IInv, TxInv, MapsMatchState, ArriveNew
  <1>2. IInv /\ [Next]_vars => [\A t \in Tx : t \in transactions' \ transactions
                                    => state[t] = None /\ wire[t] = {}]_vars
    BY <1>1, AttachedByArrival DEF Next
  <1> QED
    BY <1>2, Invariant, PTL DEF Spec, OneTransactionPerAnsweredRequest

(***************************************************************************)
(* A CANCEL never reaches the TU after a final answer was given, although  *)
(* it may have been queued before it (on_received_request).                *)
(***************************************************************************)
THEOREM CancelComesBeforeFinal == Spec => CancelStopsAtFinal
  <1>1. ASSUME IInv, NEW u \in Tx, EndpointStep(u) \/ Receive(u) \/ TuStep(u),
               NEW t \in Tx, handed'[t]["CANCEL"] > handed[t]["CANCEL"]
        PROVE  FinalsOf(t) = {}
    <2> USE <1>1
    <2>1. /\ handed \in [Tx -> [{"ACK", "CANCEL"} -> 0 .. 2]]
          /\ handed[t]["CANCEL"] \in 0 .. 2 /\ TxInv(t) /\ TypeOK
      BY DEF IInv, TypeOK
    <2>2. \/ handed' = handed
          \/ ArriveNew(u)
          \/ HandToTu(u, "ACK")
          \/ ReceiveCancel(u)
      BY DEF EndpointStep, ArriveRequest, ArriveCancel, ArriveAckOfFailure,
             ArriveAckOfSuccess, ArriveFinished, ArriveRunning, TimerFires,
             TimerCleanupFires, Receive, ReceiveAckAccepted, ReceiveAckCompleted,
             ReceiveEarly, ReceiveAbsorbed, ReceiveRespond, ReceiveTimerG,
             ReceiveDeadline, ReceiveStaleTimer, ReceiveTerminate, TuStep, TuResponds,
             PostRespond, Drop
    <2>3. CASE handed' = handed
      BY <2>1, <2>3
    <2>4. CASE ArriveNew(u)
      <3>1. t = u \/ handed'[t] = handed[t]
        BY <2>1, <2>4 DEF ArriveNew
      <3>2. t = u => handed'[t]["CANCEL"] = 0
        BY <2>1, <2>4 DEF ArriveNew
      <3> QED
        BY <2>1, <3>1, <3>2
    <2>5. CASE HandToTu(u, "ACK")
      <3>1. handed'[t]["CANCEL"] = handed[t]["CANCEL"]
        BY <2>1, <2>5, Handing
      <3> QED
        BY <2>1, <3>1
    <2>6. CASE ReceiveCancel(u)
      <3>1. t = u
        BY <2>1, <2>6, Handing DEF ReceiveCancel
      <3>2. state[u] \in BeforeFinal
        BY <2>1, <2>6, <3>1 DEF ReceiveCancel, BeforeFinal
      <3> QED
        BY <2>1, <3>1, <3>2 DEF TxInv, AnswerMatchesState
    <2> QED
      BY <2>2, <2>3, <2>4, <2>5, <2>6
  <1>2. IInv /\ [Next]_vars
           => [\A t \in Tx : handed'[t]["CANCEL"] > handed[t]["CANCEL"]
                                 => wire[t] \cap Finals = {}]_vars
    BY <1>1 DEF Next, FinalsOf
  <1> QED
    BY <1>2, Invariant, PTL DEF Spec, CancelStopsAtFinal
=============================================================================
