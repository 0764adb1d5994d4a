------------------------ MODULE EndpointMapsProofs ------------------------
(***************************************************************************)
(* What the two maps of the endpoint guarantee, for any set of keys and    *)
(* any number of transactions: with uninterrupted tasks a request is       *)
(* answered by one transaction; on any executor a finished response has a  *)
(* timer that removes it.                                                  *)
(***************************************************************************)
EXTENDS EndpointMaps, TLAPS

(* The owner's program counter, entry by entry. *)
LEMMA OwnerMoves ==
    ASSUME TypeOK, NEW k \in Keys, NEW i \in Tx, NEW phase \in OwnerPhase,
           owner' = [owner EXCEPT ![k][i] = phase]
    PROVE  /\ owner' \in [Keys -> [Tx -> OwnerPhase]]
           /\ \A l \in Keys, j \in Tx :
                 owner'[l][j] = IF l = k /\ j = i THEN phase ELSE owner[l][j]
  <1>1. owner \in [Keys -> [Tx -> OwnerPhase]]
    BY DEF TypeOK
  <1> QED
    BY <1>1

(* The two outcomes of the second lookup. *)
Creates(k, i) ==
    /\ attached[k] = 0
    /\ owner[k][i] = "unborn"
    /\ attached' = [attached EXCEPT ![k] = i]
    /\ owner' \in [Keys -> [Tx -> OwnerPhase]]
    /\ \A l \in Keys, j \in Tx :
          owner'[l][j] = IF l = k /\ j = i THEN "running" ELSE owner[l][j]

(* What on_received_message does with a copy: absorbed, delivered or attached. *)
LEMMA DispatchOutcomes ==
    ASSUME TypeOK, NEW k \in Keys, Dispatches(k)
    PROVE  \/ attached' = attached /\ owner' = owner
           \/ \E i \in Tx : Creates(k, i)
  <1>1. CASE attached[k] = 0
    <2>1. PICK i \in Tx : /\ owner[k][i] = "unborn"
                         /\ attached' = [attached EXCEPT ![k] = i]
                         /\ owner' = [owner EXCEPT ![k][i] = "running"]
      BY <1>1 DEF Dispatches
    <2>2. "running" \in OwnerPhase
      BY DEF OwnerPhase
    <2>3. /\ owner' \in [Keys -> [Tx -> OwnerPhase]]
          /\ \A l \in Keys, j \in Tx :
                owner'[l][j] = IF l = k /\ j = i THEN "running" ELSE owner[l][j]
      BY <2>1, <2>2, OwnerMoves
    <2>4. Creates(k, i)
      BY <1>1, <2>1, <2>3 DEF Creates
    <2> QED
      BY <2>4
  <1>2. CASE attached[k] # 0
    BY <1>2 DEF Dispatches
  <1> QED
    BY <1>1, <1>2

(* The empty maps have their types.                                        *)
LEMMA InitTypes == Init => TypeOK
  BY MapsAssumption DEF Init, TypeOK, OwnerPhase, EndpointPhase, Tx

(* Every step leaves the types alone, whatever the executor. *)
LEMMA StepTypes ==
    ASSUME TypeOK, [Next]_vars
    PROVE  TypeOK'
  <1>0. threads' = threads
    BY DEF Next, vars
  <1> USE <1>0
  <1>1. ASSUME NEW k \in Keys, LooksUp(k) PROVE TypeOK'
    BY <1>1 DEF TypeOK, LooksUp, EndpointPhase
  <1>2. ASSUME NEW k \in Keys, Dispatches(k) PROVE TypeOK'
    <2>1. CASE attached' = attached /\ owner' = owner
      BY <1>2, <2>1 DEF TypeOK, Dispatches, EndpointPhase
    <2>2. ASSUME NEW i \in Tx, Creates(k, i) PROVE TypeOK'
      BY <1>2, <2>2 DEF TypeOK, Dispatches, Creates, EndpointPhase
    <2> QED
      BY <1>2, <2>1, <2>2, DispatchOutcomes
  <1>3. ASSUME NEW k \in Keys, CleanupEnds(k) PROVE TypeOK'
    BY <1>3 DEF TypeOK, CleanupEnds, EndpointPhase
  <1>4. ASSUME NEW k \in Keys, NEW i \in Tx, CleanupFires(k, i) PROVE TypeOK'
    BY <1>4 DEF TypeOK, CleanupFires, EndpointPhase
  <1>5. ASSUME NEW k \in Keys, NEW i \in Tx, Answers(k, i) PROVE TypeOK'
    BY <1>5 DEF TypeOK, Answers
  <1>6. ASSUME NEW k \in Keys, NEW i \in Tx, DetachRemoves(k, i) PROVE TypeOK'
    BY <1>6 DEF TypeOK, DetachRemoves, OwnerPhase
  <1>7. ASSUME NEW k \in Keys, NEW i \in Tx, DetachArms(k, i) PROVE TypeOK'
    BY <1>7 DEF TypeOK, DetachArms, OwnerPhase
  <1>8. ASSUME NEW k \in Keys, NEW i \in Tx, DetachInserts(k, i) PROVE TypeOK'
    BY <1>8 DEF TypeOK, DetachInserts, OwnerPhase
  <1>9. CASE UNCHANGED vars
    BY <1>9 DEF TypeOK, vars
  <1> QED
    BY <1>1, <1>2, <1>3, <1>4, <1>5, <1>6, <1>7, <1>8, <1>9 DEF Next

-----------------------------------------------------------------------------
(***************************************************************************)
(* Uninterrupted tasks.                                                    *)
(***************************************************************************)
LEMMA CooperativeInit == Init => CooperativeInv
  <1> SUFFICES ASSUME Init PROVE CooperativeInv
    OBVIOUS
  <1>2. AttachedRuns /\ RunningIsAttached /\ AnsweredIsFound /\ EndedIsDetached
    BY DEF Init, AttachedRuns, RunningIsAttached, AnsweredIsFound, EndedIsDetached, Between
  <1>3. ArmedWasAnswered /\ LookupIsCurrent /\ AnsweredOnce
    BY DEF Init, ArmedWasAnswered, LookupIsCurrent, AnsweredOnce, Idle
  <1> QED
    BY <1>2, <1>3 DEF CooperativeInv

(* Without threads a step of the endpoint keeps the invariant.             *)
LEMMA CooperativeStep ==
    ASSUME TypeOK, ~threads, CooperativeInv, [Next]_vars
    PROVE  CooperativeInv'
  <1> USE DEF CooperativeInv
  <1> DEFINE Maps  == AttachedRuns /\ RunningIsAttached /\ AnsweredIsFound
             Ended == EndedIsDetached /\ ArmedWasAnswered /\ LookupIsCurrent
             Goal  == Maps /\ Ended /\ AnsweredOnce
  <1> USE DEF AttachedRuns, RunningIsAttached, AnsweredIsFound, EndedIsDetached,
              ArmedWasAnswered, LookupIsCurrent, AnsweredOnce, Between
  <1>1. ASSUME NEW k \in Keys, LooksUp(k) PROVE Goal'
    BY <1>1 DEF LooksUp, Idle, TypeOK
  <1>2. ASSUME NEW k \in Keys, Dispatches(k) PROVE Goal'
    <2>0. /\ ~finished[k] /\ k \notin expired
          /\ \A j \in Tx : ~Between(owner[k][j])
          /\ endpoint' = "idle"
          /\ UNCHANGED <<finished, armed, answered, expired>>
      BY <1>2 DEF Dispatches, EndpointMay, NoOwnerBetween
    <2>1. CASE attached' = attached /\ owner' = owner
      BY <2>0, <2>1 DEF Idle
    <2>2. ASSUME NEW i \in Tx, Creates(k, i) PROVE Goal'
      <3> USE DEF Creates
      <3>1. /\ attached \in [Keys -> Tx \cup {0}]
            /\ \A l \in Keys : attached'[l] = IF l = k THEN i ELSE attached[l]
            /\ \A l \in Keys : attached[l] # 0 => attached[l] \in Tx
            /\ i # 0
        BY <2>2 DEF TypeOK, Tx
      <3>2. answered \in [Keys -> SUBSET Tx] /\ answered[k] = {}
        BY <2>0, <2>2 DEF TypeOK, Tx
      <3>3. AttachedRuns'
        <4>1. owner'[k][attached'[k]] = "running"
          BY <2>2, <3>1
        <4>2. ASSUME NEW l \in Keys, l # k, attached'[l] # 0
              PROVE  owner'[l][attached'[l]] = "running"
          <5>1. attached'[l] = attached[l] /\ attached[l] \in Tx
            BY <3>1, <4>2
          <5>2. owner[l][attached[l]] = "running"
            BY <4>2, <5>1
          <5> QED
            BY <2>2, <4>2, <5>1, <5>2
        <4> QED
          BY <4>1, <4>2
      <3>4. RunningIsAttached'
        <4>1. \A j \in Tx : owner[k][j] # "running"
          BY <2>2, <3>1 DEF Tx
        <4> QED
          BY <2>2, <3>1, <4>1
      <3>5. AnsweredIsFound' /\ AnsweredOnce'
        BY <2>0, <2>2, <3>1, <3>2
      <3>6. EndedIsDetached' /\ ArmedWasAnswered' /\ LookupIsCurrent'
        BY <2>0, <2>2, <3>1 DEF Idle
      <3> QED
        BY <3>3, <3>4, <3>5, <3>6
    <2> QED
      BY <1>2, <2>1, <2>2, DispatchOutcomes
  <1>3. ASSUME NEW k \in Keys, CleanupEnds(k) PROVE Goal'
    BY <1>3 DEF CleanupEnds, Idle, TypeOK
  <1>4. ASSUME NEW k \in Keys, NEW i \in Tx, CleanupFires(k, i) PROVE Goal'
    BY <1>4 DEF CleanupFires, Idle, TypeOK, Tx
  <1>5. ASSUME NEW k \in Keys, NEW i \in Tx, Answers(k, i) PROVE Goal'
    <2>1. /\ owner[k][i] = "running"
          /\ \A l \in Keys, j \in Tx : ~Between(owner[l][j])
          /\ answered' = [answered EXCEPT ![k] = @ \cup {i}]
          /\ UNCHANGED <<attached, finished, armed, owner, endpoint, current, expired>>
      BY <1>5 DEF Answers, OwnerMay, NoOwnerBetween
    <2>2. answered[k] \in {{}, {i}}
      BY <2>1 DEF TypeOK, Tx
    <2>3. \A l \in Keys : answered'[l] = IF l = k THEN {i} ELSE answered[l]
      <3>1. answered'[k] = answered[k] \cup {i}
        BY <2>1 DEF TypeOK
      <3>2. answered[k] \cup {i} = {i}
        BY <2>2
      <3>3. \A l \in Keys : l # k => answered'[l] = answered[l]
        BY <2>1 DEF TypeOK
      <3> QED
        BY <3>1, <3>2, <3>3
    <2>4. AttachedRuns' /\ RunningIsAttached' /\ LookupIsCurrent'
      BY <2>1
    <2>5. AnsweredIsFound' /\ EndedIsDetached'
      BY <2>1, <2>3
    <2>6. ArmedWasAnswered' /\ AnsweredOnce'
      BY <2>1, <2>2, <2>3
    <2> QED
      BY <2>4, <2>5, <2>6
  <1>6. ASSUME NEW k \in Keys, NEW i \in Tx, DetachRemoves(k, i) PROVE Goal'
    <2> DEFINE phase == IF i \in answered[k] THEN "removed" ELSE "gone"
    <2>1. /\ owner[k][i] = "running"
          /\ owner' = [owner EXCEPT ![k][i] = phase]
          /\ attached' = [attached EXCEPT ![k] = 0]
          /\ UNCHANGED <<finished, armed, answered, endpoint, current, expired>>
      BY <1>6 DEF DetachRemoves
    <2>2. \A l \in Keys, j \in Tx :
             owner'[l][j] = IF l = k /\ j = i THEN phase ELSE owner[l][j]
      BY <2>1 DEF TypeOK
    <2>3. \A l \in Keys : attached'[l] = IF l = k THEN 0 ELSE attached[l]
      BY <2>1 DEF TypeOK
    <2>4. attached[k] = i /\ ~finished[k] /\ k \notin expired
      BY <2>1 DEF Tx
    <2> HIDE DEF phase
    <2>5. /\ phase \in {"removed", "gone"}
          /\ phase = "removed" <=> i \in answered[k]
      BY DEF phase
    <2>6. AttachedRuns' /\ RunningIsAttached'
      BY <2>1, <2>2, <2>3, <2>4, <2>5 DEF TypeOK, Tx
    <2>7. AnsweredIsFound' /\ EndedIsDetached'
      BY <2>1, <2>2, <2>3, <2>4, <2>5 DEF TypeOK, Tx
    <2>8. ArmedWasAnswered' /\ LookupIsCurrent' /\ AnsweredOnce'
      BY <2>1
    <2> QED
      BY <2>6, <2>7, <2>8
  <1>7. ASSUME NEW k \in Keys, NEW i \in Tx, DetachArms(k, i) PROVE Goal'
    <2>1. /\ owner[k][i] = "removed"
          /\ owner' = [owner EXCEPT ![k][i] = "armed"]
          /\ armed' = [armed EXCEPT ![k] = @ \cup {i}]
          /\ UNCHANGED <<attached, finished, answered, endpoint, current, expired>>
      BY <1>7 DEF DetachArms
    <2>2. \A l \in Keys, j \in Tx :
             owner'[l][j] = IF l = k /\ j = i THEN "armed" ELSE owner[l][j]
      BY <2>1 DEF TypeOK
    <2>3. AttachedRuns' /\ RunningIsAttached'
      BY <2>1, <2>2 DEF TypeOK, Tx
    <2>4. AnsweredIsFound' /\ EndedIsDetached'
      BY <2>1, <2>2 DEF TypeOK, Tx
    <2>5. ArmedWasAnswered' /\ LookupIsCurrent' /\ AnsweredOnce'
      BY <2>1 DEF TypeOK
    <2> QED
      BY <2>3, <2>4, <2>5
  <1>8. ASSUME NEW k \in Keys, NEW i \in Tx, DetachInserts(k, i) PROVE Goal'
    <2>1. /\ owner[k][i] = "armed"
          /\ owner' = [owner EXCEPT ![k][i] = "gone"]
          /\ finished' = [finished EXCEPT ![k] = TRUE]
          /\ endpoint = "idle"
          /\ UNCHANGED <<attached, armed, answered, endpoint, current, expired>>
      BY <1>8 DEF DetachInserts, OwnerMay, Idle
    <2>2. \A l \in Keys, j \in Tx :
             owner'[l][j] = IF l = k /\ j = i THEN "gone" ELSE owner[l][j]
      BY <2>1 DEF TypeOK
    <2>3. \A l \in Keys : finished'[l] <=> l = k \/ finished[l]
      BY <2>1 DEF TypeOK
    <2>4. AttachedRuns' /\ RunningIsAttached'
      BY <2>1, <2>2 DEF TypeOK, Tx
    <2>5. AnsweredIsFound' /\ EndedIsDetached'
      BY <2>1, <2>2, <2>3 DEF TypeOK, Tx
    <2>6. ArmedWasAnswered' /\ LookupIsCurrent' /\ AnsweredOnce'
      BY <2>1
    <2> QED
      BY <2>4, <2>5, <2>6
  <1>9. CASE UNCHANGED vars
    BY <1>9 DEF vars
  <1> QED
    BY <1>1, <1>2, <1>3, <1>4, <1>5, <1>6, <1>7, <1>8, <1>9 DEF Next

-----------------------------------------------------------------------------
(***************************************************************************)
(* Any executor.                                                           *)
(***************************************************************************)
LEMMA TimersStep ==
    ASSUME TypeOK, ArmedInTime, FinishedHasTimer, [Next]_vars
    PROVE  ArmedInTime' /\ FinishedHasTimer'
  <1> USE DEF ArmedInTime, FinishedHasTimer
  <1> DEFINE Goal == ArmedInTime /\ FinishedHasTimer
  <1>1. ASSUME NEW k \in Keys, LooksUp(k) PROVE Goal'
    BY <1>1 DEF LooksUp, Idle
  <1>2. ASSUME NEW k \in Keys, Dispatches(k) PROVE Goal'
    <2>1. CASE attached' = attached /\ owner' = owner
      BY <1>2, <2>1 DEF Dispatches, Idle
    <2>2. ASSUME NEW i \in Tx, Creates(k, i) PROVE Goal'
      BY <1>2, <2>2 DEF Dispatches, Creates, Idle
    <2> QED
      BY <1>2, <2>1, <2>2, DispatchOutcomes
  <1>3. ASSUME NEW k \in Keys, CleanupEnds(k) PROVE Goal'
    BY <1>3 DEF CleanupEnds, TypeOK
  <1>4. ASSUME NEW k \in Keys, NEW i \in Tx, CleanupFires(k, i) PROVE Goal'
    BY <1>4 DEF CleanupFires, Idle, TypeOK
  <1>5. ASSUME NEW k \in Keys, NEW i \in Tx, Answers(k, i) PROVE Goal'
    BY <1>5 DEF Answers
  <1>6. ASSUME NEW k \in Keys, NEW i \in Tx, DetachRemoves(k, i) PROVE Goal'
    BY <1>6 DEF DetachRemoves, TypeOK
  <1>7. ASSUME NEW k \in Keys, NEW i \in Tx, DetachArms(k, i) PROVE Goal'
    BY <1>7 DEF DetachArms, TypeOK
  <1>8. ASSUME NEW k \in Keys, NEW i \in Tx, DetachInserts(k, i) PROVE Goal'
    BY <1>8 DEF DetachInserts, TypeOK
  <1>9. CASE UNCHANGED vars
    BY <1>9 DEF vars
  <1> QED
    BY <1>1, <1>2, <1>3, <1>4, <1>5, <1>6, <1>7, <1>8, <1>9 DEF Next

-----------------------------------------------------------------------------
(* IInv holds in every reachable state: the endpoint's two maps, the timers *)
(* and the owners agree as described in EndpointMaps.                        *)
THEOREM Invariance == Spec => []IInv
  <1>1. Init => IInv
    <2>1. Init => ArmedInTime /\ FinishedHasTimer
      BY DEF Init, ArmedInTime, FinishedHasTimer
    <2> QED
      BY <2>1, InitTypes, CooperativeInit DEF IInv
  <1>2. IInv /\ [Next]_vars => IInv'
    <2> SUFFICES ASSUME IInv, [Next]_vars PROVE IInv'
      OBVIOUS
    <2>1. threads' = threads
      BY DEF Next, vars
    <2>2. TypeOK' /\ ArmedInTime' /\ FinishedHasTimer'
      BY StepTypes, TimersStep DEF IInv
    <2>3. ~threads => CooperativeInv'
      BY CooperativeStep DEF IInv
    <2> QED
      BY <2>1, <2>2, <2>3 DEF IInv
  <1> QED
    BY <1>1, <1>2, PTL DEF Spec

(***************************************************************************)
(* The copies of one request are answered by one transaction, when no task *)
(* is interrupted between the two maps (EndpointInner::detach_transaction  *)
(* and on_received_message).                                               *)
(***************************************************************************)
THEOREM CopiesAnsweredOnce == Spec => []CooperativeAnswersOnce
  <1>1. IInv => CooperativeAnswersOnce
    BY DEF IInv, CooperativeInv, CooperativeAnswersOnce
  <1> QED
    BY <1>1, Invariance, PTL

(***************************************************************************)
(* Under the same condition a running transaction is the one the map names *)
(* (attach_transaction, detach_transaction): it hears of every request and *)
(* timer.                                                                  *)
(***************************************************************************)
THEOREM RunningIsHeard == Spec => []CooperativeHears
  <1>1. IInv => CooperativeHears
    BY DEF IInv, CooperativeInv, CooperativeHears
  <1> QED
    BY <1>1, Invariance, PTL

(***************************************************************************)
(* On any executor, an entry of finished_transactions has a TimerCleanup   *)
(* that removes it, since detach_transaction arms the timer first.         *)
(***************************************************************************)
THEOREM FinishedIsTimed == Spec => []FinishedHasTimer
  <1>1. IInv => FinishedHasTimer
    BY DEF IInv
  <1> QED
    BY <1>1, Invariance, PTL
=============================================================================
