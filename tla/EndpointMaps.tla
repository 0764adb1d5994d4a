---------------------------- MODULE EndpointMaps ----------------------------
(***************************************************************************)
(* The two maps of EndpointInner by which a retransmitted request finds    *)
(* its transaction, one map operation per step.                            *)
(*                                                                         *)
(* ServerTransaction takes detach_transaction and on_received_message as   *)
(* one step each.  Each map has a lock of its own, so on an executor with  *)
(* several threads the owner's detach_transaction may run between the two  *)
(* lookups of the endpoint task and the other way round.  On a cooperative *)
(* executor (a current-thread runtime, embassy) no task is suspended       *)
(* inside either function, and its steps cannot be separated.              *)
(*                                                                         *)
(* Transactions of one request are numbered in the order of creation.      *)
(***************************************************************************)
EXTENDS Naturals

CONSTANTS Keys,      \* transaction keys
          MaxTx      \* bound on the transactions started for one key

ASSUME MapsAssumption ==
    /\ MaxTx \in Nat \ {0}
    /\ "None" \notin Keys

None == "None"
Tx   == 1 .. MaxTx

VARIABLES
    threads,    \* whether the executor runs tasks on several threads
    attached,   \* the transaction EndpointInner.transactions holds, 0 when absent
    finished,   \* finished_transactions has an entry
    armed,      \* the transactions whose TimerCleanup is in the wheel
    owner,      \* where the owner of each transaction is
    answered,   \* history: the transactions that gave a response
    endpoint,   \* what the endpoint task is doing
    current,    \* the key it does it for, None when idle
    expired     \* history: keys one of whose TimerCleanups fired

vars == <<threads, attached, finished, armed, owner, answered, endpoint, current, expired>>

(* detach_transaction removes from the first map, then arms the timer, then *)
(* inserts into the second map.                                             *)
OwnerPhase    == {"unborn", "running", "removed", "armed", "gone"}
EndpointPhase == {"idle", "lookedUp", "cleaning"}
Idle          == endpoint = "idle"

TypeOK ==
    /\ threads \in BOOLEAN
    /\ attached \in [Keys -> Tx \cup {0}]
    /\ finished \in [Keys -> BOOLEAN]
    /\ armed \in [Keys -> SUBSET Tx]
    /\ owner \in [Keys -> [Tx -> OwnerPhase]]
    /\ answered \in [Keys -> SUBSET Tx]
    /\ endpoint \in EndpointPhase
    /\ current \in Keys \cup {None}
    /\ expired \subseteq Keys

Init ==
    /\ threads \in BOOLEAN
    /\ attached = [k \in Keys |-> 0]
    /\ finished = [k \in Keys |-> FALSE]
    /\ armed = [k \in Keys |-> {}]
    /\ owner = [k \in Keys |-> [i \in Tx |-> "unborn"]]
    /\ answered = [k \in Keys |-> {}]
    /\ endpoint = "idle"
    /\ current = None
    /\ expired = {}

Between(phase) == phase \in {"removed", "armed"}
NoOwnerBetween == \A k \in Keys, i \in Tx : ~Between(owner[k][i])

(* Who may take a step when tasks are not interrupted between two awaits.  *)
EndpointMay == threads \/ NoOwnerBetween
OwnerMay(k, i) ==
    threads \/ (Idle /\ (NoOwnerBetween \/ Between(owner[k][i])))

-----------------------------------------------------------------------------
(***************************************************************************)
(* The endpoint task: a copy of the request, until the peer stops sending. *)
(***************************************************************************)
(* on_received_message, first lookup.  A finished response is sent again,  *)
(* which changes nothing here.                                             *)
LooksUp(k) ==
    /\ EndpointMay
    /\ Idle
    /\ k \notin expired
    /\ ~finished[k]
    /\ endpoint' = "lookedUp" /\ current' = k
    /\ UNCHANGED <<attached, finished, armed, owner, answered, expired>>

(* on_received_message, second lookup: the running transaction is told, or *)
(* a transaction is created, which attaches itself.                        *)
Dispatches(k) ==
    /\ EndpointMay
    /\ endpoint = "lookedUp" /\ current = k
    /\ endpoint' = "idle" /\ current' = None
    /\ \/ /\ attached[k] # 0
          /\ UNCHANGED <<attached, owner>>
       \/ /\ attached[k] = 0
          /\ \E i \in Tx :
                /\ owner[k][i] = "unborn"
                /\ \A j \in 1 .. i - 1 : owner[k][j] # "unborn"
                /\ attached' = [attached EXCEPT ![k] = i]
                /\ owner' = [owner EXCEPT ![k][i] = "running"]
    /\ UNCHANGED <<finished, armed, answered, expired>>

(* process_timer, a TimerCleanup: one map after the other.  It fires 64*T1 *)
(* after it was armed, when detach_transaction has long returned.          *)
CleanupFires(k, i) ==
    /\ EndpointMay
    /\ Idle
    /\ i \in armed[k] /\ owner[k][i] = "gone"
    /\ armed' = [armed EXCEPT ![k] = @ \ {i}]
    /\ attached' = [attached EXCEPT ![k] = 0]
    /\ endpoint' = "cleaning" /\ current' = k
    /\ expired' = expired \cup {k}
    /\ UNCHANGED <<finished, owner, answered>>

CleanupEnds(k) ==
    /\ EndpointMay
    /\ endpoint = "cleaning" /\ current = k
    /\ finished' = [finished EXCEPT ![k] = FALSE]
    /\ endpoint' = "idle" /\ current' = None
    /\ UNCHANGED <<attached, armed, owner, answered, expired>>

-----------------------------------------------------------------------------
(***************************************************************************)
(* The owner of transaction i.                                             *)
(***************************************************************************)
(* Transaction::respond. *)
Answers(k, i) ==
    /\ OwnerMay(k, i)
    /\ owner[k][i] = "running"
    /\ i \notin answered[k]
    /\ answered' = [answered EXCEPT ![k] = @ \cup {i}]
    /\ UNCHANGED <<attached, finished, armed, owner, endpoint, current, expired>>

(* cleanup, of a final response or of a drop: detach_transaction. *)
DetachRemoves(k, i) ==
    /\ OwnerMay(k, i)
    /\ owner[k][i] = "running"
    /\ attached' = [attached EXCEPT ![k] = 0]
    /\ owner' = [owner EXCEPT ![k][i] = IF i \in answered[k] THEN "removed" ELSE "gone"]
    /\ UNCHANGED <<finished, armed, answered, endpoint, current, expired>>

DetachArms(k, i) ==
    /\ OwnerMay(k, i)
    /\ owner[k][i] = "removed"
    /\ armed' = [armed EXCEPT ![k] = @ \cup {i}]
    /\ owner' = [owner EXCEPT ![k][i] = "armed"]
    /\ UNCHANGED <<attached, finished, answered, endpoint, current, expired>>

\* Faulty variant: the response is not kept.
DetachForgets(k, i) ==
    /\ OwnerMay(k, i)
    /\ owner[k][i] = "armed"
    /\ owner' = [owner EXCEPT ![k][i] = "gone"]
    /\ UNCHANGED <<attached, finished, armed, answered, endpoint, current, expired>>

DetachInserts(k, i) ==
    /\ OwnerMay(k, i)
    /\ owner[k][i] = "armed"
    /\ finished' = [finished EXCEPT ![k] = TRUE]
    /\ owner' = [owner EXCEPT ![k][i] = "gone"]
    /\ UNCHANGED <<attached, armed, answered, endpoint, current, expired>>

-----------------------------------------------------------------------------
Next ==
    /\ UNCHANGED threads
    /\ \E k \in Keys :
        \/ LooksUp(k) \/ Dispatches(k) \/ CleanupEnds(k)
        \/ \E i \in Tx :
              \/ CleanupFires(k, i) \/ Answers(k, i)
              \/ DetachRemoves(k, i) \/ DetachArms(k, i) \/ DetachInserts(k, i)

Spec == Init /\ [][Next]_vars

-----------------------------------------------------------------------------
(***************************************************************************)
(* What transaction.rs says of a request that ended (lines 980-982): "late *)
(* INVITE retransmissions are absorbed below the TU by                     *)
(* `finished_transactions`": the copies of one request start no further    *)
(* transaction that is answered again.  On several threads they do.        *)
(***************************************************************************)
AnsweredOnce == \A k \in Keys : \A i, j \in answered[k] : i = j

(* The same of an executor that does not interrupt detach_transaction.     *)
CooperativeAnswersOnce == ~threads => AnsweredOnce

(***************************************************************************)
(* The map names the transaction that runs: a running transaction          *)
(* hears of every request, and of its timers (detach_transaction and       *)
(* TimerCleanup remove whatever the map holds for the key).                *)
(***************************************************************************)
RunningIsAttached ==
    \A k \in Keys, i \in Tx : owner[k][i] = "running" => attached[k] = i

(* The same of an executor that does not interrupt detach_transaction.     *)
CooperativeHears == ~threads => RunningIsAttached

(***************************************************************************)
(* A finished response always has a TimerCleanup that removes it, or is    *)
(* being removed, although the entry may be another transaction's          *)
(* (detach_transaction arms before it inserts).                            *)
(***************************************************************************)
FinishedHasTimer ==
    \A k \in Keys :
        finished[k] => armed[k] # {} \/ (endpoint = "cleaning" /\ current = k)

-----------------------------------------------------------------------------
(***************************************************************************)
(* What holds in every state when tasks are not interrupted (~threads),    *)
(* and what each step of detach_transaction and on_received_message relies *)
(* on: the maps agree with the owners, and an answered transaction can be  *)
(* found in one of them until the peer stops repeating the request.        *)
(***************************************************************************)
AttachedRuns == \A k \in Keys : attached[k] # 0 => owner[k][attached[k]] = "running"

AnsweredIsFound ==
    \A k \in Keys : \A i \in answered[k] :
        \/ attached[k] = i
        \/ Between(owner[k][i])
        \/ owner[k][i] = "gone" /\ (finished[k] \/ k \in expired)

EndedIsDetached ==
    \A k \in Keys :
        /\ finished[k] \/ k \in expired => attached[k] = 0
        /\ \A i \in Tx : Between(owner[k][i]) => attached[k] = 0 /\ i \in answered[k]

ArmedWasAnswered == \A k \in Keys : armed[k] \subseteq answered[k]

LookupIsCurrent ==
    /\ endpoint = "lookedUp" => ~finished[current] /\ current \notin expired
    /\ endpoint = "cleaning" => current \in expired

CooperativeInv ==
    /\ AttachedRuns /\ RunningIsAttached
    /\ AnsweredIsFound /\ EndedIsDetached /\ ArmedWasAnswered
    /\ LookupIsCurrent
    /\ AnsweredOnce

(* On any executor.                                                        *)
ArmedInTime == \A k \in Keys, i \in Tx : owner[k][i] = "armed" => i \in armed[k]

IInv ==
    /\ TypeOK /\ ArmedInTime /\ FinishedHasTimer
    /\ ~threads => CooperativeInv
=============================================================================
