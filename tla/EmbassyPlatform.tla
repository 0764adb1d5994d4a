--------------------------- MODULE EmbassyPlatform ---------------------------
(***************************************************************************)
(* The primitives of the embassy backend: the cancellation token           *)
(* (token.rs), the unbounded channel (mpsc.rs) and the spawned task with a *)
(* result (mod.rs).                                                        *)
(*                                                                         *)
(* A step is one access to an atomic or one critical section.  Where       *)
(* preempted is FALSE no other task runs inside the poll of a future, as   *)
(* on one executor; where it is TRUE an interrupt or a second executor     *)
(* does.                                                                   *)
(***************************************************************************)
EXTENDS Naturals, Sequences

CONSTANT Values     \* what is sent over the channel, each once

VARIABLES
    preempted,  \* other tasks run between two steps of a poll
    flag,       \* flag of each token
    wakers,     \* tokens whose list holds the waker of the waiting task
    draining,   \* tokens whose cancel() has stored the flag and not woken
    poll,       \* Cancelled::poll of the task that awaits the child token
    again,      \* external, the executor: the task was woken while polled
    queue,      \* queue of the channel
    closed,     \* the channel's closed flag
    signal,     \* external, embassy Signal: "none" or "set"
    sender,     \* where send() of each value is
    receiver,   \* where recv() is
    received,   \* values recv() returned, and None at the end
    task,       \* the future given to spawn_with_result
    handle      \* its JoinHandle

tokenVars   == <<preempted, flag, wakers, draining, poll, again>>
channelVars == <<queue, closed, signal, sender, receiver, received>>
joinVars    == <<task, handle>>
platformVars == <<tokenVars, channelVars, joinVars>>

Root   == "root"
Child  == "child"
Tokens == {Root, Child}
Ended  == "none"

PlatformTypeOK ==
    /\ preempted \in BOOLEAN
    /\ flag \in [Tokens -> BOOLEAN]
    /\ wakers \subseteq Tokens /\ draining \subseteq Tokens
    /\ poll \in {"poll", "register child", "register root", "pending", "ready"}
    /\ again \in BOOLEAN
    /\ queue \in Seq(Values) /\ closed \in BOOLEAN
    /\ signal \in {"none", "set"}
    /\ sender \in [Values -> {"idle", "checked", "pushed", "sent", "refused"}]
    /\ receiver \in {"try", "empty", "waiting", "done"}
    /\ received \in Seq(Values \cup {Ended})
    /\ task \in {"running", "sending", "finished"}
    /\ handle \in {"pending", "resolved"}

PlatformInit ==
    /\ preempted \in BOOLEAN
    /\ flag = [t \in Tokens |-> FALSE]
    /\ wakers = {} /\ draining = {} /\ poll = "poll" /\ again = FALSE
    /\ queue = <<>> /\ closed = FALSE /\ signal = "none"
    /\ sender = [v \in Values |-> "idle"]
    /\ receiver = "try" /\ received = <<>>
    /\ task = "running" /\ handle = "pending"

-----------------------------------------------------------------------------
(***************************************************************************)
(* The token.  The waiting task awaits the child; either may be cancelled. *)
(***************************************************************************)
IsCancelled == \E t \in Tokens : flag[t]

PollCheck ==
    /\ poll = "poll"
    /\ poll' = IF IsCancelled THEN "ready" ELSE "register child"
    /\ UNCHANGED <<flag, wakers, draining, again>>

ReturnsPending ==
    /\ poll' = IF again THEN "poll" ELSE "pending"
    /\ again' = FALSE

\* Faulty variant: the waker is pushed on the token's own node only.
RegisterOwn ==
    /\ poll = "register child"
    /\ wakers' = wakers \cup {Child}
    /\ ReturnsPending
    /\ UNCHANGED <<flag, draining>>

Register ==
    /\ \/ /\ poll = "register child"
          /\ wakers' = wakers \cup {Child}
          /\ poll' = "register root" /\ UNCHANGED again
       \/ /\ poll = "register root"
          /\ wakers' = wakers \cup {Root}
          /\ ReturnsPending
    /\ UNCHANGED <<flag, draining>>

OutsidePoll == preempted \/ poll \in {"poll", "pending", "ready"}

StoreFlag(t) ==
    /\ OutsidePoll
    /\ ~flag[t]
    /\ flag' = [flag EXCEPT ![t] = TRUE]
    /\ draining' = draining \cup {t}
    /\ UNCHANGED <<wakers, poll, again>>

(* Waking a task that is being polled has it polled once more.             *)
WakeAll(t) ==
    /\ OutsidePoll
    /\ t \in draining
    /\ draining' = draining \ {t}
    /\ wakers' = wakers \ {t}
    /\ poll' = IF t \in wakers /\ poll = "pending" THEN "poll" ELSE poll
    /\ again' = (again \/ (t \in wakers /\ poll = "register root"))
    /\ UNCHANGED flag

CancelsToken(t) == StoreFlag(t) \/ WakeAll(t)

-----------------------------------------------------------------------------
(***************************************************************************)
(* The unbounded channel: send() tests the flag, pushes, then signals.     *)
(***************************************************************************)
SendTests(v) ==
    /\ sender[v] = "idle"
    /\ sender' = [sender EXCEPT ![v] = IF closed THEN "refused" ELSE "checked"]
    /\ UNCHANGED <<queue, closed, signal, receiver, received>>

SendPushes(v) ==
    /\ sender[v] = "checked"
    /\ queue' = Append(queue, v)
    /\ sender' = [sender EXCEPT ![v] = "pushed"]
    /\ UNCHANGED <<closed, signal, receiver, received>>

Signals == signal' = "set"

\* Faulty variant: the value is signalled before it is pushed.
SignalsFirst(v) ==
    \/ /\ sender[v] = "checked" /\ Signals
       /\ sender' = [sender EXCEPT ![v] = "pushed"]
       /\ UNCHANGED <<queue, closed, receiver, received>>
    \/ /\ sender[v] = "pushed"
       /\ queue' = Append(queue, v)
       /\ sender' = [sender EXCEPT ![v] = "sent"]
       /\ UNCHANGED <<closed, signal, receiver, received>>

SendSignals(v) ==
    /\ sender[v] = "pushed"
    /\ Signals
    /\ sender' = [sender EXCEPT ![v] = "sent"]
    /\ UNCHANGED <<queue, closed, receiver, received>>

Publishes(v) == SendPushes(v) \/ SendSignals(v)
Send(v) == SendTests(v) \/ Publishes(v)

TryRecv ==
    /\ receiver = "try"
    /\ IF queue # <<>>
       THEN /\ queue' = Tail(queue) /\ received' = Append(received, Head(queue))
            /\ UNCHANGED receiver
       ELSE /\ receiver' = "empty" /\ UNCHANGED <<queue, received>>
    /\ UNCHANGED <<closed, signal, sender>>

RecvTestsClosed ==
    /\ receiver = "empty"
    /\ IF closed
       THEN receiver' = "done" /\ received' = Append(received, Ended)
       ELSE receiver' = "waiting" /\ UNCHANGED received
    /\ UNCHANGED <<queue, closed, signal, sender>>

RecvWakes ==
    /\ receiver = "waiting" /\ signal = "set"
    /\ signal' = "none" /\ receiver' = "try"
    /\ UNCHANGED <<queue, closed, sender, received>>

Recv == TryRecv \/ RecvTestsClosed \/ RecvWakes

Close ==
    /\ ~closed
    /\ closed' = TRUE /\ Signals
    /\ UNCHANGED <<queue, sender, receiver, received>>

-----------------------------------------------------------------------------
(***************************************************************************)
(* spawn_with_result.  The result channel is bounded and its send() an     *)
(* async fn: the task makes the future and drops it unpolled.              *)
(***************************************************************************)
ResultSent == FALSE

TaskFinishes ==
    /\ task = "running"
    /\ task' = "finished"
    /\ handle' = IF ResultSent THEN "resolved" ELSE handle

-----------------------------------------------------------------------------
PollStep == PollCheck \/ Register
TokenNext ==
    /\ PollStep \/ \E t \in Tokens : CancelsToken(t)
    /\ UNCHANGED preempted
ChannelNext == Close \/ Recv \/ \E v \in Values : Send(v)
JoinNext    == TaskFinishes

PlatformNext ==
    \/ TokenNext   /\ UNCHANGED <<channelVars, joinVars>>
    \/ ChannelNext /\ UNCHANGED <<tokenVars, joinVars>>
    \/ JoinNext    /\ UNCHANGED <<tokenVars, channelVars>>

PlatformFairness ==
    /\ \A v \in Values : WF_channelVars(Publishes(v))
    /\ WF_channelVars(Recv)
    /\ WF_joinVars(TaskFinishes)

PlatformSpec == PlatformInit /\ [][PlatformNext]_platformVars /\ PlatformFairness

-----------------------------------------------------------------------------
(***************************************************************************)
(* A task that awaits a cancelled token is woken: it does not wait once    *)
(* the lists of every cancelled token have been drained.  With preemption  *)
(* a cancel that drains a list between the task's test and its push is     *)
(* missed.                                                                 *)
(***************************************************************************)
CooperativeCancelWakes ==
    ~preempted /\ IsCancelled /\ draining = {} => poll # "pending"

(***************************************************************************)
(* A value accepted by send() is received, unless recv() has returned None *)
(* to a close: the receiver may look at the queue before the push and wait *)
(* only after the signal.                                                  *)
(***************************************************************************)
AcceptedIsReceived ==
    \A v \in Values :
        sender[v] = "sent" ~> (receiver = "done" \/ \E i \in 1 .. Len(received) : received[i] = v)

(* The handle of a finished task resolves (mod.rs, spawn_with_result).     *)
HandleResolves == task = "finished" ~> handle = "resolved"
=============================================================================
