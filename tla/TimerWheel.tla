----------------------------- MODULE TimerWheel -----------------------------
(***************************************************************************)
(* The timers of an endpoint (timer.rs): any task arms and cancels timers, *)
(* one task waits for the next deadline and hands out what is due.         *)
(*                                                                         *)
(* The state is behind a lock.  Between the look at it and the wait, the   *)
(* waiting task holds neither the lock nor a place in the notification;    *)
(* with several threads others may run there, on one thread they may not.  *)
(***************************************************************************)
EXTENDS Naturals, FiniteSets, FiniteSetsExt

CONSTANTS TimerIds,     \* task_id of the timers armed, in order of arming
          Horizon,      \* bound on the time, and on deadlines
          TwoThreads    \* arming tasks run on other threads than the waiter

ASSUME WheelAssumption == TimerIds \subseteq Nat /\ Horizon \in Nat

VARIABLES
    now,       \* the clock
    tasks,     \* TimerState.tasks: id and execute_at
    unarmed,   \* ids timeout_at has not given out
    waiter,    \* where wait_for_ready is, and the deadline it computed
    permit     \* external, Notify: a stored notify_one

wheelVars == <<now, tasks, unarmed, waiter, permit>>

Never == Horizon + 1

WheelTypeOK ==
    /\ now \in 0 .. Horizon
    /\ tasks \subseteq [id : TimerIds, at : 0 .. Horizon]
    /\ unarmed \subseteq TimerIds
    /\ waiter \in [at : {"running", "computed", "asleep"}, until : 0 .. Never]
    /\ permit \in BOOLEAN

WheelInit ==
    /\ now = 0 /\ tasks = {} /\ unarmed = TimerIds
    /\ waiter = [at |-> "running", until |-> Never]
    /\ permit = FALSE

Deadlines(ts) == {t.at : t \in ts}
Earliest(ts)  == IF ts = {} THEN Never ELSE Min(Deadlines(ts))

-----------------------------------------------------------------------------
(***************************************************************************)
(* tokio::sync::Notify, external.  notify_waiters wakes whoever waits and  *)
(* stores nothing; notify_one stores a permit if nobody waits.             *)
(***************************************************************************)
Awake == [waiter EXCEPT !.at = "running"]

NotifyWaiters ==
    /\ waiter' = IF waiter.at = "asleep" THEN Awake ELSE waiter
    /\ UNCHANGED permit

NotifyOne ==
    /\ waiter' = IF waiter.at = "asleep" THEN Awake ELSE waiter
    /\ permit' = (permit \/ waiter.at # "asleep")

OthersRun == TwoThreads \/ waiter.at # "computed"

(* timeout_at: ids grow, so of two timers with one deadline the older is   *)
(* the head.                                                               *)
BecomesHead(at) == at < Earliest(tasks)

ArmNotifies(at) == IF BecomesHead(at) THEN NotifyWaiters ELSE NotifyOne

TimeoutAt(at) ==
    /\ OthersRun
    /\ unarmed # {}
    /\ LET id == Min(unarmed)
       IN  /\ unarmed' = unarmed \ {id}
           /\ tasks' = tasks \cup {[id |-> id, at |-> at]}
    /\ ArmNotifies(at)
    /\ UNCHANGED now

IsHead(t) == \A u \in tasks \ {t} : t.at < u.at \/ (t.at = u.at /\ t.id < u.id)

Cancel(t) ==
    /\ OthersRun
    /\ t \in tasks
    /\ tasks' = tasks \ {t}
    /\ IF IsHead(t) THEN NotifyWaiters ELSE NotifyOne
    /\ UNCHANGED <<now, unarmed>>

-----------------------------------------------------------------------------
(* wait_for_ready: what is due is taken and returned, and the endpoint     *)
(* calls again; otherwise the deadline of the head is kept.                *)
\* Faulty variant: the last deadline is waited for.
LatestDeadline == IF tasks = {} THEN Never ELSE Max(Deadlines(tasks))
NextDeadline == Earliest(tasks)

Due == {t \in tasks : t.at <= now}

CollectReady ==
    /\ waiter.at = "running"
    /\ tasks' = tasks \ Due
    /\ waiter' = IF Due # {} THEN waiter ELSE [at |-> "computed", until |-> NextDeadline]
    /\ UNCHANGED <<now, unarmed, permit>>

FallsAsleep ==
    /\ waiter.at = "computed"
    /\ waiter' = IF permit THEN Awake ELSE [waiter EXCEPT !.at = "asleep"]
    /\ permit' = FALSE
    /\ UNCHANGED <<now, tasks, unarmed>>

SleepEnds ==
    /\ waiter.at = "asleep" /\ now >= waiter.until
    /\ waiter' = Awake
    /\ UNCHANGED <<now, tasks, unarmed, permit>>

WaitForReady == CollectReady \/ FallsAsleep \/ SleepEnds

Tick ==
    /\ now < Horizon
    /\ now' = now + 1
    /\ UNCHANGED <<tasks, unarmed, waiter, permit>>

WheelNext ==
    \/ \E at \in now .. Horizon : TimeoutAt(at)
    \/ \E t \in tasks : Cancel(t)
    \/ CollectReady \/ FallsAsleep \/ SleepEnds \/ Tick

WheelFairness == WF_wheelVars(WaitForReady) /\ WF_wheelVars(Tick)
WheelSpec == WheelInit /\ [][WheelNext]_wheelVars /\ WheelFairness

-----------------------------------------------------------------------------
(***************************************************************************)
(* On one thread the wheel never sleeps past the deadline of a timer, one  *)
(* armed while it slept or was about to included, and every armed timer is *)
(* handed out or cancelled.                                                *)
(***************************************************************************)
TimersFire ==
    ~TwoThreads =>
        /\ [](waiter.at = "asleep" => waiter.until <= Earliest(tasks))
        /\ \A i \in TimerIds : (\E t \in tasks : t.id = i) ~> (\A t \in tasks : t.id # i)
=============================================================================
