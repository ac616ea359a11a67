----------------------------- MODULE Scheduler -----------------------------
(***************************************************************************)
(* lua/service/scheduler.lua: tasks that run at an absolute time, once     *)
(* (at) or every day (daily), kept in a heap and driven by one timer of    *)
(* the event loop.                                                         *)
(*                                                                         *)
(*  - All of it runs on the thread of one service.  A call of at or daily  *)
(*    is one step, made by some other callback while the loop is free, or  *)
(*    by the action of a task while on_timer drains the heap.              *)
(*  - Deadlines are times of the wall clock, which can be set; the timer   *)
(*    counts the time of the loop, which only advances, and which may be   *)
(*    behind when the timer is started.                                    *)
(*  - The calendar is a sequence of days of equal length.                  *)
(***************************************************************************)
EXTENDS TaskHeap, FiniteSetsExt

CONSTANTS
    MAX_TASKS_PER_TICK,
    MAX_RECHECK_MS,
    Day,            \* the length of a day
    Once,           \* the daily_spec of a task that is run once
    DailyTimes,     \* the times of day that daily is called with
    Deadlines,      \* the times that at is called with
    MaxLag,         \* how far the clock of the loop can be behind
    MaxTime,        \* bound: the wall clock stops there
    MaxCalls,       \* bound: calls of at and daily
    MaxJumps,       \* bound: how often the wall clock is set
    MaxFaults       \* bound: failures of the timer and of the calendar

ASSUME SchedulerAssumption ==
    /\ MAX_TASKS_PER_TICK \in Nat \ {0}
    /\ MAX_RECHECK_MS \in Nat \ {0}
    /\ Day \in Nat \ {0}
    /\ DailyTimes \subseteq 0 .. Day - 1
    /\ Once \notin DailyTimes
    /\ Deadlines \subseteq Nat
    /\ {MaxLag, MaxTime, MaxCalls, MaxJumps, MaxFaults} \subseteq Nat

VARIABLES
    heap, sequence,
    timer,      \* "none", "stopped", "armed" or "closed"
    left,       \* how long an armed timer will still wait
    phase,      \* "idle", or in on_timer: "drain", or "action" in an action
    tick,       \* locals of on_timer: now, processed
    running,    \* the task whose action is being run, if any
    clock,      \* the wall clock
    clock_set,  \* history: the clock was set since the timer was started
    disarmed,   \* history: the timer could not be started again
    calls, jumps, faults

queue == <<heap, sequence>>
alarm == <<timer, left, clock_set, disarmed>>
loop == <<phase, tick, running>>
bounds == <<calls, jumps, faults>>
vars == <<queue, alarm, loop, clock, bounds>>

NoTick == [now |-> 0, processed |-> 0]

Init ==
    /\ heap = <<>>
    /\ sequence = 0
    /\ timer = "none"
    /\ left = 0
    /\ phase = "idle"
    /\ tick = NoTick
    /\ running = {}
    /\ clock = 0
    /\ clock_set = FALSE
    /\ disarmed = FALSE
    /\ calls = 0 /\ jumps = 0 /\ faults = 0

-----------------------------------------------------------------------------

\* Wrong: a time that is now counts as still to come.
NextDailyInclusive(spec, now) ==
    LET candidate == (now \div Day) * Day + spec IN
    IF candidate < now THEN candidate + Day ELSE candidate

\* next_daily_deadline: today, or tomorrow if that is over.
NextDaily(spec, now) ==
    LET candidate == (now \div Day) * Day + spec IN
    IF candidate <= now THEN candidate + Day ELSE candidate

Fault == faults < MaxFaults /\ faults' = faults + 1

\* arm_timer, once the queue is h: start the timer for the first task ...
Delay(h) ==
    LET remaining == h[1].deadline_ms - clock IN
    Min({Max({remaining, 0}), MAX_RECHECK_MS})

ArmStarts(h) ==
    /\ h # <<>>
    /\ timer' = "armed"
    /\ \E lag \in 0 .. MaxLag : left' = Max({Delay(h) - lag, 0})
    /\ clock_set' = FALSE
    /\ disarmed' = FALSE

\* ... or leave it stopped if there is none ...
ArmIdle(h) ==
    /\ h = <<>>
    /\ timer' = IF timer = "armed" THEN "stopped" ELSE timer
    /\ left' = 0
    /\ UNCHANGED <<clock_set, disarmed>>

\* ... or fail, before or after the running timer is stopped.
ArmFails(h) ==
    /\ h # <<>>
    /\ Fault
    /\ \/ timer = "armed" /\ UNCHANGED <<timer, left>>
       \/ timer' = "stopped" /\ left' = 0
    /\ disarmed' = (timer' # "armed")
    /\ UNCHANGED clock_set

-----------------------------------------------------------------------------
(* scheduler:at, scheduler:daily and enqueue *)

\* The task that a call registers.
Task(deadline, spec) ==
    [deadline_ms |-> deadline, sequence |-> sequence + 1, daily_spec |-> spec,
     heap_index |-> 0]

NewTasks ==
    {Task(d, Once) : d \in Deadlines}
        \cup {Task(NextDaily(spec, clock), spec) : spec \in DailyTimes}

MayCall(p) ==
    /\ phase = p
    /\ calls < MaxCalls
    /\ calls' = calls + 1
    /\ sequence' = sequence + 1

\* Wrong: a timer that is armed already is left alone.
EnqueueUnlessArmed(task) ==
    /\ MayCall("idle")
    /\ timer # "closed"
    /\ heap' = heap_push(heap, task)
    /\ IF timer = "armed" THEN UNCHANGED alarm ELSE ArmStarts(heap')
    /\ UNCHANGED <<loop, clock, jumps, faults>>

Enqueue(task) ==
    /\ MayCall("idle")
    /\ timer # "closed"
    /\ heap' = heap_push(heap, task)
    /\ ArmStarts(heap')
    /\ UNCHANGED <<loop, clock, jumps, faults>>

\* Called by the action of a task: on_timer will arm the timer.
EnqueueInAction(task) ==
    /\ MayCall("action")
    /\ heap' = heap_push(heap, task)
    /\ UNCHANGED <<alarm, loop, clock, jumps, faults>>

\* The timer cannot be started: the task is taken out again.
EnqueueFails(task) ==
    /\ MayCall("idle")
    /\ timer # "closed"
    /\ LET pushed == heap_push(heap, task) IN
          /\ heap' = heap_remove(pushed, task.sequence)
          /\ ArmFails(pushed)
    /\ UNCHANGED <<loop, clock, jumps>>

\* There is no timer, and none can be created or it is closed.
EnqueueRefused ==
    /\ MayCall("idle")
    /\ \/ timer = "closed" /\ UNCHANGED faults
       \/ timer = "none" /\ Fault
    /\ UNCHANGED <<heap, alarm, loop, clock, jumps>>

-----------------------------------------------------------------------------
(* on_timer *)

Fire ==
    /\ phase = "idle"
    /\ timer = "armed"
    /\ left = 0
    /\ timer' = "stopped"
    /\ phase' = "drain"
    /\ tick' = [now |-> clock, processed |-> 0]
    /\ UNCHANGED <<queue, left, clock_set, disarmed, running, clock, bounds>>

\* Wrong: one task too many.
MoreDueOffByOne ==
    /\ heap # <<>>
    /\ heap[1].deadline_ms <= tick.now
    /\ tick.processed <= MAX_TASKS_PER_TICK

MoreDue ==
    /\ heap # <<>>
    /\ heap[1].deadline_ms <= tick.now
    /\ tick.processed < MAX_TASKS_PER_TICK

\* The first task is taken and its action begins.
RunTask ==
    /\ phase = "drain"
    /\ MoreDue
    /\ running' = {heap[1]}
    /\ heap' = heap_pop(heap)
    /\ phase' = "action"
    /\ UNCHANGED <<sequence, alarm, tick, clock, bounds>>

NextTurn ==
    /\ running' = {}
    /\ phase' = "drain"
    /\ tick' = [now |-> clock, processed |-> tick.processed + 1]

\* The action has returned or raised an error, which is logged.
EndOnce ==
    /\ \E t \in running : t.daily_spec = Once
    /\ NextTurn
    /\ UNCHANGED <<queue, alarm, clock, bounds>>

EndDaily ==
    /\ \E t \in running :
          /\ t.daily_spec # Once
          /\ heap' = heap_push(heap, Task(NextDaily(t.daily_spec, clock), t.daily_spec))
    /\ sequence' = sequence + 1
    /\ NextTurn
    /\ UNCHANGED <<alarm, clock, bounds>>

\* on_timer ends by arming the timer for what is left; a failure is logged.
Leave ==
    /\ phase' = "idle"
    /\ tick' = NoTick
    /\ running' = {}

\* Wrong: no timer for what is left.
EndDrainUnarmed ==
    /\ phase = "drain"
    /\ ~MoreDue
    /\ Leave
    /\ UNCHANGED <<queue, alarm, clock, bounds>>

EndDrain ==
    /\ phase = "drain"
    /\ ~MoreDue
    /\ Leave
    /\ \/ (ArmStarts(heap) \/ ArmIdle(heap)) /\ UNCHANGED faults
       \/ ArmFails(heap)
    /\ UNCHANGED <<queue, clock, calls, jumps>>

\* The next deadline of a daily task cannot be computed: the drain ends there,
\* and the task is lost.
DailyLost ==
    /\ \E t \in running : t.daily_spec # Once
    /\ Fault
    /\ Leave
    /\ ArmStarts(heap) \/ ArmIdle(heap) \/ ArmFails(heap)
    /\ UNCHANGED <<queue, clock, calls, jumps>>

\* wall_now_ms fails: the drain ends there, too.
DrainFails ==
    /\ phase = "drain"
    /\ Fault
    /\ Leave
    /\ ArmStarts(heap) \/ ArmIdle(heap) \/ ArmFails(heap)
    /\ UNCHANGED <<queue, clock, calls, jumps>>

-----------------------------------------------------------------------------
(* External: the clocks, and the end of the service *)

\* Time passes, for the wall clock and for the timer.
Tick ==
    /\ clock' = Min({clock + 1, MaxTime})
    /\ left' = Max({left - 1, 0})
    /\ UNCHANGED <<queue, timer, clock_set, disarmed, loop, bounds>>

SetClock ==
    /\ jumps < MaxJumps
    /\ jumps' = jumps + 1
    /\ clock' \in 0 .. MaxTime
    /\ clock_set' = TRUE
    /\ UNCHANGED <<queue, timer, left, disarmed, loop, calls, faults>>

\* service_finish_thread closes all handles of the loop.
CloseTimer ==
    /\ phase = "idle"
    /\ timer \in {"stopped", "armed"}
    /\ timer' = "closed"
    /\ left' = 0
    /\ UNCHANGED <<queue, clock_set, disarmed, loop, clock, bounds>>

Next ==
    \/ \E task \in NewTasks : \/ Enqueue(task) \/ EnqueueInAction(task)
                              \/ EnqueueFails(task)
    \/ EnqueueRefused
    \/ Fire \/ RunTask \/ EndOnce \/ EndDaily \/ EndDrain \/ DailyLost \/ DrainFails
    \/ Tick \/ SetClock \/ CloseTimer

Spec == Init /\ [][Next]_vars

\* The loop runs a timer that is due, callbacks end, and time passes.
Fairness ==
    /\ WF_vars(Fire)
    /\ WF_vars(RunTask)
    /\ WF_vars(EndOnce \/ EndDaily \/ DailyLost)
    /\ WF_vars(EndDrain \/ DrainFails)
    /\ WF_vars(Tick)

FairSpec == Spec /\ Fairness

-----------------------------------------------------------------------------
(* Properties *)

Tasks == {heap[i] : i \in DOMAIN heap}

\* Types, and a callback runs no more tasks than it may.
TypeOK ==
    /\ \A t \in Tasks \cup running :
          /\ t.deadline_ms \in Nat
          /\ t.sequence \in 1 .. sequence
          /\ t.daily_spec \in DailyTimes \cup {Once}
    /\ timer \in {"none", "stopped", "armed", "closed"}
    /\ left \in 0 .. MAX_RECHECK_MS
    /\ phase \in {"idle", "drain", "action"}
    /\ tick.processed \in 0 .. MAX_TASKS_PER_TICK
    /\ phase = "action" <=> running # {}
    /\ clock \in 0 .. MaxTime
    /\ {clock_set, disarmed} \subseteq BOOLEAN

\* The heap is one: every task comes after its parent and knows its place,
\* whatever was pushed, popped, or taken out after a failure.
HeapSound ==
    \A i \in DOMAIN heap :
        /\ heap[i].heap_index = i
        /\ i > 1 => task_before(heap[i \div 2], heap[i])

\* Tasks wait for a timer that is running: one that will be looked at within
\* MAX_RECHECK_MS even if the clock has been set, and not later than the first
\* deadline if it has not.  (Not when starting the timer has failed.)
WakesInTime ==
    (phase = "idle" /\ heap # <<>> /\ timer # "closed" /\ ~disarmed) =>
        /\ timer = "armed"
        /\ left <= MAX_RECHECK_MS
        /\ clock_set \/ left <= Max({heap[1].deadline_ms - clock, 0})

\* A daily task that has been run, in time or days late, is next run on a later
\* day than the one it was due on, unless the clock has been set.
OncePerDay ==
    [][\A t \in running, u \in {heap'[i] : i \in DOMAIN heap'} :
          (EndDaily /\ u.sequence = sequence' /\ ~clock_set)
              => u.deadline_ms \div Day > t.deadline_ms \div Day]_vars

Key(t) == [deadline_ms |-> t.deadline_ms, sequence |-> t.sequence]
Order == INSTANCE TaskQueue WITH waiting <- {Key(t) : t \in Tasks},
                                 running <- {Key(t) : t \in running}

\* The heap with its callbacks implements a queue in the order of deadlines and
\* registration, whatever is registered while it is drained.
InOrder == Order!Spec

\* Tasks that are due are all run in the end, more than MAX_TASKS_PER_TICK of
\* them and those that other tasks add included, unless the timer fails or is
\* closed.
CatchesUp ==
    (\E t \in Tasks : t.deadline_ms <= clock)
        ~> \/ \A t \in Tasks : t.deadline_ms > clock
           \/ timer = "closed"
           \/ disarmed

=============================================================================
