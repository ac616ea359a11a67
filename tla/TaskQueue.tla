----------------------------- MODULE TaskQueue -----------------------------
(***************************************************************************)
(* What the scheduler promises about order (doc/scheduler.md and           *)
(* tests/lua/scheduler_spec.lua): of the tasks that wait, the one with the *)
(* earliest deadline is run first, and of those with equal deadlines the   *)
(* one that was registered first.  Nothing here mentions a heap.           *)
(***************************************************************************)
EXTENDS Naturals

VARIABLES
    waiting,    \* records with deadline_ms and sequence
    running     \* the task that is being run, if any

vars == <<waiting, running>>

Init == waiting = {} /\ running = {}

\* A task joins those that wait, behind all that were registered before it.
Registered ==
    \E t \in waiting' :
        /\ waiting' = waiting \cup {t}
        /\ \A u \in waiting : u.sequence < t.sequence

Register == Registered /\ UNCHANGED running

\* The first task is taken.
TakeFirst ==
    \E first \in waiting :
        /\ \A t \in waiting \ {first} :
              \/ first.deadline_ms < t.deadline_ms
              \/ first.deadline_ms = t.deadline_ms /\ first.sequence < t.sequence
        /\ running = {}
        /\ running' = {first}
        /\ waiting' = waiting \ {first}

\* It has been run; a daily task is registered again.
Done ==
    /\ running # {}
    /\ running' = {}
    /\ UNCHANGED waiting \/ Registered

Next == Register \/ TakeFirst \/ Done

Spec == Init /\ [][Next]_vars

=============================================================================
