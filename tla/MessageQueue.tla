---------------------------- MODULE MessageQueue ----------------------------
(***************************************************************************)
(* What a mailbox promises to the services that use it (mailbox.h): an     *)
(* unbounded FIFO queue.  A message that was accepted is handed out once,  *)
(* in the order of acceptance, and a closed queue accepts nothing more.    *)
(* Nothing here mentions rings, growth, locks or producers.                *)
(***************************************************************************)
EXTENDS Sequences

CONSTANT Messages

VARIABLES
    queue,      \* accepted and not yet handed out, oldest first
    taken,      \* handed out, in order
    closed

vars == <<queue, taken, closed>>

Init ==
    /\ queue = <<>>
    /\ taken = <<>>
    /\ closed = FALSE

Accept(m) ==
    /\ ~closed
    /\ queue' = Append(queue, m)
    /\ UNCHANGED <<taken, closed>>

Take ==
    /\ queue # <<>>
    /\ taken' = Append(taken, Head(queue))
    /\ queue' = Tail(queue)
    /\ UNCHANGED closed

Close ==
    /\ closed' = TRUE
    /\ UNCHANGED <<queue, taken>>

\* Deleting the queue disposes of all that is left, oldest first.
Dispose ==
    /\ closed' = TRUE
    /\ taken' = taken \o queue
    /\ queue' = <<>>

Next == (\E m \in Messages : Accept(m)) \/ Take \/ Close \/ Dispose

Spec == Init /\ [][Next]_vars

=============================================================================
