---------------------------- MODULE ProcessWide ----------------------------
(***************************************************************************)
(* What the threads of a process share besides the pool: the luv loader    *)
(* and the logger.  The thread of a service loads luv first and logs an    *)
(* error when that fails; afterwards its Lua code logs and configures the  *)
(* logger as it likes.                                                     *)
(***************************************************************************)
EXTENDS Log, LuvLoader

ASSUME ProcessAssumption == VMs = Threads

vars == <<logVars, loaderVars>>

Init == LogInit /\ LoaderInit

Load(t) == LoaderStep(t) /\ UNCHANGED logVars

\* service_load_luv: log_error, and the service does not start.
ReportFailure(t) ==
    /\ GivesUp(t)
    /\ Begin(t, [op |-> "write", level |-> "error", file |-> 2, msg |-> <<"c">>])

Call(t) ==
    /\ at[t] = "ready"
    /\ \E c \in Calls[t] : Begin(t, c)
    /\ UNCHANGED loaderVars

\* The end: every thread has made its calls, or has given up.
Done ==
    /\ \A t \in Threads : pc[t] = "idle" /\
         (at[t] = "gone" \/ (at[t] = "ready" /\ made[t] = MaxCalls))
    /\ UNCHANGED vars

Next ==
    \/ \E t \in Threads :
         \/ Load(t) \/ ReportFailure(t) \/ Call(t)
         \/ LogStep(t) /\ UNCHANGED loaderVars
    \/ Done

Spec == Init /\ [][Next]_vars

=============================================================================
