--------------------------- MODULE MCServicePool ---------------------------
(* Small instances of ServicePool for TLC. *)
EXTENDS ServicePool

\* The locals of a call die when it returns: states that differ in what a
\* thread's last call left behind are the same.
Live(f, unset) == [t \in Threads |-> IF pc[t] = "idle" THEN unset ELSE f[t]]

View == <<registry, lifecycle, box, thread, pc, calls, deletion, dropped,
          Live(target, 0), Live(message, NoReply), Live(hold, {}),
          Live(found, "none")>>

=============================================================================
