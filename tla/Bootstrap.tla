------------------------------ MODULE Bootstrap ------------------------------
(***************************************************************************)
(* service.bootstrap (lua/service.lua): a host thread runs root in a fresh *)
(* pool until root ends, then ends all others and reports why root ended.  *)
(* service.root does nothing else, and exits the process with the result.  *)
(*                                                                         *)
(* Services behave as in Rpc.  Root creates the others (service.spawn), so *)
(* that none is created while the pool is deleted.  The entry command is   *)
(* the first request, since only its coroutine can bring forth others.     *)
(***************************************************************************)
EXTENDS Rpc

CONSTANT Root

Entry    == 1
Children == Services \ {Root}

\* What can end root.  All but "quit" are error messages.
Causes == {"quit", "quit_error", "entry_error", "not_delivered"}

ASSUME BootstrapAssumption == Root \in Services /\ None \notin Causes

VARIABLES
    host,        \* where the host thread is in bootstrap
    quit,        \* root has called service_stop on itself, in service.quit
                 \* or because its dispatcher failed
    exit_error,  \* of root, or None; nobody reads that of the others
    started,     \* root has reached RUNNING (start_error is 0)
    result,      \* what bootstrap returns: "true" or an error
    cause        \* history: the first of Causes to come about

bootVars == <<host, quit, exit_error, started, result, cause>>
allVars  == <<vars, bootVars>>

BootInit ==
    /\ Init
    /\ host = "new" /\ quit = FALSE /\ started = FALSE
    /\ exit_error = None /\ result = None /\ cause = None

\* Wrong: the last error is kept.
SetLastExitError(message) ==
    /\ exit_error' = message
    /\ cause' = IF cause = None THEN message ELSE cause

\* service_set_exit_error: only the first message is kept.
set_exit_error(message) ==
    /\ exit_error' = IF exit_error = None THEN message ELSE exit_error
    /\ cause' = IF cause = None THEN message ELSE cause

-----------------------------------------------------------------------------
(* Root *)

\* Its thread is inside service_stop, or waits in service.spawn for the child to
\* start.
Blocked(s) ==
    /\ s = Root
    /\ \/ quit /\ phase[Root] \in {"starting", "running"}
       \/ \E c \in Children : phase[c] = "starting"

\* Root's source script runs, in service_init_lua.
InScript == phase[Root] = "starting" /\ host = "start" /\ accepts[Root]

\* Lua code of root runs: its script, a coroutine or a callback of the loop,
\* which may be a timer that fires when uv.stop has ended the loop.
RunsLua ==
    /\ ~Blocked(Root)
    /\ \/ InScript
       \/ phase[Root] \in {"running", "stopping"} /\ ~returned[Root]
       \/ phase[Root] = "notifying" /\ returned[Root] /\ unnotified[Root] = {}

\* service.quit(); the second call has no effect.  The stop follows:
\* StopAccepting and StopRunning.
Quit ==
    /\ RunsLua /\ ~quit
    /\ quit' = TRUE
    /\ cause' = IF cause = None THEN "quit" ELSE cause
    /\ UNCHANGED <<vars, host, exit_error, started, result>>

\* service.quit(err).  service_async_cb does the same when the dispatcher fails:
\* an error from on_idle or an idle hook at the end of a round.
QuitError ==
    /\ RunsLua /\ ~quit
    /\ set_exit_error("quit_error")
    /\ quit' = TRUE
    /\ UNCHANGED <<vars, host, started, result>>

\* The entry command raises an error, which no caller waits for; it is the reason
\* to quit, unless root has quit before.
EntryFails ==
    /\ running_thread[Root] = Entry /\ ~Blocked(Root)
    /\ Finish(Root)
    /\ quit' = TRUE
    /\ IF quit THEN UNCHANGED <<exit_error, cause>> ELSE set_exit_error("entry_error")
    /\ UNCHANGED <<host, started, result>>

\* service.spawn, from the script or a coroutine.
Spawn(c) ==
    /\ InScript \/ running_thread[Root] # None
    /\ ~Blocked(Root)
    /\ Create(c)
    /\ UNCHANGED bootVars

-----------------------------------------------------------------------------
(* The host thread *)

\* service.new, which may raise an error; bootstrap does not catch it.
NewRoot ==
    /\ host = "new"
    /\ \/ Create(Root) /\ host' = "start"
       \/ UNCHANGED vars /\ host' = "raised"
    /\ UNCHANGED <<quit, exit_error, started, result, cause>>

\* service_start returns when root has reached RUNNING (it may have ended since)
\* or will not.  In the latter case lservice_start joins it and raises an error:
\* ECANCELED if the script has quit.  Nobody asks for exit_error then.
StartReturns ==
    /\ host = "start"
    /\ \/ /\ started
          /\ host' = "send"
          /\ UNCHANGED result
       \/ /\ phase[Root] = "gone" /\ ~started
          /\ host' = "delete"
          /\ result' = "start_failed"
    /\ UNCHANGED <<vars, quit, exit_error, started, cause>>

\* The entry command is sent.  It is refused if root does not accept messages any
\* more, or for want of memory.
SendEntry ==
    /\ host = "send"
    /\ \/ Inject(Root) /\ host' = "join"
       \/ UNCHANGED vars /\ host' = "refused"
    /\ UNCHANGED <<quit, exit_error, started, result, cause>>

\* service._stop(addr, err) after that.
StopRoot ==
    /\ host = "refused"
    /\ set_exit_error("not_delivered")
    /\ host' = "stop"
    /\ UNCHANGED <<vars, quit, started, result>>

StopReturns ==
    /\ host = "stop"
    /\ ~accepts[Root] /\ phase[Root] # "running"
    /\ host' = "join"
    /\ UNCHANGED <<vars, quit, exit_error, started, result, cause>>

JoinRoot ==
    /\ host = "join"
    /\ phase[Root] = "gone"
    /\ result' = IF exit_error = None THEN "true" ELSE exit_error
    /\ host' = "delete"
    /\ UNCHANGED <<vars, quit, exit_error, started, cause>>

\* service_pool_delete has stopped and joined all services.
PoolDelete ==
    /\ host = "delete"
    /\ \A s \in Services : phase[s] \in {"none", "gone"}
    /\ host' = "done"
    /\ UNCHANGED <<vars, quit, exit_error, started, result, cause>>

HostStep ==
    \/ NewRoot \/ StartReturns \/ SendEntry \/ StopRoot \/ StopReturns
    \/ JoinRoot \/ PoolDelete

-----------------------------------------------------------------------------
(* Stopping *)

\* Wrong: service_pool_delete joins what nobody has stopped.
StoppedBySelf(s) == s = Root /\ (quit \/ host = "stop")

\* Someone is inside service_stop(s): root itself, or the host.
Stopped(s) == \/ s = Root /\ (quit \/ host = "stop")
              \/ s \in Children /\ host = "delete"

\* service_thread_main has made s RUNNING.
StartService(s) ==
    /\ ~Blocked(s)
    /\ Start(s)
    /\ started' = (started \/ s = Root)
    /\ UNCHANGED <<host, quit, exit_error, result, cause>>

Stop(s) == Stopped(s) /\ StopAccepting(s) /\ UNCHANGED bootVars

\* A service that does not start for an error; a child that quits.
Ends(s) ==
    /\ ~Blocked(s)
    /\ phase[s] = "starting" \/ (phase[s] = "running" /\ s # Root)
    /\ StopAccepting(s)
    /\ UNCHANGED bootVars

\* The steps of Rpc that a service is bound to take, and the others.
Work(s) ==
    /\ StopRunning(s) \/ (~Blocked(s) /\ Proceed(s))
    /\ UNCHANGED bootVars

Handle(s) ==
    /\ ~Blocked(s)
    /\ \/ LoopReturns(s) \/ Sleep(s) \/ CallRefused(s)
       \/ \E to \in Services : CallAccepted(s, to)
    /\ UNCHANGED bootVars

Return(s) == ~Blocked(s) /\ Finish(s) /\ UNCHANGED bootVars

\* bootstrap has returned, or waits for a root that has no reason to end.
BootRest ==
    /\ host \in {"join", "done", "raised"}
    /\ AtRest
    /\ UNCHANGED allVars

BootNext ==
    \/ HostStep \/ Quit \/ QuitError \/ EntryFails
    \/ \E c \in Children : Spawn(c)
    \/ \E s \in Services :
          \/ StartService(s) \/ Stop(s) \/ Ends(s)
          \/ Work(s) \/ Handle(s) \/ Return(s)
    \/ BootRest

\* Threads run.  A handler does not go on calling and sleeping for ever: hence
\* strong fairness of its end.
BootFairness ==
    /\ WF_allVars(HostStep)
    /\ \A s \in Services :
          /\ WF_allVars(StartService(s)) /\ WF_allVars(Stop(s))
          /\ WF_allVars(Work(s)) /\ SF_allVars(Return(s))

BootSpec == BootInit /\ [][BootNext]_allVars /\ BootFairness

-----------------------------------------------------------------------------
(* Properties *)

\* bootstrap returns true when root quits, the error when root quits with one or
\* fails, and the failure of the start only if nothing else has ended root.  So
\* says the table of results in doc/api.md.  It is not so: run boot_reason.
ReportsFirstCause ==
    host \in {"delete", "done"} =>
        CASE cause = "quit" -> result = "true"
          [] cause = None   -> result = "start_failed" \/ returned[Root]
          [] OTHER          -> result = cause

\* What is left of it.  A root that has not started has failed to start.  If it
\* has, the first failure is reported, although others follow; and bootstrap does
\* not report success unless root has quit, or has ended its loop by uv.stop,
\* before anything failed.
FailureReported ==
    host \in {"delete", "done"} =>
        IF started
        THEN /\ cause \notin {None, "quit"} => result = cause
             /\ result = "true" =>
                    cause = "quit" \/ (cause = None /\ returned[Root])
        ELSE result = "start_failed"

\* Once root has quit or has failed, bootstrap returns, whatever the other
\* services are doing.
BootstrapReturns == quit ~> host = "done"

=============================================================================
