-------------------------- MODULE BootstrapProofs --------------------------
(***************************************************************************)
(* service.bootstrap, proved for any number of services, requests and      *)
(* session numbers: the services it runs behave as Rpc says, so that what  *)
(* is proved of Rpc holds here, and it reports the first failure of root.  *)
(***************************************************************************)
EXTENDS Bootstrap, RpcProofs

\* Where root is.  Once it has started, only a reason makes it end.
RootInv ==
    /\ started => phase[Root] \notin {"none", "starting"}
    /\ started /\ cause = None =>
          returned[Root] \/ (phase[Root] = "running" /\ accepts[Root])
    /\ host \in {"send", "refused", "stop", "join"} => started
    /\ host \in {"delete", "done"} => phase[Root] = "gone"

\* The first cause, and the message that is kept.
CauseInv ==
    /\ cause \in Causes \cup {None}
    /\ \/ exit_error = None \/ exit_error = cause
       \/ exit_error = "not_delivered" /\ cause = "quit"
    /\ exit_error = None => cause \in {None, "quit"}
    /\ cause = "quit" => quit
    /\ quit => cause # None
    /\ host = "stop" => cause # None

\* What bootstrap is going to return.
ResultInv ==
    host \in {"delete", "done"} =>
        result = IF started THEN IF exit_error = None THEN "true" ELSE exit_error
                            ELSE "start_failed"

HostType ==
    /\ host \in {"new", "start", "send", "refused", "stop", "join", "delete", "done",
                 "raised"}
    /\ quit \in BOOLEAN /\ started \in BOOLEAN

BootInv == HostType /\ RootInv /\ CauseInv /\ ResultInv

-----------------------------------------------------------------------------
(* Bootstrap implements Rpc *)

\* Every step of bootstrap and of its services is a step of Rpc, or leaves the
\* variables of Rpc alone.
LEMMA BootNextImplements == [BootNext]_allVars => [Next]_vars
<1> SUFFICES ASSUME [BootNext]_allVars PROVE [Next]_vars
  OBVIOUS
<1>1. CASE UNCHANGED allVars \/ BootRest
  BY <1>1 DEF BootRest, allVars
<1>2. CASE HostStep
  <2>1. \/ Create(Root) \/ Inject(Root) \/ UNCHANGED vars
    BY <1>2 DEF HostStep, NewRoot, StartReturns, SendEntry, StopRoot, StopReturns,
       JoinRoot, PoolDelete
  <2> QED
    BY <2>1, BootstrapAssumption DEF Next
<1>3. CASE Quit \/ QuitError \/ EntryFails
  <2>1. Finish(Root) \/ UNCHANGED vars
    BY <1>3 DEF Quit, QuitError, EntryFails
  <2> QED
    BY <2>1, BootstrapAssumption DEF Next
<1>4. ASSUME NEW c \in Children, Spawn(c)
      PROVE  Next
  BY <1>4 DEF Spawn, Children, Next
<1>5. ASSUME NEW s \in Services,
             \/ StartService(s) \/ Stop(s) \/ Ends(s)
             \/ Work(s) \/ Handle(s) \/ Return(s)
      PROVE  Next
  <2>1. \/ Start(s) \/ StopAccepting(s) \/ StopRunning(s) \/ Proceed(s)
        \/ LoopReturns(s) \/ Sleep(s) \/ CallRefused(s) \/ Finish(s)
        \/ \E to \in Services : CallAccepted(s, to)
    BY <1>5 DEF StartService, Stop, Ends, Work, Handle, Return
  <2> QED
    BY <2>1 DEF Next, Proceed
<1> QED
  BY <1>1, <1>2, <1>3, <1>4, <1>5 DEF BootNext

\* The services that bootstrap runs, from the creation of root to the deletion of
\* the pool, behave as Rpc allows any services to behave.
THEOREM BootImplementsRpc == BootSpec => Spec
<1>1. BootInit => Init
  BY DEF BootInit
<1> QED
  BY <1>1, BootNextImplements, PTL DEF BootSpec, Spec

\* So what is proved of calls between services holds under bootstrap: a request is
\* answered at most once, an answer finds who asked, who waits is owed an answer,
\* with the exceptions that the properties name.
THEOREM BootCalls ==
    BootSpec => [](TypeOK /\ AnswersMatch /\ AnsweredOnce /\ CallsOwed)
BY BootImplementsRpc, RpcTypeOK, RpcAnswersMatch, RpcAnsweredOnce, RpcCallsOwed, PTL

-----------------------------------------------------------------------------
(* Steps of the services *)

\* What a step of Rpc does to root, unless its mailbox is closed.
RootEffect ==
    /\ phase[Root] = "gone" => phase'[Root] = "gone"
    /\ phase[Root] \notin {"none", "starting"} => phase'[Root] \notin {"none", "starting"}
    /\ returned[Root] => returned'[Root]
    /\ phase[Root] = "running" /\ accepts[Root] =>
          returned'[Root] \/ (phase'[Root] = "running" /\ accepts'[Root])

\* The steps of its life.
LEMMA LifeEffect ==
    ASSUME TypeOK, NEW s \in Services,
           \/ Create(s) \/ Start(s) \/ StopRunning(s) \/ LoopReturns(s)
           \/ Drain(s) \/ NotifyStop(s) \/ Exit(s)
    PROVE  RootEffect
<1> USE BootstrapAssumption DEF TypeOK, RootEffect
<1>1. CASE Create(s)
  BY <1>1 DEF Create, ending
<1>2. CASE Start(s)
  BY <1>2 DEF Start, ending
<1>3. CASE StopRunning(s)
  BY <1>3 DEF StopRunning, ending
<1>4. CASE LoopReturns(s)
  BY <1>4 DEF LoopReturns, ending
<1>5. CASE Drain(s)
  BY <1>5 DEF Drain, ending
<1>6. CASE NotifyStop(s)
  BY <1>6 DEF NotifyStop, ending
<1>7. CASE Exit(s)
  BY <1>7 DEF Exit, ending
<1> QED
  BY <1>1, <1>2, <1>3, <1>4, <1>5, <1>6, <1>7

\* The steps of its coroutines.
LEMMA BusyEffect ==
    ASSUME NEW s \in Services,
           \/ HandleRequest(s) \/ HandleAnswer(s) \/ Finish(s) \/ Sleep(s)
           \/ WakeUp(s) \/ ReplyPending(s) \/ CallRefused(s) \/ Inject(s)
           \/ \E to \in Services : CallAccepted(s, to)
    PROVE  RootEffect
<1>1. phase' = phase /\ accepts' = accepts /\ returned' = returned
  BY DEF HandleRequest, HandleAnswer, Finish, Sleep, WakeUp, ReplyPending, CallRefused,
     Inject, CallAccepted, ending
<1> QED
  BY <1>1 DEF RootEffect

\* A mailbox is closed: that of root only for a reason, once it has started.
LEMMA StopAcceptingEffect ==
    ASSUME TypeOK, NEW s \in Services, StopAccepting(s)
    PROVE  /\ phase' = phase /\ returned' = returned
           /\ s # Root => accepts'[Root] = accepts[Root]
BY BootstrapAssumption DEF TypeOK, StopAccepting, ending

-----------------------------------------------------------------------------
(* The invariant *)

\* Services do not touch what root has recorded.
LEMMA ServiceInv ==
    ASSUME BootInv, RootEffect, UNCHANGED bootVars
    PROVE  BootInv'
BY DEF BootInv, RootEffect, HostType, RootInv, CauseInv, ResultInv, bootVars

\* The steps of the host thread.
LEMMA HostInv ==
    ASSUME BootInv, TypeOK, HostStep
    PROVE  BootInv'
<1> USE DEF BootInv, HostType, RootInv, CauseInv, ResultInv
<1>1. CASE NewRoot
  <2>1. RootEffect
    BY <1>1, LifeEffect, BootstrapAssumption DEF NewRoot, RootEffect, vars, ending
  <2> QED
    BY <1>1, <2>1 DEF NewRoot, RootEffect
<1>2. CASE SendEntry
  <2>1. RootEffect
    BY <1>2, BusyEffect, BootstrapAssumption DEF SendEntry, RootEffect, vars, ending
  <2> QED
    BY <1>2, <2>1 DEF SendEntry, RootEffect
<1>3. CASE StartReturns \/ StopRoot \/ StopReturns \/ JoinRoot \/ PoolDelete
  <2>1. phase' = phase /\ accepts' = accepts /\ returned' = returned
    BY <1>3 DEF StartReturns, StopRoot, StopReturns, JoinRoot, PoolDelete, vars, ending
  <2>2. CASE StartReturns
    BY <2>1, <2>2 DEF StartReturns
  <2>3. CASE StopRoot
    BY <2>1, <2>3, BootstrapAssumption DEF StopRoot, set_exit_error, Causes
  <2>4. CASE StopReturns
    BY <2>1, <2>4 DEF StopReturns
  <2>5. CASE JoinRoot
    BY <2>1, <2>5 DEF JoinRoot
  <2>6. CASE PoolDelete
    BY <2>1, <2>6 DEF PoolDelete
  <2> QED
    BY <1>3, <2>2, <2>3, <2>4, <2>5, <2>6
<1> QED
  BY <1>1, <1>2, <1>3 DEF HostStep

\* Root records why it ends, while it is not gone.
LEMMA QuitInv ==
    ASSUME BootInv, IInv, Quit \/ QuitError \/ EntryFails
    PROVE  BootInv'
<1> USE DEF BootInv, HostType, RootInv, CauseInv, ResultInv
<1>1. CASE Quit \/ QuitError
  <2>1. /\ phase' = phase /\ accepts' = accepts /\ returned' = returned
        /\ ~quit /\ host \notin {"delete", "done"}
    BY <1>1 DEF Quit, QuitError, RunsLua, InScript, vars, ending
  <2>2. CASE Quit
    BY <2>1, <2>2, BootstrapAssumption DEF Quit, Causes
  <2>3. CASE QuitError
    BY <2>1, <2>3, BootstrapAssumption DEF QuitError, set_exit_error, Causes
  <2> QED
    BY <1>1, <2>2, <2>3
<1>2. CASE EntryFails
  <2>1. running_thread[Root] # None
    BY <1>2, RpcAssumption DEF EntryFails, Entry
  <2>2. phase[Root] # "gone"
    BY <2>1, BootstrapAssumption DEF IInv, PhaseInv, PhaseOK
  <2>3. /\ phase' = phase /\ accepts' = accepts /\ returned' = returned
        /\ host \notin {"delete", "done"}
    BY <1>2, <2>2 DEF EntryFails, Finish, ending
  <2>4. CASE quit
    BY <1>2, <2>3, <2>4 DEF EntryFails
  <2>5. CASE ~quit
    BY <1>2, <2>3, <2>5, BootstrapAssumption DEF EntryFails, set_exit_error, Causes
  <2> QED
    BY <2>4, <2>5
<1> QED
  BY <1>1, <1>2

\* The invariant holds initially ...
LEMMA BootInitInv == BootInit => BootInv
BY BootstrapAssumption
   DEF BootInit, BootInv, HostType, RootInv, CauseInv, ResultInv, Causes

\* ... and every step preserves it.
LEMMA BootNextInv == BootInv /\ IInv /\ [BootNext]_allVars => BootInv'
<1> SUFFICES ASSUME BootInv, IInv, [BootNext]_allVars PROVE BootInv'
  OBVIOUS
<1>1. TypeOK
  BY DEF IInv
<1>2. CASE UNCHANGED allVars
  <2>1. RootEffect /\ UNCHANGED bootVars
    BY <1>2 DEF allVars, vars, ending, RootEffect
  <2> QED
    BY <2>1, ServiceInv
<1>3. ASSUME NEW c \in Children, Spawn(c)
      PROVE  BootInv'
  BY <1>1, <1>3, LifeEffect, ServiceInv DEF Spawn, Children
<1>4. ASSUME NEW s \in Services, StartService(s)
      PROVE  BootInv'
  <2>1. RootEffect
    BY <1>1, <1>4, LifeEffect DEF StartService
  <2>2. CASE s # Root
    <3>1. started' = started
      BY <1>4, <2>2 DEF StartService, BootInv, HostType
    <3> QED
      BY <1>4, <2>1, <3>1, ServiceInv DEF StartService, bootVars
  <2>3. CASE s = Root
    <3>1. /\ phase[Root] = "starting" /\ phase'[Root] = "running" /\ accepts'[Root]
          /\ started' = TRUE
      BY <1>1, <1>4, <2>3 DEF StartService, Start, TypeOK
    <3> QED
      BY <1>4, <2>1, <3>1
         DEF StartService, RootEffect, BootInv, HostType, RootInv, CauseInv, ResultInv
  <2> QED
    BY <2>2, <2>3
<1>5. ASSUME NEW s \in Services, Stop(s) \/ Ends(s)
      PROVE  BootInv'
  <2>1. StopAccepting(s) /\ UNCHANGED bootVars
    BY <1>5 DEF Stop, Ends
  <2>2. /\ phase' = phase /\ returned' = returned
        /\ s # Root => accepts'[Root] = accepts[Root]
    BY <1>1, <2>1, StopAcceptingEffect
  <2>3. s = Root => cause # None \/ phase[Root] = "starting"
    BY <1>5 DEF Stop, Stopped, Children, Ends, BootInv, CauseInv
  <2> QED
    BY <2>1, <2>2, <2>3 DEF BootInv, HostType, RootInv, CauseInv, ResultInv, bootVars
<1>6. ASSUME NEW s \in Services, Work(s) \/ Handle(s) \/ Return(s)
      PROVE  BootInv'
  <2>1. UNCHANGED bootVars
    BY <1>6 DEF Work, Handle, Return
  <2>2. CASE returned[s] /\ StopAccepting(s)
    <3>1. /\ phase' = phase /\ returned' = returned
          /\ s # Root => accepts'[Root] = accepts[Root]
      BY <1>1, <2>2, StopAcceptingEffect
    <3> QED
      BY <2>1, <2>2, <3>1, ServiceInv DEF RootEffect
  <2>3. CASE ~(returned[s] /\ StopAccepting(s))
    <3>1. RootEffect
      BY <1>1, <1>6, <2>3, BusyEffect, LifeEffect DEF Work, Handle, Return, Proceed
    <3> QED
      BY <2>1, <3>1, ServiceInv
  <2> QED
    BY <2>2, <2>3
<1> QED
  BY <1>1, <1>2, <1>3, <1>4, <1>5, <1>6, HostInv, QuitInv DEF BootNext, BootRest

\* The invariant holds.
THEOREM BootInvariant == BootSpec => []BootInv
BY BootInitInv, BootNextInv, BootImplementsRpc, RpcInvariant, PTL DEF BootSpec

\* A root that has not started is reported as such.  If it has, bootstrap returns
\* the first failure (service_set_exit_error keeps the first message), and true
\* only if root has quit, or has ended its loop by uv.stop, before any failure.
THEOREM BootFailureReported == BootSpec => []FailureReported
<1>1. BootInv => FailureReported
  BY BootstrapAssumption
     DEF BootInv, HostType, RootInv, CauseInv, ResultInv, FailureReported, Causes
<1> QED
  BY <1>1, BootInvariant, PTL

=============================================================================
