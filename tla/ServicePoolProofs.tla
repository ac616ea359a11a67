------------------------- MODULE ServicePoolProofs -------------------------
(***************************************************************************)
(* The safety of the pool for any number of hosts, services and calls:     *)
(* names are unique, and then the types, what a pin protects, who frees a  *)
(* service, what a stop may touch, and what service_pool_delete leaves.    *)
(*                                                                         *)
(* One inductive invariant, PoolInv, carries all but the first.  A service *)
(* goes through its life in one direction (Life), its thread gives up what *)
(* it has in the order of service_prepare_shutdown (Shutdown), and a       *)
(* thread inside a call is at a place that says how far the service must   *)
(* be (JoinInv, StopInv, DeletionInv).  The pins are the number of senders *)
(* (PinInv).                                                               *)
(***************************************************************************)
EXTENDS ServicePool, FiniteSetTheorems, TLAPS

(* Names *)

\* What keeps names unique: only ids that were given out are routable.
RegistryType ==
    /\ next_id \in Nat
    /\ name \in [Ids -> Names]
    /\ routable \in [Ids -> BOOLEAN]

NamesInv ==
    /\ RegistryType
    /\ \A s \in Ids : routable[s] => s < next_id
    /\ UniqueNames

\* Of all steps, only service_new and service_retire (in Retire and in
\* ShutRetire) change who can be looked up.
RetireStep(s) ==
    /\ routable' = [routable EXCEPT ![s] = FALSE]
    /\ UNCHANGED <<next_id, name>>

\* The beginning of a call: only service_new enters a service.
LEMMA BeginRegistry ==
    ASSUME NEW t \in Threads, Begin(t)
    PROVE  \/ UNCHANGED <<next_id, name, routable>>
           \/ \E n \in Names : New(t, n)
<1>1. CASE \E n \in Names : New(t, n)
  BY <1>1
<1>2. CASE \E s \in Ids : \/ StartThread(t, s) \/ StartFails(t, s) \/ StartAgain(t, s)
                          \/ Stop(t, s) \/ Join(t, s)
  BY <1>2 DEF StartThread, StartFails, StartAgain, Stop, Join, registry
<1>3. CASE \E s \in Ids : \E m \in Ids \cup {NoReply} : Send(t, s, m)
  BY <1>3 DEF Send, registry
<1>4. CASE DeleteBegin(t)
  BY <1>4 DEF DeleteBegin, registry
<1> QED
  BY <1>1, <1>2, <1>3, <1>4 DEF Begin

\* The rest of a call: only service_retire takes one out.
LEMMA ContinueRegistry ==
    ASSUME NEW t \in Threads, Continue(t)
    PROVE  UNCHANGED <<next_id, name, routable>> \/ RetireStep(target[t])
<1>1. CASE Retire(t)
  BY <1>1 DEF Retire, RetireStep
<1>2. CASE StartClose(t) \/ StartWait(t) \/ StartError(t)
  BY <1>2 DEF StartClose, StartWait, StartError, registry
<1>3. CASE StopNew(t) \/ StopActive(t) \/ StopLate(t) \/ StopClose(t) \/ StopControl(t)
  BY <1>3 DEF StopNew, StopActive, StopLate, StopClose, StopControl, registry
<1>4. CASE \/ SendPin(t) \/ SendNoPin(t) \/ SendPush(t) \/ SendRefused(t)
           \/ SendReady(t) \/ SendAsync(t) \/ SendAsyncFails(t) \/ SendUnpin(t)
  BY <1>4 DEF SendPin, SendNoPin, SendPush, SendRefused, SendReady, SendAsync,
              SendAsyncFails, SendUnpin, registry
<1>5. CASE \/ JoinReturns(t) \/ JoinBegin(t) \/ JoinThread(t) \/ FreeWait(t)
           \/ FreeTake(t) \/ FreeDelete(t) \/ JoinDone(t)
  BY <1>5 DEF JoinReturns, JoinBegin, JoinThread, FreeWait, FreeTake, FreeDelete,
              JoinDone, registry
<1>6. CASE DeleteStop(t) \/ DeleteJoin(t) \/ DeletePhase(t)
  BY <1>6 DEF DeleteStop, DeleteJoin, DeleteTurn, DeletePhase, registry
<1> QED
  BY <1>1, <1>2, <1>3, <1>4, <1>5, <1>6 DEF Continue

\* The thread of a service: it retires itself when it shuts down.
LEMMA MainRegistry ==
    ASSUME NEW s \in Ids, Main(s) \/ LoopReturns(s)
    PROVE  UNCHANGED <<next_id, name, routable>> \/ RetireStep(s)
<1>1. CASE ShutRetire(s)
  BY <1>1 DEF ShutRetire, RetireStep
<1>2. CASE \/ InitFails(s) \/ InitLoop(s)
           \/ (\E h \in {"inbox", "control"} : InitAsync(s, h))
           \/ InitLua(s) \/ ScriptDone(s) \/ StartOk(s) \/ StartCancelled(s) \/ Kick(s)
  BY <1>2 DEF InitFails, InitLoop, InitAsync, InitLua, ScriptDone, StartOk,
              StartCancelled, Kick, registry
<1>3. CASE \/ OnInbox(s) \/ Recv(s) \/ PopMessage(s) \/ PopNothing(s) \/ Handled(s)
           \/ OnControl(s) \/ LoopReturns(s) \/ Finish(s)
  BY <1>3 DEF OnInbox, Recv, PopMessage, PopNothing, Handled, OnControl,
              LoopReturns, Finish, registry
<1>4. CASE \/ ShutClose(s) \/ ShutWait(s) \/ Drain(s) \/ Drained(s)
           \/ CloseHandles(s) \/ Exit(s)
  BY <1>4 DEF ShutClose, ShutWait, Drain, Drained, CloseHandles, Exit, registry
<1> QED
  BY <1>1, <1>2, <1>3, <1>4 DEF Main

\* service_new gives a name only if no service that can be looked up has it.
LEMMA NewNames ==
    ASSUME NamesInv, NEW t \in Threads, NEW n \in Names, New(t, n)
    PROVE  NamesInv'
<1> USE DEF NamesInv, RegistryType
<1>1. next_id \in Ids /\ next_id' = next_id + 1
  BY PoolAssumption DEF New, Ids
<1>2. RegistryType'
  BY <1>1 DEF New
<1>3. ASSUME NEW s \in Ids, routable'[s]
      PROVE  /\ s < next_id'
             /\ s # next_id => routable[s] /\ s < next_id /\ name'[s] = name[s]
             /\ s = next_id => name'[s] = n
  BY <1>1, <1>3 DEF New, Ids
<1>4. ASSUME NEW s \in Ids, s # next_id, routable'[s], n # NoName
      PROVE  name'[s] # n
  <2>1. routable[s] /\ s \in 0 .. next_id - 1 /\ name'[s] = name[s]
    BY <1>3, <1>4 DEF Ids
  <2>2. \A r \in 0 .. next_id - 1 : ~(routable[r] /\ name[r] = n)
    BY <1>4 DEF New, NameFree
  <2> QED
    BY <2>1, <2>2
<1>5. UniqueNames'
  <2> SUFFICES ASSUME NEW r \in Ids, NEW s \in Ids, r # s, routable'[r], routable'[s],
                      name'[r] = name'[s]
               PROVE  name'[r] = NoName
    BY DEF UniqueNames
  <2>1. CASE r # next_id /\ s # next_id
    BY <2>1, <1>3 DEF UniqueNames
  <2>2. CASE r = next_id
    BY <2>2, <1>3, <1>4
  <2>3. CASE s = next_id
    BY <2>3, <1>3, <1>4
  <2> QED
    BY <2>1, <2>2, <2>3
<1> QED
  BY <1>2, <1>3, <1>5

\* A service that is retired gives its name up.
LEMMA RetireNames ==
    ASSUME NamesInv, NEW s, RetireStep(s)
    PROVE  NamesInv'
<1>1. \A r \in Ids : routable'[r] => routable[r]
  BY DEF NamesInv, RegistryType, RetireStep
<1>2. RegistryType'
  BY DEF NamesInv, RegistryType, RetireStep
<1> QED
  BY <1>1, <1>2 DEF NamesInv, RetireStep, UniqueNames

\* Two services that service_lookup can find never have the same name, however
\* many threads create, stop and end services: service_new looks and enters
\* under one lock, and a name is given up only by service_retire.
THEOREM NamesAreUnique == Spec => []UniqueNames
<1>1. Init => NamesInv
  BY PoolAssumption DEF Init, NamesInv, RegistryType, UniqueNames, Ids
<1>2. NamesInv /\ [Next]_vars => NamesInv'
  <2> SUFFICES ASSUME NamesInv, [Next]_vars
               PROVE  NamesInv'
    OBVIOUS
  <2>1. ASSUME UNCHANGED <<next_id, name, routable>>
        PROVE  NamesInv'
    BY <2>1 DEF NamesInv, RegistryType, UniqueNames
  <2>2. CASE \E t \in Threads : Begin(t)
    BY <2>1, <2>2, BeginRegistry, NewNames
  <2>3. CASE \E t \in Threads : Continue(t)
    BY <2>1, <2>3, ContinueRegistry, RetireNames
  <2>4. CASE \E s \in Ids : Main(s) \/ LoopReturns(s)
    BY <2>1, <2>4, MainRegistry, RetireNames
  <2>5. CASE Quiet \/ UNCHANGED vars
    BY <2>1, <2>5 DEF Quiet, vars, registry
  <2> QED
    BY <2>2, <2>3, <2>4, <2>5 DEF Next
<1>3. NamesInv => UniqueNames
  BY DEF NamesInv
<1> QED
  BY <1>1, <1>2, <1>3, PTL DEF Spec

-----------------------------------------------------------------------------
(* The inductive invariant *)

States == {"none", "new", "starting", "running", "stopping", "stopped", "joined",
           "freed"}

\* TypeOK, one part for each group of variables.
RegistryOK ==
    /\ next_id \in 0 .. MaxServices
    /\ name \in [Ids -> Names]
    /\ routable \in [Ids -> BOOLEAN]
    /\ send_pins \in [Ids -> Nat]

LifecycleOK ==
    /\ state \in [Ids -> States]
    /\ stop_requested \in [Ids -> BOOLEAN]
    /\ start \in [Ids -> {"pending", "ok", "failed"}]
    /\ joining \in [Ids -> BOOLEAN]
    /\ thread_joined \in [Ids -> BOOLEAN]

BoxOK ==
    /\ mailbox \in [Ids -> {"open", "closed", "freed"}]
    /\ inbox \in [Ids -> Seq(Ids \cup {NoReply})]
    /\ scheduled \in [Ids -> BOOLEAN]

ThreadOK ==
    /\ ready \in [Ids -> SUBSET {"inbox", "control"}]
    /\ main \in [Ids -> MainLabels]
    /\ handles \in [Ids -> SUBSET {"inbox", "control"}]
    /\ pending \in [Ids -> SUBSET {"inbox", "control"}]

PcOK == pc \in [Threads -> Labels]

ArgsOK ==
    /\ target \in [Threads -> Ids]
    /\ message \in [Threads -> Ids \cup {NoReply}]
    /\ hold \in [Threads -> SUBSET {"inbox", "control"}]
    /\ found \in [Threads -> States]

CallsOK == calls \in [Threads -> Nat]

DeletionOK ==
    deletion \in [phase : {"no", "stop", "join", "freed", "failed"},
                  id : 0 .. MaxServices, by : Hosts \cup {NoReply}]

DroppedOK == dropped \in [Ids -> Nat]

Types ==
    /\ RegistryOK /\ LifecycleOK /\ BoxOK /\ ThreadOK
    /\ PcOK /\ ArgsOK /\ CallsOK /\ DeletionOK /\ DroppedOK

\* send_pins counts the threads between their pin and their unpin.
Senders(s) == {t \in Threads : pc[t] \in Pinned /\ target[t] = s}

PinInv == \A s \in Ids : send_pins[s] = Cardinality(Senders(s))

Ended == {"none", "exited"}
Loop == {"kick", "poll", "recv", "pop", "handle"}

\* How the state of a service, its thread and its mailbox go together.
Life(s) ==
    /\ s < next_id <=> state[s] # "none"
    /\ routable[s] => state[s] # "none"
    /\ main[s] = "none" => state[s] \in {"none", "new", "stopped", "joined", "freed"}
    /\ main[s] = "exited" => state[s] \in {"stopped", "joined", "freed"}
    /\ main[s] \notin Ended => state[s] \in {"starting", "running", "stopping"}
    /\ state[s] \in {"none", "new", "starting", "running"} => ~stop_requested[s]
    /\ thread_joined[s] <=> state[s] \in {"joined", "freed"}
    /\ mailbox[s] = "freed" =>
          state[s] = "freed" /\ ~routable[s] /\ send_pins[s] = 0

\* What the thread has initialised, and who may have signalled it to stop.
Handles(s) ==
    /\ ready[s] = handles[s]
    /\ main[s] = "init_control" => "inbox" \in handles[s]
    /\ main[s] \in {"init_lua", "script", "decide"} \cup Loop =>
          {"inbox", "control"} \subseteq handles[s]
    /\ "control" \in pending[s] => stop_requested[s]

Drains == {"c_drain", "c_handles", "f_drain", "f_loop", "f_state", "exited"}
Closes == {"c_wait", "f_wait"} \cup Drains
Shuts == {"c_close", "f_close"} \cup Closes

\* What service_prepare_shutdown has achieved at each of its steps; requests
\* are lost only with a service that never had a thread.
Shutdown(s) ==
    /\ main[s] \in Shuts => ~routable[s]
    /\ main[s] \in Closes => mailbox[s] # "open"
    /\ main[s] \in Drains => send_pins[s] = 0
    /\ main[s] \in {"f_loop", "f_state", "exited"} => inbox[s] = <<>>
    /\ dropped[s] # 0 => mailbox[s] = "freed" /\ main[s] = "none"

ServiceInv == \A s \in Ids : Life(s) /\ Handles(s) /\ Shutdown(s)

\* A service thread is in a call only where Lua code runs or the drain replies.
CallInv ==
    \A s \in Ids :
        pc[s] # "idle" => main[s] \in {"script", "handle", "c_drain", "f_drain"}

\* A sender that is about to signal has found the handle ready.
AsyncInv ==
    \A t \in Threads : pc[t] = "send_async" => "inbox" \in handles[target[t]]

Joining == {"join_thread", "free_retire", "free_wait", "free_take",
            "free_delete", "join_done"}

\* How far a service is that thread t joins and frees.
Joiner(t) ==
    LET s == target[t] IN
    pc[t] \in Joining =>
        /\ joining[s]
        /\ pc[t] = "join_thread" => state[s] \notin {"none", "new", "joined", "freed"}
        /\ pc[t] \in {"free_retire", "free_wait", "free_take"} => state[s] = "joined"
        /\ pc[t] \in {"free_delete", "join_done"} => state[s] = "freed"
        /\ pc[t] \in {"free_wait", "free_take", "free_delete", "join_done"} =>
              ~routable[s]
        /\ pc[t] \in {"free_take", "free_delete", "join_done"} => send_pins[s] = 0
        /\ pc[t] = "join_done" => mailbox[s] = "freed"

JoinInv ==
    /\ \A t \in Threads : Joiner(t)
    /\ \A t, u \in Threads :
          pc[t] \in Joining /\ pc[u] \in Joining /\ target[t] = target[u] => t = u
    /\ \A s \in Ids : joining[s] => \E t \in Threads : pc[t] \in Joining /\ target[t] = s
    /\ \A s \in Ids : thread_joined[s] /\ ~joining[s] => mailbox[s] = "freed"

Stopping == {"stop_close", "stop_control"}
Signals(t) == pc[t] \in Stopping /\ "control" \in hold[t]

\* The stop that found a service running is the only one that will signal it,
\* and until it has, the thread is in its loop.
Stopper(t) ==
    pc[t] \in Stopping /\ found[t] = "running" =>
        /\ Signals(t)
        /\ main[target[t]] \in Loop
        /\ "control" \notin pending[target[t]]

StopInv ==
    /\ \A t \in Threads : pc[t] \in Stopping => stop_requested[target[t]]
    /\ \A t \in Threads : pc[t] = "stop_control" => "control" \in hold[t]
    /\ \A t, u \in Threads : Signals(t) /\ Signals(u) /\ target[t] = target[u] => t = u

RunInv ==
    LoopMayReturn \/ /\ \A s \in Ids : state[s] = "running" => main[s] \in Loop
                     /\ \A t \in Threads : Stopper(t)

\* The deleting host is alone; the services its second loop has passed are
\* freed, but for the one it is at.
DeletionInv ==
    deletion.phase # "no" =>
        /\ deletion.by \in Hosts
        /\ \A h \in Hosts : h # deletion.by => pc[h] = "idle"
        /\ deletion.phase = "join" =>
              /\ pc[deletion.by] \in {"idle", "join"} \cup Joining
              /\ \A s \in Ids : s < deletion.id =>
                    \/ mailbox[s] = "freed"
                    \/ pc[deletion.by] # "idle" /\ target[deletion.by] = s
        /\ deletion.phase = "freed" => FreedPoolIsUnused

PoolInv ==
    /\ Types /\ PinInv /\ ServiceInv /\ CallInv /\ AsyncInv
    /\ JoinInv /\ StopInv /\ RunInv /\ DeletionInv

-----------------------------------------------------------------------------
(* Types *)

\* The states of enum service_state.
LEMMA OrderDomain == DOMAIN Order = States
  BY DEF Order, States

\* The parts together are TypeOK.
LEMMA TypesAreTypeOK == Types <=> TypeOK
<1>1. Types => TypeOK
  BY OrderDomain DEF Types, TypeOK, RegistryOK, LifecycleOK, BoxOK, ThreadOK, PcOK,
                     ArgsOK, CallsOK, DeletionOK, DroppedOK
<1>2. TypeOK => Types
  BY OrderDomain DEF Types, TypeOK, RegistryOK, LifecycleOK, BoxOK, ThreadOK, PcOK,
                     ArgsOK, CallsOK, DeletionOK, DroppedOK
<1> QED
  BY <1>1, <1>2

\* Hosts, services and NoReply are told apart, and threads are finitely many.
LEMMA Identities ==
    /\ IsFiniteSet(Threads)
    /\ Hosts \cap Ids = {}
    /\ Ids \subseteq Nat
    /\ Ids \subseteq Threads
    /\ NoReply \notin Ids
<1>1. IsFiniteSet(Ids)
  BY FS_Interval, PoolAssumption DEF Ids
<1>2. IsFiniteSet(Threads)
  BY <1>1, FS_Union, PoolAssumption DEF Threads
<1> QED
  BY <1>2, PoolAssumption DEF Ids, Threads

\* A part keeps its type when its variables are left alone.
LEMMA TypesKept ==
    /\ RegistryOK /\ UNCHANGED registry => RegistryOK'
    /\ LifecycleOK /\ UNCHANGED lifecycle => LifecycleOK'
    /\ BoxOK /\ UNCHANGED box => BoxOK'
    /\ ThreadOK /\ UNCHANGED thread => ThreadOK'
    /\ PcOK /\ UNCHANGED pc => PcOK'
    /\ ArgsOK /\ UNCHANGED args => ArgsOK'
    /\ CallsOK /\ UNCHANGED calls => CallsOK'
    /\ DeletionOK /\ UNCHANGED deletion => DeletionOK'
    /\ DroppedOK /\ UNCHANGED dropped => DroppedOK'
<1>1. RegistryOK /\ UNCHANGED registry => RegistryOK'
  BY DEF RegistryOK, registry
<1>2. LifecycleOK /\ UNCHANGED lifecycle => LifecycleOK'
  BY DEF LifecycleOK, lifecycle
<1>3. BoxOK /\ UNCHANGED box => BoxOK'
  BY DEF BoxOK, box
<1>4. ThreadOK /\ UNCHANGED thread => ThreadOK'
  BY DEF ThreadOK, thread
<1>5. ArgsOK /\ UNCHANGED args => ArgsOK'
  BY DEF ArgsOK, args
<1> QED
  BY <1>1, <1>2, <1>3, <1>4, <1>5 DEF PcOK, CallsOK, DeletionOK, DroppedOK

\* A call goes to one of its labels.
LEMMA GotoTypes ==
    ASSUME PcOK, NEW t, NEW l \in Labels, Goto(t, l)
    PROVE  PcOK'
  BY DEF Goto, PcOK

\* So does a call that starts, on a service of the table.
LEMMA CallTypes ==
    ASSUME Types, NEW t \in Threads, NEW op, NEW s \in Ids, NEW l \in Labels,
           Call(t, op, s, l)
    PROVE  PcOK' /\ CallsOK' /\ target' \in [Threads -> Ids]
  BY DEF Call, MayCall, Goto, PcOK, Types, ArgsOK, CallsOK

\* Calls that start keep the types.
LEMMA BeginTypes ==
    ASSUME Types, NEW t \in Threads, Begin(t)
    PROVE  Types'
<1> USE TypesKept DEF Types
<1>1. ASSUME NEW n \in Names, New(t, n) PROVE Types'
  <2>1. RegistryOK'
    BY <1>1, PoolAssumption DEF New, RegistryOK, Ids
  <2>2. LifecycleOK'
    BY <1>1 DEF New, LifecycleOK, States
  <2>3. CallsOK'
    BY <1>1 DEF New, MayCall, CallsOK
  <2> QED
    BY <1>1, <2>1, <2>2, <2>3 DEF New
<1>2. ASSUME NEW s \in Ids, StartThread(t, s) PROVE Types'
  <2>1. PcOK' /\ CallsOK' /\ target' \in [Threads -> Ids]
    BY <1>2, CallTypes DEF StartThread, Labels
  <2>2. LifecycleOK' /\ ThreadOK'
    BY <1>2 DEF StartThread, LifecycleOK, ThreadOK, States, MainLabels
  <2> QED
    BY <1>2, <2>1, <2>2 DEF StartThread, ArgsOK
<1>3. ASSUME NEW s \in Ids, StartFails(t, s) PROVE Types'
  <2>1. PcOK' /\ CallsOK' /\ target' \in [Threads -> Ids]
    BY <1>3, CallTypes DEF StartFails, Labels
  <2>2. LifecycleOK'
    BY <1>3 DEF StartFails, LifecycleOK, States
  <2> QED
    BY <1>3, <2>1, <2>2 DEF StartFails, ArgsOK
<1>4. ASSUME NEW s \in Ids, StartAgain(t, s) \/ Stop(t, s) \/ Join(t, s) PROVE Types'
  <2>1. PcOK' /\ CallsOK' /\ target' \in [Threads -> Ids]
    BY <1>4, CallTypes DEF StartAgain, Stop, Join, Labels
  <2> QED
    BY <1>4, <2>1 DEF StartAgain, Stop, Join, ArgsOK
<1>5. ASSUME NEW s \in Ids, NEW m \in Ids \cup {NoReply}, Send(t, s, m) PROVE Types'
  <2>1. PcOK' /\ CallsOK' /\ target' \in [Threads -> Ids]
    BY <1>5, CallTypes DEF Send, Labels
  <2> QED
    BY <1>5, <2>1 DEF Send, ArgsOK
<1>6. ASSUME DeleteBegin(t) PROVE Types'
  <2>1. DeletionOK'
    BY <1>6, PoolAssumption DEF DeleteBegin, MayCall, DeletionOK
  <2> QED
    BY <1>6, <2>1 DEF DeleteBegin, frame
<1> QED
  BY <1>1, <1>2, <1>3, <1>4, <1>5, <1>6 DEF Begin

\* So do calls that go on, if service_unpin finds a pin.
LEMMA ContinueTypes ==
    ASSUME Types, NEW t \in Threads, Continue(t),
           SendUnpin(t) => send_pins[target[t]] > 0
    PROVE  Types'
<1> USE TypesKept DEF Types
<1>0. target[t] \in Ids
  BY DEF ArgsOK
<1>1. CASE \/ StartWait(t) \/ StartError(t) \/ StopLate(t) \/ SendNoPin(t)
           \/ SendRefused(t) \/ SendReady(t) \/ SendAsyncFails(t) \/ FreeWait(t)
  <2>1. PcOK'
    BY <1>1, GotoTypes DEF StartWait, StartError, StopLate, SendNoPin, SendRefused,
                           SendReady, SendAsyncFails, FreeWait, Labels
  <2> QED
    BY <1>1, <2>1 DEF StartWait, StartError, StopLate, SendNoPin, SendRefused,
                      SendReady, SendAsyncFails, FreeWait
<1>2. CASE StartClose(t) \/ StopClose(t)
  <2>1. PcOK' /\ BoxOK'
    BY <1>2, GotoTypes DEF StartClose, StopClose, BoxOK, Labels
  <2> QED
    BY <1>2, <2>1 DEF StartClose, StopClose
<1>3. CASE Retire(t)
  <2>1. PcOK'
    BY <1>3, GotoTypes DEF Retire, AfterRetire, Labels
  <2>2. RegistryOK'
    BY <1>3 DEF Retire, RegistryOK
  <2> QED
    BY <1>3, <2>1, <2>2 DEF Retire
<1>4. CASE StopNew(t) \/ StopActive(t)
  <2>1. PcOK'
    BY <1>4, GotoTypes DEF StopNew, StopActive, Labels
  <2>2. LifecycleOK'
    BY <1>4 DEF StopNew, StopActive, LifecycleOK, States
  <2>3. ArgsOK'
    BY <1>0, <1>4 DEF StopNew, StopActive, ArgsOK, LifecycleOK
  <2> QED
    BY <1>4, <2>1, <2>2, <2>3 DEF StopNew, StopActive
<1>5. CASE StopControl(t) \/ SendAsync(t)
  <2>1. PcOK' /\ ThreadOK'
    BY <1>5, GotoTypes DEF StopControl, SendAsync, ThreadOK, Labels
  <2> QED
    BY <1>5, <2>1 DEF StopControl, SendAsync
<1>6. CASE SendPin(t)
  <2>1. PcOK'
    BY <1>6, GotoTypes DEF SendPin, Labels
  <2>2. RegistryOK'
    BY <1>0, <1>6 DEF SendPin, RegistryOK
  <2> QED
    BY <1>6, <2>1, <2>2 DEF SendPin
<1>7. CASE SendPush(t)
  <2>1. PcOK'
    BY <1>7, GotoTypes DEF SendPush, Labels
  <2>2. message[t] \in Ids \cup {NoReply}
    BY DEF ArgsOK
  <2>3. BoxOK'
    BY <1>0, <1>7, <2>2 DEF SendPush, BoxOK
  <2> QED
    BY <1>7, <2>1, <2>3 DEF SendPush
<1>8. CASE SendUnpin(t)
  <2>1. PcOK'
    BY <1>8, GotoTypes DEF SendUnpin, Labels
  <2>2. RegistryOK'
    BY <1>0, <1>8 DEF SendUnpin, RegistryOK
  <2> QED
    BY <1>8, <2>1, <2>2 DEF SendUnpin
<1>9. CASE JoinReturns(t)
  <2>1. PcOK' /\ DeletionOK'
    BY <1>9, GotoTypes DEF JoinReturns, DeletionOK, Labels
  <2> QED
    BY <1>9, <2>1 DEF JoinReturns
<1>10. CASE JoinBegin(t) \/ JoinThread(t) \/ FreeTake(t) \/ JoinDone(t)
  <2>1. PcOK'
    BY <1>10, GotoTypes DEF JoinBegin, JoinThread, FreeTake, JoinDone, Labels
  <2>2. LifecycleOK'
    BY <1>10 DEF JoinBegin, JoinThread, FreeTake, JoinDone, LifecycleOK, States
  <2> QED
    BY <1>10, <2>1, <2>2 DEF JoinBegin, JoinThread, FreeTake, JoinDone
<1>11. CASE FreeDelete(t)
  <2>1. PcOK'
    BY <1>11, GotoTypes DEF FreeDelete, Labels
  <2>2. BoxOK'
    <3>1. <<>> \in Seq(Ids \cup {NoReply})
      OBVIOUS
    <3> QED
      BY <1>11, <3>1 DEF FreeDelete, BoxOK
  <2>3. Cardinality(Requests(inbox[target[t]])) \in Nat
    <3>1. DOMAIN inbox[target[t]] = 1 .. Len(inbox[target[t]])
      BY <1>0 DEF BoxOK
    <3>2. IsFiniteSet(DOMAIN inbox[target[t]])
      BY <1>0, <3>1, FS_Interval DEF BoxOK
    <3>3. IsFiniteSet(Requests(inbox[target[t]]))
      BY <3>2, FS_Subset DEF Requests
    <3> QED
      BY <3>3, FS_CardinalityType
  <2>4. DroppedOK'
    BY <1>0, <1>11, <2>3 DEF FreeDelete, DroppedOK
  <2> QED
    BY <1>11, <2>1, <2>2, <2>4 DEF FreeDelete
<1>12. CASE DeleteStop(t) \/ DeleteJoin(t)
  <2>1. PcOK'
    BY <1>12, GotoTypes DEF DeleteStop, DeleteJoin, DeleteTurn, Labels
  <2>2. /\ deletion.id \in 0 .. MaxServices
        /\ deletion.id < next_id
        /\ next_id \in 0 .. MaxServices
    BY <1>12 DEF DeleteStop, DeleteJoin, DeleteTurn, DeletionOK, RegistryOK
  <2>3. deletion.id \in Ids /\ deletion.id + 1 \in 0 .. MaxServices
    BY <2>2, PoolAssumption DEF Ids
  <2>4. DeletionOK'
    BY <1>12, <2>3 DEF DeleteStop, DeleteJoin, DeleteTurn, DeletionOK
  <2> QED
    BY <1>12, <2>1, <2>3, <2>4 DEF DeleteStop, DeleteJoin, DeleteTurn, ArgsOK
<1>13. CASE DeletePhase(t)
  <2>1. 0 \in 0 .. MaxServices
    BY PoolAssumption
  <2>2. DeletionOK'
    BY <1>13, <2>1 DEF DeletePhase, DeletionOK
  <2> QED
    BY <1>13, <2>2 DEF DeletePhase, frame
<1> QED
  BY <1>1, <1>2, <1>3, <1>4, <1>5, <1>6, <1>7, <1>8, <1>9, <1>10, <1>11, <1>12, <1>13
  DEF Continue

\* So do the service threads.
LEMMA MainTypes ==
    ASSUME Types, NEW s \in Ids, Main(s) \/ LoopReturns(s)
    PROVE  Types'
<1> USE TypesKept DEF Types, frame
<1>1. CASE \/ InitFails(s) \/ InitLoop(s) \/ InitLua(s) \/ ScriptDone(s)
           \/ Recv(s) \/ Handled(s) \/ LoopReturns(s) \/ ShutWait(s)
  <2>1. ThreadOK'
    BY <1>1 DEF InitFails, InitLoop, InitLua, ScriptDone, Recv, Handled, LoopReturns,
                ShutWait, Step, ThreadOK, MainLabels
  <2> QED
    BY <1>1, <2>1 DEF InitFails, InitLoop, InitLua, ScriptDone, Recv, Handled,
                      LoopReturns, ShutWait
<1>2. CASE \E h \in {"inbox", "control"} : InitAsync(s, h)
  <2>1. ThreadOK'
    BY <1>2 DEF InitAsync, Step, ThreadOK, MainLabels
  <2> QED
    BY <1>2, <2>1 DEF InitAsync
<1>3. CASE StartOk(s) \/ StartCancelled(s) \/ Finish(s) \/ Exit(s)
  <2>1. ThreadOK'
    BY <1>3 DEF StartOk, StartCancelled, Finish, Exit, Step, ThreadOK, MainLabels
  <2>2. LifecycleOK'
    BY <1>3 DEF StartOk, StartCancelled, Finish, Exit, LifecycleOK, States
  <2> QED
    BY <1>3, <2>1, <2>2 DEF StartOk, StartCancelled, Finish, Exit
<1>4. CASE Kick(s) \/ OnInbox(s) \/ OnControl(s) \/ CloseHandles(s)
  <2>1. ThreadOK'
    BY <1>4 DEF Kick, OnInbox, OnControl, CloseHandles, Step, ThreadOK, MainLabels
  <2> QED
    BY <1>4, <2>1 DEF Kick, OnInbox, OnControl, CloseHandles
<1>5. CASE PopMessage(s)
  <2>1. ThreadOK'
    BY <1>5 DEF PopMessage, Step, ThreadOK, MainLabels
  <2>2. Tail(inbox[s]) \in Seq(Ids \cup {NoReply})
    BY <1>5 DEF PopMessage, BoxOK
  <2>3. BoxOK'
    BY <1>5, <2>2 DEF PopMessage, BoxOK
  <2> QED
    BY <1>5, <2>1, <2>3 DEF PopMessage
<1>8. CASE PopNothing(s) \/ Drained(s) \/ ShutClose(s)
  <2>1. ThreadOK'
    BY <1>8 DEF PopNothing, Drained, ShutClose, Step, ThreadOK, MainLabels
  <2>2. BoxOK'
    BY <1>8 DEF PopNothing, Drained, ShutClose, BoxOK
  <2> QED
    BY <1>8, <2>1, <2>2 DEF PopNothing, Drained, ShutClose
<1>6. CASE ShutRetire(s)
  <2>1. ThreadOK' /\ RegistryOK'
    BY <1>6 DEF ShutRetire, Step, ThreadOK, RegistryOK, MainLabels
  <2> QED
    BY <1>6, <2>1 DEF ShutRetire
<1>7. CASE Drain(s)
  <2>1. /\ Head(inbox[s]) \in Ids \cup {NoReply}
        /\ Tail(inbox[s]) \in Seq(Ids \cup {NoReply})
    BY <1>7 DEF Drain, BoxOK
  <2>2. BoxOK'
    BY <1>7, <2>1 DEF Drain, BoxOK
  <2>3. CASE Head(inbox[s]) = NoReply
    BY <1>7, <2>2, <2>3 DEF Drain, ArgsOK
  <2>4. CASE Head(inbox[s]) # NoReply
    <3>1. PcOK'
      BY <1>7, <2>4, GotoTypes DEF Drain, Labels
    <3> QED
      BY <1>7, <2>1, <2>2, <2>4, <3>1 DEF Drain, ArgsOK
  <2> QED
    BY <2>3, <2>4
<1> QED
  BY <1>1, <1>2, <1>3, <1>4, <1>5, <1>6, <1>7, <1>8 DEF Main

-----------------------------------------------------------------------------
(* Pins *)

\* Senders can be counted.
LEMMA SendersFinite ==
    ASSUME NEW s
    PROVE  IsFiniteSet(Senders(s)) /\ Cardinality(Senders(s)) \in Nat
<1>1. IsFiniteSet(Senders(s))
  BY Identities, FS_Subset DEF Senders
<1> QED
  BY <1>1, FS_CardinalityType

\* A sender is counted.
LEMMA SenderCounted ==
    ASSUME Types, PinInv, NEW t \in Threads, pc[t] \in Pinned
    PROVE  target[t] \in Ids /\ send_pins[target[t]] > 0
<1>1. target[t] \in Ids
  BY DEF Types, ArgsOK
<1>2. t \in Senders(target[t])
  BY DEF Senders
<1>3. Cardinality(Senders(target[t])) # 0
  BY <1>2, SendersFinite, FS_EmptySet
<1> QED
  BY <1>1, <1>3, SendersFinite DEF PinInv

\* No thread passes its pin or its unpin.
SendersSame ==
    /\ UNCHANGED send_pins
    /\ \A u \in Threads : /\ pc'[u] \in Pinned <=> pc[u] \in Pinned
                          /\ pc[u] \in Pinned => target'[u] = target[u]

\* The count is right after a step that passes no pin and no unpin.
LEMMA PinsKept ==
    ASSUME PinInv, SendersSame
    PROVE  PinInv'
<1> SUFFICES ASSUME NEW s \in Ids PROVE send_pins'[s] = Cardinality(Senders(s)')
  BY DEF PinInv
<1>1. Senders(s)' = Senders(s)
  BY DEF SendersSame, Senders
<1> QED
  BY <1>1 DEF PinInv, SendersSame

\* No call starts behind its pin.
LEMMA BeginPins ==
    ASSUME Types, PinInv, NEW t \in Threads, Begin(t)
    PROVE  PinInv'
<1> USE DEF Types, PcOK, ArgsOK, MayCall, Call, Goto, Pinned, registry, args, frame
<1>1. ASSUME NEW n \in Names, New(t, n) PROVE SendersSame
  BY <1>1 DEF New, SendersSame
<1>2. ASSUME NEW s \in Ids, StartThread(t, s) \/ StartFails(t, s) PROVE SendersSame
  BY <1>2 DEF StartThread, StartFails, SendersSame
<1>3. ASSUME NEW s \in Ids, StartAgain(t, s) \/ Stop(t, s) \/ Join(t, s) PROVE SendersSame
  BY <1>3 DEF StartAgain, Stop, Join, SendersSame
<1>4. ASSUME NEW s \in Ids, NEW m \in Ids \cup {NoReply}, Send(t, s, m) PROVE SendersSame
  BY <1>4 DEF Send, SendersSame
<1>5. ASSUME DeleteBegin(t) PROVE SendersSame
  BY <1>5 DEF DeleteBegin, SendersSame
<1> QED
  BY <1>1, <1>2, <1>3, <1>4, <1>5, PinsKept DEF Begin

\* service_pool_pin adds a sender and service_unpin removes one.
LEMMA ContinuePins ==
    ASSUME Types, PinInv, NEW t \in Threads, Continue(t)
    PROVE  PinInv'
<1> USE DEF Types, PcOK, ArgsOK, RegistryOK, Goto, Pinned, registry, args, frame
<1>1. CASE SendPin(t)
  <2>1. PICK r \in Ids : r = target[t]
    OBVIOUS
  <2>2. ASSUME NEW s \in Ids, s # r
        PROVE  send_pins'[s] = send_pins[s] /\ Senders(s)' = Senders(s)
    BY <1>1, <2>1, <2>2 DEF SendPin, Senders
  <2>3. send_pins'[r] = send_pins[r] + 1
    BY <1>1, <2>1 DEF SendPin
  <2>4. t \notin Senders(r) /\ Senders(r)' = Senders(r) \cup {t}
    BY <1>1, <2>1 DEF SendPin, Senders
  <2>5. Cardinality(Senders(r)') = Cardinality(Senders(r)) + 1
    BY <2>4, SendersFinite, FS_AddElement
  <2> QED
    BY <2>1, <2>2, <2>3, <2>5 DEF PinInv
<1>2. CASE SendUnpin(t)
  <2>1. PICK r \in Ids : r = target[t]
    OBVIOUS
  <2>2. ASSUME NEW s \in Ids, s # r
        PROVE  send_pins'[s] = send_pins[s] /\ Senders(s)' = Senders(s)
    BY <1>2, <2>1, <2>2 DEF SendUnpin, Senders
  <2>3. send_pins'[r] = send_pins[r] - 1
    BY <1>2, <2>1 DEF SendUnpin
  <2>4. t \in Senders(r) /\ Senders(r)' = Senders(r) \ {t}
    BY <1>2, <2>1 DEF SendUnpin, Senders
  <2>5. Cardinality(Senders(r)') = Cardinality(Senders(r)) - 1
    BY <2>4, SendersFinite, FS_RemoveElement
  <2> QED
    BY <2>1, <2>2, <2>3, <2>5 DEF PinInv
<1>3. CASE StartClose(t) \/ StartWait(t) \/ StartError(t)
  BY <1>3, PinsKept DEF StartClose, StartWait, StartError, SendersSame
<1>4. CASE Retire(t)
  BY <1>4, PinsKept DEF Retire, AfterRetire, SendersSame
<1>5. CASE StopNew(t) \/ StopActive(t) \/ StopLate(t) \/ StopClose(t) \/ StopControl(t)
  BY <1>5, PinsKept DEF StopNew, StopActive, StopLate, StopClose, StopControl, SendersSame
<1>6. CASE SendNoPin(t)
  BY <1>6, PinsKept DEF SendNoPin, SendersSame
<1>7. CASE SendPush(t) \/ SendRefused(t) \/ SendReady(t) \/ SendAsync(t) \/ SendAsyncFails(t)
  BY <1>7, PinsKept DEF SendPush, SendRefused, SendReady, SendAsync, SendAsyncFails,
                        SendersSame
<1>8. CASE \/ JoinReturns(t) \/ JoinBegin(t) \/ JoinThread(t) \/ FreeWait(t)
           \/ FreeTake(t) \/ FreeDelete(t) \/ JoinDone(t)
  BY <1>8, PinsKept DEF JoinReturns, JoinBegin, JoinThread, FreeWait, FreeTake,
                        FreeDelete, JoinDone, SendersSame
<1>9. CASE DeleteStop(t) \/ DeleteJoin(t) \/ DeletePhase(t)
  BY <1>9, PinsKept DEF DeleteStop, DeleteJoin, DeleteTurn, DeletePhase, SendersSame
<1> QED
  BY <1>1, <1>2, <1>3, <1>4, <1>5, <1>6, <1>7, <1>8, <1>9 DEF Continue

\* The drain starts its sends before their pin.
LEMMA MainPins ==
    ASSUME Types, PinInv, NEW s \in Ids, Main(s) \/ LoopReturns(s)
    PROVE  PinInv'
<1> USE DEF registry, args, frame
<1>1. CASE Drain(s)
  <2>1. s \in Threads
    BY Identities
  <2>2. SendersSame
    BY <1>1, <2>1 DEF Drain, Goto, SendersSame, Types, PcOK, ArgsOK, Pinned
  <2> QED
    BY <2>2, PinsKept
<1>2. CASE \/ InitFails(s) \/ InitLoop(s)
           \/ (\E h \in {"inbox", "control"} : InitAsync(s, h))
           \/ InitLua(s) \/ ScriptDone(s) \/ StartOk(s) \/ StartCancelled(s) \/ Kick(s)
  <2>1. UNCHANGED <<send_pins, pc, target>>
    BY <1>2 DEF InitFails, InitLoop, InitAsync, InitLua, ScriptDone, StartOk,
                StartCancelled, Kick
  <2> QED
    BY <2>1, PinsKept DEF SendersSame
<1>3. CASE \/ OnInbox(s) \/ Recv(s) \/ PopMessage(s) \/ PopNothing(s) \/ Handled(s)
           \/ OnControl(s) \/ LoopReturns(s) \/ Finish(s)
  <2>1. UNCHANGED <<send_pins, pc, target>>
    BY <1>3 DEF OnInbox, Recv, PopMessage, PopNothing, Handled, OnControl, LoopReturns,
                Finish
  <2> QED
    BY <2>1, PinsKept DEF SendersSame
<1>4. CASE \/ ShutRetire(s) \/ ShutClose(s) \/ ShutWait(s) \/ Drained(s)
           \/ CloseHandles(s) \/ Exit(s)
  <2>1. UNCHANGED <<send_pins, pc, target>>
    BY <1>4 DEF ShutRetire, ShutClose, ShutWait, Drained, CloseHandles, Exit
  <2> QED
    BY <2>1, PinsKept DEF SendersSame
<1> QED
  BY <1>1, <1>2, <1>3, <1>4 DEF Main

-----------------------------------------------------------------------------
(* Services *)

\* What ServiceInv is about.
serviceVars == <<next_id, routable, send_pins, state, stop_requested, thread_joined,
                 mailbox, inbox, main, ready, handles, pending, dropped>>

\* What is left alone stays right.
LEMMA ServiceKept ==
    ASSUME ServiceInv, UNCHANGED serviceVars
    PROVE  ServiceInv'
  BY DEF ServiceInv, serviceVars, Life, Handles, Shutdown

\* A call that starts: service_new takes the next id, and only a new service
\* is started.
LEMMA BeginService ==
    ASSUME PoolInv, NEW t \in Threads, Begin(t)
    PROVE  ServiceInv'
<1> USE DEF registry, lifecycle, box, thread, args, frame
<1>1. ASSUME NEW n \in Names, New(t, n) PROVE ServiceInv'
  <2>1. next_id \in Ids
    BY <1>1, PoolAssumption DEF New, Ids, PoolInv, Types, RegistryOK
  <2>2. ~routable[next_id] /\ state[next_id] = "none" /\ main[next_id] = "none"
        /\ mailbox[next_id] # "freed"
    BY <2>1, Identities DEF PoolInv, ServiceInv, Life, Ended
  <2> SUFFICES ASSUME NEW s \in Ids PROVE (Life(s) /\ Handles(s) /\ Shutdown(s))'
    BY DEF ServiceInv
  <2>3. UNCHANGED <<send_pins, stop_requested, thread_joined, mailbox, inbox, main,
                    ready, handles, pending, dropped>>
    BY <1>1 DEF New
  <2>4. /\ next_id' = next_id + 1
        /\ s # next_id => routable'[s] = routable[s] /\ state'[s] = state[s]
        /\ s = next_id => routable'[s] /\ state'[s] = "new"
    BY <1>1, <2>1 DEF New, PoolInv, Types, RegistryOK, LifecycleOK
  <2>5. s \in Nat /\ next_id \in Nat
    BY <2>1, Identities
  <2>6. Life(s) /\ Handles(s) /\ Shutdown(s)
    BY DEF PoolInv, ServiceInv
  <2>7. Life(s)'
    BY <2>2, <2>3, <2>4, <2>5, <2>6 DEF Life, Ended
  <2>8. Handles(s)'
    BY <2>3, <2>6 DEF Handles
  <2>9. Shutdown(s)'
    BY <2>2, <2>3, <2>4, <2>6 DEF Shutdown, Shuts, Closes, Drains
  <2> QED
    BY <2>7, <2>8, <2>9
<1>2. ASSUME NEW r \in Ids, StartThread(t, r) PROVE ServiceInv'
  <2> SUFFICES ASSUME NEW s \in Ids PROVE (Life(s) /\ Handles(s) /\ Shutdown(s))'
    BY DEF ServiceInv
  <2>3. UNCHANGED <<next_id, routable, send_pins, stop_requested, thread_joined, mailbox,
                    inbox, ready, handles, pending, dropped>>
    BY <1>2 DEF StartThread
  <2>4. /\ s # r => main'[s] = main[s] /\ state'[s] = state[s]
        /\ s = r => state[s] = "new" /\ main'[s] = "init" /\ state'[s] = "starting"
    BY <1>2 DEF StartThread, PoolInv, Types, LifecycleOK, ThreadOK
  <2>5. s \in Nat /\ Life(s) /\ Handles(s) /\ Shutdown(s)
    BY Identities DEF PoolInv, ServiceInv
  <2>6. Life(s)'
    BY <2>3, <2>4, <2>5 DEF Life, Ended
  <2>7. Handles(s)'
    BY <2>3, <2>4, <2>5 DEF Handles, Loop
  <2>8. Shutdown(s)'
    BY <2>3, <2>4, <2>5 DEF Life, Shutdown, Shuts, Closes, Drains
  <2> QED
    BY <2>6, <2>7, <2>8
<1>3. ASSUME NEW r \in Ids, StartFails(t, r) PROVE ServiceInv'
  <2> SUFFICES ASSUME NEW s \in Ids PROVE (Life(s) /\ Handles(s) /\ Shutdown(s))'
    BY DEF ServiceInv
  <2>3. UNCHANGED <<next_id, routable, send_pins, stop_requested, thread_joined, mailbox,
                    inbox, main, ready, handles, pending, dropped>>
    BY <1>3 DEF StartFails
  <2>4. /\ s # r => state'[s] = state[s]
        /\ s = r => state[s] = "new" /\ state'[s] = "stopped"
    BY <1>3 DEF StartFails, PoolInv, Types, LifecycleOK
  <2>5. Life(s) /\ Handles(s) /\ Shutdown(s)
    BY DEF PoolInv, ServiceInv
  <2> QED
    BY <2>3, <2>4, <2>5 DEF Life, Ended, Handles, Shutdown
<1>4. ASSUME NEW s \in Ids, NEW m,
             StartAgain(t, s) \/ Stop(t, s) \/ Join(t, s) \/ Send(t, s, m)
      PROVE  ServiceInv'
  BY <1>4, ServiceKept DEF StartAgain, Stop, Join, Send, serviceVars, PoolInv
<1>5. ASSUME DeleteBegin(t) PROVE ServiceInv'
  BY <1>5, ServiceKept DEF DeleteBegin, serviceVars, PoolInv
<1> QED
  BY <1>1, <1>2, <1>3, <1>4, <1>5 DEF Begin

\* A call that goes on: what closes, pins and frees a service agrees with how
\* far its thread is.
LEMMA ContinueService ==
    ASSUME PoolInv, NEW t \in Threads, Continue(t)
    PROVE  ServiceInv'
<1> USE DEF registry, lifecycle, box, thread, args, frame
<1>0. PICK r \in Ids : r = target[t]
  BY DEF PoolInv, Types, ArgsOK
<1> DEFINE Goal(s) == Life(s) /\ Handles(s) /\ Shutdown(s)
<1>00. ASSUME NEW s \in Ids PROVE s \in Nat /\ Life(s) /\ Handles(s) /\ Shutdown(s)
  BY Identities DEF PoolInv, ServiceInv
<1>1. CASE \/ StartWait(t) \/ StartError(t) \/ StopLate(t) \/ SendNoPin(t)
           \/ SendRefused(t) \/ SendReady(t) \/ SendAsyncFails(t) \/ FreeWait(t)
  BY <1>1, ServiceKept
  DEF StartWait, StartError, StopLate, SendNoPin, SendRefused, SendReady, SendAsyncFails,
      FreeWait, serviceVars, PoolInv
<1>2. CASE JoinReturns(t) \/ JoinBegin(t) \/ JoinDone(t)
  BY <1>2, ServiceKept DEF JoinReturns, JoinBegin, JoinDone, serviceVars, PoolInv
<1>3. CASE DeleteStop(t) \/ DeleteJoin(t) \/ DeletePhase(t)
  BY <1>3, ServiceKept
  DEF DeleteStop, DeleteJoin, DeleteTurn, DeletePhase, serviceVars, PoolInv
<1>4. CASE StartClose(t) \/ StopClose(t)
  <2> SUFFICES ASSUME NEW s \in Ids PROVE Goal(s)'
    BY DEF ServiceInv
  <2>1. UNCHANGED <<next_id, routable, send_pins, state, stop_requested, thread_joined,
                    inbox, main, ready, handles, pending, dropped>>
    BY <1>4 DEF StartClose, StopClose
  <2>2. \/ mailbox'[s] = mailbox[s]
        \/ mailbox[s] # "freed" /\ mailbox'[s] = "closed"
    BY <1>4 DEF StartClose, StopClose, PoolInv, Types, BoxOK
  <2> QED
    BY <1>00, <2>1, <2>2 DEF Life, Handles, Shutdown
<1>5. CASE Retire(t)
  <2> SUFFICES ASSUME NEW s \in Ids PROVE Goal(s)'
    BY DEF ServiceInv
  <2>1. UNCHANGED <<next_id, send_pins, state, stop_requested, thread_joined,
                    mailbox, inbox, main, ready, handles, pending, dropped>>
    BY <1>5 DEF Retire
  <2>2. routable'[s] = routable[s] \/ routable'[s] = FALSE
    BY <1>5 DEF Retire, PoolInv, Types, RegistryOK
  <2> QED
    BY <1>00, <2>1, <2>2 DEF Life, Handles, Shutdown
<1>6. CASE StopNew(t) \/ StopActive(t)
  <2> SUFFICES ASSUME NEW s \in Ids PROVE Goal(s)'
    BY DEF ServiceInv
  <2>1. UNCHANGED <<next_id, routable, send_pins, thread_joined,
                    mailbox, inbox, main, ready, handles, pending, dropped>>
    BY <1>6 DEF StopNew, StopActive
  <2>2. \/ state'[s] = state[s] /\ stop_requested'[s] = stop_requested[s]
        \/ state[s] = "new" /\ state'[s] = "stopped" /\ stop_requested'[s]
        \/ /\ state[s] \in {"starting", "running"}
           /\ state'[s] = "stopping" /\ stop_requested'[s]
    BY <1>0, <1>6 DEF StopNew, StopActive, PoolInv, Types, LifecycleOK
  <2>3. Life(s)'
    BY <1>00, <2>1, <2>2 DEF Life, Ended
  <2>4. Handles(s)'
    BY <1>00, <2>1, <2>2 DEF Handles
  <2>5. Shutdown(s)'
    BY <1>00, <2>1 DEF Shutdown
  <2> QED
    BY <2>3, <2>4, <2>5
<1>7. CASE StopControl(t) \/ SendAsync(t)
  <2> SUFFICES ASSUME NEW s \in Ids PROVE Goal(s)'
    BY DEF ServiceInv
  <2>1. UNCHANGED <<next_id, routable, send_pins, state, stop_requested, thread_joined,
                    mailbox, inbox, main, ready, handles, dropped>>
    BY <1>7 DEF StopControl, SendAsync
  <2>2. "control" \in pending'[s] => "control" \in pending[s] \/ stop_requested[s]
    BY <1>0, <1>7
    DEF StopControl, SendAsync, PoolInv, Types, ThreadOK, StopInv, Stopping
  <2> QED
    BY <1>00, <2>1, <2>2 DEF Life, Handles, Shutdown
<1>8. CASE SendPin(t)
  <2> SUFFICES ASSUME NEW s \in Ids PROVE Goal(s)'
    BY DEF ServiceInv
  <2>1. UNCHANGED <<next_id, routable, state, stop_requested, thread_joined,
                    mailbox, inbox, main, ready, handles, pending, dropped>>
    BY <1>8 DEF SendPin
  <2>2. send_pins'[s] = send_pins[s] \/ routable[s]
    BY <1>0, <1>8 DEF SendPin, Pinnable, PoolInv, Types, RegistryOK
  <2> QED
    BY <1>00, <2>1, <2>2 DEF Life, Handles, Shutdown, Shuts, Closes
<1>9. CASE SendUnpin(t)
  <2> SUFFICES ASSUME NEW s \in Ids PROVE Goal(s)'
    BY DEF ServiceInv
  <2>1. UNCHANGED <<next_id, routable, state, stop_requested, thread_joined,
                    mailbox, inbox, main, ready, handles, pending, dropped>>
    BY <1>9 DEF SendUnpin
  <2>2. send_pins[r] > 0
    BY <1>0, <1>9, SenderCounted DEF SendUnpin, Pinned, PoolInv
  <2>3. send_pins'[s] = send_pins[s] \/ send_pins[s] # 0
    BY <1>0, <1>9, <2>2 DEF SendUnpin, PoolInv, Types, RegistryOK
  <2> QED
    BY <1>00, <2>1, <2>3 DEF Life, Handles, Shutdown
<1>10. CASE SendPush(t)
  <2> SUFFICES ASSUME NEW s \in Ids PROVE Goal(s)'
    BY DEF ServiceInv
  <2>1. UNCHANGED <<next_id, routable, send_pins, state, stop_requested, thread_joined,
                    mailbox, main, ready, handles, pending, dropped>>
    BY <1>10 DEF SendPush
  <2>2. inbox'[s] = inbox[s] \/ mailbox[s] = "open"
    BY <1>0, <1>10 DEF SendPush, PoolInv, Types, BoxOK
  <2> QED
    BY <1>00, <2>1, <2>2 DEF Life, Handles, Shutdown, Closes, Drains
<1>11. CASE JoinThread(t)
  <2> SUFFICES ASSUME NEW s \in Ids PROVE Goal(s)'
    BY DEF ServiceInv
  <2>1. UNCHANGED <<next_id, routable, send_pins, stop_requested,
                    mailbox, inbox, main, ready, handles, pending, dropped>>
    BY <1>11 DEF JoinThread
  <2>2. state[r] \notin {"none", "new", "joined", "freed"} /\ main[r] \in Ended
    BY <1>0, <1>11 DEF JoinThread, HasThread, Ended, PoolInv, JoinInv, Joiner, Joining
  <2>3. /\ s # r => state'[s] = state[s] /\ thread_joined'[s] = thread_joined[s]
        /\ s = r => state'[s] = "joined" /\ thread_joined'[s]
    BY <1>0, <1>11 DEF JoinThread, PoolInv, Types, LifecycleOK
  <2>4. Life(s)'
    BY <1>00, <2>1, <2>2, <2>3 DEF Life, Ended
  <2> QED
    BY <1>00, <2>1, <2>4 DEF Handles, Shutdown
<1>12. CASE FreeTake(t)
  <2> SUFFICES ASSUME NEW s \in Ids PROVE Goal(s)'
    BY DEF ServiceInv
  <2>1. UNCHANGED <<next_id, routable, send_pins, stop_requested, thread_joined,
                    mailbox, inbox, main, ready, handles, pending, dropped>>
    BY <1>12 DEF FreeTake
  <2>2. \/ state'[s] = state[s]
        \/ state[s] = "joined" /\ state'[s] = "freed"
    BY <1>0, <1>12 DEF FreeTake, PoolInv, Types, LifecycleOK
  <2>3. Life(s)'
    BY <1>00, <2>1, <2>2 DEF Life, Ended
  <2> QED
    BY <1>00, <2>1, <2>3 DEF Handles, Shutdown
<1>13. CASE FreeDelete(t)
  <2> SUFFICES ASSUME NEW s \in Ids PROVE Goal(s)'
    BY DEF ServiceInv
  <2>1. UNCHANGED <<next_id, routable, send_pins, state, stop_requested, thread_joined,
                    main, ready, handles, pending>>
    BY <1>13 DEF FreeDelete
  <2>2. state[r] = "freed" /\ ~routable[r] /\ send_pins[r] = 0
    BY <1>0, <1>13 DEF FreeDelete, PoolInv, JoinInv, Joiner, Joining
  <2>3. main[r] \in Ended
    BY <1>00, <2>2 DEF Life
  <2>4. CASE s # r
    <3>1. mailbox'[s] = mailbox[s] /\ inbox'[s] = inbox[s] /\ dropped'[s] = dropped[s]
      BY <1>0, <1>13, <2>4 DEF FreeDelete, PoolInv, Types, BoxOK, DroppedOK
    <3> QED
      BY <1>00, <2>1, <3>1 DEF Life, Handles, Shutdown
  <2>5. CASE s = r
    <3>1. /\ mailbox'[r] = "freed" /\ inbox'[r] = <<>>
          /\ dropped'[r] = dropped[r] + Cardinality(Requests(inbox[r]))
      BY <1>0, <1>13 DEF FreeDelete, PoolInv, Types, BoxOK, DroppedOK
    <3>2. inbox[r] = <<>> => Cardinality(Requests(inbox[r])) = 0
      <4> SUFFICES ASSUME inbox[r] = <<>> PROVE Cardinality(Requests(inbox[r])) = 0
        OBVIOUS
      <4>1. Requests(inbox[r]) = {}
        BY DEF Requests
      <4> QED
        BY <4>1, FS_EmptySet
    <3>3. Life(r)'
      BY <1>00, <2>1, <2>2, <3>1 DEF Life
    <3>4. Handles(r)'
      BY <1>00, <2>1 DEF Handles
    <3>5. dropped'[r] # 0 => main[r] = "none"
      BY <1>00, <2>3, <3>1, <3>2 DEF Shutdown, Ended, PoolInv, Types, DroppedOK
    <3>6. Shutdown(r)'
      BY <1>00, <2>1, <3>1, <3>5 DEF Shutdown
    <3> QED
      BY <2>5, <3>3, <3>4, <3>6
  <2> QED
    BY <2>4, <2>5
<1> QED
  BY <1>1, <1>2, <1>3, <1>4, <1>5, <1>6, <1>7, <1>8, <1>9, <1>10, <1>11, <1>12, <1>13
  DEF Continue

\* The service thread goes through its start, its loop and its shutdown.
LEMMA MainService ==
    ASSUME PoolInv, NEW r \in Ids, Main(r) \/ LoopReturns(r)
    PROVE  ServiceInv'
<1> USE DEF registry, lifecycle, box, thread, args, frame
<1> SUFFICES ASSUME NEW s \in Ids PROVE (Life(s) /\ Handles(s) /\ Shutdown(s))'
  BY DEF ServiceInv
<1>0. s \in Nat /\ Life(s) /\ Handles(s) /\ Shutdown(s)
  BY Identities DEF PoolInv, ServiceInv
<1> USE DEF PoolInv, Types, ThreadOK, LifecycleOK
<1>1. CASE \/ InitFails(r) \/ InitLoop(r) \/ InitLua(r) \/ ScriptDone(r)
           \/ Recv(r) \/ Handled(r) \/ LoopReturns(r)
  <2>1. UNCHANGED <<next_id, routable, send_pins, state, stop_requested, thread_joined,
                    mailbox, inbox, ready, handles, pending, dropped>>
    BY <1>1 DEF InitFails, InitLoop, InitLua, ScriptDone, Recv, Handled, LoopReturns
  <2>2. \/ main'[s] = main[s]
        \/ /\ main[s] \notin Ended
           /\ \/ main'[s] \in {"give_up", "init_inbox", "finish"}
              \/ main[s] \in {"init_lua", "script"} /\ main'[s] \in {"script", "decide"}
              \/ main[s] \in Loop /\ main'[s] \in Loop
    BY <1>1 DEF InitFails, InitLoop, InitLua, ScriptDone, Recv, Handled, LoopReturns,
                Step, Ended, Loop
  <2>3. Life(s)'
    BY <1>0, <2>1, <2>2 DEF Life, Ended, Loop
  <2>4. Handles(s)'
    BY <1>0, <2>1, <2>2 DEF Handles, Loop
  <2>5. Shutdown(s)'
    BY <1>0, <2>1, <2>2 DEF Shutdown, Shuts, Closes, Drains, Loop, Ended
  <2> QED
    BY <2>3, <2>4, <2>5
<1>2. CASE \E h \in {"inbox", "control"} : InitAsync(r, h)
  <2>1. UNCHANGED <<next_id, routable, send_pins, state, stop_requested, thread_joined,
                    mailbox, inbox, pending, dropped>>
    BY <1>2 DEF InitAsync
  <2>2. \/ main'[s] = main[s] /\ handles'[s] = handles[s] /\ ready'[s] = ready[s]
        \/ /\ main[s] = "init_inbox" /\ main'[s] = "init_control"
           /\ handles'[s] = handles[s] \cup {"inbox"}
           /\ ready'[s] = ready[s] \cup {"inbox"}
        \/ /\ main[s] = "init_control" /\ main'[s] = "init_lua"
           /\ handles'[s] = handles[s] \cup {"control"}
           /\ ready'[s] = ready[s] \cup {"control"}
    BY <1>2 DEF InitAsync, Step
  <2>3. Life(s)'
    BY <1>0, <2>1, <2>2 DEF Life, Ended
  <2>4. Handles(s)'
    BY <1>0, <2>1, <2>2 DEF Handles, Loop
  <2>5. Shutdown(s)'
    BY <1>0, <2>1, <2>2 DEF Shutdown, Shuts, Closes, Drains
  <2> QED
    BY <2>3, <2>4, <2>5
<1>3. CASE StartOk(r) \/ StartCancelled(r) \/ Finish(r)
  <2>1. UNCHANGED <<next_id, routable, send_pins, stop_requested, thread_joined,
                    mailbox, inbox, ready, handles, pending, dropped>>
    BY <1>3 DEF StartOk, StartCancelled, Finish
  <2>2. \/ main'[s] = main[s] /\ state'[s] = state[s]
        \/ /\ main[s] = "decide" /\ main'[s] = "kick"
           /\ ~stop_requested[s] /\ state'[s] = "running"
        \/ /\ main[s] \in {"decide", "give_up", "finish"}
           /\ main'[s] \in {"finish", "f_retire"}
           /\ state'[s] = "stopping" \/ state'[s] = state[s]
    BY <1>3 DEF StartOk, StartCancelled, Finish, Step
  <2>3. Life(s)'
    BY <1>0, <2>1, <2>2 DEF Life, Ended
  <2>4. Handles(s)'
    BY <1>0, <2>1, <2>2 DEF Handles, Loop
  <2>5. Shutdown(s)'
    BY <1>0, <2>1, <2>2 DEF Shutdown, Shuts, Closes, Drains
  <2> QED
    BY <2>3, <2>4, <2>5
<1>4. CASE Kick(r) \/ OnInbox(r) \/ OnControl(r)
  <2>1. UNCHANGED <<next_id, routable, send_pins, state, stop_requested, thread_joined,
                    mailbox, inbox, ready, handles, dropped>>
    BY <1>4 DEF Kick, OnInbox, OnControl
  <2>2. /\ \/ main'[s] = main[s]
           \/ main[s] \in Loop /\ main'[s] \in Loop \cup {"c_retire"}
        /\ "control" \in pending'[s] => "control" \in pending[s]
    BY <1>4 DEF Kick, OnInbox, OnControl, Step, Loop
  <2>3. Life(s)'
    BY <1>0, <2>1, <2>2 DEF Life, Ended, Loop
  <2>4. Handles(s)'
    BY <1>0, <2>1, <2>2 DEF Handles, Loop
  <2>5. Shutdown(s)'
    BY <1>0, <2>1, <2>2 DEF Shutdown, Shuts, Closes, Drains, Loop
  <2> QED
    BY <2>3, <2>4, <2>5
<1>5. CASE PopMessage(r) \/ PopNothing(r)
  <2>1. UNCHANGED <<next_id, routable, send_pins, state, stop_requested, thread_joined,
                    mailbox, ready, handles, pending, dropped>>
    BY <1>5 DEF PopMessage, PopNothing
  <2>2. \/ main'[s] = main[s] /\ inbox'[s] = inbox[s]
        \/ main[s] \in Loop /\ main'[s] \in Loop
    BY <1>5 DEF PopMessage, PopNothing, Step, Loop, BoxOK
  <2>3. Life(s)'
    BY <1>0, <2>1, <2>2 DEF Life, Ended, Loop
  <2>4. Handles(s)'
    BY <1>0, <2>1, <2>2 DEF Handles, Loop
  <2>5. Shutdown(s)'
    BY <1>0, <2>1, <2>2 DEF Shutdown, Shuts, Closes, Drains, Loop
  <2> QED
    BY <2>3, <2>4, <2>5
<1>6. CASE ShutRetire(r)
  <2>1. UNCHANGED <<next_id, send_pins, state, stop_requested, thread_joined, mailbox,
                    inbox, ready, handles, pending, dropped>>
    BY <1>6 DEF ShutRetire
  <2>2. \/ main'[s] = main[s] /\ routable'[s] = routable[s]
        \/ main[s] = "c_retire" /\ main'[s] = "c_close" /\ ~routable'[s]
        \/ main[s] = "f_retire" /\ main'[s] = "f_close" /\ ~routable'[s]
    BY <1>6 DEF ShutRetire, Step, RegistryOK
  <2>3. Life(s)'
    BY <1>0, <2>1, <2>2 DEF Life, Ended
  <2>4. Handles(s)'
    BY <1>0, <2>1, <2>2 DEF Handles, Loop
  <2>5. Shutdown(s)'
    BY <1>0, <2>1, <2>2 DEF Shutdown, Shuts, Closes, Drains
  <2> QED
    BY <2>3, <2>4, <2>5
<1>7. CASE ShutClose(r)
  <2>1. UNCHANGED <<next_id, routable, send_pins, state, stop_requested, thread_joined,
                    inbox, ready, handles, pending, dropped>>
    BY <1>7 DEF ShutClose
  <2>2. \/ main'[s] = main[s] /\ mailbox'[s] = mailbox[s]
        \/ main[s] = "c_close" /\ main'[s] = "c_wait" /\ mailbox'[s] = "closed"
        \/ main[s] = "f_close" /\ main'[s] = "f_wait" /\ mailbox'[s] = "closed"
    BY <1>7 DEF ShutClose, Step, BoxOK
  <2>3. Life(s)'
    BY <1>0, <2>1, <2>2 DEF Life, Ended
  <2>4. Handles(s)'
    BY <1>0, <2>1, <2>2 DEF Handles, Loop
  <2>5. Shutdown(s)'
    BY <1>0, <2>1, <2>2 DEF Shutdown, Shuts, Closes, Drains, Life
  <2> QED
    BY <2>3, <2>4, <2>5
<1>8. CASE ShutWait(r) \/ Drained(r) \/ Exit(r)
  <2>1. UNCHANGED <<next_id, routable, send_pins, stop_requested, thread_joined,
                    mailbox, inbox, ready, handles, pending, dropped>>
    BY <1>8 DEF ShutWait, Drained, Exit
  <2>2. \/ main'[s] = main[s] /\ state'[s] = state[s]
        \/ main[s] = "c_wait" /\ main'[s] = "c_drain" /\ send_pins[s] = 0
           /\ state'[s] = state[s]
        \/ main[s] = "f_wait" /\ main'[s] = "f_drain" /\ send_pins[s] = 0
           /\ state'[s] = state[s]
        \/ main[s] = "c_drain" /\ main'[s] = "c_handles" /\ state'[s] = state[s]
        \/ main[s] = "f_drain" /\ main'[s] = "f_loop" /\ inbox[s] = <<>>
           /\ state'[s] = state[s]
        \/ main[s] = "f_state" /\ main'[s] = "exited" /\ state'[s] = "stopped"
    BY <1>8 DEF ShutWait, PinsGone, Drained, Exit, Step
  <2>3. Life(s)'
    BY <1>0, <2>1, <2>2 DEF Life, Ended
  <2>4. Handles(s)'
    BY <1>0, <2>1, <2>2 DEF Handles, Loop
  <2>5. Shutdown(s)'
    BY <1>0, <2>1, <2>2 DEF Shutdown, Shuts, Closes, Drains
  <2> QED
    BY <2>3, <2>4, <2>5
<1>9. CASE Drain(r)
  <2>1. UNCHANGED <<next_id, routable, send_pins, state, stop_requested, thread_joined,
                    mailbox, main, ready, handles, pending, dropped>>
    BY <1>9 DEF Drain
  <2>2. inbox'[s] = inbox[s] \/ main[s] \in {"c_drain", "f_drain"}
    BY <1>9 DEF Drain, BoxOK
  <2> QED
    BY <1>0, <2>1, <2>2 DEF Life, Handles, Shutdown
<1>10. CASE CloseHandles(r)
  <2>1. UNCHANGED <<next_id, routable, send_pins, state, stop_requested, thread_joined,
                    mailbox, inbox, dropped>>
    BY <1>10 DEF CloseHandles
  <2>2. \/ /\ main'[s] = main[s] /\ handles'[s] = handles[s] /\ ready'[s] = ready[s]
           /\ pending'[s] = pending[s]
        \/ /\ \/ main[s] = "c_handles" /\ main'[s] = "finish"
              \/ main[s] = "f_loop" /\ main'[s] = "f_state"
           /\ handles'[s] = {} /\ ready'[s] = {} /\ pending'[s] = {}
    BY <1>10 DEF CloseHandles, Step
  <2>3. Life(s)'
    BY <1>0, <2>1, <2>2 DEF Life, Ended
  <2>4. Handles(s)'
    BY <1>0, <2>1, <2>2 DEF Handles, Loop
  <2>5. Shutdown(s)'
    BY <1>0, <2>1, <2>2 DEF Shutdown, Shuts, Closes, Drains
  <2> QED
    BY <2>3, <2>4, <2>5
<1> QED
  BY <1>1, <1>2, <1>3, <1>4, <1>5, <1>6, <1>7, <1>8, <1>9, <1>10 DEF Main

-----------------------------------------------------------------------------
(* Threads inside calls *)

\* A service thread starts calls only in its script and its handlers.
LEMMA BeginCall ==
    ASSUME PoolInv, NEW t \in Threads, Begin(t)
    PROVE  CallInv' /\ AsyncInv'
<1> USE DEF registry, lifecycle, box, thread, args, frame, MayCall, Call, Goto
<1> USE DEF PoolInv, Types, PcOK, ArgsOK, ThreadOK, CallInv, AsyncInv
<1> USE Identities
<1>1. ASSUME NEW n \in Names, New(t, n) PROVE CallInv' /\ AsyncInv'
  BY <1>1 DEF New
<1>2. ASSUME NEW r \in Ids, StartThread(t, r) PROVE CallInv' /\ AsyncInv'
  <2>1. main[r] = "none"
    BY <1>2 DEF StartThread, ServiceInv, Life, Ended
  <2> QED
    BY <1>2, <2>1 DEF StartThread
<1>3. ASSUME NEW r \in Ids, NEW m,
             StartFails(t, r) \/ StartAgain(t, r) \/ Stop(t, r) \/ Join(t, r) \/ Send(t, r, m)
      PROVE  CallInv' /\ AsyncInv'
  BY <1>3 DEF StartFails, StartAgain, Stop, Join, Send
<1>4. ASSUME DeleteBegin(t) PROVE CallInv' /\ AsyncInv'
  BY <1>4 DEF DeleteBegin
<1> QED
  BY <1>1, <1>2, <1>3, <1>4 DEF Begin

\* A sender signals only if it saw the handle ready.
LEMMA ContinueCall ==
    ASSUME PoolInv, NEW t \in Threads, Continue(t)
    PROVE  CallInv' /\ AsyncInv'
<1> USE DEF registry, lifecycle, box, thread, args, frame, Goto
<1> USE DEF PoolInv, Types, PcOK, ArgsOK, ThreadOK, CallInv, AsyncInv
<1> USE Identities
<1>1. CASE \/ StartClose(t) \/ StartWait(t) \/ StartError(t)
           \/ StopNew(t) \/ StopActive(t) \/ StopLate(t) \/ StopClose(t) \/ StopControl(t)
  BY <1>1 DEF StartClose, StartWait, StartError, StopNew, StopActive, StopLate,
              StopClose, StopControl
<1>2. CASE Retire(t)
  BY <1>2 DEF Retire, AfterRetire
<1>3. CASE \/ SendPin(t) \/ SendNoPin(t) \/ SendPush(t) \/ SendRefused(t)
           \/ SendAsync(t) \/ SendAsyncFails(t) \/ SendUnpin(t)
  BY <1>3 DEF SendPin, SendNoPin, SendPush, SendRefused, SendAsync, SendAsyncFails,
              SendUnpin
<1>4. CASE SendReady(t)
  BY <1>4 DEF SendReady, ServiceInv, Handles
<1>5. CASE \/ JoinReturns(t) \/ JoinBegin(t) \/ JoinThread(t) \/ FreeWait(t)
           \/ FreeTake(t) \/ FreeDelete(t) \/ JoinDone(t)
  BY <1>5 DEF JoinReturns, JoinBegin, JoinThread, FreeWait, FreeTake, FreeDelete,
              JoinDone
<1>6. CASE DeleteStop(t) \/ DeleteJoin(t) \/ DeletePhase(t)
  <2>1. t \in Hosts
    BY <1>6 DEF DeleteStop, DeleteJoin, DeleteTurn, DeletePhase, DeletionInv
  <2> QED
    BY <1>6, <2>1 DEF DeleteStop, DeleteJoin, DeleteTurn, DeletePhase
<1> QED
  BY <1>1, <1>2, <1>3, <1>4, <1>5, <1>6 DEF Continue

\* The thread leaves a handler when its call is over, and closes its handles
\* when no sender is left.
LEMMA MainCall ==
    ASSUME PoolInv, NEW r \in Ids, Main(r) \/ LoopReturns(r)
    PROVE  CallInv' /\ AsyncInv'
<1> USE DEF registry, lifecycle, box, thread, args, frame, Step
<1> USE DEF PoolInv, Types, PcOK, ArgsOK, ThreadOK, CallInv, AsyncInv
<1> USE Identities
<1>1. CASE \/ InitFails(r) \/ InitLoop(r) \/ InitLua(r) \/ ScriptDone(r)
           \/ StartOk(r) \/ StartCancelled(r) \/ Kick(r)
  BY <1>1 DEF InitFails, InitLoop, InitLua, ScriptDone, StartOk, StartCancelled, Kick
<1>2. CASE \E h \in {"inbox", "control"} : InitAsync(r, h)
  BY <1>2 DEF InitAsync
<1>3. CASE \/ OnInbox(r) \/ Recv(r) \/ PopMessage(r) \/ PopNothing(r) \/ Handled(r)
           \/ OnControl(r) \/ LoopReturns(r) \/ Finish(r)
  BY <1>3 DEF OnInbox, Recv, PopMessage, PopNothing, Handled, OnControl, LoopReturns,
              Finish
<1>4. CASE ShutRetire(r) \/ ShutClose(r) \/ ShutWait(r) \/ Drained(r) \/ Exit(r)
  <2>1. CASE ShutRetire(r) \/ ShutClose(r) \/ ShutWait(r)
    BY <2>1 DEF ShutRetire, ShutClose, ShutWait
  <2>2. CASE Drained(r) \/ Exit(r)
    BY <2>2 DEF Drained, Exit
  <2> QED
    BY <1>4, <2>1, <2>2
<1>5. CASE Drain(r)
  BY <1>5 DEF Drain, Goto
<1>6. CASE CloseHandles(r)
  <2>1. UNCHANGED <<pc, target>> /\ main[r] \in {"c_handles", "f_loop"}
    BY <1>6 DEF CloseHandles
  <2>2. CallInv'
    BY <1>6, <2>1 DEF CloseHandles
  <2>3. send_pins[r] = 0
    BY <2>1 DEF ServiceInv, Shutdown, Drains
  <2>4. ASSUME NEW t \in Threads, pc[t] = "send_async"
        PROVE  target[t] # r /\ target[t] \in Ids
    BY <2>3, <2>4, SenderCounted DEF Pinned
  <2>5. AsyncInv'
    BY <1>6, <2>1, <2>4 DEF CloseHandles
  <2> QED
    BY <2>2, <2>5
<1> QED
  BY <1>1, <1>2, <1>3, <1>4, <1>5, <1>6 DEF Main

-----------------------------------------------------------------------------
(* Joining and freeing *)

\* A step nobody who joins takes part in: services only advance, and those
\* that are joined keep what the joining thread relies on.
JoinCalm ==
    /\ \A u \in Threads : pc[u] \in Joining \/ pc'[u] \in Joining
                            => pc'[u] = pc[u] /\ target'[u] = target[u]
    /\ UNCHANGED <<joining, thread_joined>>
    /\ \A s \in Ids :
          /\ \/ state'[s] = state[s]
             \/ state[s] = "none"
             \/ /\ state[s] \notin {"joined", "freed"}
                /\ state'[s] \notin {"none", "new", "joined", "freed"}
          /\ routable'[s] => routable[s] \/ state[s] = "none"
          /\ send_pins'[s] = send_pins[s] \/ routable[s] \/ send_pins[s] > 0
          /\ mailbox[s] = "freed" => mailbox'[s] = "freed"

\* In a calm step the joining threads lose nothing.
LEMMA JoinKept ==
    ASSUME PoolInv, JoinCalm
    PROVE  JoinInv'
<1>1. ASSUME NEW t \in Threads PROVE Joiner(t)'
  <2> SUFFICES ASSUME pc'[t] \in Joining PROVE Joiner(t)'
    BY DEF Joiner
  <2>1. pc'[t] = pc[t] /\ target'[t] = target[t] /\ pc[t] \in Joining
    BY DEF JoinCalm
  <2>2. PICK s \in Ids : s = target[t]
    BY DEF PoolInv, Types, ArgsOK
  <2>3. Joiner(t) /\ state[s] # "none"
    BY <2>1, <2>2 DEF PoolInv, JoinInv, Joiner, Joining
  <2>4. send_pins[s] \in Nat
    BY <2>2 DEF PoolInv, Types, RegistryOK
  <2> QED
    BY <2>1, <2>2, <2>3, <2>4 DEF Joiner, JoinCalm, Joining
<1>2. ASSUME NEW t \in Threads, NEW u \in Threads, pc'[t] \in Joining, pc'[u] \in Joining,
             target'[t] = target'[u]
      PROVE  t = u
  BY <1>2 DEF PoolInv, JoinInv, JoinCalm
<1>3. ASSUME NEW s \in Ids, joining'[s]
      PROVE  \E t \in Threads : pc'[t] \in Joining /\ target'[t] = s
  BY <1>3 DEF PoolInv, JoinInv, JoinCalm
<1>4. ASSUME NEW s \in Ids, thread_joined'[s] /\ ~joining'[s]
      PROVE  mailbox'[s] = "freed"
  BY <1>4 DEF PoolInv, JoinInv, JoinCalm
<1> QED
  BY <1>1, <1>2, <1>3, <1>4 DEF JoinInv

\* Calls that start are calm.
LEMMA BeginJoin ==
    ASSUME PoolInv, NEW t \in Threads, Begin(t)
    PROVE  JoinInv'
<1> USE DEF registry, lifecycle, box, thread, args, frame, MayCall, Call, Goto
<1> USE DEF PoolInv, Types, PcOK, ArgsOK, Joining
<1>1. ASSUME NEW n \in Names, New(t, n) PROVE JoinCalm
  <2>1. next_id \in Ids
    BY <1>1, PoolAssumption DEF New, Ids, RegistryOK
  <2>2. state[next_id] = "none"
    BY <2>1, Identities DEF ServiceInv, Life
  <2> QED
    BY <1>1, <2>1, <2>2 DEF New, JoinCalm, RegistryOK, LifecycleOK
<1>2. ASSUME NEW r \in Ids, StartThread(t, r) \/ StartFails(t, r) PROVE JoinCalm
  BY <1>2 DEF StartThread, StartFails, JoinCalm, LifecycleOK
<1>3. ASSUME NEW r \in Ids, NEW m,
             StartAgain(t, r) \/ Stop(t, r) \/ Join(t, r) \/ Send(t, r, m)
      PROVE  JoinCalm
  BY <1>3 DEF StartAgain, Stop, Join, Send, JoinCalm
<1>4. ASSUME DeleteBegin(t) PROVE JoinCalm
  BY <1>4 DEF DeleteBegin, JoinCalm
<1> QED
  BY <1>1, <1>2, <1>3, <1>4, JoinKept DEF Begin

\* Only thread t moves, and only service r changes.
JoinFrame(t, r) ==
    /\ UNCHANGED target
    /\ \A u \in Threads : u # t => pc'[u] = pc[u]
    /\ \A s \in Ids : s # r =>
          /\ joining'[s] = joining[s] /\ thread_joined'[s] = thread_joined[s]
          /\ state'[s] = state[s] /\ mailbox'[s] = mailbox[s]
          /\ routable'[s] = routable[s] /\ send_pins'[s] = send_pins[s]

\* What the thread that joins does, once it has been let in.
LEMMA JoinSteps ==
    ASSUME PoolInv, NEW t \in Threads, pc[t] \in Joining,
           \/ JoinThread(t) \/ Retire(t) \/ FreeWait(t) \/ FreeTake(t)
           \/ FreeDelete(t) \/ JoinDone(t)
    PROVE  JoinInv'
<1> USE DEF registry, lifecycle, box, thread, args, frame, Goto
<1>0. PICK r \in Ids : r = target[t]
  BY DEF PoolInv, Types, ArgsOK
<1>1. Joiner(t) /\ joining[r]
  BY <1>0 DEF PoolInv, JoinInv, Joiner
<1>2. ASSUME NEW u \in Threads, u # t, pc[u] \in Joining
      PROVE  Joiner(u) /\ target[u] \in Ids /\ target[u] # r
  BY <1>0, <1>2 DEF PoolInv, JoinInv, Types, ArgsOK
\* What there is to show: the joining thread goes on, or it is through.
<1>3. ASSUME JoinFrame(t, r),
             \/ pc'[t] \in Joining /\ joining'[r] /\ Joiner(t)'
             \/ pc'[t] = "idle" /\ ~joining'[r] /\ mailbox'[r] = "freed"
      PROVE  JoinInv'
  <2>1. ASSUME NEW u \in Threads PROVE Joiner(u)'
    BY <1>2, <1>3, <2>1 DEF JoinFrame, Joiner, Joining
  <2>2. ASSUME NEW u \in Threads, NEW v \in Threads, pc'[u] \in Joining,
               pc'[v] \in Joining, target'[u] = target'[v]
        PROVE  u = v
    BY <1>0, <1>2, <1>3, <2>2 DEF JoinFrame, PoolInv, JoinInv, Joining
  <2>3. ASSUME NEW s \in Ids, joining'[s]
        PROVE  \E u \in Threads : pc'[u] \in Joining /\ target'[u] = s
    <3>1. CASE s = r
      BY <1>0, <1>3, <2>3, <3>1 DEF JoinFrame
    <3>2. CASE s # r
      <4>1. PICK u \in Threads : pc[u] \in Joining /\ target[u] = s
        BY <1>3, <2>3, <3>2 DEF JoinFrame, PoolInv, JoinInv
      <4>2. u # t
        BY <1>0, <3>2, <4>1
      <4> QED
        BY <1>3, <4>1, <4>2 DEF JoinFrame
    <3> QED
      BY <3>1, <3>2
  <2>4. ASSUME NEW s \in Ids, thread_joined'[s] /\ ~joining'[s]
        PROVE  mailbox'[s] = "freed"
    BY <1>3, <2>4 DEF JoinFrame, PoolInv, JoinInv
  <2> QED
    BY <2>1, <2>2, <2>3, <2>4 DEF JoinInv
<1> USE DEF PoolInv, Types, PcOK, ArgsOK, RegistryOK, LifecycleOK, BoxOK
<1>4. CASE JoinThread(t)
  <2>1. pc'[t] \in Joining /\ joining'[r] /\ Joiner(t)'
    BY <1>0, <1>1, <1>4 DEF JoinThread, Joiner, Joining
  <2>3. JoinFrame(t, r)
    BY <1>0, <1>4 DEF JoinThread, JoinFrame
  <2> QED
    BY <1>3, <2>1, <2>3
<1>5. CASE Retire(t)
  <2>1. pc[t] = "free_retire" /\ AfterRetire["free_retire"] = "free_wait"
    BY <1>5 DEF Retire, AfterRetire, Joining
  <2>2. pc'[t] \in Joining /\ joining'[r] /\ Joiner(t)'
    BY <1>0, <1>1, <1>5, <2>1 DEF Retire, Joiner, Joining
  <2>3. JoinFrame(t, r)
    BY <1>0, <1>5, <2>1 DEF Retire, JoinFrame
  <2> QED
    BY <1>3, <2>2, <2>3
<1>6. CASE FreeWait(t)
  <2>1. pc'[t] \in Joining /\ joining'[r] /\ Joiner(t)'
    BY <1>0, <1>1, <1>6 DEF FreeWait, PinsGone, Joiner, Joining
  <2>3. JoinFrame(t, r)
    BY <1>0, <1>6 DEF FreeWait, JoinFrame
  <2> QED
    BY <1>3, <2>1, <2>3
<1>7. CASE FreeTake(t)
  <2>1. pc'[t] \in Joining /\ joining'[r] /\ Joiner(t)'
    BY <1>0, <1>1, <1>7 DEF FreeTake, Joiner, Joining
  <2>3. JoinFrame(t, r)
    BY <1>0, <1>7 DEF FreeTake, JoinFrame
  <2> QED
    BY <1>3, <2>1, <2>3
<1>8. CASE FreeDelete(t)
  <2>1. pc'[t] \in Joining /\ joining'[r] /\ Joiner(t)'
    BY <1>0, <1>1, <1>8 DEF FreeDelete, Joiner, Joining
  <2>3. JoinFrame(t, r)
    BY <1>0, <1>8 DEF FreeDelete, JoinFrame
  <2> QED
    BY <1>3, <2>1, <2>3
<1>9. CASE JoinDone(t)
  <2>1. pc'[t] = "idle" /\ ~joining'[r] /\ mailbox'[r] = "freed"
    BY <1>0, <1>1, <1>9 DEF JoinDone, Joiner, Joining
  <2>3. JoinFrame(t, r)
    BY <1>0, <1>9 DEF JoinDone, JoinFrame
  <2> QED
    BY <1>3, <2>1, <2>3
<1> QED
  BY <1>4, <1>5, <1>6, <1>7, <1>8, <1>9

\* A thread is let in when no other is.
LEMMA JoinBeginJoin ==
    ASSUME PoolInv, NEW t \in Threads, JoinBegin(t)
    PROVE  JoinInv'
<1> USE DEF registry, lifecycle, box, thread, args, frame, Goto
<1>0. PICK r \in Ids : r = target[t]
  BY DEF PoolInv, Types, ArgsOK
<1>1. /\ UNCHANGED <<target, state, routable, send_pins, mailbox, thread_joined>>
      /\ pc[t] = "join" /\ pc' = [pc EXCEPT ![t] = "join_thread"]
      /\ ~joining[r] /\ joining' = [joining EXCEPT ![r] = TRUE]
      /\ ~thread_joined[r] /\ (main[r] # "none" \/ state[r] = "stopped")
  BY <1>0 DEF JoinBegin, HasThread
<1>2. \A u \in Threads : pc[u] \in Joining => u # t /\ target[u] # r
  BY <1>0, <1>1 DEF PoolInv, JoinInv, Joiner, Joining
<1>3. \A u \in Threads : u # t => pc'[u] = pc[u]
  BY <1>1 DEF PoolInv, Types, PcOK
<1>4. pc'[t] = "join_thread" /\ joining'[r]
  BY <1>1 DEF PoolInv, Types, PcOK, LifecycleOK
<1>5. state[r] \notin {"none", "new", "joined", "freed"}
  BY <1>1 DEF PoolInv, ServiceInv, Life, Ended
<1>6. \A s \in Ids : s # r => joining'[s] = joining[s]
  BY <1>1 DEF PoolInv, Types, LifecycleOK
<1>7. ASSUME NEW u \in Threads PROVE Joiner(u)'
  <2>1. CASE u = t
    BY <1>0, <1>1, <1>4, <1>5, <2>1 DEF Joiner
  <2>2. CASE u # t
    <3>1. Joiner(u) /\ target[u] \in Ids
      BY DEF PoolInv, JoinInv, Types, ArgsOK
    <3> QED
      BY <1>1, <1>2, <1>3, <1>6, <2>2, <3>1 DEF Joiner
  <2> QED
    BY <2>1, <2>2
<1>8. ASSUME NEW u \in Threads, NEW v \in Threads, pc'[u] \in Joining, pc'[v] \in Joining,
             target'[u] = target'[v]
      PROVE  u = v
  BY <1>0, <1>1, <1>2, <1>3, <1>8 DEF PoolInv, JoinInv
<1>9. ASSUME NEW s \in Ids, joining'[s]
      PROVE  \E u \in Threads : pc'[u] \in Joining /\ target'[u] = s
  <2>1. CASE s = r
    BY <1>0, <1>1, <1>4, <2>1 DEF Joining
  <2>2. CASE s # r
    <3>1. PICK u \in Threads : pc[u] \in Joining /\ target[u] = s
      BY <1>6, <1>9, <2>2 DEF PoolInv, JoinInv
    <3> QED
      BY <1>1, <1>2, <1>3, <3>1
  <2> QED
    BY <2>1, <2>2
<1>10. ASSUME NEW s \in Ids, thread_joined'[s] /\ ~joining'[s]
       PROVE  mailbox'[s] = "freed"
  BY <1>1, <1>4, <1>6, <1>10 DEF PoolInv, JoinInv
<1> QED
  BY <1>7, <1>8, <1>9, <1>10 DEF JoinInv

\* Calls that go on are calm, or are service_join's.
LEMMA ContinueJoin ==
    ASSUME PoolInv, NEW t \in Threads, Continue(t)
    PROVE  JoinInv'
<1> USE DEF registry, lifecycle, box, thread, args, frame, Goto
<1>0. target[t] \in Ids
  BY DEF PoolInv, Types, ArgsOK
<1>1. CASE \/ JoinThread(t) \/ FreeWait(t) \/ FreeTake(t) \/ FreeDelete(t) \/ JoinDone(t)
  BY <1>1, JoinSteps DEF JoinThread, FreeWait, FreeTake, FreeDelete, JoinDone, Joining
<1>2. CASE JoinBegin(t)
  BY <1>2, JoinBeginJoin
<1>3. CASE Retire(t) /\ pc[t] = "free_retire"
  BY <1>3, JoinSteps DEF Joining
<1> USE DEF PoolInv, Types, PcOK, ArgsOK, Joining
<1>4. CASE Retire(t) /\ pc[t] # "free_retire"
  <2>1. JoinCalm
    BY <1>4 DEF Retire, AfterRetire, JoinCalm, RegistryOK
  <2> QED
    BY <2>1, JoinKept
<1>5. CASE StartClose(t) \/ StopClose(t)
  <2>1. JoinCalm
    BY <1>5 DEF StartClose, StopClose, JoinCalm, BoxOK
  <2> QED
    BY <2>1, JoinKept
<1>6. CASE StopNew(t) \/ StopActive(t)
  <2>1. JoinCalm
    BY <1>6 DEF StopNew, StopActive, JoinCalm, LifecycleOK
  <2> QED
    BY <2>1, JoinKept
<1>7. CASE SendPin(t)
  <2>1. JoinCalm
    BY <1>7 DEF SendPin, Pinnable, JoinCalm, RegistryOK
  <2> QED
    BY <2>1, JoinKept
<1>8. CASE SendUnpin(t)
  <2>1. send_pins[target[t]] > 0
    BY <1>8, SenderCounted DEF SendUnpin, Pinned
  <2>2. JoinCalm
    BY <1>8, <2>1 DEF SendUnpin, JoinCalm, RegistryOK
  <2> QED
    BY <2>2, JoinKept
<1>9. CASE \/ StartWait(t) \/ StartError(t) \/ StopLate(t) \/ StopControl(t)
           \/ SendNoPin(t) \/ SendPush(t) \/ SendRefused(t) \/ SendReady(t)
  <2>1. JoinCalm
    BY <1>9 DEF StartWait, StartError, StopLate, StopControl, SendNoPin, SendPush,
                SendRefused, SendReady, JoinCalm
  <2> QED
    BY <2>1, JoinKept
<1>10. CASE \/ SendAsync(t) \/ SendAsyncFails(t) \/ JoinReturns(t)
            \/ DeleteStop(t) \/ DeleteJoin(t) \/ DeletePhase(t)
  <2>1. JoinCalm
    BY <1>10 DEF SendAsync, SendAsyncFails, JoinReturns, DeleteStop, DeleteJoin,
                 DeleteTurn, DeletePhase, JoinCalm
  <2> QED
    BY <2>1, JoinKept
<1> QED
  BY <1>1, <1>2, <1>3, <1>4, <1>5, <1>6, <1>7, <1>8, <1>9, <1>10 DEF Continue

\* The service thread is calm: it does not touch what is joined.
LEMMA MainJoin ==
    ASSUME PoolInv, NEW r \in Ids, Main(r) \/ LoopReturns(r)
    PROVE  JoinInv'
<1> USE DEF registry, lifecycle, box, thread, args, frame
<1> SUFFICES JoinCalm
  BY JoinKept
<1>1. CASE \/ InitFails(r) \/ InitLoop(r) \/ InitLua(r) \/ ScriptDone(r) \/ Kick(r)
           \/ (\E h \in {"inbox", "control"} : InitAsync(r, h))
  BY <1>1 DEF InitFails, InitLoop, InitAsync, InitLua, ScriptDone, Kick, JoinCalm
<1>2. CASE \/ OnInbox(r) \/ Recv(r) \/ PopMessage(r) \/ PopNothing(r) \/ Handled(r)
           \/ OnControl(r) \/ LoopReturns(r)
  BY <1>2 DEF OnInbox, Recv, PopMessage, PopNothing, Handled, OnControl, LoopReturns,
              JoinCalm
<1>3. CASE ShutWait(r) \/ Drained(r) \/ CloseHandles(r)
  BY <1>3 DEF ShutWait, Drained, CloseHandles, JoinCalm
<1>4. CASE ShutRetire(r)
  BY <1>4 DEF ShutRetire, JoinCalm, PoolInv, Types, RegistryOK
<1>5. CASE ShutClose(r)
  <2>1. mailbox[r] # "freed"
    BY <1>5 DEF ShutClose, Step, PoolInv, ServiceInv, Life, Ended
  <2> QED
    BY <1>5, <2>1 DEF ShutClose, JoinCalm, PoolInv, Types, BoxOK
<1>6. CASE StartOk(r) \/ StartCancelled(r) \/ Finish(r) \/ Exit(r)
  <2>1. state[r] \in {"starting", "running", "stopping"}
    BY <1>6 DEF StartOk, StartCancelled, Finish, Exit, Step, PoolInv, ServiceInv, Life,
                Ended
  <2> QED
    BY <1>6, <2>1 DEF StartOk, StartCancelled, Finish, Exit, JoinCalm, PoolInv, Types,
                      LifecycleOK
<1>7. CASE Drain(r)
  <2>1. r \in Threads
    BY Identities
  <2> QED
    BY <1>7, <2>1 DEF Drain, Goto, JoinCalm, Joining, PoolInv, Types, PcOK, ArgsOK
<1> QED
  BY <1>1, <1>2, <1>3, <1>4, <1>5, <1>6, <1>7 DEF Main

-----------------------------------------------------------------------------
(* Stopping *)

\* A step in which no stop takes its decision or gives its signal.
StopCalm ==
    /\ \A s \in Ids : stop_requested[s] => stop_requested'[s]
    /\ \A u \in Threads : pc'[u] \in Stopping =>
          /\ pc[u] \in Stopping
          /\ target'[u] = target[u] /\ hold'[u] = hold[u] /\ found'[u] = found[u]
          /\ pc'[u] = "stop_control" => "control" \in hold[u]

RunCalm ==
    \A s \in Ids :
        /\ main[s] \in Loop /\ "control" \notin pending[s]
             => main'[s] \in Loop /\ "control" \notin pending'[s]
        /\ state'[s] = "running" => main'[s] \in Loop

\* In a calm step the stops keep what they know.
LEMMA StopKept ==
    ASSUME PoolInv, StopCalm, LoopMayReturn \/ RunCalm
    PROVE  StopInv' /\ RunInv'
<1>1. ASSUME NEW u \in Threads, pc'[u] \in Stopping
      PROVE  /\ target'[u] \in Ids
             /\ stop_requested'[target'[u]]
             /\ pc'[u] = "stop_control" => "control" \in hold'[u]
  BY <1>1 DEF StopCalm, PoolInv, StopInv, Types, ArgsOK
<1>2. ASSUME NEW t \in Threads, NEW u \in Threads, Signals(t)', Signals(u)',
             target'[t] = target'[u]
      PROVE  t = u
  <2>1. Signals(t) /\ Signals(u) /\ target[t] = target[u]
    BY <1>2 DEF StopCalm, Signals
  <2> QED
    BY <2>1 DEF PoolInv, StopInv
<1>3. StopInv'
  BY <1>1, <1>2 DEF StopInv, Stopping
<1>4. CASE LoopMayReturn
  BY <1>3, <1>4 DEF RunInv
<1>5. CASE ~LoopMayReturn
  <2>1. RunCalm /\ \A t \in Threads : Stopper(t)
    BY <1>5 DEF PoolInv, RunInv
  <2>2. ASSUME NEW u \in Threads PROVE Stopper(u)'
    <3> SUFFICES ASSUME pc'[u] \in Stopping, found'[u] = "running" PROVE Stopper(u)'
      BY DEF Stopper
    <3>1. PICK s \in Ids : s = target[u] /\ s = target'[u]
      BY DEF StopCalm, PoolInv, Types, ArgsOK
    <3>2. Signals(u) /\ main[s] \in Loop /\ "control" \notin pending[s]
      BY <2>1, <3>1 DEF Stopper, StopCalm
    <3>3. Signals(u)'
      BY <3>2 DEF Signals, StopCalm
    <3>4. main'[s] \in Loop /\ "control" \notin pending'[s]
      BY <2>1, <3>2 DEF RunCalm
    <3> QED
      BY <3>1, <3>3, <3>4 DEF Stopper
  <2> QED
    BY <1>3, <2>1, <2>2 DEF RunInv, RunCalm
<1> QED
  BY <1>4, <1>5

\* Calm for what the step leaves alone.
LEMMA RunsOn ==
    ASSUME PoolInv, ~LoopMayReturn, UNCHANGED <<main, pending, state>>
    PROVE  RunCalm
  BY DEF RunCalm, PoolInv, RunInv

\* Calls that start are calm.
LEMMA BeginStop ==
    ASSUME PoolInv, NEW t \in Threads, Begin(t)
    PROVE  StopInv' /\ RunInv'
<1> USE DEF registry, lifecycle, box, thread, args, frame, MayCall, Call, Goto
<1> USE DEF PoolInv, Types, PcOK, ArgsOK
<1>1. ASSUME NEW n \in Names, New(t, n) PROVE StopCalm /\ (LoopMayReturn \/ RunCalm)
  <2>1. next_id \in Ids
    BY <1>1, PoolAssumption DEF New, Ids, RegistryOK
  <2>2. StopCalm
    BY <1>1 DEF New, StopCalm, StopInv
  <2>3. ~LoopMayReturn => RunCalm
    BY <1>1, <2>1 DEF New, RunCalm, RunInv, LifecycleOK
  <2> QED
    BY <2>2, <2>3
<1>2. ASSUME NEW r \in Ids, StartThread(t, r) \/ StartFails(t, r)
      PROVE  StopCalm /\ (LoopMayReturn \/ RunCalm)
  <2>1. state[r] = "new" /\ main[r] = "none"
    BY <1>2 DEF StartThread, StartFails, ServiceInv, Life, Ended
  <2>2. StopCalm
    BY <1>2 DEF StartThread, StartFails, StopCalm, StopInv, Stopping
  <2>3. ~LoopMayReturn => RunCalm
    BY <1>2, <2>1 DEF StartThread, StartFails, RunCalm, RunInv, LifecycleOK, ThreadOK, Loop
  <2> QED
    BY <2>2, <2>3
<1>3. ASSUME NEW r \in Ids, NEW m,
             StartAgain(t, r) \/ Stop(t, r) \/ Join(t, r) \/ Send(t, r, m)
      PROVE  StopCalm /\ (LoopMayReturn \/ RunCalm)
  <2>1. StopCalm
    BY <1>3 DEF StartAgain, Stop, Join, Send, StopCalm, StopInv, Stopping
  <2>2. UNCHANGED <<main, pending, state>>
    BY <1>3 DEF StartAgain, Stop, Join, Send
  <2> QED
    BY <2>1, <2>2, RunsOn
<1>4. ASSUME DeleteBegin(t) PROVE StopCalm /\ (LoopMayReturn \/ RunCalm)
  <2>1. StopCalm
    BY <1>4 DEF DeleteBegin, StopCalm, StopInv
  <2>2. UNCHANGED <<main, pending, state>>
    BY <1>4 DEF DeleteBegin
  <2> QED
    BY <2>1, <2>2, RunsOn
<1> QED
  BY <1>1, <1>2, <1>3, <1>4, StopKept DEF Begin

\* The first stop that finds the service starting or running is the only one
\* to signal it, and has the control handle if the service runs.
LEMMA StopActiveStop ==
    ASSUME PoolInv, NEW t \in Threads, StopActive(t)
    PROVE  StopInv' /\ RunInv'
<1> USE DEF registry, lifecycle, box, thread, args, frame, Goto
<1>0. PICK r \in Ids : r = target[t]
  BY DEF PoolInv, Types, ArgsOK
<1>1. /\ UNCHANGED <<target, main, pending>>
      /\ pc' = [pc EXCEPT ![t] = "stop_close"]
      /\ state[r] \in {"starting", "running"}
      /\ state' = [state EXCEPT ![r] = "stopping"]
      /\ stop_requested' = [stop_requested EXCEPT ![r] = TRUE]
      /\ found' = [found EXCEPT ![t] = state[r]]
  BY <1>0 DEF StopActive
<1>2. ~stop_requested[r] /\ "control" \notin pending[r]
  BY <1>1 DEF PoolInv, ServiceInv, Life, Handles
<1>3. hold' = [hold EXCEPT ![t] = {"inbox"} \cup (ready[r] \cap {"control"})]
  BY <1>0, <1>2 DEF StopActive
<1>4. \A u \in Threads : u # t => /\ pc'[u] = pc[u] /\ hold'[u] = hold[u]
                                  /\ found'[u] = found[u]
  BY <1>1, <1>3 DEF PoolInv, Types, PcOK, ArgsOK
<1>5. pc'[t] = "stop_close" /\ found'[t] = state[r]
      /\ hold'[t] = {"inbox"} \cup (ready[r] \cap {"control"})
  BY <1>1, <1>3 DEF PoolInv, Types, PcOK, ArgsOK
<1>6. \A u \in Threads : pc[u] \in Stopping => target[u] # r
  BY <1>2 DEF PoolInv, StopInv
<1>7. /\ stop_requested'[r] /\ state'[r] = "stopping"
      /\ \A s \in Ids : s # r => /\ stop_requested'[s] = stop_requested[s]
                                 /\ state'[s] = state[s]
  BY <1>1 DEF PoolInv, Types, LifecycleOK
<1>8. ASSUME NEW u \in Threads, pc'[u] \in Stopping
      PROVE  /\ stop_requested'[target'[u]]
             /\ pc'[u] = "stop_control" => "control" \in hold'[u]
  <2>1. CASE u = t
    BY <1>0, <1>1, <1>5, <1>7, <2>1
  <2>2. CASE u # t
    <3>1. target[u] \in Ids /\ target[u] # r
      BY <1>4, <1>6, <1>8, <2>2 DEF PoolInv, Types, ArgsOK
    <3> QED
      BY <1>1, <1>4, <1>7, <1>8, <2>2, <3>1 DEF PoolInv, StopInv
  <2> QED
    BY <2>1, <2>2
<1>9. ASSUME NEW u \in Threads, NEW v \in Threads, Signals(u)', Signals(v)',
             target'[u] = target'[v]
      PROVE  u = v
  <2>1. CASE u # t /\ v # t
    BY <1>1, <1>4, <1>9, <2>1 DEF PoolInv, StopInv, Signals
  <2>2. CASE u = t \/ v = t
    BY <1>0, <1>1, <1>4, <1>6, <1>9, <2>2 DEF Signals
  <2> QED
    BY <2>1, <2>2
<1>10. StopInv'
  BY <1>8, <1>9 DEF StopInv, Stopping
<1>11. CASE LoopMayReturn
  BY <1>10, <1>11 DEF RunInv
<1>12. CASE ~LoopMayReturn
  <2>1. /\ \A s \in Ids : state[s] = "running" => main[s] \in Loop
        /\ \A u \in Threads : Stopper(u)
    BY <1>12 DEF PoolInv, RunInv
  <2>2. \A s \in Ids : state'[s] = "running" => main'[s] \in Loop
    BY <1>1, <1>7, <2>1
  <2>3. ASSUME NEW u \in Threads, u # t PROVE Stopper(u)'
    BY <1>1, <1>4, <2>1, <2>3 DEF Stopper, Signals
  <2>4. Stopper(t)'
    <3> SUFFICES ASSUME state[r] = "running" PROVE Stopper(t)'
      BY <1>5 DEF Stopper
    <3>1. main[r] \in Loop
      BY <2>1
    <3>2. "control" \in ready[r]
      BY <3>1 DEF PoolInv, ServiceInv, Handles
    <3> QED
      BY <1>0, <1>1, <1>2, <1>5, <3>1, <3>2 DEF Stopper, Signals, Stopping
  <2> QED
    BY <1>10, <2>2, <2>3, <2>4 DEF RunInv
<1> QED
  BY <1>11, <1>12

\* Calls that go on are calm, or are service_stop's.
LEMMA ContinueStop ==
    ASSUME PoolInv, NEW t \in Threads, Continue(t)
    PROVE  StopInv' /\ RunInv'
<1> USE DEF registry, lifecycle, box, thread, args, frame, Goto
<1>0. PICK r \in Ids : r = target[t]
  BY DEF PoolInv, Types, ArgsOK
<1>1. CASE StopActive(t)
  BY <1>1, StopActiveStop
<1>2. CASE StopNew(t)
  <2>1. /\ UNCHANGED <<target, main, pending>>
        /\ pc' = [pc EXCEPT ![t] = "stop_close"]
        /\ state[r] = "new"
        /\ state' = [state EXCEPT ![r] = "stopped"]
        /\ stop_requested' = [stop_requested EXCEPT ![r] = TRUE]
        /\ found' = [found EXCEPT ![t] = "new"]
        /\ hold' = [hold EXCEPT ![t] = {"inbox"}]
    BY <1>0, <1>2 DEF StopNew
  <2>2. /\ \A u \in Threads : u # t => /\ pc'[u] = pc[u] /\ hold'[u] = hold[u]
                                       /\ found'[u] = found[u]
        /\ pc'[t] = "stop_close" /\ found'[t] = "new" /\ hold'[t] = {"inbox"}
    BY <2>1 DEF PoolInv, Types, PcOK, ArgsOK
  <2>3. \A s \in Ids : /\ s = r \/ stop_requested[s] => stop_requested'[s]
                       /\ state'[s] = "running" => state[s] = "running"
    BY <2>1 DEF PoolInv, Types, LifecycleOK
  <2>4. ASSUME NEW u \in Threads, pc'[u] \in Stopping
        PROVE  /\ stop_requested'[target'[u]]
               /\ pc'[u] = "stop_control" => "control" \in hold'[u]
    BY <1>0, <2>1, <2>2, <2>3, <2>4 DEF PoolInv, StopInv, Types, ArgsOK
  <2>5. ASSUME NEW u \in Threads, NEW v \in Threads, Signals(u)', Signals(v)',
               target'[u] = target'[v]
        PROVE  u = v
    BY <2>1, <2>2, <2>5 DEF PoolInv, StopInv, Signals
  <2>6. StopInv'
    BY <2>4, <2>5 DEF StopInv, Stopping
  <2>7. ~LoopMayReturn => RunInv'
    BY <2>1, <2>2, <2>3 DEF PoolInv, RunInv, Stopper, Signals
  <2> QED
    BY <2>6, <2>7 DEF RunInv
<1>3. CASE StopControl(t)
  <2>1. /\ UNCHANGED <<target, main, hold, found, state, stop_requested>>
        /\ pc[t] = "stop_control" /\ pc' = [pc EXCEPT ![t] = "idle"]
        /\ pending' = [pending EXCEPT ![r] = @ \cup {"control"}]
    BY <1>0, <1>3 DEF StopControl
  <2>2. /\ \A u \in Threads : u # t => pc'[u] = pc[u]
        /\ pc'[t] = "idle"
        /\ \A s \in Ids : s # r => pending'[s] = pending[s]
    BY <2>1 DEF PoolInv, Types, PcOK, ThreadOK
  <2>3. Signals(t)
    BY <2>1 DEF PoolInv, StopInv, Signals, Stopping
  <2>4. \A u \in Threads : pc'[u] \in Stopping => u # t /\ pc[u] \in Stopping
    BY <2>2 DEF Stopping
  <2>5. StopInv'
    BY <2>1, <2>2, <2>4 DEF PoolInv, StopInv, Signals
  <2>6. ASSUME ~LoopMayReturn, NEW u \in Threads PROVE Stopper(u)'
    <3> SUFFICES ASSUME pc'[u] \in Stopping, found'[u] = "running" PROVE Stopper(u)'
      BY DEF Stopper
    <3>1. u # t /\ pc[u] \in Stopping /\ Stopper(u)
      BY <2>4, <2>6 DEF PoolInv, RunInv
    <3>2. Signals(u) /\ target[u] \in Ids
      BY <2>1, <3>1 DEF Stopper, PoolInv, Types, ArgsOK
    <3>3. target[u] # r
      BY <1>0, <2>3, <3>1, <3>2 DEF PoolInv, StopInv
    <3> QED
      BY <2>1, <2>2, <3>1, <3>2, <3>3 DEF Stopper, Signals
  <2> QED
    BY <2>1, <2>5, <2>6 DEF PoolInv, RunInv
<1> USE DEF PoolInv, Types, PcOK, ArgsOK
<1>4. CASE Retire(t)
  <2>1. StopCalm
    BY <1>4 DEF Retire, AfterRetire, StopCalm, StopInv, Stopping
  <2>2. UNCHANGED <<main, pending, state>>
    BY <1>4 DEF Retire
  <2> QED
    BY <2>1, <2>2, RunsOn, StopKept
<1>5. CASE StartClose(t) \/ StartWait(t) \/ StartError(t) \/ StopLate(t) \/ StopClose(t)
  <2>1. StopCalm
    BY <1>5 DEF StartClose, StartWait, StartError, StopLate, StopClose, StopCalm,
                StopInv, Stopping
  <2>2. UNCHANGED <<main, pending, state>>
    BY <1>5 DEF StartClose, StartWait, StartError, StopLate, StopClose
  <2> QED
    BY <2>1, <2>2, RunsOn, StopKept
<1>6. CASE \/ SendPin(t) \/ SendNoPin(t) \/ SendPush(t) \/ SendRefused(t)
           \/ SendReady(t) \/ SendAsyncFails(t) \/ SendUnpin(t)
  <2>1. StopCalm
    BY <1>6 DEF SendPin, SendNoPin, SendPush, SendRefused, SendReady, SendAsyncFails,
                SendUnpin, StopCalm, StopInv, Stopping
  <2>2. UNCHANGED <<main, pending, state>>
    BY <1>6 DEF SendPin, SendNoPin, SendPush, SendRefused, SendReady, SendAsyncFails,
                SendUnpin
  <2> QED
    BY <2>1, <2>2, RunsOn, StopKept
<1>7. CASE SendAsync(t)
  <2>1. StopCalm
    BY <1>7 DEF SendAsync, StopCalm, StopInv, Stopping
  <2>2. ~LoopMayReturn => RunCalm
    BY <1>0, <1>7 DEF SendAsync, RunCalm, RunInv, ThreadOK
  <2> QED
    BY <2>1, <2>2, StopKept
<1>8. CASE JoinReturns(t) \/ JoinBegin(t) \/ FreeWait(t) \/ FreeDelete(t) \/ JoinDone(t)
  <2>1. StopCalm
    BY <1>8 DEF JoinReturns, JoinBegin, FreeWait, FreeDelete, JoinDone, StopCalm,
                StopInv, Stopping
  <2>2. UNCHANGED <<main, pending, state>>
    BY <1>8 DEF JoinReturns, JoinBegin, FreeWait, FreeDelete, JoinDone
  <2> QED
    BY <2>1, <2>2, RunsOn, StopKept
<1>9. CASE JoinThread(t) \/ FreeTake(t)
  <2>1. StopCalm
    BY <1>9 DEF JoinThread, FreeTake, StopCalm, StopInv, Stopping
  <2>2. ~LoopMayReturn => RunCalm
    BY <1>0, <1>9 DEF JoinThread, FreeTake, RunCalm, RunInv, LifecycleOK
  <2> QED
    BY <2>1, <2>2, StopKept
<1>10. CASE DeleteStop(t) \/ DeleteJoin(t) \/ DeletePhase(t)
  <2>1. StopCalm
    BY <1>10 DEF DeleteStop, DeleteJoin, DeleteTurn, DeletePhase, StopCalm, StopInv,
                 Stopping
  <2>2. UNCHANGED <<main, pending, state>>
    BY <1>10 DEF DeleteStop, DeleteJoin, DeleteTurn, DeletePhase
  <2> QED
    BY <2>1, <2>2, RunsOn, StopKept
<1> QED
  BY <1>1, <1>2, <1>3, <1>4, <1>5, <1>6, <1>7, <1>8, <1>9, <1>10 DEF Continue

\* The service thread leaves its loop only for a signal.
LEMMA MainStop ==
    ASSUME PoolInv, NEW r \in Ids, Main(r) \/ LoopReturns(r)
    PROVE  StopInv' /\ RunInv'
<1> USE DEF registry, lifecycle, box, thread, args, frame, Step
<1>1. StopCalm
  <2>1. CASE Drain(r)
    <3>1. r \in Threads
      BY Identities
    <3> QED
      BY <2>1, <3>1 DEF Drain, Goto, StopCalm, PoolInv, StopInv, Stopping, Types, PcOK,
                        ArgsOK
  <2>2. CASE ~Drain(r)
    <3>1. UNCHANGED <<stop_requested, pc, target, hold, found>>
      BY <2>2
      DEF Main, InitFails, InitLoop, InitAsync, InitLua, ScriptDone, StartOk,
          StartCancelled, Kick, OnInbox, Recv, PopMessage, PopNothing, Handled, OnControl,
          LoopReturns, Finish, ShutRetire, ShutClose, ShutWait, Drained, CloseHandles, Exit
    <3> QED
      BY <3>1 DEF StopCalm, PoolInv, StopInv
  <2> QED
    BY <2>1, <2>2
<1> SUFFICES ASSUME ~LoopMayReturn PROVE RunCalm
  BY <1>1, StopKept
<1>2. \A s \in Ids : state[s] = "running" => main[s] \in Loop
  BY DEF PoolInv, RunInv
<1>3. \A s \in Ids : state[s] = "running" => ~stop_requested[s]
  BY DEF PoolInv, ServiceInv, Life
<1> USE DEF PoolInv, Types, ThreadOK, LifecycleOK, Loop
<1>4. CASE InitFails(r) \/ InitLoop(r) \/ InitLua(r) \/ ScriptDone(r)
  BY <1>2, <1>4 DEF InitFails, InitLoop, InitLua, ScriptDone, RunCalm
<1>5. CASE \E h \in {"inbox", "control"} : InitAsync(r, h)
  BY <1>2, <1>5 DEF InitAsync, RunCalm
<1>6. CASE StartOk(r) \/ StartCancelled(r) \/ Finish(r) \/ Exit(r)
  BY <1>2, <1>6 DEF StartOk, StartCancelled, Finish, Exit, RunCalm
<1>7. CASE Kick(r) \/ OnInbox(r) \/ OnControl(r)
  BY <1>2, <1>3, <1>7 DEF Kick, OnInbox, OnControl, RunCalm
<1>8. CASE Recv(r) \/ PopMessage(r) \/ PopNothing(r) \/ Handled(r) \/ LoopReturns(r)
  BY <1>2, <1>8 DEF Recv, PopMessage, PopNothing, Handled, LoopReturns, RunCalm
<1>9. CASE \/ ShutRetire(r) \/ ShutClose(r) \/ ShutWait(r) \/ Drain(r) \/ Drained(r)
           \/ CloseHandles(r)
  BY <1>2, <1>9 DEF ShutRetire, ShutClose, ShutWait, Drain, Drained, CloseHandles, RunCalm
<1> QED
  BY <1>4, <1>5, <1>6, <1>7, <1>8, <1>9 DEF Main

-----------------------------------------------------------------------------
(* Deleting the pool *)

\* Once the pool is freed there is no step left to take.
LEMMA NoneAfterFree ==
    ASSUME PoolInv, deletion.phase = "freed"
    PROVE  /\ \A t \in Threads : ~Begin(t) /\ ~Continue(t)
           /\ \A s \in Ids : ~Main(s) /\ ~LoopReturns(s)
<1>1. FreedPoolIsUnused
  BY DEF PoolInv, DeletionInv
<1>2. \A t \in Threads : pc[t] = "idle"
  BY <1>1 DEF FreedPoolIsUnused
<1>3. ASSUME NEW s \in Ids PROVE main[s] \in {"none", "exited"}
  <2>1. CASE s < next_id
    <3>1. s \in 0 .. next_id - 1
      BY <2>1, Identities DEF PoolInv, Types, RegistryOK
    <3> QED
      BY <1>1, <3>1 DEF FreedPoolIsUnused
  <2>2. CASE ~(s < next_id)
    BY <2>2 DEF PoolInv, ServiceInv, Life, Ended
  <2> QED
    BY <2>1, <2>2
<1>4. ASSUME NEW t \in Threads, NEW op PROVE ~MayCall(t, op)
  BY <1>3 DEF MayCall, Threads
<1>5. ASSUME NEW t \in Threads PROVE ~Begin(t)
  BY <1>4 DEF Begin, New, Call, StartThread, StartFails, StartAgain, Stop, Join, Send,
              DeleteBegin
<1>6. ASSUME NEW t \in Threads PROVE ~Continue(t)
  BY <1>2
  DEF Continue, StartClose, StartWait, StartError, Retire, AfterRetire, StopNew,
      StopActive, StopLate, StopClose, StopControl, SendPin, SendNoPin, SendPush,
      SendRefused, SendReady, SendAsync, SendAsyncFails, SendUnpin, JoinReturns, JoinBegin,
      JoinThread, FreeWait, FreeTake, FreeDelete, JoinDone, DeleteStop, DeleteJoin,
      DeleteTurn, DeletePhase
<1>7. ASSUME NEW s \in Ids PROVE ~Main(s) /\ ~LoopReturns(s)
  BY <1>3
  DEF Main, Step, InitFails, InitLoop, InitAsync, InitLua, ScriptDone, StartOk,
      StartCancelled, Kick, OnInbox, Recv, PopMessage, PopNothing, Handled, OnControl,
      LoopReturns, Finish, ShutRetire, ShutClose, ShutWait, Drain, Drained, CloseHandles,
      Exit
<1> QED
  BY <1>5, <1>6, <1>7

\* A step that is not one of the deleting loops: only the deleting host moves
\* among the hosts, and when it leaves a service, that one is freed.
DeletionCalm ==
    /\ UNCHANGED deletion
    /\ deletion.phase # "freed"
    /\ \A s \in Ids : mailbox[s] = "freed" => mailbox'[s] = "freed"
    /\ deletion.phase # "no" => \A h \in Hosts : h # deletion.by => pc'[h] = pc[h]
    /\ deletion.phase = "join" =>
          \/ /\ pc'[deletion.by] = pc[deletion.by]
             /\ target'[deletion.by] = target[deletion.by]
          \/ /\ pc[deletion.by] # "idle"
             /\ pc'[deletion.by] \in Joining
             /\ target'[deletion.by] = target[deletion.by]
          \/ /\ pc'[deletion.by] = "idle"
             /\ mailbox'[target[deletion.by]] = "freed"

\* In a calm step the deletion keeps what it has achieved.
LEMMA DeletionKept ==
    ASSUME PoolInv, DeletionCalm
    PROVE  DeletionInv'
<1> SUFFICES ASSUME deletion.phase # "no" PROVE DeletionInv'
  BY DEF DeletionInv, DeletionCalm
<1>1. PICK b \in Hosts : b = deletion.by
  BY DEF PoolInv, DeletionInv
<1>2. deletion' = deletion /\ \A h \in Hosts : h # b => pc'[h] = "idle"
  BY <1>1 DEF DeletionCalm, PoolInv, DeletionInv
<1>3. ASSUME deletion.phase = "join"
      PROVE  /\ pc'[b] \in {"idle", "join"} \cup Joining
             /\ \A s \in Ids : s < deletion.id =>
                    mailbox'[s] = "freed" \/ (pc'[b] # "idle" /\ target'[b] = s)
  BY <1>1, <1>3 DEF DeletionCalm, PoolInv, DeletionInv, Joining
<1>4. deletion.phase # "freed"
  BY DEF DeletionCalm
<1> QED
  BY <1>1, <1>2, <1>3, <1>4 DEF DeletionInv

\* Calls start on no other host once the pool is being deleted.
LEMMA BeginDeletion ==
    ASSUME PoolInv, NEW t \in Threads, Begin(t)
    PROVE  DeletionInv'
<1> USE DEF registry, lifecycle, box, thread, args, frame
<1>1. CASE DeleteBegin(t)
  <2>1. t \in Hosts
    BY <1>1, PoolAssumption DEF DeleteBegin, MayCall
  <2>2. /\ deletion' = [phase |-> "stop", id |-> 0, by |-> t]
        /\ \A h \in Hosts : pc'[h] = "idle"
    BY <1>1 DEF DeleteBegin
  <2> QED
    BY <2>1, <2>2 DEF DeletionInv
<1>2. CASE ~DeleteBegin(t)
  <2>1. UNCHANGED <<mailbox, deletion>>
    BY <1>2 DEF Begin, New, StartThread, StartFails, StartAgain, Stop, Join, Send
  <2>2. \E op : MayCall(t, op)
    BY <1>2 DEF Begin, New, Call, StartThread, StartFails, StartAgain, Stop, Join, Send
  <2>3. \A u \in Threads : u # t => pc'[u] = pc[u] /\ target'[u] = target[u]
    BY <1>2 DEF Begin, New, Call, Goto, StartThread, StartFails, StartAgain, Stop, Join,
                Send, PoolInv, Types, PcOK, ArgsOK
  <2>4. deletion.phase # "no" => t \notin Hosts
    BY <2>2 DEF MayCall
  <2>5. deletion.phase # "no" => deletion.by \in Hosts
    BY DEF PoolInv, DeletionInv
  <2>6. deletion.phase # "freed"
    BY NoneAfterFree
  <2>7. DeletionCalm
    BY <2>1, <2>3, <2>4, <2>5, <2>6 DEF DeletionCalm, Threads
  <2> QED
    BY <2>7, DeletionKept
<1> QED
  BY <1>1, <1>2

\* service_pool_delete goes on to the next service, or to the next loop.
LEMMA DeleteSteps ==
    ASSUME PoolInv, NEW t \in Threads, DeleteStop(t) \/ DeleteJoin(t) \/ DeletePhase(t)
    PROVE  DeletionInv'
<1> USE DEF registry, lifecycle, box, thread, args, frame, Goto
<1>1. t \in Hosts /\ t = deletion.by /\ pc[t] = "idle" /\ deletion.phase \in {"stop", "join"}
  BY DEF DeleteStop, DeleteJoin, DeleteTurn, DeletePhase, PoolInv, DeletionInv
<1>2. \A h \in Hosts : pc[h] = "idle"
  BY <1>1 DEF PoolInv, DeletionInv
<1>3. deletion.id \in Nat /\ next_id \in Nat
  BY DEF PoolInv, Types, DeletionOK, RegistryOK
<1>4. CASE DeleteStop(t)
  <2>1. deletion'.phase = "stop" /\ deletion'.by = t
    BY <1>1, <1>4 DEF DeleteStop, DeleteTurn, PoolInv, Types, DeletionOK
  <2>2. \A h \in Hosts : h # t => pc'[h] = "idle"
    BY <1>2, <1>4 DEF DeleteStop, DeleteTurn, PoolInv, Types, PcOK, Threads
  <2> QED
    BY <1>1, <2>1, <2>2 DEF DeletionInv
<1>5. CASE DeleteJoin(t)
  <2>1. deletion.phase = "join" /\ UNCHANGED mailbox
    BY <1>5 DEF DeleteJoin, DeleteTurn
  <2>2. deletion'.phase = "join" /\ deletion'.by = t /\ deletion'.id = deletion.id + 1
    BY <1>1, <1>5 DEF DeleteJoin, DeleteTurn, PoolInv, Types, DeletionOK
  <2>3. \A h \in Hosts : h # t => pc'[h] = "idle"
    BY <1>2, <1>5 DEF DeleteJoin, DeleteTurn, PoolInv, Types, PcOK, Threads
  <2>4. pc'[t] = "join" /\ target'[t] = deletion.id
    BY <1>5 DEF DeleteJoin, DeleteTurn, PoolInv, Types, PcOK, ArgsOK
  <2>5. ASSUME NEW s \in Ids, s < deletion.id + 1
        PROVE  mailbox'[s] = "freed" \/ target'[t] = s
    <3>1. s < deletion.id \/ s = deletion.id
      BY <1>3, <2>5, Identities
    <3> QED
      BY <1>1, <2>1, <2>4, <3>1 DEF PoolInv, DeletionInv
  <2> QED
    BY <1>1, <2>2, <2>3, <2>4, <2>5 DEF DeletionInv
<1>6. CASE DeletePhase(t)
  <2>1. UNCHANGED <<registry, lifecycle, box, thread, frame>>
    BY <1>6 DEF DeletePhase
  <2>2. CASE deletion.phase = "stop"
    <3>1. deletion'.phase = "join" /\ deletion'.by = t /\ deletion'.id = 0
      BY <1>1, <1>6, <2>2 DEF DeletePhase, PoolInv, Types, DeletionOK
    <3>2. \A s \in Ids : ~(s < 0)
      BY Identities
    <3> QED
      BY <1>1, <1>2, <2>1, <3>1, <3>2 DEF DeletionInv
  <2>3. CASE deletion.phase = "join"
    <3>1. deletion'.phase = "freed" /\ deletion'.by = t /\ deletion.id >= next_id
      BY <1>1, <1>6, <2>3 DEF DeletePhase, PoolInv, Types, DeletionOK
    <3>2. ASSUME NEW s \in Ids, s < next_id
          PROVE  mailbox[s] = "freed" /\ main[s] \in {"none", "exited"}
      <4>1. s < deletion.id
        BY <1>3, <3>1, <3>2, Identities
      <4>2. mailbox[s] = "freed"
        BY <1>1, <2>3, <4>1 DEF PoolInv, DeletionInv
      <4> QED
        BY <4>2 DEF PoolInv, ServiceInv, Life, Ended
    <3>3. ASSUME NEW s \in Ids PROVE pc[s] = "idle"
      <4>1. main[s] \in {"none", "exited"}
        BY <3>2 DEF PoolInv, ServiceInv, Life, Ended
      <4> QED
        BY <4>1 DEF PoolInv, CallInv
    <3>4. \A s \in 0 .. next_id - 1 : s \in Ids /\ s < next_id
      BY PoolAssumption DEF Ids, PoolInv, Types, RegistryOK
    <3>5. FreedPoolIsUnused'
      BY <1>2, <2>1, <3>2, <3>3, <3>4 DEF FreedPoolIsUnused, Threads
    <3> QED
      BY <1>1, <1>2, <2>1, <3>1, <3>5 DEF DeletionInv
  <2> QED
    BY <1>1, <2>2, <2>3
<1> QED
  BY <1>4, <1>5, <1>6

\* The deleting host's join has ended: the service is freed, or it never was
\* to be joined and the deletion fails.
LEMMA JoinReturnsDeletion ==
    ASSUME PoolInv, NEW t \in Threads, JoinReturns(t), deletion.phase = "join",
           deletion.by = t
    PROVE  DeletionInv'
<1> USE DEF registry, lifecycle, box, thread, args, frame, Goto
<1>0. PICK r \in Ids : r = target[t]
  BY DEF PoolInv, Types, ArgsOK
<1>1. t \in Hosts /\ t # r
  BY Identities DEF PoolInv, DeletionInv
<1>2. /\ UNCHANGED <<target, mailbox>> /\ pc' = [pc EXCEPT ![t] = "idle"]
      /\ ~joining[r]
  BY <1>0, <1>1 DEF JoinReturns
<1>3. pc'[t] = "idle" /\ \A u \in Threads : u # t => pc'[u] = pc[u]
  BY <1>2 DEF PoolInv, Types, PcOK
<1>4. CASE thread_joined[r] \/ state[r] = "freed"
  <2>1. mailbox[r] = "freed"
    BY <1>2, <1>4 DEF PoolInv, ServiceInv, Life, JoinInv
  <2>2. UNCHANGED deletion
    BY <1>0, <1>4 DEF JoinReturns
  <2>3. DeletionCalm
    BY <1>0, <1>2, <1>3, <2>1, <2>2 DEF DeletionCalm, Threads
  <2> QED
    BY <2>3, DeletionKept
<1>5. CASE ~(thread_joined[r] \/ state[r] = "freed")
  <2>1. deletion' = [deletion EXCEPT !.phase = "failed"]
    BY <1>0, <1>5 DEF JoinReturns
  <2>2. deletion'.phase = "failed" /\ deletion'.by = t
    BY <2>1 DEF PoolInv, Types, DeletionOK
  <2> QED
    BY <1>1, <1>3, <2>2 DEF DeletionInv, PoolInv, Threads
<1> QED
  BY <1>4, <1>5

\* Calls that go on: those of service threads are calm, those of hosts are the
\* deleting host's.
LEMMA ContinueDeletion ==
    ASSUME PoolInv, NEW t \in Threads, Continue(t)
    PROVE  DeletionInv'
<1> USE DEF registry, lifecycle, box, thread, args, frame, Goto
<1>0. deletion.phase # "freed"
  BY NoneAfterFree
<1>1. CASE DeleteStop(t) \/ DeleteJoin(t) \/ DeletePhase(t)
  BY <1>1, DeleteSteps
<1>2. CASE JoinReturns(t) /\ deletion.phase = "join" /\ deletion.by = t
  BY <1>2, JoinReturnsDeletion
\* A host inside a call is the one that deletes, and joins.
<1>3. ASSUME t \in Hosts, deletion.phase # "no", pc[t] # "idle"
      PROVE  /\ t = deletion.by
             /\ deletion.phase = "join" => pc[t] \in {"join"} \cup Joining
  BY <1>3 DEF PoolInv, DeletionInv
<1>4. deletion.phase # "no" => deletion.by \in Hosts
  BY DEF PoolInv, DeletionInv
<1>5. ASSUME UNCHANGED deletion, pc[t] # "idle", NEW l, pc' = [pc EXCEPT ![t] = l],
             UNCHANGED target,
             \A s \in Ids : mailbox[s] = "freed" => mailbox'[s] = "freed",
             deletion.phase = "join" /\ deletion.by = t =>
                l \in Joining \/ (l = "idle" /\ mailbox'[target[t]] = "freed")
      PROVE  DeletionInv'
  <2>1. pc'[t] = l /\ \A u \in Threads : u # t => pc'[u] = pc[u]
    BY <1>5 DEF PoolInv, Types, PcOK
  <2>2. DeletionCalm
    BY <1>0, <1>3, <1>4, <1>5, <2>1 DEF DeletionCalm, Threads
  <2> QED
    BY <2>2, DeletionKept
\* Outside of service_join the deleting host is not in its second loop.
<1>6. ASSUME pc[t] \notin {"idle", "join"} \cup Joining
      PROVE  ~(deletion.phase = "join" /\ deletion.by = t)
  BY <1>6 DEF PoolInv, DeletionInv
<1> USE DEF Joining
<1>7. CASE \/ StartWait(t) \/ StartError(t) \/ StopNew(t) \/ StopActive(t) \/ StopLate(t)
           \/ StopControl(t)
  BY <1>5, <1>6, <1>7 DEF StartWait, StartError, StopNew, StopActive, StopLate, StopControl
<1>8. CASE StartClose(t) \/ StopClose(t)
  <2>1. \A s \in Ids : mailbox[s] = "freed" => mailbox'[s] = "freed"
    BY <1>8 DEF StartClose, StopClose, PoolInv, Types, BoxOK
  <2> QED
    BY <1>5, <1>6, <1>8, <2>1 DEF StartClose, StopClose
<1>9. CASE Retire(t)
  <2>1. pc[t] \in {"start_retire", "stop_retire", "free_retire"}
    BY <1>9 DEF Retire, AfterRetire
  <2>2. pc[t] = "free_retire" => AfterRetire[pc[t]] = "free_wait"
    BY DEF AfterRetire
  <2> QED
    BY <1>5, <1>6, <1>9, <2>1, <2>2 DEF Retire
<1>10. CASE \/ SendPin(t) \/ SendNoPin(t) \/ SendPush(t) \/ SendRefused(t)
  BY <1>5, <1>6, <1>10 DEF SendPin, SendNoPin, SendPush, SendRefused
<1>11. CASE \/ SendReady(t) \/ SendAsync(t) \/ SendAsyncFails(t) \/ SendUnpin(t)
  BY <1>5, <1>6, <1>11 DEF SendReady, SendAsync, SendAsyncFails, SendUnpin
<1>12. CASE JoinReturns(t) /\ ~(deletion.phase = "join" /\ deletion.by = t)
  <2>1. UNCHANGED deletion
    BY <1>12 DEF JoinReturns
  <2> QED
    BY <1>5, <1>12, <2>1 DEF JoinReturns
<1>13. CASE JoinBegin(t) \/ JoinThread(t) \/ FreeWait(t) \/ FreeTake(t)
  BY <1>5, <1>13 DEF JoinBegin, JoinThread, FreeWait, FreeTake
<1>14. CASE FreeDelete(t)
  <2>1. \A s \in Ids : mailbox[s] = "freed" => mailbox'[s] = "freed"
    BY <1>14 DEF FreeDelete, PoolInv, Types, BoxOK
  <2> QED
    BY <1>5, <1>14, <2>1 DEF FreeDelete
<1>15. CASE JoinDone(t)
  <2>1. mailbox[target[t]] = "freed"
    BY <1>15 DEF JoinDone, PoolInv, JoinInv, Joiner
  <2> QED
    BY <1>5, <1>15, <2>1 DEF JoinDone
<1> QED
  BY <1>1, <1>2, <1>7, <1>8, <1>9, <1>10, <1>11, <1>12, <1>13, <1>14, <1>15 DEF Continue

\* The service threads are calm.
LEMMA MainDeletion ==
    ASSUME PoolInv, NEW r \in Ids, Main(r) \/ LoopReturns(r)
    PROVE  DeletionInv'
<1> USE DEF registry, lifecycle, box, thread, args, frame
<1>1. deletion.phase # "freed"
  BY NoneAfterFree
<1>2. UNCHANGED deletion
  BY DEF Main, InitFails, InitLoop, InitAsync, InitLua, ScriptDone, StartOk,
         StartCancelled, Kick, OnInbox, Recv, PopMessage, PopNothing, Handled, OnControl,
         LoopReturns, Finish, ShutRetire, ShutClose, ShutWait, Drain, Drained,
         CloseHandles, Exit
<1>3. \A h \in Hosts : pc'[h] = pc[h] /\ target'[h] = target[h]
  <2>1. CASE Drain(r)
    BY <2>1, Identities DEF Drain, Goto, PoolInv, Types, PcOK, ArgsOK, Threads
  <2>2. CASE ~Drain(r)
    BY <2>2
    DEF Main, InitFails, InitLoop, InitAsync, InitLua, ScriptDone, StartOk,
        StartCancelled, Kick, OnInbox, Recv, PopMessage, PopNothing, Handled, OnControl,
        LoopReturns, Finish, ShutRetire, ShutClose, ShutWait, Drained, CloseHandles, Exit
  <2> QED
    BY <2>1, <2>2
<1>4. \A s \in Ids : mailbox[s] = "freed" => mailbox'[s] = "freed"
  <2>1. CASE ShutClose(r)
    <3>1. mailbox[r] # "freed"
      BY <2>1 DEF ShutClose, Step, PoolInv, ServiceInv, Life, Ended
    <3> QED
      BY <2>1, <3>1 DEF ShutClose, PoolInv, Types, BoxOK
  <2>2. CASE ~ShutClose(r)
    <3>1. UNCHANGED mailbox
      BY <2>2
      DEF Main, InitFails, InitLoop, InitAsync, InitLua, ScriptDone, StartOk,
          StartCancelled, Kick, OnInbox, Recv, PopMessage, PopNothing, Handled, OnControl,
          LoopReturns, Finish, ShutRetire, ShutWait, Drain, Drained, CloseHandles, Exit
    <3> QED
      BY <3>1
  <2> QED
    BY <2>1, <2>2
<1>5. deletion.phase # "no" => deletion.by \in Hosts
  BY DEF PoolInv, DeletionInv
<1>6. DeletionCalm
  BY <1>1, <1>2, <1>3, <1>4, <1>5 DEF DeletionCalm
<1> QED
  BY <1>6, DeletionKept

-----------------------------------------------------------------------------
(* The theorems *)

\* An empty pool has all of it.
LEMMA InitPoolInv == Init => PoolInv
<1> SUFFICES ASSUME Init PROVE PoolInv
  OBVIOUS
<1>1. 0 \in Ids /\ 0 \in 0 .. MaxServices /\ Ids \subseteq Threads
  BY PoolAssumption DEF Ids, Threads
<1>2. RegistryOK /\ LifecycleOK
  BY <1>1, PoolAssumption DEF Init, RegistryOK, LifecycleOK, States
<1>3. BoxOK /\ ThreadOK
  BY DEF Init, BoxOK, ThreadOK, MainLabels
<1>4. PcOK /\ ArgsOK /\ CallsOK
  BY <1>1, PoolAssumption DEF Init, PcOK, ArgsOK, CallsOK, Labels, States
<1>5. DeletionOK /\ DroppedOK
  BY <1>1 DEF Init, DeletionOK, DroppedOK
<1>6. PinInv
  <2> SUFFICES ASSUME NEW s \in Ids PROVE send_pins[s] = Cardinality(Senders(s))
    BY DEF PinInv
  <2>1. Senders(s) = {}
    BY DEF Init, Senders, Pinned
  <2> QED
    BY <2>1, FS_EmptySet DEF Init
<1>7. ServiceInv
  BY Identities DEF Init, ServiceInv, Life, Handles, Shutdown, Shuts, Closes, Drains, Ended,
                    Loop
<1>8. CallInv /\ AsyncInv
  BY <1>1 DEF Init, CallInv, AsyncInv
<1>9. JoinInv
  BY DEF Init, JoinInv, Joiner, Joining
<1>10. StopInv /\ RunInv
  BY DEF Init, StopInv, RunInv, Stopper, Signals, Stopping
<1>11. DeletionInv
  BY DEF Init, DeletionInv
<1> QED
  BY <1>2, <1>3, <1>4, <1>5, <1>6, <1>7, <1>8, <1>9, <1>10, <1>11 DEF PoolInv, Types

\* Every step keeps all of it.
LEMMA NextPoolInv == PoolInv /\ [Next]_vars => PoolInv'
<1> SUFFICES ASSUME PoolInv, [Next]_vars PROVE PoolInv'
  OBVIOUS
<1>0. Types /\ PinInv
  BY DEF PoolInv
<1>1. ASSUME NEW t \in Threads, Begin(t) PROVE PoolInv'
  BY <1>0, <1>1, BeginTypes, BeginPins, BeginService, BeginCall, BeginJoin, BeginStop,
     BeginDeletion DEF PoolInv
<1>2. ASSUME NEW t \in Threads, Continue(t) PROVE PoolInv'
  <2>1. SendUnpin(t) => send_pins[target[t]] > 0
    BY <1>0, SenderCounted DEF SendUnpin, Pinned
  <2>2. Types'
    BY <1>0, <1>2, <2>1, ContinueTypes
  <2> QED
    BY <1>0, <1>2, <2>2, ContinuePins, ContinueService, ContinueCall, ContinueJoin,
       ContinueStop, ContinueDeletion DEF PoolInv
<1>3. ASSUME NEW s \in Ids, Main(s) \/ LoopReturns(s) PROVE PoolInv'
  BY <1>0, <1>3, MainTypes, MainPins, MainService, MainCall, MainJoin, MainStop,
     MainDeletion DEF PoolInv
<1>4. ASSUME UNCHANGED vars PROVE PoolInv'
  <2>1. UNCHANGED <<registry, lifecycle, box, thread, frame, deletion, dropped>>
    BY <1>4 DEF vars
  <2>2. Types'
    BY <1>0, <2>1, TypesKept DEF Types, frame
  <2>3. PinInv'
    BY <1>0, <2>1, PinsKept DEF SendersSame, registry, frame, args
  <2> USE DEF registry, lifecycle, box, thread, frame, args
  <2>4. ServiceInv'
    BY <2>1, ServiceKept DEF PoolInv, serviceVars
  <2>5. CallInv' /\ AsyncInv'
    BY <2>1 DEF PoolInv, CallInv, AsyncInv
  <2>6. JoinInv'
    BY <2>1, JoinKept DEF JoinCalm
  <2>7. StopInv' /\ RunInv'
    BY <2>1 DEF PoolInv, StopInv, RunInv, Stopper, Signals
  <2>8. DeletionInv'
    BY <2>1 DEF PoolInv, DeletionInv, FreedPoolIsUnused
  <2> QED
    BY <2>2, <2>3, <2>4, <2>5, <2>6, <2>7, <2>8 DEF PoolInv
<1> QED
  BY <1>1, <1>2, <1>3, <1>4 DEF Next, Quiet

\* The invariant holds in every reachable state of any pool.
THEOREM PoolInvariant == Spec => []PoolInv
  BY InitPoolInv, NextPoolInv, PTL DEF Spec

\* Every variable keeps its type, whatever the hosts, the ids and the number of
\* calls: service_unpin never takes a pin that is not there, service_new never
\* gives out an id beyond the table, and service_pool_delete never runs past it.
THEOREM PoolTypeOK == Spec => []TypeOK
<1>1. PoolInv => TypeOK
  BY TypesAreTypeOK DEF PoolInv
<1> QED
  BY <1>1, PoolInvariant, PTL

\* A sender past its pin never works on a mailbox that service_free has deleted
\* or signals a handle that is closed, however many threads send to, stop, join
\* and delete the service meanwhile.
THEOREM PoolSendIsSafe == Spec => []SendIsSafe
<1>1. PoolInv => SendIsSafe
  <2> SUFFICES ASSUME PoolInv, NEW t \in Threads
               PROVE  /\ pc[t] \in Pinned => mailbox[target[t]] # "freed"
                      /\ pc[t] = "send_async" => "inbox" \in handles[target[t]]
    BY DEF SendIsSafe
  <2>1. ASSUME pc[t] \in Pinned PROVE mailbox[target[t]] # "freed"
    <3>1. target[t] \in Ids /\ send_pins[target[t]] > 0
      BY <2>1, SenderCounted DEF PoolInv
    <3> QED
      BY <3>1 DEF PoolInv, ServiceInv, Life
  <2> QED
    BY <2>1 DEF PoolInv, AsyncInv
<1> QED
  BY <1>1, PoolInvariant, PTL

\* One thread joins a service and deletes its mailbox, however many call
\* service_join, and the others return only when it is deleted.
THEOREM PoolFreedOnce == Spec => []FreedOnce
<1>1. PoolInv => FreedOnce
  <2> SUFFICES ASSUME PoolInv, NEW s \in Ids
               PROVE  /\ Cardinality({t \in Threads : target[t] = s /\ pc[t] \in Joining})
                           = (IF joining[s] THEN 1 ELSE 0)
                      /\ thread_joined[s] /\ ~joining[s] => mailbox[s] = "freed"
    BY DEF FreedOnce, Joining
  <2> DEFINE joiners == {t \in Threads : target[t] = s /\ pc[t] \in Joining}
  <2>1. CASE joining[s]
    <3>1. PICK t \in Threads : pc[t] \in Joining /\ target[t] = s
      BY <2>1 DEF PoolInv, JoinInv
    <3>2. joiners = {t}
      BY <3>1 DEF PoolInv, JoinInv
    <3> QED
      BY <2>1, <3>2, FS_Singleton
  <2>2. CASE ~joining[s]
    <3>1. joiners = {}
      BY <2>2 DEF PoolInv, JoinInv, Joiner
    <3> QED
      BY <2>2, <3>1, FS_EmptySet DEF PoolInv, JoinInv
  <2> QED
    BY <2>1, <2>2
<1> QED
  BY <1>1, PoolInvariant, PTL

\* A service that had a thread leaves no request unanswered in its mailbox:
\* when its thread closes the loop, the mailbox is closed, no sender is on its
\* way and the drain has emptied it.
THEOREM PoolNoneDropped == Spec => []NoneDropped
<1>1. PoolInv => NoneDropped
  BY DEF PoolInv, ServiceInv, Shutdown, NoneDropped, HasThread
<1> QED
  BY <1>1, PoolInvariant, PTL

\* When service_pool_delete has freed the pool, no service thread is alive, no
\* thread is inside a call and every mailbox is deleted, also when handlers
\* create and start services while the pool is being deleted.
THEOREM PoolFreedIsUnused == Spec => []FreedPoolIsUnused
<1>1. PoolInv => FreedPoolIsUnused
  BY DEF PoolInv, DeletionInv, FreedPoolIsUnused
<1> QED
  BY <1>1, PoolInvariant, PTL

\* If Lua code does not call uv.stop, a service_stop that found the service
\* running closes a mailbox that exists and signals a control handle that is
\* open, although it has unlocked: nothing else can bring the thread out of its
\* loop.
THEOREM PoolStopOfRunningIsSafe ==
    ASSUME ~LoopMayReturn
    PROVE  Spec => []StopOfRunningIsSafe
<1>1. PoolInv => StopOfRunningIsSafe
  <2> SUFFICES ASSUME PoolInv, NEW t \in Threads, pc[t] \in Stopping, found[t] = "running"
               PROVE  PointersGood(t)
    BY DEF StopOfRunningIsSafe, Stopping
  <2>1. PICK r \in Ids : r = target[t]
    BY DEF PoolInv, Types, ArgsOK
  <2>2. main[r] \in Loop
    BY <2>1 DEF PoolInv, RunInv, Stopper
  <2>3. mailbox[r] # "freed"
    BY <2>2 DEF PoolInv, ServiceInv, Life, Loop, Ended
  <2>4. "control" \in handles[r]
    BY <2>2 DEF PoolInv, ServiceInv, Handles
  <2> QED
    BY <2>1, <2>3, <2>4 DEF PointersGood
<1> QED
  BY <1>1, PoolInvariant, PTL

=============================================================================
