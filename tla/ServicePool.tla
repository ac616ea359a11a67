---------------------------- MODULE ServicePool ----------------------------
(***************************************************************************)
(* The life of the services of one pool (src/service.c): service_new,      *)
(* service_start, the service thread from service_thread_main to           *)
(* service_finish_thread, service_send with its pins, service_stop,        *)
(* service_join with service_free, and service_pool_delete.                *)
(*                                                                         *)
(* Every thread, host or service, is inside at most one of these calls.    *)
(* A section under pool->lock, under state_lock or under the mailbox lock  *)
(* is one step, so are uv_async_send and a wait that has ended; what a     *)
(* thread remembers between two sections is in its locals.                 *)
(*                                                                         *)
(* The mailbox is the queue it is shown to be in module Mailbox, with its  *)
(* scheduled flag.  A message is the service that waits for a reply to it, *)
(* or NoReply.  What handlers compute is left out; they make calls.        *)
(***************************************************************************)
EXTENDS Naturals, Sequences, FiniteSets

CONSTANTS
    Hosts,          \* threads that are not service threads
    MaxServices,    \* MAX_SERVICES
    Names, NoName,  \* service names, NoName for an unnamed service
    NoReply,        \* a message nobody waits for a reply to
    HostOps,        \* the calls hosts make: a subset of Ops
    HandlerOps,     \* the calls made by scripts and message handlers
    MaxHostCalls,   \* bound: how many calls each host starts
    MaxHandlerCalls,\* bound: how many calls the Lua code of a service starts
    LoopMayReturn   \* whether Lua code may stop its event loop (uv.stop)

Ids == 0 .. MaxServices - 1
Threads == Hosts \cup Ids
Ops == {"new", "start", "stop", "send", "join", "delete"}

ASSUME PoolAssumption ==
    /\ IsFiniteSet(Hosts)
    /\ Hosts \cap Nat = {}
    /\ MaxServices \in Nat \ {0}
    /\ NoName \in Names
    /\ NoReply \notin Nat
    /\ HostOps \subseteq Ops
    /\ HandlerOps \subseteq Ops \ {"delete"}
    /\ MaxHostCalls \in Nat
    /\ MaxHandlerCalls \in Nat
    /\ LoopMayReturn \in BOOLEAN

\* enum service_state; "none" is an id that was not given out yet.
Order == [none |-> 0, new |-> 1, starting |-> 2, running |-> 3, stopping |-> 4,
          stopped |-> 5, joined |-> 6, freed |-> 7]

VARIABLES
    \* struct service_pool and what its lock protects
    next_id, name, routable, send_pins,
    \* struct service, under state_lock
    state, stop_requested,
    start,          \* start_done and start_error: "pending", "ok" or "failed"
    joining, thread_joined,
    ready,          \* inbox_async_ready, control_async_ready
    \* the mailbox
    mailbox,        \* "open", "closed" or "freed"
    inbox, scheduled,
    \* the service thread and its event loop
    main,           \* where the thread is; "none" when there is no thread
    handles,        \* the async handles that are initialised and not closed
    pending,        \* the async handles that were sent and have not fired
    \* the call a thread is in
    pc, target,
    message,        \* what service_send sends
    hold,           \* pointers service_stop keeps after it has unlocked
    found,          \* the state service_stop found
    calls,          \* calls the thread may still start
    deletion,       \* the loops of service_pool_delete
    dropped         \* history: requests disposed of without a reply

registry == <<next_id, name, routable, send_pins>>
lifecycle == <<state, stop_requested, start, joining, thread_joined>>
box == <<mailbox, inbox, scheduled>>
thread == <<ready, main, handles, pending>>
args == <<target, message, hold, found>>
frame == <<pc, args, calls>>
vars == <<registry, lifecycle, box, thread, frame, deletion, dropped>>

HasThread(s) == main[s] # "none"

\* A thread starts no call while it is in one; a service thread makes calls in
\* its script and its message handlers, a host until it deletes the pool.
MayCall(t, op) ==
    /\ pc[t] = "idle"
    /\ calls[t] > 0
    /\ IF t \in Hosts THEN op \in HostOps /\ deletion.phase = "no"
                      ELSE op \in HandlerOps /\ main[t] \in {"script", "handle"}

Goto(t, l) == pc' = [pc EXCEPT ![t] = l]

\* t starts a call on service s at label l.
Call(t, op, s, l) ==
    /\ MayCall(t, op)
    /\ Goto(t, l)
    /\ target' = [target EXCEPT ![t] = s]
    /\ calls' = [calls EXCEPT ![t] = @ - 1]

Init ==
    /\ next_id = 0
    /\ name = [s \in Ids |-> NoName]
    /\ routable = [s \in Ids |-> FALSE]
    /\ send_pins = [s \in Ids |-> 0]
    /\ state = [s \in Ids |-> "none"]
    /\ stop_requested = [s \in Ids |-> FALSE]
    /\ start = [s \in Ids |-> "pending"]
    /\ joining = [s \in Ids |-> FALSE]
    /\ thread_joined = [s \in Ids |-> FALSE]
    /\ ready = [s \in Ids |-> {}]
    /\ mailbox = [s \in Ids |-> "open"]
    /\ inbox = [s \in Ids |-> <<>>]
    /\ scheduled = [s \in Ids |-> FALSE]
    /\ main = [s \in Ids |-> "none"]
    /\ handles = [s \in Ids |-> {}]
    /\ pending = [s \in Ids |-> {}]
    /\ pc = [t \in Threads |-> "idle"]
    /\ target = [t \in Threads |-> 0]
    /\ message = [t \in Threads |-> NoReply]
    /\ hold = [t \in Threads |-> {}]
    /\ found = [t \in Threads |-> "none"]
    /\ calls = [t \in Threads |-> IF t \in Hosts THEN MaxHostCalls ELSE MaxHandlerCalls]
    /\ deletion = [phase |-> "no", id |-> 0, by |-> NoReply]
    /\ dropped = [s \in Ids |-> 0]

-----------------------------------------------------------------------------
(* service_new *)

\* A name is taken while a service that has it is routable.
NameFree(n) ==
    n = NoName \/ \A s \in 0 .. next_id - 1 : ~(routable[s] /\ name[s] = n)

\* A new service is routable at once, in state NEW.  (A call that finds the
\* pool full or the name taken changes nothing.)
New(t, n) ==
    /\ MayCall(t, "new")
    /\ next_id < MaxServices
    /\ NameFree(n)
    /\ next_id' = next_id + 1
    /\ name' = [name EXCEPT ![next_id] = n]
    /\ routable' = [routable EXCEPT ![next_id] = TRUE]
    /\ state' = [state EXCEPT ![next_id] = "new"]
    /\ calls' = [calls EXCEPT ![t] = @ - 1]
    /\ UNCHANGED <<send_pins, stop_requested, start, joining, thread_joined, box,
                   thread, pc, args, deletion, dropped>>

-----------------------------------------------------------------------------
(* service_start, as lservice_start calls it *)

StartThread(t, s) ==
    /\ Call(t, "start", s, "start_wait")
    /\ state[s] = "new"
    /\ state' = [state EXCEPT ![s] = "starting"]
    /\ main' = [main EXCEPT ![s] = "init"]
    /\ UNCHANGED <<registry, stop_requested, start, joining, thread_joined, box,
                   ready, handles, pending, message, hold, found, deletion,
                   dropped>>

\* pthread_create fails.
StartFails(t, s) ==
    /\ Call(t, "start", s, "start_retire")
    /\ state[s] = "new"
    /\ state' = [state EXCEPT ![s] = "stopped"]
    /\ start' = [start EXCEPT ![s] = "failed"]
    /\ UNCHANGED <<registry, stop_requested, joining, thread_joined, box, thread,
                   message, hold, found, deletion, dropped>>

\* EALREADY.
StartAgain(t, s) ==
    /\ Call(t, "start", s, "start_error")
    /\ state[s] \notin {"none", "new"}
    /\ UNCHANGED <<registry, lifecycle, box, thread, message, hold, found,
                   deletion, dropped>>

StartClose(t) ==
    /\ pc[t] = "start_close"
    /\ mailbox' = [mailbox EXCEPT ![target[t]] = IF @ = "freed" THEN @ ELSE "closed"]
    /\ Goto(t, "start_error")
    /\ UNCHANGED <<registry, lifecycle, inbox, scheduled, thread, args, calls,
                   deletion, dropped>>

StartWait(t) ==
    /\ pc[t] = "start_wait"
    /\ start[target[t]] # "pending"
    /\ Goto(t, IF start[target[t]] = "ok" THEN "idle" ELSE "start_error")
    /\ UNCHANGED <<registry, lifecycle, box, thread, args, calls, deletion, dropped>>

\* A service that did not start is joined before the error is raised.
StartError(t) ==
    /\ pc[t] = "start_error"
    /\ Goto(t, IF Order[state[target[t]]] >= Order.stopping THEN "join" ELSE "idle")
    /\ UNCHANGED <<registry, lifecycle, box, thread, args, calls, deletion, dropped>>

-----------------------------------------------------------------------------
(* service_retire, wherever a call makes it *)

AfterRetire == [start_retire |-> "start_close", stop_retire |-> "stop_state",
                free_retire |-> "free_wait"]

Retire(t) ==
    /\ pc[t] \in DOMAIN AfterRetire
    /\ routable' = [routable EXCEPT ![target[t]] = FALSE]
    /\ Goto(t, AfterRetire[pc[t]])
    /\ UNCHANGED <<next_id, name, send_pins, lifecycle, box, thread, args, calls,
                   deletion, dropped>>

-----------------------------------------------------------------------------
(* service_stop *)

Stop(t, s) ==
    /\ Call(t, "stop", s, "stop_retire")
    /\ state[s] # "none"
    /\ UNCHANGED <<registry, lifecycle, box, thread, message, hold, found,
                   deletion, dropped>>

\* What stop does under the state lock, from the state it finds.  It keeps the
\* pointers to the mailbox and to the control handle and uses them unlocked.
StopNew(t) ==
    LET s == target[t] IN
    /\ pc[t] = "stop_state"
    /\ state[s] = "new"
    /\ state' = [state EXCEPT ![s] = "stopped"]
    /\ start' = [start EXCEPT ![s] = "failed"]
    /\ stop_requested' = [stop_requested EXCEPT ![s] = TRUE]
    /\ hold' = [hold EXCEPT ![t] = {"inbox"}]
    /\ found' = [found EXCEPT ![t] = state[s]]
    /\ Goto(t, "stop_close")
    /\ UNCHANGED <<registry, joining, thread_joined, box, thread, target, message,
                   calls, deletion, dropped>>

\* Wrong forms, here and below, show that the properties can fail.  In this
\* one the thread is not told.
StopActiveNoControl(t) ==
    LET s == target[t] IN
    /\ pc[t] = "stop_state"
    /\ state[s] \in {"starting", "running"}
    /\ state' = [state EXCEPT ![s] = "stopping"]
    /\ stop_requested' = [stop_requested EXCEPT ![s] = TRUE]
    /\ hold' = [hold EXCEPT ![t] = {"inbox"}]
    /\ found' = [found EXCEPT ![t] = state[s]]
    /\ Goto(t, "stop_close")
    /\ UNCHANGED <<registry, start, joining, thread_joined, box, thread, target,
                   message, calls, deletion, dropped>>

StopActive(t) ==
    LET s == target[t]
        first == ~stop_requested[s] IN
    /\ pc[t] = "stop_state"
    /\ state[s] \in {"starting", "running"}
    /\ state' = [state EXCEPT ![s] = "stopping"]
    /\ stop_requested' = [stop_requested EXCEPT ![s] = TRUE]
    /\ hold' = [hold EXCEPT ![t] =
                   {"inbox"} \cup (IF first THEN ready[s] \cap {"control"} ELSE {})]
    /\ found' = [found EXCEPT ![t] = state[s]]
    /\ Goto(t, "stop_close")
    /\ UNCHANGED <<registry, start, joining, thread_joined, box, thread, target,
                   message, calls, deletion, dropped>>

StopLate(t) ==
    /\ pc[t] = "stop_state"
    /\ Order[state[target[t]]] >= Order.stopping
    /\ Goto(t, "idle")
    /\ UNCHANGED <<registry, lifecycle, box, thread, args, calls, deletion, dropped>>

StopClose(t) ==
    /\ pc[t] = "stop_close"
    /\ mailbox' = [mailbox EXCEPT ![target[t]] = IF @ = "freed" THEN @ ELSE "closed"]
    /\ Goto(t, IF "control" \in hold[t] THEN "stop_control" ELSE "idle")
    /\ UNCHANGED <<registry, lifecycle, inbox, scheduled, thread, args, calls,
                   deletion, dropped>>

StopControl(t) ==
    /\ pc[t] = "stop_control"
    /\ pending' = [pending EXCEPT ![target[t]] = @ \cup {"control"}]
    /\ Goto(t, "idle")
    /\ UNCHANGED <<registry, lifecycle, box, ready, main, handles, args, calls,
                   deletion, dropped>>

-----------------------------------------------------------------------------
(* service_send *)

\* A service thread may ask for a reply, to itself.
Send(t, s, m) ==
    /\ Call(t, "send", s, "send_pin")
    /\ m \in {NoReply} \cup ({t} \cap Ids)
    /\ message' = [message EXCEPT ![t] = m]
    /\ UNCHANGED <<registry, lifecycle, box, thread, hold, found, deletion, dropped>>

\* service_pool_pin: only a routable service can be pinned.
Pinnable(s) == routable[s]

SendPin(t) ==
    LET s == target[t] IN
    /\ pc[t] = "send_pin"
    /\ Pinnable(s)
    /\ send_pins' = [send_pins EXCEPT ![s] = @ + 1]
    /\ Goto(t, "send_push")
    /\ UNCHANGED <<next_id, name, routable, lifecycle, box, thread, args, calls,
                   deletion, dropped>>

\* Wrong: a send that was refused its pin gives one back.
SendNoPinUnpins(t) ==
    /\ pc[t] = "send_pin"
    /\ ~Pinnable(target[t])
    /\ Goto(t, "send_unpin")
    /\ UNCHANGED <<registry, lifecycle, box, thread, args, calls, deletion, dropped>>

\* NOT_FOUND, STOPPING or STOPPED.
SendNoPin(t) ==
    /\ pc[t] = "send_pin"
    /\ ~Pinnable(target[t])
    /\ Goto(t, "idle")
    /\ UNCHANGED <<registry, lifecycle, box, thread, args, calls, deletion, dropped>>

\* mailbox_try_push; it claims the wakeup if nobody else has.
SendPush(t) ==
    LET s == target[t] IN
    /\ pc[t] = "send_push"
    /\ mailbox[s] = "open"
    /\ inbox' = [inbox EXCEPT ![s] = Append(@, message[t])]
    /\ scheduled' = [scheduled EXCEPT ![s] = TRUE]
    /\ Goto(t, IF scheduled[s] THEN "send_unpin" ELSE "send_ready")
    /\ UNCHANGED <<registry, lifecycle, mailbox, thread, args, calls, deletion,
                   dropped>>

\* The mailbox is closed, or out of memory.
SendRefused(t) ==
    /\ pc[t] = "send_push"
    /\ Goto(t, "send_unpin")
    /\ UNCHANGED <<registry, lifecycle, box, thread, args, calls, deletion, dropped>>

\* Is there an event loop to wake?
SendReady(t) ==
    /\ pc[t] = "send_ready"
    /\ Goto(t, IF "inbox" \in ready[target[t]] THEN "send_async" ELSE "send_unpin")
    /\ UNCHANGED <<registry, lifecycle, box, thread, args, calls, deletion, dropped>>

SendAsync(t) ==
    /\ pc[t] = "send_async"
    /\ pending' = [pending EXCEPT ![target[t]] = @ \cup {"inbox"}]
    /\ Goto(t, "send_unpin")
    /\ UNCHANGED <<registry, lifecycle, box, ready, main, handles, args, calls,
                   deletion, dropped>>

\* uv_async_send reports an error: the service is stopped after the unpin.
SendAsyncFails(t) ==
    /\ pc[t] = "send_async"
    /\ Goto(t, "send_fail")
    /\ UNCHANGED <<registry, lifecycle, box, thread, args, calls, deletion, dropped>>

SendUnpin(t) ==
    /\ pc[t] \in {"send_unpin", "send_fail"}
    /\ send_pins' = [send_pins EXCEPT ![target[t]] = @ - 1]
    /\ Goto(t, IF pc[t] = "send_fail" THEN "stop_retire" ELSE "idle")
    /\ UNCHANGED <<next_id, name, routable, lifecycle, box, thread, args, calls,
                   deletion, dropped>>

-----------------------------------------------------------------------------
(* service_join and service_free *)

Join(t, s) ==
    /\ Call(t, "join", s, "join")
    /\ state[s] # "none"
    /\ UNCHANGED <<registry, lifecycle, box, thread, message, hold, found,
                   deletion, dropped>>

\* EDEADLK, the result of an earlier join, or EINVAL: join ends at once.
\* service_pool_delete gives up when it is told EINVAL.
JoinReturns(t) ==
    LET s == target[t]
        done == thread_joined[s] \/ state[s] = "freed"
        invalid == ~HasThread(s) /\ state[s] # "stopped" IN
    /\ pc[t] = "join"
    /\ t = s \/ (~joining[s] /\ (done \/ invalid))
    /\ Goto(t, "idle")
    /\ deletion' = IF deletion.phase = "join" /\ deletion.by = t /\ ~done
                   THEN [deletion EXCEPT !.phase = "failed"] ELSE deletion
    /\ UNCHANGED <<registry, lifecycle, box, thread, args, calls, dropped>>

\* Wrong: no waiting for another thread that is joining.
JoinBeginTogether(t) ==
    LET s == target[t] IN
    /\ pc[t] = "join"
    /\ t # s
    /\ ~thread_joined[s]
    /\ HasThread(s) \/ state[s] = "stopped"
    /\ joining' = [joining EXCEPT ![s] = TRUE]
    /\ Goto(t, "join_thread")
    /\ UNCHANGED <<registry, state, stop_requested, start, thread_joined, box,
                   thread, args, calls, deletion, dropped>>

\* The first thread that can join does; others wait until it is through.
JoinBegin(t) ==
    LET s == target[t] IN
    /\ pc[t] = "join"
    /\ t # s
    /\ ~joining[s]
    /\ ~thread_joined[s]
    /\ HasThread(s) \/ state[s] = "stopped"
    /\ joining' = [joining EXCEPT ![s] = TRUE]
    /\ Goto(t, "join_thread")
    /\ UNCHANGED <<registry, state, stop_requested, start, thread_joined, box,
                   thread, args, calls, deletion, dropped>>

\* pthread_join has returned.
JoinThread(t) ==
    LET s == target[t] IN
    /\ pc[t] = "join_thread"
    /\ HasThread(s) => main[s] = "exited"
    /\ thread_joined' = [thread_joined EXCEPT ![s] = TRUE]
    /\ state' = [state EXCEPT ![s] = "joined"]
    /\ Goto(t, "free_retire")
    /\ UNCHANGED <<registry, stop_requested, start, joining, box, thread, args,
                   calls, deletion, dropped>>

\* Wrong: no waiting for the senders.
PinsIgnored(s) == TRUE

\* service_wait_pins in service_free.
PinsGone(s) == send_pins[s] = 0

FreeWait(t) ==
    /\ pc[t] = "free_wait"
    /\ PinsGone(target[t])
    /\ Goto(t, "free_take")
    /\ UNCHANGED <<registry, lifecycle, box, thread, args, calls, deletion, dropped>>

FreeTake(t) ==
    LET s == target[t] IN
    /\ pc[t] = "free_take"
    /\ state[s] = "joined"
    /\ state' = [state EXCEPT ![s] = "freed"]
    /\ Goto(t, "free_delete")
    /\ UNCHANGED <<registry, stop_requested, start, joining, thread_joined, box,
                   thread, args, calls, deletion, dropped>>

Requests(q) == {i \in DOMAIN q : q[i] # NoReply}

\* mailbox_delete: closes, disposes of what is left without replying, frees.
FreeDelete(t) ==
    LET s == target[t] IN
    /\ pc[t] = "free_delete"
    /\ mailbox' = [mailbox EXCEPT ![s] = "freed"]
    /\ inbox' = [inbox EXCEPT ![s] = <<>>]
    /\ dropped' = [dropped EXCEPT ![s] = @ + Cardinality(Requests(inbox[s]))]
    /\ scheduled' = [scheduled EXCEPT ![s] = FALSE]
    /\ Goto(t, "join_done")
    /\ UNCHANGED <<registry, lifecycle, thread, args, calls, deletion>>

JoinDone(t) ==
    /\ pc[t] = "join_done"
    /\ joining' = [joining EXCEPT ![target[t]] = FALSE]
    /\ Goto(t, "idle")
    /\ UNCHANGED <<registry, state, stop_requested, start, thread_joined, box,
                   thread, args, calls, deletion, dropped>>

-----------------------------------------------------------------------------
(* The service thread: service_thread_main *)

Step(s, from, to) ==
    /\ main[s] = from
    /\ main' = [main EXCEPT ![s] = to]

\* service_init_loop and service_init_lua, each of which can fail.
InitFails(s) ==
    /\ \E l \in {"init", "init_inbox", "init_control", "script"} :
          Step(s, l, "give_up")
    /\ pc[s] = "idle"
    /\ UNCHANGED <<registry, lifecycle, box, ready, handles, pending, frame,
                   deletion, dropped>>

InitLoop(s) ==
    /\ Step(s, "init", "init_inbox")
    /\ UNCHANGED <<registry, lifecycle, box, ready, handles, pending, frame,
                   deletion, dropped>>

InitAsync(s, h) ==
    /\ \/ h = "inbox" /\ Step(s, "init_inbox", "init_control")
       \/ h = "control" /\ Step(s, "init_control", "init_lua")
    /\ handles' = [handles EXCEPT ![s] = @ \cup {h}]
    /\ ready' = [ready EXCEPT ![s] = @ \cup {h}]
    /\ UNCHANGED <<registry, lifecycle, box, pending, frame, deletion, dropped>>

\* Lua is skipped when a stop has been requested already.
InitLua(s) ==
    /\ Step(s, "init_lua", IF stop_requested[s] THEN "decide" ELSE "script")
    /\ UNCHANGED <<registry, lifecycle, box, ready, handles, pending, frame,
                   deletion, dropped>>

\* The source of the service has run, and made its calls.
ScriptDone(s) ==
    /\ pc[s] = "idle"
    /\ Step(s, "script", "decide")
    /\ UNCHANGED <<registry, lifecycle, box, ready, handles, pending, frame,
                   deletion, dropped>>

\* The service runs unless it failed or was stopped before this point.
StartOk(s) ==
    /\ Step(s, "decide", "kick")
    /\ ~stop_requested[s]
    /\ state' = [state EXCEPT ![s] = "running"]
    /\ start' = [start EXCEPT ![s] = "ok"]
    /\ UNCHANGED <<registry, stop_requested, joining, thread_joined, box, ready,
                   handles, pending, frame, deletion, dropped>>

\* Wrong: the thread in service_start is not told.
StartCancelledSilently(s) ==
    /\ \/ Step(s, "give_up", "finish")
       \/ stop_requested[s] /\ Step(s, "decide", "finish")
    /\ state' = [state EXCEPT ![s] = "stopping"]
    /\ UNCHANGED <<registry, stop_requested, start, joining, thread_joined, box,
                   ready, handles, pending, frame, deletion, dropped>>

StartCancelled(s) ==
    /\ \/ Step(s, "give_up", "finish")
       \/ stop_requested[s] /\ Step(s, "decide", "finish")
    /\ state' = [state EXCEPT ![s] = "stopping"]
    /\ start' = [start EXCEPT ![s] = "failed"]
    /\ UNCHANGED <<registry, stop_requested, joining, thread_joined, box, ready,
                   handles, pending, frame, deletion, dropped>>

\* Covers messages accepted before inbox_async was initialised.
Kick(s) ==
    /\ Step(s, "kick", "poll")
    /\ pending' = [pending EXCEPT ![s] = @ \cup {"inbox"}]
    /\ UNCHANGED <<registry, lifecycle, box, ready, handles, frame, deletion,
                   dropped>>

-----------------------------------------------------------------------------
(* The event loop: service_async_cb and service_control_cb *)

OnInbox(s) ==
    /\ "inbox" \in pending[s]
    /\ Step(s, "poll", IF state[s] = "running" THEN "recv" ELSE "poll")
    /\ pending' = [pending EXCEPT ![s] = @ \ {"inbox"}]
    /\ UNCHANGED <<registry, lifecycle, box, ready, handles, frame, deletion,
                   dropped>>

\* Wrong: the thread leaves its loop when it sees that it is stopped, before
\* the control handle is signalled.
RecvLeaves(s) ==
    /\ Step(s, "recv", IF state[s] = "running" THEN "pop" ELSE "finish")
    /\ UNCHANGED <<registry, lifecycle, box, ready, handles, pending, frame,
                   deletion, dropped>>

\* service_recv: a look at the state, then a pop.  (The bound on a batch is
\* in module Mailbox.)
Recv(s) ==
    /\ Step(s, "recv", IF state[s] = "running" THEN "pop" ELSE "poll")
    /\ UNCHANGED <<registry, lifecycle, box, ready, handles, pending, frame,
                   deletion, dropped>>

PopMessage(s) ==
    /\ Step(s, "pop", "handle")
    /\ inbox[s] # <<>>
    /\ inbox' = [inbox EXCEPT ![s] = Tail(@)]
    /\ UNCHANGED <<registry, lifecycle, mailbox, scheduled, ready, handles,
                   pending, frame, deletion, dropped>>

PopNothing(s) ==
    /\ Step(s, "pop", "poll")
    /\ inbox[s] = <<>>
    /\ scheduled' = [scheduled EXCEPT ![s] = FALSE]
    /\ UNCHANGED <<registry, lifecycle, mailbox, inbox, ready, handles, pending,
                   frame, deletion, dropped>>

\* The handler has made its calls.
Handled(s) ==
    /\ pc[s] = "idle"
    /\ Step(s, "handle", "recv")
    /\ UNCHANGED <<registry, lifecycle, box, ready, handles, pending, frame,
                   deletion, dropped>>

OnControl(s) ==
    /\ "control" \in pending[s]
    /\ Step(s, "poll", IF stop_requested[s] THEN "c_retire" ELSE "poll")
    /\ pending' = [pending EXCEPT ![s] = @ \ {"control"}]
    /\ UNCHANGED <<registry, lifecycle, box, ready, handles, frame, deletion,
                   dropped>>

\* uv.stop called by Lua code: uv_run returns although nobody stopped the
\* service.
LoopReturns(s) ==
    /\ LoopMayReturn
    /\ Step(s, "poll", "finish")
    /\ UNCHANGED <<registry, lifecycle, box, ready, handles, pending, frame,
                   deletion, dropped>>

\* service_finish_thread begins.
Finish(s) ==
    /\ Step(s, "finish", "f_retire")
    /\ state' = [state EXCEPT ![s] =
                    IF Order[@] < Order.stopping THEN "stopping" ELSE @]
    /\ UNCHANGED <<registry, stop_requested, start, joining, thread_joined, box,
                   ready, handles, pending, frame, deletion, dropped>>

-----------------------------------------------------------------------------
(* service_prepare_shutdown, in service_control_cb (c_) and again in        *)
(* service_finish_thread (f_): retire, close, wait for the senders, drain.  *)

ShutRetire(s) ==
    /\ Step(s, "c_retire", "c_close") \/ Step(s, "f_retire", "f_close")
    /\ routable' = [routable EXCEPT ![s] = FALSE]
    /\ UNCHANGED <<next_id, name, send_pins, lifecycle, box, ready, handles,
                   pending, frame, deletion, dropped>>

ShutClose(s) ==
    /\ Step(s, "c_close", "c_wait") \/ Step(s, "f_close", "f_wait")
    /\ mailbox' = [mailbox EXCEPT ![s] = "closed"]
    /\ UNCHANGED <<registry, lifecycle, inbox, scheduled, ready, handles, pending,
                   frame, deletion, dropped>>

ShutWait(s) ==
    /\ Step(s, "c_wait", "c_drain") \/ Step(s, "f_wait", "f_drain")
    /\ PinsGone(s)
    /\ UNCHANGED <<registry, lifecycle, box, ready, handles, pending, frame,
                   deletion, dropped>>

\* service_drain_mailbox sends an ERROR to the service that waits.
Drain(s) ==
    /\ main[s] \in {"c_drain", "f_drain"}
    /\ pc[s] = "idle"
    /\ inbox[s] # <<>>
    /\ inbox' = [inbox EXCEPT ![s] = Tail(@)]
    /\ IF Head(inbox[s]) = NoReply
         THEN UNCHANGED <<pc, target, message>>
         ELSE /\ Goto(s, "send_pin")
              /\ target' = [target EXCEPT ![s] = Head(inbox[s])]
              /\ message' = [message EXCEPT ![s] = NoReply]
    /\ UNCHANGED <<registry, lifecycle, mailbox, scheduled, thread, hold, found,
                   calls, deletion, dropped>>

\* Wrong: the drain ends although messages are left.
DrainedEarly(s) ==
    /\ Step(s, "c_drain", "c_handles") \/ Step(s, "f_drain", "f_loop")
    /\ pc[s] = "idle"
    /\ scheduled' = [scheduled EXCEPT ![s] = FALSE]
    /\ UNCHANGED <<registry, lifecycle, mailbox, inbox, ready, handles, pending,
                   frame, deletion, dropped>>

Drained(s) ==
    /\ Step(s, "c_drain", "c_handles") \/ Step(s, "f_drain", "f_loop")
    /\ pc[s] = "idle"
    /\ inbox[s] = <<>>
    /\ scheduled' = [scheduled EXCEPT ![s] = FALSE]
    /\ UNCHANGED <<registry, lifecycle, mailbox, inbox, ready, handles, pending,
                   frame, deletion, dropped>>

\* The handles are closed and their callbacks run: in service_control_cb, so
\* that uv_run returns, and in service_finish_thread, with the loop itself.
CloseHandles(s) ==
    /\ Step(s, "c_handles", "finish") \/ Step(s, "f_loop", "f_state")
    /\ handles' = [handles EXCEPT ![s] = {}]
    /\ pending' = [pending EXCEPT ![s] = {}]
    /\ ready' = [ready EXCEPT ![s] = {}]
    /\ UNCHANGED <<registry, lifecycle, box, frame, deletion, dropped>>

Exit(s) ==
    /\ Step(s, "f_state", "exited")
    /\ state' = [state EXCEPT ![s] = "stopped"]
    /\ UNCHANGED <<registry, stop_requested, start, joining, thread_joined, box,
                   ready, handles, pending, frame, deletion, dropped>>

-----------------------------------------------------------------------------
(* service_pool_delete, by a host that is alone with the services *)

DeleteBegin(t) ==
    /\ MayCall(t, "delete")
    /\ \A h \in Hosts : pc[h] = "idle"
    /\ deletion' = [phase |-> "stop", id |-> 0, by |-> t]
    /\ UNCHANGED <<registry, lifecycle, box, thread, frame, dropped>>

\* One turn of a loop over the ids below next_id, read afresh each time.
DeleteTurn(t, phase, l) ==
    /\ deletion.by = t
    /\ deletion.phase = phase
    /\ pc[t] = "idle"
    /\ deletion.id < next_id
    /\ Goto(t, l)
    /\ target' = [target EXCEPT ![t] = deletion.id]
    /\ deletion' = [deletion EXCEPT !.id = @ + 1]
    /\ UNCHANGED <<registry, lifecycle, box, thread, message, hold, found, calls,
                   dropped>>

DeleteStop(t) == DeleteTurn(t, "stop", "stop_retire")

DeleteJoin(t) == DeleteTurn(t, "join", "join")

\* Wrong: a loop that ends after one turn.
DeletePhaseOnce(t) ==
    /\ deletion.by = t
    /\ deletion.phase \in {"stop", "join"}
    /\ pc[t] = "idle"
    /\ deletion' = [deletion EXCEPT
                      !.phase = IF @ = "stop" THEN "join" ELSE "freed", !.id = 0]
    /\ UNCHANGED <<registry, lifecycle, box, thread, frame, dropped>>

\* The loop is through: on to the next one, or the pool is freed.
DeletePhase(t) ==
    /\ deletion.by = t
    /\ deletion.phase \in {"stop", "join"}
    /\ pc[t] = "idle"
    /\ deletion.id >= next_id
    /\ deletion' = [deletion EXCEPT
                      !.phase = IF @ = "stop" THEN "join" ELSE "freed", !.id = 0]
    /\ UNCHANGED <<registry, lifecycle, box, thread, frame, dropped>>

-----------------------------------------------------------------------------

\* A call that thread t may start.
Begin(t) ==
    \/ \E n \in Names : New(t, n)
    \/ \E s \in Ids : \/ StartThread(t, s) \/ StartFails(t, s) \/ StartAgain(t, s)
                      \/ Stop(t, s) \/ Join(t, s)
                      \/ \E m \in Ids \cup {NoReply} : Send(t, s, m)
    \/ DeleteBegin(t)

\* The next step of the call thread t is in.
Continue(t) ==
    \/ StartClose(t) \/ StartWait(t) \/ StartError(t) \/ Retire(t)
    \/ StopNew(t) \/ StopActive(t) \/ StopLate(t) \/ StopClose(t) \/ StopControl(t)
    \/ SendPin(t) \/ SendNoPin(t) \/ SendPush(t) \/ SendRefused(t) \/ SendReady(t)
    \/ SendAsync(t) \/ SendAsyncFails(t) \/ SendUnpin(t)
    \/ JoinReturns(t) \/ JoinBegin(t) \/ JoinThread(t) \/ FreeWait(t)
    \/ FreeTake(t) \/ FreeDelete(t) \/ JoinDone(t)
    \/ DeleteStop(t) \/ DeleteJoin(t) \/ DeletePhase(t)

\* The next step of service thread s outside of calls.
Main(s) ==
    \/ InitFails(s) \/ InitLoop(s) \/ (\E h \in {"inbox", "control"} : InitAsync(s, h))
    \/ InitLua(s) \/ ScriptDone(s) \/ StartOk(s) \/ StartCancelled(s) \/ Kick(s)
    \/ OnInbox(s) \/ Recv(s) \/ PopMessage(s) \/ PopNothing(s) \/ Handled(s)
    \/ OnControl(s) \/ Finish(s)
    \/ ShutRetire(s) \/ ShutClose(s) \/ ShutWait(s) \/ Drain(s) \/ Drained(s)
    \/ CloseHandles(s) \/ Exit(s)

\* The only thread that may be left waiting is one that joins a service
\* nobody has stopped.
Quiet ==
    /\ \A t \in Threads :
          \/ pc[t] = "idle"
          \/ pc[t] \in {"join", "join_thread"} /\ ~stop_requested[target[t]]
    /\ \A s \in Ids : \/ main[s] \in {"none", "exited"}
                      \/ main[s] = "poll" /\ pending[s] = {}
                      \/ main[s] \in {"script", "handle"} /\ pc[s] # "idle"
    /\ deletion.phase \notin {"stop", "join"}
    /\ UNCHANGED vars

Next ==
    \/ \E t \in Threads : Begin(t) \/ Continue(t)
    \/ \E s \in Ids : Main(s) \/ LoopReturns(s)
    \/ Quiet

Spec == Init /\ [][Next]_vars

\* Every thread keeps running and handlers return.  Nothing forces a call to
\* be made.
Fairness ==
    /\ \A t \in Threads : WF_vars(Continue(t))
    /\ \A s \in Ids : WF_vars(Main(s))
    \* A callback for a pending handle is not postponed forever by the other.
    /\ \A s \in Ids : SF_vars(OnControl(s)) /\ SF_vars(OnInbox(s))

FairSpec == Spec /\ Fairness

-----------------------------------------------------------------------------
(* Properties *)

Labels == {"idle", "start_wait", "start_retire", "start_close", "start_error",
           "stop_retire", "stop_state", "stop_close", "stop_control",
           "send_pin", "send_push", "send_ready", "send_async", "send_unpin",
           "send_fail", "join", "join_thread", "free_retire", "free_wait",
           "free_take", "free_delete", "join_done"}

MainLabels == {"none", "init", "init_inbox", "init_control", "init_lua",
               "script", "give_up", "decide", "kick", "poll", "recv", "pop", "handle",
               "c_retire", "c_close", "c_wait", "c_drain", "c_handles", "finish",
               "f_retire", "f_close", "f_wait", "f_drain", "f_loop", "f_state",
               "exited"}

\* Every variable has its type; in particular the number of pins never drops
\* below zero and no id beyond the table is given out.
TypeOK ==
    /\ next_id \in 0 .. MaxServices
    /\ name \in [Ids -> Names]
    /\ routable \in [Ids -> BOOLEAN]
    /\ send_pins \in [Ids -> Nat]
    /\ state \in [Ids -> DOMAIN Order]
    /\ stop_requested \in [Ids -> BOOLEAN]
    /\ start \in [Ids -> {"pending", "ok", "failed"}]
    /\ joining \in [Ids -> BOOLEAN]
    /\ thread_joined \in [Ids -> BOOLEAN]
    /\ ready \in [Ids -> SUBSET {"inbox", "control"}]
    /\ mailbox \in [Ids -> {"open", "closed", "freed"}]
    /\ inbox \in [Ids -> Seq(Ids \cup {NoReply})]
    /\ scheduled \in [Ids -> BOOLEAN]
    /\ main \in [Ids -> MainLabels]
    /\ handles \in [Ids -> SUBSET {"inbox", "control"}]
    /\ pending \in [Ids -> SUBSET {"inbox", "control"}]
    /\ pc \in [Threads -> Labels]
    /\ target \in [Threads -> Ids]
    /\ message \in [Threads -> Ids \cup {NoReply}]
    /\ hold \in [Threads -> SUBSET {"inbox", "control"}]
    /\ found \in [Threads -> DOMAIN Order]
    /\ calls \in [Threads -> Nat]
    /\ deletion \in [phase : {"no", "stop", "join", "freed", "failed"},
                     id : 0 .. MaxServices, by : Hosts \cup {NoReply}]
    /\ dropped \in [Ids -> Nat]

\* Where a sender is between service_pool_pin and service_unpin.
Pinned == {"send_push", "send_ready", "send_async", "send_unpin", "send_fail"}

\* A sender that is past its pin works on a mailbox that exists and signals a
\* handle that is open, although it takes no lock that stop, the exit of the
\* service thread or the joining thread's service_free would respect: the pins
\* alone hold them back.
SendIsSafe ==
    \A t \in Threads :
        /\ pc[t] \in Pinned => mailbox[target[t]] # "freed"
        /\ pc[t] = "send_async" => "inbox" \in handles[target[t]]

\* What t has read under state_lock is still good when it uses it, unlocked.
PointersGood(t) ==
    /\ pc[t] \in {"stop_close", "start_close"} => mailbox[target[t]] # "freed"
    /\ pc[t] = "stop_control" => "control" \in handles[target[t]]

\* A stop that found the service running uses its pointers while they are
\* good, although it has unlocked: the thread cannot leave its loop before the
\* control handle is signalled.  (Only if Lua code does not call uv.stop.)
StopOfRunningIsSafe ==
    \A t \in Threads :
        pc[t] \in {"stop_close", "stop_control"} /\ found[t] = "running"
            => PointersGood(t)

\* A stop may come from any thread and in any state, and then closes the
\* mailbox ("No thread may enter the mailbox after mailbox_delete begins",
\* mailbox.h) and signals the control handle.
StopIsSafe ==
    \A t \in Threads : PointersGood(t)

\* Two services that can be looked up never share a name, whatever threads
\* create, stop and join services.
UniqueNames ==
    \A r, s \in Ids :
        (r # s /\ routable[r] /\ routable[s] /\ name[r] = name[s])
            => name[r] = NoName

\* A service is joined and its mailbox deleted by one thread; others that join
\* it wait, and return only when it is freed.
FreedOnce ==
    \A s \in Ids :
        LET joiners == {t \in Threads : target[t] = s /\ pc[t] \in
              {"join_thread", "free_retire", "free_wait", "free_take",
               "free_delete", "join_done"}} IN
        /\ Cardinality(joiners) = IF joining[s] THEN 1 ELSE 0
        /\ (thread_joined[s] /\ ~joining[s]) => mailbox[s] = "freed"

\* A service that had a thread leaves no request behind: all were handled or
\* drained with a reply before the thread ended, in spite of senders that
\* were on their way when it was stopped.
NoneDropped ==
    \A s \in Ids : HasThread(s) =>
        /\ dropped[s] = 0
        /\ main[s] \in {"f_loop", "f_state", "exited"} => inbox[s] = <<>>

\* Comment on service_drain_mailbox: "Requests that were never handled get an
\* ERROR without payload [...] so their callers do not hang."
EveryRequestAnswered == \A s \in Ids : dropped[s] = 0

\* service_pool_delete frees the pool when no service thread is alive, no
\* thread is inside a call, and every mailbox is gone.
FreedPoolIsUnused ==
    deletion.phase = "freed" =>
        /\ \A s \in 0 .. next_id - 1 : /\ mailbox[s] = "freed"
                                       /\ main[s] \in {"none", "exited"}
        /\ \A t \in Threads : pc[t] = "idle"

\* A service with a thread that is stopped comes to its end: the request is
\* not lost whether it arrives before, during or after the start-up.
StopCompletes ==
    \A s \in Ids :
        (HasThread(s) /\ stop_requested[s]) ~> main[s] = "exited"

\* service_start does not hang: the starting thread reports success or failure
\* also when the service is stopped while it starts.
StartReturns ==
    \A t \in Threads : pc[t] = "start_wait" ~> pc[t] # "start_wait"

\* service_pool_delete returns: it stops and joins all services.
DeletionCompletes ==
    deletion.phase = "stop" ~> deletion.phase = "freed"

=============================================================================
