-------------------------------- MODULE Rpc --------------------------------
(***************************************************************************)
(* Calls between services (lua/service.lua): sessions, coroutines,         *)
(* requests, responses, and what becomes of them when services stop.       *)
(*                                                                         *)
(* A service runs one coroutine at a time, running_thread.  It handles the *)
(* next message when no coroutine runs.  A coroutine is named by the       *)
(* request it handles, so its entries in session_coroutine_address and     *)
(* session_coroutine_response are fields of that request: answering[s] is  *)
(* the set of coroutines of s that have them.                              *)
(*                                                                         *)
(* Mailboxes are the queues of module Mailbox, and a service stops in the  *)
(* steps of module ServicePool: it refuses messages, leaves RUNNING,       *)
(* drains its mailbox, tells Lua, and is gone.  Lua code may also end the  *)
(* event loop by itself, with uv.stop.                                     *)
(***************************************************************************)
EXTENDS Naturals, Sequences, FiniteSets

CONSTANTS
    Services,
    Host,           \* the sender of messages that come from no service
    None,           \* nil
    MaxSession,     \* UINT32_MAX of service.lua
    MaxRequests,    \* bound: how many requests are sent in all
    MaxFaults       \* bound: how many answers are lost for want of memory, and
                    \* loops ended by uv.stop, in all

ASSUME RpcAssumption ==
    /\ Host \notin Services
    /\ None \notin Nat
    /\ MaxSession \in Nat \ {0}
    /\ MaxRequests \in Nat
    /\ MaxFaults \in Nat

Requests == 1 .. MaxRequests
Sessions == 1 .. MaxSession

VARIABLES
    phase,          \* "none" (not created), "starting", "running",
                    \* "stopping", "draining", "notifying" or "gone"
    accepts,        \* the service is routable and its mailbox open
    inbox,
    next_session_id,
    suspended,      \* session_coroutine_suspend_lookup
    answering,
    running_thread,
    asleep,         \* coroutines suspended in sleep
    unnotified,     \* coroutines reply_pending has not come to yet
    returned,       \* the event loop has ended because of uv.stop
    \* history
    sent,           \* the requests sent so far, in order
    awaits,         \* the request a suspended coroutine waits for
    answers,        \* replies accepted for a request
    lost            \* requests whose reply was refused for want of memory

tables == <<next_session_id, suspended, awaits>>
coroutines == <<answering, running_thread, asleep>>
ending == <<unnotified, returned>>
replies == <<answers, lost>>
vars == <<phase, accepts, inbox, tables, coroutines, ending, sent, replies>>

Init ==
    /\ phase = [s \in Services |-> "none"]
    /\ accepts = [s \in Services |-> FALSE]
    /\ inbox = [s \in Services |-> <<>>]
    /\ next_session_id = [s \in Services |-> 1]
    /\ suspended = [s \in Services |-> [k \in Sessions |-> None]]
    /\ answering = [s \in Services |-> {}]
    /\ running_thread = [s \in Services |-> None]
    /\ asleep = [s \in Services |-> {}]
    /\ unnotified = [s \in Services |-> {}]
    /\ returned = [s \in Services |-> FALSE]
    /\ sent = <<>>
    /\ awaits = [r \in Requests |-> None]
    /\ answers = [r \in Requests |-> 0]
    /\ lost = {}

-----------------------------------------------------------------------------
(* Messages *)

Request(r, from, session) ==
    [type |-> "request", id |-> r, from |-> from, session |-> session]

\* A RESPONSE, or an ERROR with or without payload, to request r: either resumes
\* the caller.
Answer(r) ==
    [type |-> "answer", id |-> r, from |-> sent[r].to, session |-> sent[r].session]

Faults == Cardinality(lost) + Cardinality({s \in Services : returned[s]})

WantsAnswer(r) == sent[r].session > 0

\* _send_message of a new request; the id is next in line.
Post(from, to, session) ==
    /\ sent' = Append(sent, [from |-> from, to |-> to, session |-> session])
    /\ inbox' = [inbox EXCEPT ![to] =
                    Append(@, Request(Len(sent) + 1, from, session))]

\* boxes with the answer to r appended where the caller of r reads.  A caller
\* that does not accept messages any more loses it, and any caller does when its
\* mailbox cannot grow (MAILBOX_FULL); nobody looks at the result of the send.
SendAnswer(boxes, r) ==
    LET c == sent[r].from IN
    \/ /\ WantsAnswer(r) /\ accepts[c]
       /\ inbox' = [boxes EXCEPT ![c] = Append(@, Answer(r))]
       /\ answers' = [answers EXCEPT ![r] = @ + 1]
       /\ UNCHANGED lost
    \/ /\ WantsAnswer(r) /\ accepts[c] /\ Faults < MaxFaults
       /\ inbox' = boxes
       /\ lost' = lost \cup {r}
       /\ UNCHANGED answers
    \/ /\ ~(WantsAnswer(r) /\ accepts[c])
       /\ inbox' = boxes
       /\ UNCHANGED replies

-----------------------------------------------------------------------------
(* allocate_session *)

\* The session n places after next_session_id, wrapping around.
NthSession(s, n) ==
    LET k == next_session_id[s] + n IN
    IF k > MaxSession THEN k - MaxSession ELSE k

\* Wrong forms, here and below, show that the properties can fail.  This one
\* takes the next session without looking.
SkipsNone(s) == {0}

\* How many sessions are skipped because a coroutine waits under them.
Skips(s) ==
    {n \in 0 .. MaxSession - 1 :
        /\ suspended[s][NthSession(s, n)] = None
        /\ \A i \in 0 .. n - 1 : suspended[s][NthSession(s, i)] # None}

-----------------------------------------------------------------------------
(* Messages from outside, and the dispatcher (_on_msg) *)

\* A request nobody waits for, from a host or with service.send.
Inject(s) ==
    /\ Len(sent) < MaxRequests
    /\ accepts[s]
    /\ Post(Host, s, 0)
    /\ UNCHANGED <<phase, accepts, tables, coroutines, ending, replies>>

\* service_new: the service can be sent to at once.
Create(s) ==
    /\ phase[s] = "none"
    /\ phase' = [phase EXCEPT ![s] = "starting"]
    /\ accepts' = [accepts EXCEPT ![s] = TRUE]
    /\ UNCHANGED <<inbox, tables, coroutines, ending, sent, replies>>

Start(s) ==
    /\ phase[s] = "starting"
    /\ accepts[s]
    /\ phase' = [phase EXCEPT ![s] = "running"]
    /\ UNCHANGED <<accepts, inbox, tables, coroutines, ending, sent, replies>>

\* The dispatcher takes the next message when no coroutine runs.
Receive(s, type) ==
    /\ phase[s] = "running"
    /\ running_thread[s] = None
    /\ inbox[s] # <<>>
    /\ Head(inbox[s]).type = type
    /\ inbox' = [inbox EXCEPT ![s] = Tail(@)]

\* A request gets a coroutine of its own.
HandleRequest(s) ==
    LET r == Head(inbox[s]).id IN
    /\ Receive(s, "request")
    /\ running_thread' = [running_thread EXCEPT ![s] = r]
    /\ answering' = [answering EXCEPT ![s] = @ \cup {r}]
    /\ UNCHANGED <<phase, accepts, tables, asleep, ending, sent, replies>>

\* An answer resumes the coroutine that waits under its session, if any.
HandleAnswer(s) ==
    LET k == Head(inbox[s]).session
        co == suspended[s][k] IN
    /\ Receive(s, "answer")
    /\ running_thread' = [running_thread EXCEPT ![s] = co]
    /\ suspended' = [suspended EXCEPT ![s][k] = None]
    /\ awaits' = IF co = None THEN awaits ELSE [awaits EXCEPT ![co] = None]
    /\ UNCHANGED <<phase, accepts, next_session_id, answering, asleep, ending,
                   sent, replies>>

-----------------------------------------------------------------------------
(* The running coroutine *)

\* Wrong: the entries of the coroutine stay.
FinishKeepsEntries(s) ==
    LET co == running_thread[s] IN
    /\ co # None
    /\ SendAnswer(inbox, co)
    /\ running_thread' = [running_thread EXCEPT ![s] = None]
    /\ UNCHANGED <<phase, accepts, tables, answering, asleep, ending, sent>>

\* The handler returns (send_response) or raises (send_error_response): the
\* caller gets its answer and the entries of the coroutine are cleared.
Finish(s) ==
    LET co == running_thread[s] IN
    /\ co # None
    /\ SendAnswer(inbox, co)
    /\ answering' = [answering EXCEPT ![s] = @ \ {co}]
    /\ running_thread' = [running_thread EXCEPT ![s] = None]
    /\ UNCHANGED <<phase, accepts, tables, asleep, ending, sent>>

\* service.call: a session, the request, and the coroutine is suspended.
CallAccepted(s, to) ==
    LET co == running_thread[s] IN
    /\ co # None
    /\ Len(sent) < MaxRequests
    /\ accepts[to]
    /\ \E n \in Skips(s) :
          /\ next_session_id' = [next_session_id EXCEPT ![s] = NthSession(s, n + 1)]
          /\ Post(s, to, NthSession(s, n))
          /\ suspended' = [suspended EXCEPT ![s][NthSession(s, n)] = co]
          /\ awaits' = [awaits EXCEPT ![co] = Len(sent) + 1]
    /\ running_thread' = [running_thread EXCEPT ![s] = None]
    /\ UNCHANGED <<phase, accepts, answering, asleep, ending, replies>>

\* Wrong: next_session_id does not wrap.
CallRefusedNoWrap(s) ==
    /\ running_thread[s] # None
    /\ \E n \in Skips(s) :
          next_session_id' = [next_session_id EXCEPT ![s] = NthSession(s, n) + 1]
    /\ UNCHANGED <<phase, accepts, inbox, suspended, coroutines, ending, sent,
                   awaits, replies>>

\* The send fails, because the receiver is gone or going or its mailbox cannot
\* grow: the call returns nil at once and its session is forgotten.
CallRefused(s) ==
    /\ running_thread[s] # None
    /\ \E n \in Skips(s) :
          next_session_id' = [next_session_id EXCEPT ![s] = NthSession(s, n + 1)]
    /\ UNCHANGED <<phase, accepts, inbox, suspended, coroutines, ending, sent,
                   awaits, replies>>

\* service.sleep, and the timer that ends it.
Sleep(s) ==
    /\ running_thread[s] # None
    /\ asleep' = [asleep EXCEPT ![s] = @ \cup {running_thread[s]}]
    /\ running_thread' = [running_thread EXCEPT ![s] = None]
    /\ UNCHANGED <<phase, accepts, inbox, tables, answering, ending, sent,
                   replies>>

\* When uv.stop has ended the loop, the uv_run of service_finish_thread fires the
\* timers that are due once more, after reply_pending.
WakeUp(s) ==
    /\ \/ phase[s] \in {"running", "stopping"} /\ ~returned[s]
       \/ phase[s] = "notifying" /\ returned[s] /\ unnotified[s] = {}
    /\ running_thread[s] = None
    /\ \E co \in asleep[s] :
          /\ asleep' = [asleep EXCEPT ![s] = @ \ {co}]
          /\ running_thread' = [running_thread EXCEPT ![s] = co]
    /\ UNCHANGED <<phase, accepts, inbox, tables, answering, ending, sent,
                   replies>>

-----------------------------------------------------------------------------
(* Stopping *)

\* service_stop or a failed start, from anywhere: first nothing is accepted
\* any more, then the service is no longer RUNNING.
StopAccepting(s) ==
    /\ accepts[s]
    /\ accepts' = [accepts EXCEPT ![s] = FALSE]
    /\ UNCHANGED <<phase, inbox, tables, coroutines, ending, sent, replies>>

StopRunning(s) ==
    /\ ~accepts[s]
    /\ phase[s] \in {"starting", "running"}
    /\ phase' = [phase EXCEPT ![s] = "stopping"]
    /\ UNCHANGED <<accepts, inbox, tables, coroutines, ending, sent, replies>>

\* Lua code has called uv.stop: the uv_run of service_thread_main returns, and
\* service_finish_thread goes on to close the mailbox.
LoopReturns(s) ==
    /\ phase[s] \in {"running", "stopping"}
    /\ running_thread[s] = None
    /\ ~returned[s] /\ Faults < MaxFaults
    /\ phase' = [phase EXCEPT ![s] = "stopping"]
    /\ returned' = [returned EXCEPT ![s] = TRUE]
    /\ UNCHANGED <<accepts, inbox, tables, coroutines, unnotified, sent, replies>>

\* Wrong: requests are disposed of without an answer.
DrainSilently(s) ==
    /\ phase[s] \in {"stopping", "draining"}
    /\ ~accepts[s]
    /\ running_thread[s] = None
    /\ inbox[s] # <<>>
    /\ inbox' = [inbox EXCEPT ![s] = Tail(@)]
    /\ phase' = [phase EXCEPT ![s] = "draining"]
    /\ UNCHANGED <<accepts, tables, coroutines, ending, sent, replies>>

\* service_drain_mailbox answers requests that were not handled; the event loop
\* runs no timer now.
Drain(s) ==
    LET m == Head(inbox[s])
        rest == [inbox EXCEPT ![s] = Tail(@)] IN
    /\ phase[s] \in {"stopping", "draining"}
    /\ ~accepts[s]
    /\ running_thread[s] = None
    /\ inbox[s] # <<>>
    /\ IF m.type = "request" THEN SendAnswer(rest, m.id)
                             ELSE inbox' = rest /\ UNCHANGED replies
    /\ phase' = [phase EXCEPT ![s] = "draining"]
    /\ UNCHANGED <<accepts, tables, coroutines, ending, sent>>

\* The dispatcher is called with "stop" once the mailbox is empty ...
NotifyStop(s) ==
    /\ phase[s] \in {"stopping", "draining"}
    /\ ~accepts[s]
    /\ running_thread[s] = None
    /\ inbox[s] = <<>>
    /\ phase' = [phase EXCEPT ![s] = "notifying"]
    /\ unnotified' = [unnotified EXCEPT ![s] = answering[s]]
    /\ UNCHANGED <<accepts, inbox, tables, coroutines, returned, sent, replies>>

\* ... and reply_pending answers what suspended coroutines have not.
ReplyPending(s) ==
    /\ \E co \in unnotified[s] :
          /\ SendAnswer(inbox, co)
          /\ unnotified' = [unnotified EXCEPT ![s] = @ \ {co}]
    /\ UNCHANGED <<phase, accepts, tables, coroutines, returned, sent>>

\* lua_close: the coroutines are gone with the VM.
Exit(s) ==
    /\ phase[s] = "notifying"
    /\ unnotified[s] = {}
    /\ running_thread[s] = None
    /\ phase' = [phase EXCEPT ![s] = "gone"]
    /\ suspended' = [suspended EXCEPT ![s] = [k \in Sessions |-> None]]
    /\ answering' = [answering EXCEPT ![s] = {}]
    /\ asleep' = [asleep EXCEPT ![s] = {}]
    /\ UNCHANGED <<accepts, inbox, next_session_id, running_thread, ending,
                   sent, awaits, replies>>

-----------------------------------------------------------------------------

\* Steps of a service thread that are sure to come: messages are dispatched,
\* timers fire, a stop is carried through.
Proceed(s) ==
    \/ HandleRequest(s) \/ HandleAnswer(s) \/ WakeUp(s)
    \/ returned[s] /\ StopAccepting(s)
    \/ StopRunning(s) \/ Drain(s) \/ NotifyStop(s) \/ ReplyPending(s) \/ Exit(s)

\* Coroutine co waits for an answer that was lost, or for that of a coroutine
\* which does.
InVain[co \in Requests] ==
    LET r == awaits[co] IN
    r # None /\ (r \in lost \/ (phase[sent[r].to] = "running" /\ InVain[r]))

\* A running service has nothing to do, and no coroutine of it waits in hope.
Idle(s) ==
    /\ phase[s] = "running"
    /\ inbox[s] = <<>>
    /\ asleep[s] = {}
    /\ running_thread[s] = None
    /\ \A k \in Sessions : suspended[s][k] # None => InVain[suspended[s][k]]

\* Nothing is left to do, and no coroutine is left waiting for an answer unless
\* the answer was lost.
AtRest == \A s \in Services : phase[s] \in {"none", "gone"} \/ Idle(s)

Next ==
    \/ \E s \in Services :
          \/ Create(s) \/ Inject(s) \/ Start(s) \/ StopAccepting(s)
          \/ LoopReturns(s) \/ Proceed(s) \/ Finish(s) \/ Sleep(s)
          \/ CallRefused(s)
          \/ \E to \in Services : CallAccepted(s, to)
    \/ AtRest /\ UNCHANGED vars

Spec == Init /\ [][Next]_vars

-----------------------------------------------------------------------------
(* Properties *)

Messages ==
    [type : {"request", "answer"}, id : Requests,
     from : Services \cup {Host}, session : 0 .. MaxSession]

\* Every variable has its type; next_session_id wraps to 1, not to 0.
TypeOK ==
    /\ phase \in [Services ->
                    {"none", "starting", "running", "stopping", "draining",
                     "notifying", "gone"}]
    /\ accepts \in [Services -> BOOLEAN]
    /\ inbox \in [Services -> Seq(Messages)]
    /\ next_session_id \in [Services -> Sessions]
    /\ suspended \in [Services -> [Sessions -> Requests \cup {None}]]
    /\ answering \in [Services -> SUBSET Requests]
    /\ running_thread \in [Services -> Requests \cup {None}]
    /\ asleep \in [Services -> SUBSET Requests]
    /\ unnotified \in [Services -> SUBSET Requests]
    /\ returned \in [Services -> BOOLEAN]
    /\ sent \in Seq([from : Services \cup {Host}, to : Services,
                     session : 0 .. MaxSession])
    /\ Len(sent) <= MaxRequests
    /\ awaits \in [Requests -> Requests \cup {None}]
    /\ answers \in [Requests -> Nat]
    /\ lost \subseteq Requests

InInbox(s, m) == \E i \in 1 .. Len(inbox[s]) : inbox[s][i] = m

\* An answer finds the coroutine that asked: it waits under the session of the
\* answer in the mailbox, for that very answer, although session numbers are used
\* again after they wrap and a call whose send failed leaves its number unused.
\* The exception: once the loop of some service has ended by uv.stop, a second
\* answer may come when the first has been taken, and find another coroutine.
AnswersMatch ==
    (\A s \in Services : ~returned[s]) =>
        \A s \in Services : \A i \in 1 .. Len(inbox[s]) :
            LET m  == inbox[s][i]
                co == suspended[s][m.session] IN
            m.type # "request" => co # None /\ awaits[co] = m.id

\* A request is answered at most once: by its handler, by the drain or by
\* reply_pending, whenever its service is stopped.  The exception is a service
\* whose loop has ended by uv.stop: there a timer may resume a handler after
\* reply_pending has answered for it.
AnsweredOnce ==
    \A r \in 1 .. Len(sent) : answers[r] <= 1 \/ returned[sent[r].to]

\* The answer to the call under session k of s: its request is queued, or a
\* coroutine is going to answer it, or the answer is on its way.
IsOwed(s, k) ==
    LET r  == awaits[suspended[s][k]]
        to == sent[r].to IN
    \/ InInbox(to, Request(r, s, k)) /\ phase[to] # "gone"
    \/ r \in answering[to] /\ phase[to] \in {"running", "stopping", "draining"}
    \/ r \in unnotified[to]
    \/ InInbox(s, Answer(r))

\* A caller that waits is owed an answer, as long as it accepts messages, unless
\* memory for the answer was lacking when it was sent.
CallsOwed ==
    \A s \in Services : \A k \in Sessions :
        suspended[s][k] # None /\ accepts[s] =>
            IsOwed(s, k) \/ awaits[suspended[s][k]] \in lost

\* Every call returns, or its caller comes to its end: stopping services answer
\* all they have accepted.  The exception is a call whose answer was refused for
\* want of memory: its caller, and who waits for that caller, wait until they are
\* stopped.
CallsReturn ==
    \A s \in Services : \A k \in Sessions :
        suspended[s][k] # None ~>
            (suspended[s][k] # None => InVain[suspended[s][k]])

=============================================================================
